-------------------------- MODULE MCHandlerRegistry --------------------------
(***************************************************************************)
(* HandlerRegistry with one handler over two connections and with two      *)
(* handlers over one, in one run.                                          *)
(***************************************************************************)
EXTENDS HandlerRegistry, TLC

CONSTANTS h1, h2, c1, c2

MCHandlerIds == {h1, h2}
MCConns == {c1, c2}
MCAdmins == {h1}

(* Where the daemon starts: h2 was used up, or c2 is over. *)
MCInit ==
    /\ up = TRUE /\ failed = FALSE
    /\ handlers = {} /\ rows = {} /\ counter = 0
    /\ connection = [h \in HandlerIds |-> NoConn]
    /\ sinceSeen = [h \in HandlerIds |-> 0]
    /\ sinceRegistered = [h \in HandlerIds |-> 0]
    /\ \/ issued = {h2} /\ phase = [c \in Conns |-> "new"]
       \/ issued = {} /\ phase = (c1 :> "new" @@ c2 :> "closed")
    /\ alive = [c \in Conns |-> FALSE]
    /\ connHandler = [c \in Conns |-> NoHandler]
    /\ slot = [c \in Conns |-> NoRequest]
    /\ notices = {} /\ todo = {}
    /\ proc = [p \in Procs |-> Idle]
    /\ acked = {} /\ gone = [p \in Procs |-> {}]

(* Connections are alike, so c1 is opened first; nobody asks for an id     *)
(* that was used up before.                                                *)
ToAccept == IF phase[c1] = "new" THEN {c1} ELSE Conns
Named == handlers \cup rows \cup acked \cup gone["consumer"] \cup gone["reaper"]
ToSend == {r \in Requests : r.type \in {"reconnect", "admin_unregister"} =>
                               r.id = h1 \/ r.id \in Named}

MCNext ==
    \/ \E c \in ToAccept : Accept(c)
    \/ \E c \in Conns, r \in ToSend : Send(c, r)
    \/ \E c \in Conns : Drain(c) \/ WriterFails(c) \/ Close(c) \/ AbortTasks(c)
    \/ ConsumerStep
    \/ ReaperStep
    \/ Crash
    \/ Restart
    \/ Tick

MCFairSpec ==
    /\ MCInit /\ [][MCNext]_vars
    /\ WF_vars(ConsumerStep)
    /\ WF_vars(ReaperStep)
    /\ WF_vars(Tick)
    /\ WF_vars(Restart)
=============================================================================
