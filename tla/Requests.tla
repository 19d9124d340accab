------------------------------ MODULE Requests ------------------------------
(***************************************************************************)
(* The path of a request through the daemon: a client's frames, the        *)
(* connection's drainer (transport/unix.rs), the one dispatch_consumer     *)
(* (transport/mod.rs) and the handler of the method (dispatch.rs), back to *)
(* the client.                                                             *)
(*                                                                         *)
(* Every handler is a program: a sequence of steps, each an action below.  *)
(* A handler runs in the consumer while the handler reaper and other tasks *)
(* (a reply to an event, the main loop's periodic tick) run beside it; all *)
(* of them share client_manager, a tokio RwLock that serves its waiters in *)
(* order.  Some handlers drop their read guard before they use the         *)
(* network, some keep it: "read" and "drop" are steps of their own.        *)
(***************************************************************************)
EXTENDS Naturals, Sequences, FiniteSets, SequencesExt

CONSTANTS
    Conns,      \* connections; a connection's handler id is named after it
    Caps,       \* Caps[c]: what the handler of c may do, of "agent", "admin"
    Uses,       \* Uses[c]: methods the client of c calls besides register
    Tasks,      \* tasks beside the consumer and the reaper
    None,
    MaxCalls,   \* MaxCalls[c], a bound: requests of c besides register, unregister
    MaxReplies  \* bound: events a handler answers with a reply

VARIABLES
    open,      \* connections that are open
    phase,     \* where each client is: new, in (register sent), left
    sent,      \* requests each client has sent besides register, unregister
    pend,      \* frames of each connection its drainer has not taken
    reply,     \* the drainer: idle, waiting, or the answer it was given
    hid,       \* the handler id the drainer noted, or None
    inbox,     \* the consumer's queue: requests and disconnects
    registry,  \* handlers in the registry
    welcomed,  \* connections whose register was answered with a handler id
    job,       \* what each actor is doing
    holding,   \* the guard of client_manager each actor holds
    queue,     \* actors waiting for client_manager
    replies    \* replies to events begun

clientVars == <<open, phase, sent>>
drainVars == <<pend, reply, hid>>
lockVars == <<holding, queue>>
vars == <<clientVars, drainVars, inbox, registry, welcomed, job, lockVars, replies>>

Actors == Tasks \cup {"rpc", "reaper"}

\* conn: whose request; as: the handler id it carries; of: the handler to be
\* unregistered; todo: handlers the reaper has still to remove; known: as was
\* registered when the actor took the job; onerr: where an error leads.
IdleJob == [steps |-> <<>>, conn |-> None, as |-> None, of |-> None,
            todo |-> {}, known |-> FALSE, onerr |-> <<>>]

-----------------------------------------------------------------------------
\* The programs of the handlers.

\* A guard that is dropped before the next await goes with the step under it;
\* "drop" ends one that was kept.
Authorize == <<"caller", "read", "agent">>
RequireAdmin == <<"caller", "read", "admin">>
\* The clones a handler takes out of the client manager.
Handles == <<"read", "clone">>
UnregisterHandler == <<"write", "remove", "store">>

\* Commands to the engine's worker: one message and the wait for its answer.
CreateKeyPackage == <<"engine">>
EngineCreateGroup == <<"engine">>
EngineAddMember == <<"engine">>
EngineDeleteGroup == <<"engine">>
RepairGroupAdmins == <<"engine">>
LeaveGroup == <<"engine">>
CreateGroupMessage == <<"engine">>
ResolveWireId == <<"engine">>
IsGroupMember == <<"engine">>

\* What NostrClient makes of them: every event is signed, then published.
SignEvent == <<"sign">>
PublishProfile == SignEvent \o <<"publish">>
SendWelcome == SignEvent \o <<"publish">>
PostToGroup == CreateGroupMessage \o SignEvent \o <<"publish">>

Register == <<"read", "drop", "write", "insert", "store">>
\* notify_bot_unavailable_on_registration
NotifyUnavailable == <<"read", "drop", "store">>
SendDm == Authorize \o <<"charge">> \o Handles \o <<"sign", "publish">>
SendReaction == Authorize \o <<"charge">> \o Handles \o <<"sign", "publish">>
SendAttachment == Authorize \o <<"charge">> \o Handles \o <<"upload", "sign", "publish">>
SetProfile == Authorize \o <<"charge", "read", "bot">> \o PublishProfile \o <<"drop">>
AgentError == Authorize \o <<"charge">>
HandlerResponse == <<>>
Metrics == <<>>
ListHandlers == RequireAdmin \o <<"read", "drop">>
AdminUnregister(as, of) == (IF as = of THEN <<>> ELSE RequireAdmin) \o UnregisterHandler
SendTestDm == RequireAdmin \o <<"read", "bot", "sign", "publish", "drop">>

\* require_mls_agent_capability asks nothing of a caller without a handler id.
RequireMlsAgent(as) == IF as = None THEN <<>> ELSE Authorize \o <<"charge">>
RequireMlsAdmin == RequireAdmin \o <<"charge">>
CreateMlsGroup ==
    Handles \o <<"store", "fetch">> \o EngineCreateGroup \o SendWelcome \o <<"store">>
InviteToMlsGroup ==
    Handles \o <<"store", "fetch">> \o EngineAddMember \o SendWelcome \o <<"publish">>
RepairAdmins ==
    RequireMlsAdmin \o Handles \o <<"store">> \o RepairGroupAdmins \o <<"publish">>

Health == <<"read", "drop">>
\* A mutant: the engine's caller asks for the client manager again.
SendGroupMessageNested ==
    Authorize \o <<"charge", "store", "read", "bot", "engine", "read", "bot", "publish", "drop">>
SendGroupMessage ==
    Authorize \o <<"charge", "store", "read", "bot">> \o ResolveWireId \o PostToGroup
              \o <<"drop">>
SendGroupReaction ==
    Authorize \o <<"charge", "store">> \o Handles \o ResolveWireId \o PostToGroup
SendGroupAttachment ==
    Authorize \o <<"charge", "store">> \o Handles \o ResolveWireId \o <<"upload">>
              \o PostToGroup
PublishKeyPackage ==
    Authorize \o <<"charge", "read", "bot">> \o CreateKeyPackage \o SignEvent
              \o <<"publish", "drop">>
IsSquadMember == Authorize \o <<"read", "bot">> \o IsGroupMember \o <<"drop">>
ExitGroup == Authorize \o <<"read", "bot">> \o LeaveGroup \o <<"publish", "publish", "drop">>
DeleteGroup == Authorize \o Handles \o EngineDeleteGroup \o <<"store">>

\* Who calls what: a bot's handler, and the commands of pacto-bot-admin that ask
\* the daemon.
AgentMethods == {"send_dm", "send_reaction", "send_attachment", "set_profile", "error", "response",
                 "agent_create", "agent_invite", "group_message", "group_reaction",
                 "group_attachment", "key_package", "is_member", "exit", "delete"}
AdminGroupCommands == {"admin_create", "admin_invite", "repair"}
AgentGroupCommands == {"group_message", "key_package", "delete"}
HandlersCommands == {"list_handlers", "unregister_handler"}
ProbeCommands == {"metrics", "health"}
TestCommands == {"send_test_dm"}

Methods == AgentMethods \cup AdminGroupCommands \cup AgentGroupCommands
           \cup HandlersCommands \cup ProbeCommands \cup TestCommands

ASSUME RequestsAssumption ==
    /\ None \notin Conns
    /\ Caps \in [Conns -> SUBSET {"agent", "admin"}]
    /\ Uses \in [Conns -> SUBSET Methods]
    /\ {"rpc", "reaper"} \cap Tasks = {}
    /\ MaxCalls \in [Conns -> Nat] /\ MaxReplies \in Nat

\* handle_message: the handler of a method, for the caller and the handler it names,
\* and what the consumer does with a disconnect.
Program(m, as, of) ==
    CASE m = "register" -> Register \o NotifyUnavailable \o <<"welcome">>
      [] m = "unregister" -> <<"caller">> \o UnregisterHandler \o <<"answer">>
      [] m = "send_dm" -> SendDm \o <<"answer">>
      [] m = "send_reaction" -> SendReaction \o <<"answer">>
      [] m = "send_attachment" -> SendAttachment \o <<"answer">>
      [] m = "set_profile" -> SetProfile \o <<"answer">>
      [] m = "error" -> AgentError \o <<"answer">>
      [] m = "response" -> HandlerResponse \o <<"answer">>
      [] m = "metrics" -> Metrics \o <<"answer">>
      [] m = "list_handlers" -> ListHandlers \o <<"answer">>
      [] m = "unregister_handler" -> AdminUnregister(as, of) \o <<"answer">>
      [] m = "send_test_dm" -> SendTestDm \o <<"answer">>
      [] m = "admin_create" -> RequireMlsAdmin \o CreateMlsGroup \o <<"answer">>
      [] m = "admin_invite" -> RequireMlsAdmin \o InviteToMlsGroup \o <<"answer">>
      [] m = "agent_create" -> RequireMlsAgent(as) \o CreateMlsGroup \o <<"answer">>
      [] m = "agent_invite" -> RequireMlsAgent(as) \o InviteToMlsGroup \o <<"answer">>
      [] m = "repair" -> RepairAdmins \o <<"answer">>
      [] m = "health" -> Health \o <<"answer">>
      [] m = "group_message" -> SendGroupMessage \o <<"answer">>
      [] m = "group_reaction" -> SendGroupReaction \o <<"answer">>
      [] m = "group_attachment" -> SendGroupAttachment \o <<"answer">>
      [] m = "key_package" -> PublishKeyPackage \o <<"answer">>
      [] m = "is_member" -> IsSquadMember \o <<"answer">>
      [] m = "exit" -> ExitGroup \o <<"answer">>
      [] m = "delete" -> DeleteGroup \o <<"answer">>
      [] m = "disconnect" -> UnregisterHandler

-----------------------------------------------------------------------------
Init ==
    /\ open = Conns
    /\ phase = [c \in Conns |-> "new"]
    /\ sent = [c \in Conns |-> 0]
    /\ welcomed = {} /\ registry = {}
    /\ pend = [c \in Conns |-> <<>>]
    /\ reply = [c \in Conns |-> "idle"]
    /\ hid = [c \in Conns |-> None]
    /\ inbox = <<>> /\ queue = <<>>
    /\ job = [a \in Actors |-> IdleJob]
    /\ holding = [a \in Actors |-> "none"]
    /\ replies = 0

-----------------------------------------------------------------------------
\* Clients.

Frame(c, m) ==
    /\ c \in open
    /\ pend' = [pend EXCEPT ![c] = Append(@, m)]
    /\ UNCHANGED <<open, reply, hid, inbox, registry, welcomed, job, lockVars, replies>>

\* handler.register, once.
SendRegister(c) ==
    /\ phase[c] = "new"
    /\ phase' = [phase EXCEPT ![c] = "in"]
    /\ Frame(c, "register")
    /\ UNCHANGED sent

\* A request.  AdminSession has the answers to everything it sent before, other
\* clients may send without waiting, registered or not.  Which method is called
\* matters to nobody before the consumer, and is chosen there.
SendRequest(c) ==
    /\ sent[c] < MaxCalls[c]
    /\ sent' = [sent EXCEPT ![c] = @ + 1]
    /\ Frame(c, "request")
    /\ UNCHANGED phase

\* handler.unregister: AdminSession::cleanup after the answer, or Drop when the
\* answer is late or the user interrupts.
SendUnregister(c) ==
    /\ phase[c] = "in"
    /\ phase' = [phase EXCEPT ![c] = "left"]
    /\ Frame(c, "unregister")
    /\ UNCHANGED sent

\* The client goes away at any moment, or the read loop ends the connection (an
\* oversized or malformed frame, idle_timeout).  The disconnect carries the id
\* noted by then, and is nothing to the consumer without one; the drainer is
\* aborted with the frames it had.
CloseConnection(c) ==
    /\ c \in open
    /\ open' = open \ {c}
    /\ inbox' = IF hid[c] = None THEN inbox
                ELSE Append(inbox, [method |-> "disconnect", conn |-> c, as |-> hid[c]])
    /\ pend' = [pend EXCEPT ![c] = <<>>]
    /\ reply' = [reply EXCEPT ![c] = "idle"]
    /\ UNCHANGED <<phase, sent, hid, registry, welcomed, job, lockVars, replies>>

-----------------------------------------------------------------------------
\* The drainer of a connection takes one frame at a time.

Taking(c) == c \in open /\ pend[c] # <<>> /\ reply[c] = "idle"

\* parse_message or validate_params refuses the frame.
RejectFrame(c) ==
    /\ Taking(c)
    /\ pend' = [pend EXCEPT ![c] = Tail(@)]
    /\ reply' = [reply EXCEPT ![c] = "done"]
    /\ UNCHANGED <<clientVars, hid, inbox, registry, welcomed, job, lockVars, replies>>

\* A mutant: the next frame does not wait for the answer to the one before.
HandOverAtOnce(c) ==
    /\ c \in open /\ pend[c] # <<>>
    /\ inbox' = Append(inbox, [method |-> Head(pend[c]), conn |-> c, as |-> hid[c]])
    /\ pend' = [pend EXCEPT ![c] = Tail(@)]
    /\ reply' = [reply EXCEPT ![c] = "waiting"]
    /\ UNCHANGED <<clientVars, hid, registry, welcomed, job, lockVars, replies>>

\* The request goes to the consumer with the handler id noted so far.
HandOver(c) ==
    /\ Taking(c)
    /\ inbox' = Append(inbox, [method |-> Head(pend[c]), conn |-> c, as |-> hid[c]])
    /\ pend' = [pend EXCEPT ![c] = Tail(@)]
    /\ reply' = [reply EXCEPT ![c] = "waiting"]
    /\ UNCHANGED <<clientVars, hid, registry, welcomed, job, lockVars, replies>>

\* The answer passes the drainer, which notes the handler id in it, to the client.
PassAnswer(c) ==
    /\ reply[c] \in {"done", "welcome"}
    /\ hid' = IF reply[c] = "welcome" THEN [hid EXCEPT ![c] = c] ELSE hid
    /\ reply' = [reply EXCEPT ![c] = "idle"]
    /\ UNCHANGED <<clientVars, pend, inbox, registry, welcomed, job, lockVars, replies>>

-----------------------------------------------------------------------------
\* client_manager: tokio's RwLock serves its waiters in order, so that a reader
\* behind a waiting writer waits.

Doing(a, s) == job[a].steps # <<>> /\ Head(job[a].steps) = s

\* The rest of a job; a job at its end is forgotten.
Rest(a, steps) == IF steps = <<>> THEN IdleJob ELSE [job[a] EXCEPT !.steps = steps]

Advance(a) == job' = [job EXCEPT ![a] = Rest(a, Tail(job[a].steps))]

\* An error ends the handler; its guard, if it has one, goes with it.
Fail(a) ==
    /\ job' = [job EXCEPT ![a] = Rest(a, job[a].onerr)]
    /\ holding' = [holding EXCEPT ![a] = "none"]
    /\ UNCHANGED queue

\* What the guards that are out allow.
Compatible(a) ==
    \A b \in Actors : holding[b] = "none" \/ (holding[b] = "read" /\ Doing(a, "read"))

Asking(a) == (Doing(a, "read") \/ Doing(a, "write")) /\ \A i \in DOMAIN queue : queue[i] # a

\* read() and write() return at once when nobody waits and the guards allow it.
Acquire(a) ==
    /\ Asking(a) /\ queue = <<>> /\ Compatible(a)
    /\ holding' = [holding EXCEPT ![a] = Head(job[a].steps)]
    /\ Advance(a)
    /\ UNCHANGED <<clientVars, drainVars, inbox, registry, welcomed, queue, replies>>

Wait(a) ==
    /\ Asking(a) /\ ~(queue = <<>> /\ Compatible(a))
    /\ queue' = Append(queue, a)
    /\ UNCHANGED <<clientVars, drainVars, inbox, registry, welcomed, job, holding, replies>>

\* The first waiter gets the lock when a guard is dropped.
Grant(a) ==
    /\ queue # <<>> /\ Head(queue) = a /\ Compatible(a)
    /\ holding' = [holding EXCEPT ![a] = Head(job[a].steps)]
    /\ queue' = Tail(queue)
    /\ Advance(a)
    /\ UNCHANGED <<clientVars, drainVars, inbox, registry, welcomed, replies>>

Drop(a) ==
    /\ Doing(a, "drop")
    /\ holding' = [holding EXCEPT ![a] = "none"]
    /\ Advance(a)
    /\ UNCHANGED <<clientVars, drainVars, inbox, registry, welcomed, queue, replies>>

-----------------------------------------------------------------------------
\* The steps of the handlers.

Quiet == UNCHANGED <<clientVars, drainVars, inbox, registry, welcomed, replies>>

Go(a) == Advance(a) /\ UNCHANGED lockVars

GoAndDrop(a) == Advance(a) /\ holding' = [holding EXCEPT ![a] = "none"] /\ UNCHANGED queue

\* handler_id.ok_or(HandlerNotRegistered)
Identify(a) ==
    /\ Doing(a, "caller")
    /\ IF job[a].as = None THEN Fail(a) ELSE Go(a)
    /\ Quiet

\* A mutant: an id once noted by the connection is enough.
CheckCapabilityNoted(a) ==
    /\ Doing(a, "agent")
    /\ \/ "agent" \in Caps[job[a].as] /\ GoAndDrop(a)
       \/ Fail(a)
    /\ Quiet

\* ClientManager::is_authorized: the handler is registered, for the bot the
\* request names and with the capability, or the request is refused.
CheckCapability(a) ==
    /\ Doing(a, "agent")
    /\ \/ job[a].as \in registry /\ "agent" \in Caps[job[a].as] /\ GoAndDrop(a)
       \/ Fail(a)
    /\ Quiet

\* require_admin_or_self
CheckAdmin(a) ==
    /\ Doing(a, "admin")
    /\ IF job[a].as \in registry /\ "admin" \in Caps[job[a].as] THEN GoAndDrop(a) ELSE Fail(a)
    /\ Quiet

\* A step that works or ends the handler with its error.
Try(a, s) == Doing(a, s) /\ (Go(a) \/ Fail(a)) /\ Quiet

Charge(a) == Try(a, "charge")
LookUpBot(a) == Try(a, "bot")
CloneHandles(a) == Doing(a, "clone") /\ (GoAndDrop(a) \/ Fail(a)) /\ Quiet
UseStore(a) == Try(a, "store")
UseEngine(a) == Try(a, "engine")
FetchKeyPackage(a) == Try(a, "fetch")
Upload(a) == Try(a, "upload")
Sign(a) == Try(a, "sign")
Publish(a) == Try(a, "publish")

\* HandlerRegistry::register, or the refusal of validate_request.
InsertHandler(a) ==
    /\ Doing(a, "insert")
    /\ \/ registry' = registry \cup {job[a].conn} /\ GoAndDrop(a)
       \/ UNCHANGED registry /\ Fail(a)
    /\ UNCHANGED <<clientVars, drainVars, inbox, welcomed, replies>>

\* HandlerRegistry::unregister
RemoveHandler(a) ==
    /\ Doing(a, "remove")
    /\ registry' = registry \ {job[a].of}
    /\ IF job[a].of \in registry THEN GoAndDrop(a) ELSE Fail(a)
    /\ UNCHANGED <<clientVars, drainVars, inbox, welcomed, replies>>

-----------------------------------------------------------------------------
\* The consumer: one request or disconnect at a time.

\* Every DaemonError has a code, and is an answer like any other.
ErrorAnswer == <<"answer">>

\* The methods a message may call.
Calls(m) == IF m.method = "request" THEN Uses[m.conn] ELSE {m.method}

\* agent.unregister_handler names any handler; the others mean the caller's own.
Serve ==
    /\ job["rpc"].steps = <<>> /\ inbox # <<>>
    /\ LET m == Head(inbox) IN
       \E method \in Calls(m) :
       \E of \in IF method = "unregister_handler" THEN Conns ELSE {m.as} :
          job' = [job EXCEPT !["rpc"] =
             [steps |-> Program(method, m.as, of),
              conn |-> m.conn, as |-> m.as, of |-> of, todo |-> {}, known |-> m.as \in registry,
              onerr |-> IF method = "disconnect" THEN <<>> ELSE ErrorAnswer]]
    /\ inbox' = Tail(inbox)
    /\ UNCHANGED <<clientVars, drainVars, registry, welcomed, lockVars, replies>>

\* The answer; nobody takes it when the connection is closed.
Answer ==
    /\ \E s \in {"answer", "welcome"} : Doing("rpc", s)
    /\ LET c == job["rpc"].conn  s == Head(job["rpc"].steps) IN
       /\ reply' = IF c \notin open THEN reply
                   ELSE [reply EXCEPT ![c] = IF s = "welcome" THEN s ELSE "done"]
       /\ welcomed' = IF s = "welcome" THEN welcomed \cup {c} ELSE welcomed
    /\ job' = [job EXCEPT !["rpc"] = IdleJob]
    /\ UNCHANGED <<clientVars, pend, hid, inbox, registry, lockVars, replies>>

-----------------------------------------------------------------------------
\* Beside the consumer.

\* dispatch_event: a registered handler answered an event with a reply, which is
\* sent on its behalf.
BeginReply(t, c) ==
    /\ job[t].steps = <<>> /\ replies < MaxReplies
    /\ c \in registry
    /\ job' = [job EXCEPT ![t] =
          [IdleJob EXCEPT !.steps = SendDm, !.as = c, !.known = TRUE]]
    /\ replies' = replies + 1
    /\ UNCHANGED <<clientVars, drainVars, inbox, registry, welcomed, lockVars>>

\* warn_stuck_bots, broadcast_status, broadcast_metrics: a look around.
LookAround(t) ==
    /\ job[t].steps = <<>>
    /\ job' = [job EXCEPT ![t] = [IdleJob EXCEPT !.steps = <<"read", "drop">>]]
    /\ UNCHANGED <<clientVars, drainVars, inbox, registry, welcomed, lockVars, replies>>

\* A round of the reaper goes on with the next handler when one cannot be removed.
ReaperJob(steps, of, todo) ==
    [steps |-> steps, conn |-> None, as |-> None, of |-> of, todo |-> todo, known |-> FALSE,
     onerr |-> <<"next">>]

\* The reaper's interval.  A round that finds nothing to remove reads and drops,
\* as LookAround does, and is left out.
WakeReaper ==
    /\ job["reaper"].steps = <<>> /\ registry \ open # {}
    /\ job' = [job EXCEPT !["reaper"] = ReaperJob(<<"read", "scan", "next">>, None, {})]
    /\ UNCHANGED <<clientVars, drainVars, inbox, registry, welcomed, lockVars, replies>>

\* Handlers whose connection is gone and whose last_seen is old enough; which
\* of them are old enough by now is open.
Scan ==
    /\ Doing("reaper", "scan")
    /\ \E stale \in SUBSET (registry \ open) :
          job' = [job EXCEPT !["reaper"] = ReaperJob(<<"next">>, None, stale)]
    /\ holding' = [holding EXCEPT !["reaper"] = "none"]
    /\ UNCHANGED <<clientVars, drainVars, inbox, registry, welcomed, queue, replies>>

\* The next handler of the list, or the end of the round.
NextStale ==
    /\ Doing("reaper", "next")
    /\ IF job["reaper"].todo = {}
       THEN job' = [job EXCEPT !["reaper"] = IdleJob]
       ELSE \E c \in job["reaper"].todo :
               job' = [job EXCEPT !["reaper"] =
                          ReaperJob(UnregisterHandler \o <<"next">>, c, job["reaper"].todo \ {c})]
    /\ UNCHANGED <<clientVars, drainVars, inbox, registry, welcomed, lockVars, replies>>

-----------------------------------------------------------------------------
Step(a) ==
    \/ Acquire(a) \/ Wait(a) \/ Grant(a) \/ Drop(a) \/ Identify(a) \/ CheckCapability(a) \/ CheckAdmin(a)
    \/ Charge(a) \/ LookUpBot(a) \/ CloneHandles(a) \/ UseStore(a) \/ UseEngine(a) \/ FetchKeyPackage(a)
    \/ Upload(a) \/ Sign(a) \/ Publish(a) \/ InsertHandler(a) \/ RemoveHandler(a)

Client(c) ==
    SendRegister(c) \/ SendRequest(c) \/ SendUnregister(c) \/ CloseConnection(c)

Drainer(c) == RejectFrame(c) \/ HandOver(c) \/ PassAnswer(c)

Reaper == WakeReaper \/ Scan \/ NextStale

Next ==
    \/ \E a \in Actors : Step(a)
    \/ \E c \in Conns : Client(c) \/ Drainer(c)
    \/ \E t \in Tasks : LookAround(t) \/ \E c \in Conns : BeginReply(t, c)
    \/ Serve \/ Answer \/ Reaper

Spec == Init /\ [][Next]_vars

\* The runtime polls every task that can go on.  A network call ends by its own
\* timeout, so that a step that waits for one ends too.  Clients owe nothing.
FairSpec ==
    /\ Spec
    /\ \A a \in Actors : WF_vars(Step(a))
    /\ \A c \in Conns : WF_vars(Drainer(c))
    /\ WF_vars(Serve) /\ WF_vars(Answer) /\ WF_vars(Reaper)

-----------------------------------------------------------------------------
\* State is well formed, and a writer of client_manager is alone with it: two
\* handlers are never inside client_manager.write() and any other guard at once.
TypeOK ==
    /\ open \subseteq Conns /\ registry \subseteq Conns
    /\ welcomed \subseteq Conns
    /\ \A c \in Conns :
          /\ phase[c] \in {"new", "in", "left"}
          /\ reply[c] \in {"idle", "waiting", "done", "welcome"}
          /\ hid[c] \in {None, c}
          /\ reply[c] # "idle" => c \in open
    /\ \A a, b \in Actors : a # b /\ holding[a] = "write" => holding[b] = "none"
    /\ IsInjective(queue)

\* The steps that act for a handler.
Service == {"engine", "fetch", "upload", "sign", "publish"}

\* A request that carries a handler id acts for a bot only if that handler was
\* registered when the consumer took the request: one sent, or waiting, when the
\* handler was unregistered, by itself, an admin or the reaper, is refused
\* (dispatch.rs, the check at the head of every handler).
NoServiceAfterUnregister ==
    \A a \in Actors :
       (job[a].as # None /\ \E s \in Service : Doing(a, s)) => job[a].known

\* A connection's requests are served as the handler it registered: no request
\* that follows the register on its connection is served without its handler id,
\* although a client need not wait for the answer (transport/unix.rs, "preserves
\* connection-level side effects").
KnowsItsCaller ==
    LET Anonymous(m) == m.conn \in open /\ m.as = None /\ m.conn \in welcomed
    IN  /\ \A i \in DOMAIN inbox : ~Anonymous(inbox[i])
        /\ job["rpc"].steps # <<>> => ~Anonymous(job["rpc"])

\* Whatever the consumer has been given it comes to the end of: no handler waits
\* for ever for client_manager, not even one that keeps its guard over a network
\* call while a writer waits behind it.
EveryRequestServed ==
    \A c \in Conns :
       (\/ \E i \in DOMAIN inbox : inbox[i].conn = c
        \/ job["rpc"].conn = c /\ job["rpc"].steps # <<>>)
       ~> (job["rpc"].steps = <<>> /\ \A i \in DOMAIN inbox : inbox[i].conn # c)

=============================================================================
