--------------------------- MODULE HandlerRegistry ---------------------------
(***************************************************************************)
(* Life of a handler registration: the in-memory registry                  *)
(* (src/handlers.rs), its persisted rows (src/db.rs), the count of         *)
(* registered handlers (src/dispatch.rs), the connections that own the     *)
(* registrations (src/transport/unix.rs) and the two tasks that change     *)
(* them: the single consumer of transport events (src/transport/mod.rs)    *)
(* and the reaper of stale handlers (src/dispatch.rs).                     *)
(*                                                                         *)
(* A task gives up the registry lock before it touches the database and    *)
(* the counter, so every operation is several steps here, one per lock or  *)
(* await.  Time is kept as ages that saturate just above the stale         *)
(* timeout, which is exact for the only test the code makes on them.       *)
(***************************************************************************)
EXTENDS Integers, FiniteSets

CONSTANTS
    HandlerIds,      \* the UUIDs the daemon may still generate, each used once
    Conns,           \* socket connections, each used once
    Admins,          \* ids whose registration was granted the Admin capability
    StaleTimeout,    \* handler_stale_timeout, in ticks
    CounterModulus,  \* 2^64 for the AtomicU64 of the code
    DbMayFail,       \* whether a write to the handlers table may fail
    MayCrash,        \* whether the daemon may stop and start again
    NoHandler, NoConn

ASSUME RegistryAssumption ==
    /\ IsFiniteSet(HandlerIds)
    /\ Admins \subseteq HandlerIds
    /\ StaleTimeout \in Nat
    /\ CounterModulus \in Nat \ {0}
    /\ DbMayFail \in BOOLEAN
    /\ MayCrash \in BOOLEAN
    /\ NoHandler \notin HandlerIds
    /\ NoConn \notin Conns

VARIABLES
    up,               \* the daemon process is running
    handlers,         \* keys of HandlerRegistry.handlers
    connection,       \* HandlerRef.connection
    sinceSeen,        \* age of HandlerRef.last_seen
    sinceRegistered,  \* age of HandlerRef.registered_at
    rows,             \* ids in the handlers table
    counter,          \* Dispatch.handlers_registered
    issued,           \* ids generated so far
    phase,            \* where handle_connection is, per connection
    alive,            \* the outbound channel's receiver exists
    connHandler,      \* the handler_id kept by handle_connection
    slot,             \* the one request a connection's drainer has in flight
    notices,          \* Disconnect(Some(id)) on its way to the consumer
    proc,             \* program counters of the consumer and the reaper
    todo,             \* stale ids the reaper still has to unregister
    acked,            \* history: ids a successful register answered with
    gone,             \* history: ids a task unregistered to the end, by task
    failed            \* history: a write has failed since the daemon started

registryVars == <<handlers, connection, sinceSeen, sinceRegistered>>
transportVars == <<phase, alive, connHandler>>
historyVars == <<acked, gone, failed>>
vars == <<up, registryVars, rows, counter, issued, transportVars, slot, notices,
          proc, todo, historyVars>>

Procs == {"consumer", "reaper"}
Age == 0 .. StaleTimeout + 1
Older(a) == IF a > StaleTimeout THEN a ELSE a + 1

(* Contents of a connection's request slot. *)
NoRequest == [type |-> "none"]
Register == [type |-> "register"]
Reconnect(h) == [type |-> "reconnect", id |-> h]
Unregister == [type |-> "unregister"]
AdminUnregister(h) == [type |-> "admin_unregister", id |-> h]
Serving == [type |-> "serving"]
Reply(h) == [type |-> "reply", id |-> h]
Stopped == [type |-> "stopped"]

Requests ==
    {Register, Unregister}
        \cup {Reconnect(h) : h \in HandlerIds}
        \cup {AdminUnregister(h) : h \in HandlerIds}
Slots == Requests \cup {NoRequest, Serving, Stopped}
                  \cup {Reply(h) : h \in HandlerIds \cup {NoHandler}}

Idle == [pc |-> "idle", id |-> NoHandler, conn |-> NoConn]
At(pc, h, c) == [pc |-> pc, id |-> h, conn |-> c]
PCs == {"save_new", "count", "save_again", "delete", "subtract"}
Working == [pc : PCs, id : HandlerIds, conn : Conns \cup {NoConn}]

IsConnected(h) == connection[h] # NoConn /\ alive[connection[h]]
IsStale(h) == ~IsConnected(h) /\ sinceSeen[h] > StaleTimeout

TypeOK ==
    /\ up \in BOOLEAN
    /\ handlers \subseteq HandlerIds
    /\ connection \in [HandlerIds -> Conns \cup {NoConn}]
    /\ sinceSeen \in [HandlerIds -> Age]
    /\ sinceRegistered \in [HandlerIds -> Age]
    /\ rows \subseteq HandlerIds
    /\ counter \in 0 .. CounterModulus - 1
    /\ issued \subseteq HandlerIds
    /\ phase \in [Conns -> {"new", "open", "closing", "closed"}]
    /\ alive \in [Conns -> BOOLEAN]
    /\ connHandler \in [Conns -> HandlerIds \cup {NoHandler}]
    /\ slot \in [Conns -> Slots]
    /\ notices \subseteq Conns \X HandlerIds
    /\ proc \in [Procs -> {Idle} \cup Working]
    /\ todo \subseteq HandlerIds
    /\ acked \subseteq HandlerIds
    /\ gone \in [Procs -> SUBSET HandlerIds]
    /\ failed \in BOOLEAN

Init ==
    /\ up = TRUE
    /\ handlers = {}
    /\ connection = [h \in HandlerIds |-> NoConn]
    /\ sinceSeen = [h \in HandlerIds |-> 0]
    /\ sinceRegistered = [h \in HandlerIds |-> 0]
    /\ rows = {}
    /\ counter = 0
    /\ issued = {}
    /\ phase = [c \in Conns |-> "new"]
    /\ alive = [c \in Conns |-> FALSE]
    /\ connHandler = [c \in Conns |-> NoHandler]
    /\ slot = [c \in Conns |-> NoRequest]
    /\ notices = {}
    /\ proc = [p \in Procs |-> Idle]
    /\ todo = {}
    /\ acked = {}
    /\ gone = [p \in Procs |-> {}]
    /\ failed = FALSE

-----------------------------------------------------------------------------
(* Connections: handle_connection and its drainer and writer tasks.        *)

(* The listener accepts the connection and spawns its tasks. *)
Accept(c) ==
    /\ up /\ phase[c] = "new"
    /\ phase' = [phase EXCEPT ![c] = "open"]
    /\ alive' = [alive EXCEPT ![c] = TRUE]
    /\ UNCHANGED <<up, registryVars, rows, counter, issued, connHandler, slot,
                   notices, proc, todo, historyVars>>

(* The drainer polls the future of the next frame; it runs one at a time.  *)
(* A client can only name ids the daemon has issued.                       *)
Send(c, r) ==
    /\ up /\ phase[c] = "open" /\ slot[c] = NoRequest
    /\ r.type \in {"reconnect", "admin_unregister"} => r.id \in issued
    /\ slot' = [slot EXCEPT ![c] = r]
    /\ UNCHANGED <<up, registryVars, rows, counter, issued, transportVars,
                   notices, proc, todo, historyVars>>

(* The drainer gets the response: an answer that carries a handler_id      *)
(* becomes the connection's, and the drainer stops when the writer is gone. *)
Drain(c) ==
    /\ phase[c] \in {"open", "closing"} /\ slot[c].type = "reply"
    /\ connHandler' = IF slot[c].id = NoHandler THEN connHandler
                      ELSE [connHandler EXCEPT ![c] = slot[c].id]
    /\ slot' = [slot EXCEPT ![c] = IF alive[c] THEN NoRequest ELSE Stopped]
    /\ UNCHANGED <<up, registryVars, rows, counter, issued, phase, alive,
                   notices, proc, todo, historyVars>>

(* The writer task ends on a write error and drops the channel's receiver. *)
WriterFails(c) ==
    /\ phase[c] \in {"open", "closing"} /\ alive[c]
    /\ alive' = [alive EXCEPT ![c] = FALSE]
    /\ UNCHANGED <<up, registryVars, rows, counter, issued, phase, connHandler,
                   slot, notices, proc, todo, historyVars>>

(* The read loop returns: peer closed, idle timeout, oversized or invalid  *)
(* frame.  The id the drainer has recorded so far goes to the consumer.    *)
Close(c) ==
    /\ phase[c] = "open"
    /\ phase' = [phase EXCEPT ![c] = "closing"]
    /\ notices' = IF connHandler[c] = NoHandler THEN notices
                  ELSE notices \cup {<<c, connHandler[c]>>}
    /\ UNCHANGED <<up, registryVars, rows, counter, issued, alive, connHandler,
                   slot, proc, todo, historyVars>>

(* Writer and drainer are aborted.  A request still with the drainer is    *)
(* lost; one already in the consumer's channel is served all the same.     *)
AbortTasks(c) ==
    /\ phase[c] = "closing"
    /\ phase' = [phase EXCEPT ![c] = "closed"]
    /\ alive' = [alive EXCEPT ![c] = FALSE]
    /\ \/ slot[c] \in Requests \cup {Serving} /\ UNCHANGED slot
       \/ slot[c] # Serving /\ slot' = [slot EXCEPT ![c] = NoRequest]
    /\ UNCHANGED <<up, registryVars, rows, counter, issued, connHandler,
                   notices, proc, todo, historyVars>>

-----------------------------------------------------------------------------
(* The consumer serves one message or disconnect at a time.                *)

ConsumerIdle == up /\ proc["consumer"].pc = "idle"

(* The answer to c's request reaches its drainer, if there still is one.   *)
Answered(c, h) ==
    IF c = NoConn THEN slot
    ELSE [slot EXCEPT ![c] = IF phase[c] = "closed" THEN NoRequest ELSE Reply(h)]

(* handle_register up to the end of the registry's write lock. *)
RegisterInsert(c) ==
    /\ ConsumerIdle /\ slot[c] = Register
    /\ \E h \in HandlerIds \ issued :
        /\ issued' = issued \cup {h}
        /\ handlers' = handlers \cup {h}
        /\ connection' = [connection EXCEPT ![h] = c]
        /\ sinceSeen' = [sinceSeen EXCEPT ![h] = 0]
        /\ sinceRegistered' = [sinceRegistered EXCEPT ![h] = 0]
        /\ proc' = [proc EXCEPT !["consumer"] = At("save_new", h, c)]
    /\ slot' = [slot EXCEPT ![c] = Serving]
    /\ UNCHANGED <<up, rows, counter, transportVars, notices, todo,
                   historyVars>>

(* handle_reconnect's checks and update, under the write lock, for a       *)
(* request with the right token.                                           *)
ReconnectAttach(c) ==
    /\ ConsumerIdle /\ slot[c].type = "reconnect"
    /\ LET h == slot[c].id IN
        /\ h \in handlers /\ ~IsConnected(h)
        /\ connection' = [connection EXCEPT ![h] = c]
        /\ sinceSeen' = [sinceSeen EXCEPT ![h] = 0]
        /\ proc' = [proc EXCEPT !["consumer"] = At("save_again", h, c)]
    /\ slot' = [slot EXCEPT ![c] = Serving]
    /\ UNCHANGED <<up, handlers, rows, counter, issued, transportVars, notices,
                   todo, historyVars, sinceRegistered>>

(* Mutation: handle_register goes on when save_handler fails. *)
SaveRowUnchecked ==
    /\ proc["consumer"].pc = "save_new"
    /\ rows' \in {rows, rows \cup {proc["consumer"].id}}
    /\ proc' = [proc EXCEPT !["consumer"].pc = "count"]
    /\ UNCHANGED <<up, registryVars, counter, issued, transportVars, slot,
                   notices, todo, historyVars>>

(* save_handler: the row is written, or the request fails where it stands. *)
SaveRow ==
    /\ proc["consumer"].pc \in {"save_new", "save_again"}
    /\ LET h == proc["consumer"].id  c == proc["consumer"].conn IN
        \/ /\ rows' = rows \cup {h} /\ UNCHANGED failed
           /\ IF proc["consumer"].pc = "save_new"
              THEN /\ proc' = [proc EXCEPT !["consumer"] = At("count", h, c)]
                   /\ UNCHANGED slot
              ELSE /\ proc' = [proc EXCEPT !["consumer"] = Idle]
                   /\ slot' = Answered(c, h)
        \/ /\ DbMayFail /\ failed' = TRUE
           /\ proc' = [proc EXCEPT !["consumer"] = Idle]
           /\ slot' = Answered(c, NoHandler)
           /\ UNCHANGED rows
    /\ UNCHANGED <<up, registryVars, counter, issued, transportVars, notices,
                   todo, acked, gone>>

(* The last step of handle_register: count the handler and answer. *)
CountHandler ==
    /\ proc["consumer"].pc = "count"
    /\ LET h == proc["consumer"].id  c == proc["consumer"].conn IN
        /\ slot' = Answered(c, h)
        /\ acked' = acked \cup {h}
    /\ counter' = (counter + 1) % CounterModulus
    /\ proc' = [proc EXCEPT !["consumer"] = Idle]
    /\ UNCHANGED <<up, registryVars, rows, issued, transportVars, notices, todo,
                   gone, failed>>

(* HandlerRegistry::unregister for task p: the entry goes first. *)
Detach(p, h, c) ==
    /\ h \in handlers
    /\ handlers' = handlers \ {h}
    /\ proc' = [proc EXCEPT ![p] = At("delete", h, c)]

(* require_admin_or_self for the caller bound to connection c. *)
MayUnregister(c, h) ==
    LET caller == connHandler[c] IN
    /\ caller # NoHandler
    /\ caller = h \/ (caller \in handlers /\ caller \in Admins)

(* handler.unregister and agent.unregister_handler. *)
UnregisterRequest(c) ==
    /\ ConsumerIdle
    /\ \/ /\ slot[c] = Unregister
          /\ Detach("consumer", connHandler[c], c)
       \/ /\ slot[c].type = "admin_unregister"
          /\ MayUnregister(c, slot[c].id)
          /\ Detach("consumer", slot[c].id, c)
    /\ slot' = [slot EXCEPT ![c] = Serving]
    /\ UNCHANGED <<up, connection, sinceSeen, sinceRegistered, rows, counter, issued,
                   transportVars, notices, todo, historyVars>>

(* A request that changes nothing, with an error for an answer: a register *)
(* that validate_request turns down, a reconnect with a wrong token, for a *)
(* missing or for a live registration, a missing or foreign target.        *)
Refuse(c) ==
    /\ ConsumerIdle
    /\ \/ slot[c] = Register
       \/ slot[c].type = "reconnect"
       \/ slot[c] = Unregister /\ connHandler[c] \notin handlers
       \/ /\ slot[c].type = "admin_unregister"
          /\ \/ ~MayUnregister(c, slot[c].id)
             \/ slot[c].id \notin handlers
    /\ slot' = Answered(c, NoHandler)
    /\ UNCHANGED <<up, registryVars, rows, counter, issued, transportVars,
                   notices, proc, todo, historyVars>>

(* TransportEvent::Disconnect(Some(h)): the registration is removed. *)
ServeDisconnect(c, h) ==
    /\ ConsumerIdle /\ <<c, h>> \in notices
    /\ notices' = notices \ {<<c, h>>}
    /\ \/ Detach("consumer", h, NoConn)
       \/ h \notin handlers /\ UNCHANGED <<handlers, proc>>
    /\ UNCHANGED <<up, connection, sinceSeen, sinceRegistered, rows, counter, issued,
                   transportVars, slot, todo, historyVars>>

-----------------------------------------------------------------------------
(* unregister_handler after the registry lock, for either task.            *)

(* Mutation: unregister_handler goes on when delete_handler fails. *)
DeleteRowUnchecked(p) ==
    /\ proc[p].pc = "delete"
    /\ rows' \in {rows, rows \ {proc[p].id}}
    /\ proc' = [proc EXCEPT ![p].pc = "subtract"]
    /\ UNCHANGED <<up, registryVars, counter, issued, transportVars, slot,
                   notices, todo, historyVars>>

DeleteRow(p) ==
    /\ proc[p].pc = "delete"
    /\ \/ /\ rows' = rows \ {proc[p].id} /\ UNCHANGED failed
          /\ proc' = [proc EXCEPT ![p].pc = "subtract"]
          /\ UNCHANGED slot
       \/ /\ DbMayFail /\ failed' = TRUE
          /\ proc' = [proc EXCEPT ![p] = Idle]
          /\ slot' = Answered(proc[p].conn, NoHandler)
          /\ UNCHANGED rows
    /\ UNCHANGED <<up, registryVars, counter, issued, transportVars, notices,
                   todo, acked, gone>>

(* Mutation: the count is signed and does not wrap. *)
SubtractUnwrapped(p) ==
    /\ proc[p].pc = "subtract"
    /\ counter' = counter - 1
    /\ gone' = [gone EXCEPT ![p] = @ \cup {proc[p].id}]
    /\ slot' = Answered(proc[p].conn, NoHandler)
    /\ proc' = [proc EXCEPT ![p] = Idle]
    /\ UNCHANGED <<up, registryVars, rows, issued, transportVars, notices, todo,
                   acked, failed>>

SubtractHandler(p) ==
    /\ proc[p].pc = "subtract"
    /\ counter' = (counter - 1) % CounterModulus
    /\ gone' = [gone EXCEPT ![p] = @ \cup {proc[p].id}]
    /\ slot' = Answered(proc[p].conn, NoHandler)
    /\ proc' = [proc EXCEPT ![p] = Idle]
    /\ UNCHANGED <<up, registryVars, rows, issued, transportVars, notices, todo,
                   acked, failed>>

-----------------------------------------------------------------------------
(* The reaper: collect stale ids under the read lock, then unregister each. *)

ReaperIdle == up /\ proc["reaper"].pc = "idle"

(* Mutation: only handlers that never had a connection count as stale. *)
ReaperScanRestored ==
    /\ ReaperIdle /\ todo = {}
    /\ todo' = {h \in handlers : connection[h] = NoConn /\ IsStale(h)}
    /\ todo' # {}
    /\ UNCHANGED <<up, registryVars, rows, counter, issued, transportVars, slot,
                   notices, proc, historyVars>>

ReaperScan ==
    /\ ReaperIdle /\ todo = {}
    /\ todo' = {h \in handlers : IsStale(h)}
    /\ todo' # {}
    /\ UNCHANGED <<up, registryVars, rows, counter, issued, transportVars, slot,
                   notices, proc, historyVars>>

ReaperUnregister(h) ==
    /\ ReaperIdle /\ h \in todo
    /\ todo' = todo \ {h}
    /\ \/ Detach("reaper", h, NoConn)
       \/ h \notin handlers /\ UNCHANGED <<handlers, proc>>
    /\ UNCHANGED <<up, connection, sinceSeen, sinceRegistered, rows, counter, issued,
                   transportVars, slot, notices, historyVars>>

-----------------------------------------------------------------------------
(* The process and the clock.                                              *)

(* The process stops: only the rows, and what clients remember, remain.    *)
Crash ==
    /\ MayCrash /\ up
    /\ up' = FALSE
    /\ handlers' = {}
    /\ phase' = [c \in Conns |-> IF phase[c] = "new" THEN "new" ELSE "closed"]
    /\ alive' = [c \in Conns |-> FALSE]
    /\ slot' = [c \in Conns |-> NoRequest]
    /\ notices' = {}
    /\ proc' = [p \in Procs |-> Idle]
    /\ todo' = {}
    /\ UNCHANGED <<connection, sinceSeen, sinceRegistered, rows, counter, issued, connHandler,
                   historyVars>>

(* load_handlers: every row is a registration. *)
LoadHandlers == rows

(* Mutation: restore_handlers does not set the count. *)
RestartUncounted ==
    /\ ~up
    /\ up' = TRUE
    /\ handlers' = LoadHandlers
    /\ connection' = [h \in HandlerIds |-> NoConn]
    /\ sinceSeen' = sinceRegistered
    /\ counter' = 0
    /\ failed' = FALSE
    /\ UNCHANGED <<rows, issued, transportVars, slot, notices, proc, todo,
                   acked, gone, sinceRegistered>>

(* restore_handlers: every row comes back without a connection, last seen  *)
(* when it was registered.                                                 *)
Restart ==
    /\ ~up
    /\ up' = TRUE
    /\ handlers' = LoadHandlers
    /\ connection' = [h \in HandlerIds |-> NoConn]
    /\ sinceSeen' = sinceRegistered
    /\ counter' = Cardinality(LoadHandlers) % CounterModulus
    /\ failed' = FALSE
    /\ UNCHANGED <<rows, issued, transportVars, slot, notices, proc, todo,
                   acked, gone, sinceRegistered>>

Tick ==
    /\ sinceSeen' = [h \in HandlerIds |-> Older(sinceSeen[h])]
    /\ sinceRegistered' = [h \in HandlerIds |-> Older(sinceRegistered[h])]
    /\ UNCHANGED <<up, handlers, connection, rows, counter, issued,
                   transportVars, slot, notices, proc, todo, historyVars>>

ConnectionStep(c) ==
    \/ Accept(c)
    \/ \E r \in Requests : Send(c, r)
    \/ Drain(c)
    \/ WriterFails(c)
    \/ Close(c)
    \/ AbortTasks(c)

ConsumerStep ==
    \/ \E c \in Conns : \/ RegisterInsert(c)
                       \/ ReconnectAttach(c)
                       \/ UnregisterRequest(c)
                       \/ Refuse(c)
                       \/ \E h \in HandlerIds : ServeDisconnect(c, h)
    \/ SaveRow
    \/ CountHandler
    \/ DeleteRow("consumer")
    \/ SubtractHandler("consumer")

ReaperStep ==
    \/ ReaperScan
    \/ \E h \in HandlerIds : ReaperUnregister(h)
    \/ DeleteRow("reaper")
    \/ SubtractHandler("reaper")

Next ==
    \/ \E c \in Conns : ConnectionStep(c)
    \/ ConsumerStep
    \/ ReaperStep
    \/ Crash
    \/ Restart
    \/ Tick

Spec == Init /\ [][Next]_vars

(* Tokio polls every ready task, the reaper's interval keeps firing, time  *)
(* passes, and a supervisor starts a stopped daemon again.                 *)
FairSpec ==
    /\ Spec
    /\ WF_vars(ConsumerStep)
    /\ WF_vars(ReaperStep)
    /\ WF_vars(Tick)
    /\ WF_vars(Restart)

-----------------------------------------------------------------------------
(* Properties.                                                             *)

(* A handler whose handler.register succeeded has its row for as long as   *)
(* it is in the registry, whatever the reaper, failing writes and restarts *)
(* do meanwhile: the registry never advertises a registration that a       *)
(* restart of the daemon would forget.                                     *)
AckedIsPersisted == handlers \cap acked \subseteq rows

(* A registration that an unregister request or a disconnect removed to    *)
(* the end (entry, row and count) never comes back, neither in the         *)
(* registry nor in the table, even across restarts.  It rests on the       *)
(* consumer serving one event at a time.                                   *)
UnregisteredStaysGone == gone["consumer"] \cap (handlers \cup rows) = {}

(* As long as no write has failed since the start, handlers_registered is  *)
(* the size of the registry, corrected by the handlers a task is about to  *)
(* count and the removed ones it has not subtracted yet; a restart counts  *)
(* the rows and so repairs what failed writes left behind.                 *)
ToCount == {p \in Procs : proc[p].pc \in {"save_new", "count"}}
ToSubtract == {p \in Procs : proc[p].pc \in {"delete", "subtract"}}
CounterAccounts ==
    up /\ ~failed => counter = (Cardinality(handlers) + Cardinality(ToSubtract)
                                   - Cardinality(ToCount)) % CounterModulus

(* Every registration whose connection is lost is in the end reconnected   *)
(* or removed: the ones nobody sends a disconnect for (answer lost at      *)
(* teardown, second registration on a connection, failed save, restored    *)
(* from the table) are left to the reaper.                                 *)
LostIsReaped ==
    \A h \in HandlerIds :
        (h \in handlers /\ ~IsConnected(h)) ~> (h \notin handlers \/ IsConnected(h))

=============================================================================
