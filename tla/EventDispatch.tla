---------------------------- MODULE EventDispatch ----------------------------
(***************************************************************************)
(* Dispatch::dispatch_event and Dispatch::handle_response (src/dispatch.rs) *)
(* with the event cursor (src/db.rs) and the subscription that resumes     *)
(* from it after a restart (src/client_manager.rs).                        *)
(*                                                                         *)
(* Every inbound event is dispatched by a task of its own (src/main.rs).   *)
(* The task takes a snapshot of the connected handlers, waits for the lock *)
(* of its event id, opens a tracker under that id, sends the event,        *)
(* collects answers until all have come, one defers or the deadline        *)
(* passes, closes the tracker, sends the replies and, unless an answer     *)
(* deferred, moves the bot's cursor, in memory and then in the database.   *)
(* Meanwhile handlers come and go and the consumer of transport events     *)
(* matches handler.response messages to trackers by event id.              *)
(***************************************************************************)
EXTENDS Integers, Sequences, FiniteSets

CONSTANTS
    Tasks,        \* AgentEvents: one event addressed to one bot
    Bots, Ids, Handlers, Buckets,
    BotOf,        \* bot_id of a task's event
    IdOf,         \* event_id; a group message has one id for all its bots
    Timestamp,    \* AgentEvent::timestamp, the rumor's created_at
    WrapTime,     \* created_at of the wrapper the relay filters on
    BucketOf,     \* lock bucket an event id hashes to
    GroupTasks,   \* tasks whose event is an MLS group message
    Subscribed,   \* bots each handler is registered for
    Tweak,        \* RANGE_RANDOM_TIMESTAMP_TWEAK.end
    MaxAnswers,   \* bound: answers a handler gives to one event
    MaxRestarts,  \* bound: restarts of the daemon
    NoTask, NoCursor

Actions == {"ack", "reply", "defer"}
Answers == [from : Handlers, to : Tasks, action : Actions]

ASSUME DispatchAssumption ==
    /\ BotOf \in [Tasks -> Bots]
    /\ IdOf \in [Tasks -> Ids]
    /\ Timestamp \in [Tasks -> Nat]
    /\ WrapTime \in [Tasks -> Nat]
    /\ BucketOf \in [Ids -> Buckets]
    /\ GroupTasks \subseteq Tasks
    /\ Subscribed \in [Handlers -> SUBSET Bots]
    /\ Tweak \in Nat /\ MaxAnswers \in Nat /\ MaxRestarts \in Nat
    /\ NoTask \notin Tasks
    /\ NoCursor \notin Nat
    /\ IsFiniteSet(Handlers)

VARIABLES
    mode,        \* the daemon is running, flushing its cursors, or down
    registered,  \* handlers in the registry
    connected,   \* handlers with a live connection
    pc,          \* where each dispatch task is
    snapshot,    \* handlers the task found
    holder,      \* task that holds each lock bucket
    tracker,     \* Dispatch.pending: task, handlers and counts per event id
    unsent,      \* notifications still to be sent by the fan-out
    delivered,   \* history: events handlers have received
    given,       \* number of answers a handler has given to an event
    channel,     \* the task's response channel
    responses,   \* answers the task has collected
    deferred, expired,
    unprocessed, \* collected answers whose reply is still to be sent
    lastCursor,  \* Dispatch.last_cursor
    dbCursor,    \* the cursors table
    toFlush,     \* what flush_cursors read and has yet to write
    concluded,   \* history: tasks whose collection ended without a defer
    restarts

taskVars == <<pc, snapshot, holder, tracker, unsent, channel, responses,
              deferred, expired, unprocessed>>
handlerVars == <<registered, connected, delivered, given>>
cursorVars == <<lastCursor, dbCursor, toFlush, concluded>>
vars == <<mode, taskVars, handlerVars, cursorVars, restarts>>

NoTracker == [task |-> NoTask]
Tracker(t, hs) == [task |-> t, handlers |-> hs, counted |-> {}]
Cursors == Nat \cup {NoCursor}
PCs == {"waiting", "locking", "collecting", "replying", "saving", "done",
        "dropped", "skipped"}

TypeOK ==
    /\ mode \in {"running", "flushing", "down"}
    /\ registered \subseteq Handlers
    /\ connected \subseteq registered
    /\ pc \in [Tasks -> PCs]
    /\ snapshot \in [Tasks -> SUBSET Handlers]
    /\ holder \in [Buckets -> Tasks \cup {NoTask}]
    /\ tracker \in [Ids -> {NoTracker} \cup
                      [task : Tasks, handlers : SUBSET Handlers,
                       counted : SUBSET Handlers]]
    /\ unsent \in [Tasks -> SUBSET Handlers]
    /\ delivered \subseteq Tasks \X Handlers
    /\ given \in [Tasks -> [Handlers -> 0 .. MaxAnswers]]
    /\ channel \in [Tasks -> Seq(Answers)]
    /\ responses \in [Tasks -> Seq(Answers)]
    /\ deferred \in [Tasks -> BOOLEAN]
    /\ expired \in [Tasks -> BOOLEAN]
    /\ unprocessed \in [Tasks -> Seq(Answers)]
    /\ lastCursor \in [Bots -> Cursors]
    /\ dbCursor \in [Bots -> Cursors]
    /\ toFlush \in [Bots -> Cursors]
    /\ concluded \subseteq Tasks
    /\ restarts \in 0 .. MaxRestarts

(* Handlers registered before the daemon last stopped are in the registry, *)
(* and none is connected yet.                                              *)
Init ==
    /\ mode = "running"
    /\ registered = Handlers
    /\ connected = {}
    /\ pc = [t \in Tasks |-> "waiting"]
    /\ snapshot = [t \in Tasks |-> {}]
    /\ holder = [b \in Buckets |-> NoTask]
    /\ tracker = [i \in Ids |-> NoTracker]
    /\ unsent = [t \in Tasks |-> {}]
    /\ delivered = {}
    /\ given = [t \in Tasks |-> [h \in Handlers |-> 0]]
    /\ channel = [t \in Tasks |-> <<>>]
    /\ responses = [t \in Tasks |-> <<>>]
    /\ deferred = [t \in Tasks |-> FALSE]
    /\ expired = [t \in Tasks |-> FALSE]
    /\ unprocessed = [t \in Tasks |-> <<>>]
    /\ lastCursor = [b \in Bots |-> NoCursor]
    /\ dbCursor = [b \in Bots |-> NoCursor]
    /\ toFlush = [b \in Bots |-> NoCursor]
    /\ concluded = {}
    /\ restarts = 0
-----------------------------------------------------------------------------
(* Handlers.                                                               *)

(* handler.reconnect of a registration without a live connection. *)
Connect(h) ==
    /\ mode = "running" /\ h \in registered \ connected
    /\ connected' = connected \cup {h}
    /\ UNCHANGED <<mode, registered, delivered, given, taskVars, cursorVars,
                   restarts>>

(* The channel to the handler closes; its registration goes with the       *)
(* disconnect notice, or stays when the notice is still on its way.        *)
Disconnect(h) ==
    /\ mode # "down" /\ h \in connected
    /\ connected' = connected \ {h}
    /\ registered' \in {registered, registered \ {h}}
    /\ UNCHANGED <<mode, delivered, given, taskVars, cursorVars, restarts>>

(* Mutation: no limit on the answers of one handler. *)
HandleEveryResponse(h, t, a) ==
    /\ mode # "down" /\ h \in connected
    /\ <<t, h>> \in delivered
    /\ given[t][h] < MaxAnswers
    /\ given' = [given EXCEPT ![t][h] = @ + 1]
    /\ LET p == tracker[IdOf[t]] IN
        IF p # NoTracker /\ h \in p.handlers
        THEN channel' = [channel EXCEPT ![p.task] =
                           Append(@, [from |-> h, to |-> t, action |-> a])]
        ELSE UNCHANGED channel
    /\ UNCHANGED <<mode, registered, connected, delivered, pc, snapshot, holder,
                   tracker, unsent, responses, deferred, expired, unprocessed,
                   cursorVars, restarts>>

(* handle_response: matched by event id only, refused from a handler the   *)
(* tracker does not list or has counted, dropped without a tracker.        *)
HandleResponse(h, t, a) ==
    /\ mode # "down" /\ h \in connected
    /\ <<t, h>> \in delivered
    /\ given[t][h] < MaxAnswers
    /\ given' = [given EXCEPT ![t][h] = @ + 1]
    /\ LET p == tracker[IdOf[t]] IN
        IF p # NoTracker /\ h \in p.handlers \ p.counted
        THEN /\ tracker' = [tracker EXCEPT ![IdOf[t]].counted = @ \cup {h}]
             /\ channel' = [channel EXCEPT ![p.task] =
                              Append(@, [from |-> h, to |-> t, action |-> a])]
        ELSE UNCHANGED <<tracker, channel>>
    /\ UNCHANGED <<mode, registered, connected, delivered, pc, snapshot, holder,
                   unsent, responses, deferred, expired, unprocessed,
                   cursorVars, restarts>>

-----------------------------------------------------------------------------
(* One dispatch task.                                                      *)

(* HandlerRegistry::find. *)
Find(t) == {h \in connected : BotOf[t] \in Subscribed[h]}

(* process_mls_group_message drops a group message that is a duplicate or  *)
(* over the rate of its group.                                             *)
DropGroupMessage(t) ==
    /\ mode = "running" /\ pc[t] = "waiting" /\ t \in GroupTasks
    /\ pc' = [pc EXCEPT ![t] = "dropped"]
    /\ UNCHANGED <<mode, snapshot, holder, tracker, unsent, channel, responses,
                   deferred, expired, unprocessed, handlerVars, cursorVars,
                   restarts>>

(* The main loop hands the event to a task, which looks up its handlers.   *)
Arrive(t) ==
    /\ mode = "running" /\ pc[t] = "waiting"
    /\ pc' = [pc EXCEPT ![t] = "locking"]
    /\ snapshot' = [snapshot EXCEPT ![t] = Find(t)]
    /\ UNCHANGED <<mode, holder, tracker, unsent, channel, responses, deferred,
                   expired, unprocessed, handlerVars, cursorVars, restarts>>

(* Mutation: dispatch_event without event_dispatch_locks. *)
OpenTrackerUnlocked(t) ==
    /\ mode # "down" /\ pc[t] = "locking"
    /\ tracker' = [tracker EXCEPT ![IdOf[t]] = Tracker(t, snapshot[t])]
    /\ unsent' = [unsent EXCEPT ![t] = snapshot[t]]
    /\ pc' = [pc EXCEPT ![t] = "collecting"]
    /\ UNCHANGED <<mode, snapshot, holder, channel, responses, deferred, expired,
                   unprocessed, handlerVars, cursorVars, restarts>>

(* The lock of the event id, the tracker, and the fan-out it spawns. *)
OpenTracker(t) ==
    /\ mode # "down" /\ pc[t] = "locking"
    /\ holder[BucketOf[IdOf[t]]] = NoTask
    /\ holder' = [holder EXCEPT ![BucketOf[IdOf[t]]] = t]
    /\ tracker' = [tracker EXCEPT ![IdOf[t]] = Tracker(t, snapshot[t])]
    /\ unsent' = [unsent EXCEPT ![t] = snapshot[t]]
    /\ pc' = [pc EXCEPT ![t] = "collecting"]
    /\ UNCHANGED <<mode, snapshot, channel, responses, deferred, expired,
                   unprocessed, handlerVars, cursorVars, restarts>>

(* send_event to one handler: lost when its channel is closed or full. *)
SendEvent(t, h) ==
    /\ mode # "down" /\ h \in unsent[t]
    /\ unsent' = [unsent EXCEPT ![t] = @ \ {h}]
    /\ \/ h \in connected /\ delivered' = delivered \cup {<<t, h>>}
       \/ UNCHANGED delivered
    /\ UNCHANGED <<mode, pc, snapshot, holder, tracker, channel, responses,
                   deferred, expired, unprocessed, registered, connected, given,
                   cursorVars, restarts>>

(* expected answers the task waits for, before the deadline. *)
Expecting(t) ==
    pc[t] = "collecting" /\ Len(responses[t]) < Cardinality(snapshot[t])

(* The end of the collection: the tracker is removed. *)
CloseTracker(t) ==
    /\ tracker' = [tracker EXCEPT ![IdOf[t]] = NoTracker]
    /\ pc' = [pc EXCEPT ![t] = "replying"]

Collect(t) ==
    /\ mode # "down" /\ Expecting(t) /\ channel[t] # <<>>
    /\ Head(channel[t]).action # "defer"
    /\ channel' = [channel EXCEPT ![t] = Tail(@)]
    /\ responses' = [responses EXCEPT ![t] = Append(@, Head(channel[t]))]
    /\ UNCHANGED <<mode, pc, snapshot, holder, tracker, unsent, deferred,
                   expired, unprocessed, handlerVars, cursorVars, restarts>>

(* A defer ends the collection at once. *)
CollectDefer(t) ==
    /\ mode # "down" /\ Expecting(t) /\ channel[t] # <<>>
    /\ Head(channel[t]).action = "defer"
    /\ deferred' = [deferred EXCEPT ![t] = TRUE]
    /\ channel' = [channel EXCEPT ![t] = <<>>]
    /\ unprocessed' = [unprocessed EXCEPT ![t] = responses[t]]
    /\ CloseTracker(t)
    /\ UNCHANGED <<mode, snapshot, holder, unsent, responses, expired,
                   handlerVars, cursorVars, restarts>>

(* Mutation: the deadline is looked at only when a message comes. *)
DeadlineAfterMessage(t) ==
    /\ mode # "down" /\ Expecting(t) /\ channel[t] # <<>>
    /\ expired' = [expired EXCEPT ![t] = TRUE]
    /\ channel' = [channel EXCEPT ![t] = <<>>]
    /\ unprocessed' = [unprocessed EXCEPT ![t] = responses[t]]
    /\ CloseTracker(t)
    /\ concluded' = concluded \cup {t}
    /\ UNCHANGED <<mode, snapshot, holder, unsent, responses, deferred,
                   handlerVars, lastCursor, dbCursor, toFlush, restarts>>

(* The dispatch timeout expires. *)
DeadlinePasses(t) ==
    /\ mode # "down" /\ Expecting(t)
    /\ expired' = [expired EXCEPT ![t] = TRUE]
    /\ channel' = [channel EXCEPT ![t] = <<>>]
    /\ unprocessed' = [unprocessed EXCEPT ![t] = responses[t]]
    /\ CloseTracker(t)
    /\ concluded' = concluded \cup {t}
    /\ UNCHANGED <<mode, snapshot, holder, unsent, responses, deferred,
                   handlerVars, lastCursor, dbCursor, toFlush, restarts>>

AllAnswered(t) ==
    /\ mode # "down" /\ pc[t] = "collecting" /\ ~Expecting(t)
    /\ unprocessed' = [unprocessed EXCEPT ![t] = responses[t]]
    /\ channel' = [channel EXCEPT ![t] = <<>>]
    /\ CloseTracker(t)
    /\ concluded' = concluded \cup {t}
    /\ UNCHANGED <<mode, snapshot, holder, unsent, responses, deferred, expired,
                   handlerVars, lastCursor, dbCursor, toFlush, restarts>>

(* One collected answer is processed: its reply is sent or fails, and a    *)
(* trace row is written.  Neither outcome changes what follows.            *)
ProcessAnswer(t) ==
    /\ mode # "down" /\ pc[t] = "replying" /\ unprocessed[t] # <<>>
    /\ unprocessed' = [unprocessed EXCEPT ![t] = Tail(@)]
    /\ UNCHANGED <<mode, pc, snapshot, holder, tracker, unsent, channel,
                   responses, deferred, expired, handlerVars, cursorVars,
                   restarts>>

Release(t) == holder' = [holder EXCEPT ![BucketOf[IdOf[t]]] = NoTask]

(* A deferred event ends without touching the cursor. *)
FinishDeferred(t) ==
    /\ mode # "down" /\ pc[t] = "replying" /\ unprocessed[t] = <<>>
    /\ deferred[t]
    /\ pc' = [pc EXCEPT ![t] = "done"]
    /\ Release(t)
    /\ UNCHANGED <<mode, snapshot, tracker, unsent, channel, responses,
                   deferred, expired, unprocessed, handlerVars, cursorVars,
                   restarts>>

(* Mutation: the cursor moves for a deferred event too. *)
AdvanceAlways(t) ==
    /\ mode # "down" /\ pc[t] = "replying" /\ unprocessed[t] = <<>>
    /\ lastCursor' = [lastCursor EXCEPT ![BotOf[t]] = Timestamp[t]]
    /\ pc' = [pc EXCEPT ![t] = "saving"]
    /\ UNCHANGED <<mode, snapshot, holder, tracker, unsent, channel, responses,
                   deferred, expired, unprocessed, handlerVars, dbCursor,
                   toFlush, concluded, restarts>>

AdvanceCursor(t) ==
    /\ mode # "down" /\ pc[t] = "replying" /\ unprocessed[t] = <<>>
    /\ ~deferred[t]
    /\ lastCursor' = [lastCursor EXCEPT ![BotOf[t]] = Timestamp[t]]
    /\ pc' = [pc EXCEPT ![t] = "saving"]
    /\ UNCHANGED <<mode, snapshot, holder, tracker, unsent, channel, responses,
                   deferred, expired, unprocessed, handlerVars, dbCursor,
                   toFlush, concluded, restarts>>

(* save_cursor, which may fail; the task ends either way. *)
SaveCursor(t) ==
    /\ mode # "down" /\ pc[t] = "saving"
    /\ dbCursor' \in {dbCursor, [dbCursor EXCEPT ![BotOf[t]] = Timestamp[t]]}
    /\ pc' = [pc EXCEPT ![t] = "done"]
    /\ Release(t)
    /\ UNCHANGED <<mode, snapshot, tracker, unsent, channel, responses,
                   deferred, expired, unprocessed, handlerVars, lastCursor,
                   toFlush, concluded, restarts>>

-----------------------------------------------------------------------------
(* Shutdown, crash and restart.                                            *)

(* flush_cursors reads every cursor, then writes them one by one while     *)
(* dispatch tasks still run.                                               *)
BeginShutdown ==
    /\ mode = "running"
    /\ mode' = "flushing"
    /\ toFlush' = lastCursor
    /\ UNCHANGED <<taskVars, handlerVars, lastCursor, dbCursor, concluded,
                   restarts>>

FlushCursor(b) ==
    /\ mode = "flushing" /\ toFlush[b] # NoCursor
    /\ dbCursor' = [dbCursor EXCEPT ![b] = toFlush[b]]
    /\ toFlush' = [toFlush EXCEPT ![b] = NoCursor]
    /\ UNCHANGED <<mode, taskVars, handlerVars, lastCursor, concluded, restarts>>

(* The process ends, with or without a shutdown: only the tables remain.   *)
Stop ==
    /\ mode # "down"
    /\ mode' = "down"
    /\ connected' = {}
    /\ holder' = [b \in Buckets |-> NoTask]
    /\ tracker' = [i \in Ids |-> NoTracker]
    /\ UNCHANGED <<registered, delivered, given, pc, snapshot, unsent, channel,
                   responses, deferred, expired, unprocessed, cursorVars,
                   restarts>>

(* The row of a bot in the cursors table, if it has one. *)
LoadCursor(b) == dbCursor[b]

(* Mutation: the cursor without the tweak. *)
ReplayedUntweaked(t) ==
    \/ LoadCursor(BotOf[t]) = NoCursor
    \/ WrapTime[t] >= LoadCursor(BotOf[t])

(* subscribe_bots asks the relays for what is not older than the cursor    *)
(* minus the largest tweak of a wrapper's time; the rest is not seen again. *)
Replayed(t) ==
    \/ LoadCursor(BotOf[t]) = NoCursor
    \/ WrapTime[t] >= LoadCursor(BotOf[t]) - Tweak

Restart ==
    /\ mode = "down" /\ restarts < MaxRestarts
    /\ restarts' = restarts + 1
    /\ mode' = "running"
    /\ pc' = [t \in Tasks |-> IF Replayed(t) THEN "waiting" ELSE "skipped"]
    /\ snapshot' = [t \in Tasks |-> {}]
    /\ unsent' = [t \in Tasks |-> {}]
    /\ channel' = [t \in Tasks |-> <<>>]
    /\ responses' = [t \in Tasks |-> <<>>]
    /\ deferred' = [t \in Tasks |-> FALSE]
    /\ expired' = [t \in Tasks |-> FALSE]
    /\ unprocessed' = [t \in Tasks |-> <<>>]
    /\ lastCursor' = [b \in Bots |-> NoCursor]
    /\ toFlush' = [b \in Bots |-> NoCursor]
    /\ UNCHANGED <<holder, tracker, handlerVars, dbCursor, concluded>>

TaskStep(t) ==
    \/ OpenTracker(t)
    \/ Collect(t)
    \/ CollectDefer(t)
    \/ DeadlinePasses(t)
    \/ AllAnswered(t)
    \/ ProcessAnswer(t)
    \/ FinishDeferred(t)
    \/ AdvanceCursor(t)
    \/ SaveCursor(t)

HandlerStep(h) ==
    \/ Connect(h)
    \/ Disconnect(h)
    \/ \E t \in Tasks, a \in Actions : HandleResponse(h, t, a)
    \/ \E t \in Tasks : SendEvent(t, h)

Next ==
    \/ \E h \in Handlers : HandlerStep(h)
    \/ \E t \in Tasks : Arrive(t) \/ DropGroupMessage(t) \/ TaskStep(t)
    \/ BeginShutdown
    \/ \E b \in Bots : FlushCursor(b)
    \/ Stop
    \/ Restart

Spec == Init /\ [][Next]_vars

(* Tokio polls every dispatch task that can go on, and deadlines pass. *)
FairSpec == Spec /\ \A t \in Tasks : WF_vars(TaskStep(t))

-----------------------------------------------------------------------------
(* Properties.                                                             *)

(* The tracker under an event id is always the one of the task that        *)
(* collects answers for it: the lock of the id keeps two dispatches of one *)
(* wire event from overwriting each other, removal by one task never takes *)
(* another's tracker, and no tracker outlives its task.                    *)
TrackerIsCollectors ==
    mode # "down" =>
        /\ \A t \in Tasks :
              pc[t] = "collecting" => tracker[IdOf[t]].task = t
        /\ \A i \in Ids : tracker[i] # NoTracker =>
              pc[tracker[i].task] = "collecting" /\ IdOf[tracker[i].task] = i

Answered(t) == {responses[t][i].from : i \in 1 .. Len(responses[t])}

(* The loop that counts answers stops for the right reason: a dispatch     *)
(* that goes on to move the cursor has a terminal answer of every handler  *)
(* in its snapshot, or its deadline passed.  Counting messages is enough   *)
(* because a tracker takes one answer of a handler, and none of others.    *)
CursorAfterTerminal ==
    \A t \in Tasks :
        pc[t] \in {"replying", "saving", "done"} /\ ~deferred[t] /\ ~expired[t]
            => Answered(t) = snapshot[t]

(* A persisted cursor is the time of an event of that bot whose collection *)
(* ended with terminal answers or its deadline, never of a deferred or     *)
(* unfinished one, whatever the order of tasks, flush, crash and restart.  *)
CursorIsConcluded ==
    \A b \in Bots : dbCursor[b] # NoCursor =>
        \E t \in concluded : BotOf[t] = b /\ Timestamp[t] = dbCursor[b]

(* Where a task is, apart from what it still has to do once its collection *)
(* has ended.                                                              *)
StageOf(t) ==
    IF pc[t] \notin {"replying", "saving", "done"} THEN pc[t]
    ELSE IF deferred[t] THEN "deferred"
    ELSE IF expired[t] THEN "expired" ELSE "answered"

(* Locks, trackers, channels, counting, replies and the cursor in memory   *)
(* are invisible from outside: dispatch is EventDelivery, in which a       *)
(* handler is asked only for a bot it serves and heard once, an event is   *)
(* concluded by all answers or by a deadline that found one missing, and   *)
(* only concluded events move a cursor, across crashes and restarts.       *)
Delivery == INSTANCE EventDelivery WITH
    up <- mode # "down",
    stage <- [t \in Tasks |-> StageOf(t)],
    asked <- snapshot,
    heard <- [t \in Tasks |-> Answered(t)],
    cursor <- dbCursor
DeliveryRefines == Delivery!Spec

(* A hung or vanished handler does not hold a dispatch up: every task that *)
(* has started ends, the ones queued behind it for a lock included, unless *)
(* the daemon stops first.                                                 *)
DispatchEnds ==
    \A t \in Tasks : pc[t] = "locking" ~> (pc[t] = "done" \/ mode = "down")

=============================================================================
