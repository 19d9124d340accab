------------------------- MODULE EventDispatchProofs -------------------------
(***************************************************************************)
(* Proofs about EventDispatch for any number of events, bots, handlers and *)
(* lock buckets, any timestamps and any number of restarts.                *)
(*                                                                         *)
(* First the invariants of locks, trackers and cursors, then the counting  *)
(* of answers, and last that dispatch implements EventDelivery.            *)
(***************************************************************************)
EXTENDS EventDispatch, FiniteSetTheorems, TLAPS

(* Every step of the dispatch, of handlers and of shutdown keeps the types. *)
LEMMA TypeStep == TypeOK /\ [Next]_vars => TypeOK'
<1> SUFFICES ASSUME TypeOK, [Next]_vars PROVE TypeOK'
  OBVIOUS
<1> USE DispatchAssumption
<1>1. ASSUME NEW h \in Handlers, Connect(h) PROVE TypeOK'
  BY <1>1 DEF TypeOK, Connect, taskVars, cursorVars
<1>2. ASSUME NEW h \in Handlers, Disconnect(h) PROVE TypeOK'
  BY <1>2 DEF TypeOK, Disconnect, taskVars, cursorVars
<1>3. ASSUME NEW h \in Handlers, NEW t \in Tasks, NEW a \in Actions,
             HandleResponse(h, t, a)
      PROVE  TypeOK'
  <2> DEFINE p == tracker[IdOf[t]]
             ans == [from |-> h, to |-> t, action |-> a]
  <2>1. IdOf[t] \in Ids /\ ans \in Answers
    BY DEF Answers
  <2>2. given' \in [Tasks -> [Handlers -> 0 .. MaxAnswers]]
    <3>1. given[t] \in [Handlers -> 0 .. MaxAnswers]
      BY DEF TypeOK
    <3>2. given[t][h] + 1 \in 0 .. MaxAnswers
      BY <1>3, <3>1 DEF HandleResponse
    <3>3. [given[t] EXCEPT ![h] = @ + 1] \in [Handlers -> 0 .. MaxAnswers]
      BY <3>1, <3>2
    <3>4. given' = [given EXCEPT ![t] = [given[t] EXCEPT ![h] = @ + 1]]
      BY <1>3 DEF HandleResponse
    <3> QED
      BY <3>3, <3>4 DEF TypeOK
  <2>3. CASE p # NoTracker /\ h \in p.handlers \ p.counted
    <3>1. p \in [task : Tasks, handlers : SUBSET Handlers,
                 counted : SUBSET Handlers]
      BY <2>1, <2>3 DEF TypeOK
    <3>2. tracker' = [tracker EXCEPT ![IdOf[t]] =
                        [p EXCEPT !.counted = @ \cup {h}]]
      BY <1>3, <2>3 DEF HandleResponse
    <3>3. channel' = [channel EXCEPT ![p.task] = Append(@, ans)]
      BY <1>3, <2>3 DEF HandleResponse
    <3>4. channel' \in [Tasks -> Seq(Answers)]
      BY <2>1, <3>1, <3>3 DEF TypeOK
    <3>5. [p EXCEPT !.counted = @ \cup {h}] \in
             [task : Tasks, handlers : SUBSET Handlers, counted : SUBSET Handlers]
      BY <3>1
    <3>6. tracker' \in [Ids -> {NoTracker} \cup
             [task : Tasks, handlers : SUBSET Handlers, counted : SUBSET Handlers]]
      BY <2>1, <3>2, <3>5 DEF TypeOK
    <3> QED
      BY <1>3, <2>2, <3>4, <3>6 DEF TypeOK, HandleResponse, cursorVars
  <2>4. CASE ~(p # NoTracker /\ h \in p.handlers \ p.counted)
    BY <1>3, <2>2, <2>4 DEF TypeOK, HandleResponse, cursorVars
  <2> QED
    BY <2>3, <2>4
<1>4. ASSUME NEW h \in Handlers, NEW t \in Tasks, SendEvent(t, h) PROVE TypeOK'
  BY <1>4 DEF TypeOK, SendEvent, cursorVars
<1>5. ASSUME NEW t \in Tasks, Arrive(t) PROVE TypeOK'
  <2>1. Find(t) \in SUBSET Handlers
    BY DEF TypeOK, Find
  <2>2. pc' \in [Tasks -> PCs]
    BY <1>5 DEF TypeOK, Arrive, PCs
  <2>3. snapshot' \in [Tasks -> SUBSET Handlers]
    BY <1>5, <2>1 DEF TypeOK, Arrive
  <2> QED
    BY <1>5, <2>2, <2>3 DEF TypeOK, Arrive, handlerVars, cursorVars
<1>20. ASSUME NEW t \in Tasks, DropGroupMessage(t) PROVE TypeOK'
  BY <1>20 DEF TypeOK, DropGroupMessage, PCs, handlerVars, cursorVars
<1>6. ASSUME NEW t \in Tasks, OpenTracker(t) PROVE TypeOK'
  BY <1>6 DEF TypeOK, OpenTracker, Tracker, PCs, handlerVars, cursorVars
<1>7. ASSUME NEW t \in Tasks, Collect(t) PROVE TypeOK'
  BY <1>7 DEF TypeOK, Collect, handlerVars, cursorVars
<1>8. ASSUME NEW t \in Tasks, CollectDefer(t) PROVE TypeOK'
  BY <1>8 DEF TypeOK, CollectDefer, CloseTracker, PCs, handlerVars, cursorVars
<1>9. ASSUME NEW t \in Tasks, DeadlinePasses(t) PROVE TypeOK'
  <2>1. channel' \in [Tasks -> Seq(Answers)]
    BY <1>9 DEF TypeOK, DeadlinePasses
  <2>2. unprocessed' \in [Tasks -> Seq(Answers)]
    BY <1>9 DEF TypeOK, DeadlinePasses
  <2> QED
    BY <1>9, <2>1, <2>2
       DEF TypeOK, DeadlinePasses, CloseTracker, PCs, handlerVars
<1>10. ASSUME NEW t \in Tasks, AllAnswered(t) PROVE TypeOK'
  <2>1. channel' \in [Tasks -> Seq(Answers)]
    BY <1>10 DEF TypeOK, AllAnswered
  <2>2. unprocessed' \in [Tasks -> Seq(Answers)]
    BY <1>10 DEF TypeOK, AllAnswered
  <2> QED
    BY <1>10, <2>1, <2>2
       DEF TypeOK, AllAnswered, CloseTracker, PCs, handlerVars
<1>11. ASSUME NEW t \in Tasks, ProcessAnswer(t) PROVE TypeOK'
  <2>1. unprocessed' \in [Tasks -> Seq(Answers)]
    BY <1>11 DEF TypeOK, ProcessAnswer
  <2> QED
    BY <1>11, <2>1 DEF TypeOK, ProcessAnswer, handlerVars, cursorVars
<1>12. ASSUME NEW t \in Tasks, FinishDeferred(t) PROVE TypeOK'
  BY <1>12 DEF TypeOK, FinishDeferred, Release, PCs, handlerVars, cursorVars
<1>13. ASSUME NEW t \in Tasks, AdvanceCursor(t) PROVE TypeOK'
  BY <1>13 DEF TypeOK, AdvanceCursor, Cursors, PCs, handlerVars
<1>14. ASSUME NEW t \in Tasks, SaveCursor(t) PROVE TypeOK'
  <2>1. dbCursor' \in [Bots -> Cursors]
    BY <1>14 DEF TypeOK, SaveCursor, Cursors
  <2>2. pc' \in [Tasks -> PCs]
    BY <1>14 DEF TypeOK, SaveCursor, PCs
  <2>3. holder' \in [Buckets -> Tasks \cup {NoTask}]
    BY <1>14 DEF TypeOK, SaveCursor, Release
  <2> QED
    BY <1>14, <2>1, <2>2, <2>3 DEF TypeOK, SaveCursor, handlerVars
<1>15. CASE BeginShutdown
  BY <1>15 DEF TypeOK, BeginShutdown, taskVars, handlerVars
<1>16. ASSUME NEW b \in Bots, FlushCursor(b) PROVE TypeOK'
  BY <1>16 DEF TypeOK, FlushCursor, Cursors, taskVars, handlerVars
<1>17. CASE Stop
  BY <1>17 DEF TypeOK, Stop, cursorVars
<1>18. CASE Restart
  BY <1>18 DEF TypeOK, Restart, Cursors, PCs, handlerVars
<1>19. CASE UNCHANGED vars
  BY <1>19 DEF TypeOK, vars, taskVars, handlerVars, cursorVars
<1> QED
  BY <1>1, <1>2, <1>3, <1>4, <1>5, <1>6, <1>7, <1>8, <1>9, <1>10, <1>11,
     <1>12, <1>13, <1>14, <1>15, <1>16, <1>17, <1>18, <1>19, <1>20
     DEF Next, HandlerStep, TaskStep

-----------------------------------------------------------------------------
(* The inductive invariant.                                                *)

(* A task from its tracker to its end holds the lock of its event id. *)
HolderInv ==
    mode # "down" => \A t \in Tasks :
        pc[t] \in {"collecting", "replying", "saving"}
            => holder[BucketOf[IdOf[t]]] = t

(* A stopped daemon has neither locks nor trackers. *)
DownInv ==
    mode = "down" => /\ holder = [b \in Buckets |-> NoTask]
                     /\ tracker = [i \in Ids |-> NoTracker]

(* Whoever is about to move or save a cursor is concluded. *)
ConcludedInv ==
    \A t \in Tasks :
        (pc[t] = "replying" /\ ~deferred[t]) \/ pc[t] = "saving"
            => t \in concluded

(* c is no cursor of bot b, or the time of a concluded event of b. *)
IsCursorOf(c, b) ==
    c # NoCursor => \E t \in concluded : BotOf[t] = b /\ Timestamp[t] = c

CursorInv ==
    \A b \in Bots : /\ IsCursorOf(lastCursor[b], b)
                    /\ IsCursorOf(toFlush[b], b)
                    /\ IsCursorOf(dbCursor[b], b)

DispatchInv ==
    /\ TypeOK
    /\ TrackerIsCollectors
    /\ HolderInv
    /\ DownInv
    /\ ConcludedInv
    /\ CursorInv

(* The initial state satisfies the invariant. *)
LEMMA DispatchInit == Init => DispatchInv
<1> SUFFICES ASSUME Init PROVE DispatchInv
  OBVIOUS
<1> USE DispatchAssumption
<1>1. TypeOK
  BY DEF Init, TypeOK, PCs, Cursors
<1>2. TrackerIsCollectors /\ HolderInv /\ DownInv
  BY DEF Init, TrackerIsCollectors, HolderInv, DownInv, NoTracker
<1>3. ConcludedInv /\ CursorInv
  BY DEF Init, ConcludedInv, CursorInv, IsCursorOf
<1> QED
  BY <1>1, <1>2, <1>3 DEF DispatchInv

(* Locks and trackers: what a step does to the pair of a task and its id.  *)
LEMMA LockStep ==
    DispatchInv /\ [Next]_vars => (TrackerIsCollectors /\ HolderInv /\ DownInv)'
<1> SUFFICES ASSUME DispatchInv, [Next]_vars
             PROVE  (TrackerIsCollectors /\ HolderInv /\ DownInv)'
  OBVIOUS
<1> USE DispatchAssumption DEF DispatchInv
<1> DEFINE Goal == TrackerIsCollectors /\ HolderInv /\ DownInv
<1>1. ASSUME UNCHANGED <<mode, pc, holder, tracker>> PROVE Goal'
  BY <1>1 DEF TrackerIsCollectors, HolderInv, DownInv
<1>2. ASSUME NEW h \in Handlers, NEW t \in Tasks, NEW a \in Actions,
             HandleResponse(h, t, a)
      PROVE  Goal'
  <2> DEFINE p == tracker[IdOf[t]]
  <2>1. CASE p # NoTracker /\ h \in p.handlers \ p.counted
    <3>1. tracker' = [tracker EXCEPT ![IdOf[t]] =
                        [p EXCEPT !.counted = @ \cup {h}]]
      BY <1>2, <2>1 DEF HandleResponse
    <3>2. IdOf[t] \in Ids /\ p \in [task : Tasks, handlers : SUBSET Handlers,
                                    counted : SUBSET Handlers]
      BY <2>1 DEF TypeOK
    <3>3. \A i \in Ids : tracker'[i].task = tracker[i].task
      BY <3>1, <3>2 DEF TypeOK
    <3>4. \A i \in Ids : tracker'[i] # NoTracker => tracker[i] # NoTracker
      BY <2>1, <3>1, <3>2 DEF TypeOK
    <3> QED
      BY <1>2, <3>3, <3>4
         DEF TypeOK, HandleResponse, TrackerIsCollectors, HolderInv, DownInv
  <2>2. CASE ~(p # NoTracker /\ h \in p.handlers \ p.counted)
    BY <1>1, <1>2, <2>2 DEF HandleResponse
  <2> QED
    BY <2>1, <2>2
<1>3. ASSUME NEW t \in Tasks, Arrive(t) \/ DropGroupMessage(t) PROVE Goal'
  BY <1>3, SMTT(30)
     DEF TypeOK, Arrive, DropGroupMessage, TrackerIsCollectors, HolderInv, DownInv
<1>4. ASSUME NEW t \in Tasks, OpenTracker(t) PROVE Goal'
  <2>1. IdOf[t] \in Ids /\ BucketOf[IdOf[t]] \in Buckets
    OBVIOUS
  <2>2. \A u \in Tasks : pc[u] \in {"collecting", "replying", "saving"}
            => BucketOf[IdOf[u]] # BucketOf[IdOf[t]]
    BY <1>4 DEF OpenTracker, HolderInv
  <2>3. HolderInv'
    BY <1>4, <2>1, <2>2 DEF TypeOK, OpenTracker, HolderInv
  <2>4. tracker'[IdOf[t]].task = t
    BY <1>4, <2>1 DEF TypeOK, OpenTracker, Tracker
  <2>5. TrackerIsCollectors'
    BY <1>4, <2>1, <2>2, <2>4 DEF TypeOK, OpenTracker, TrackerIsCollectors
  <2> QED
    BY <1>4, <2>3, <2>5 DEF OpenTracker, DownInv
<1>5. ASSUME NEW t \in Tasks, pc[t] = "collecting", mode # "down",
             CloseTracker(t), UNCHANGED <<mode, holder>>
      PROVE  Goal'
  <2>1. IdOf[t] \in Ids /\ BucketOf[IdOf[t]] \in Buckets
    OBVIOUS
  <2>2. \A u \in Tasks : pc[u] = "collecting" /\ IdOf[u] = IdOf[t] => u = t
    BY <1>5 DEF TrackerIsCollectors
  <2>3. tracker'[IdOf[t]] = NoTracker
    BY <1>5, <2>1 DEF TypeOK, CloseTracker
  <2>4. TrackerIsCollectors'
    BY <1>5, <2>1, <2>2, <2>3 DEF TypeOK, CloseTracker, TrackerIsCollectors
  <2> QED
    BY <1>5, <2>4 DEF TypeOK, CloseTracker, HolderInv, DownInv
<1>6. ASSUME NEW t \in Tasks, pc[t] \in {"replying", "saving"}, mode # "down",
             pc' = [pc EXCEPT ![t] = "done"], Release(t),
             UNCHANGED <<mode, tracker>>
      PROVE  Goal'
  <2>1. \A u \in Tasks : u # t /\ pc[u] \in {"collecting", "replying", "saving"}
            => BucketOf[IdOf[u]] # BucketOf[IdOf[t]]
    BY <1>6 DEF HolderInv
  <2>2. HolderInv'
    BY <1>6, <2>1 DEF TypeOK, Release, HolderInv
  <2> QED
    BY <1>6, <2>2 DEF TypeOK, TrackerIsCollectors, DownInv
<1>7. ASSUME NEW t \in Tasks, AdvanceCursor(t) PROVE Goal'
  BY <1>7 DEF TypeOK, AdvanceCursor, TrackerIsCollectors, HolderInv, DownInv
<1>8. CASE BeginShutdown
  BY <1>8 DEF BeginShutdown, taskVars, TrackerIsCollectors, HolderInv, DownInv
<1>9. CASE Stop
  BY <1>9 DEF Stop, TrackerIsCollectors, HolderInv, DownInv
<1>10. CASE Restart
  BY <1>10 DEF Restart, TrackerIsCollectors, HolderInv, DownInv
<1>11. ASSUME NEW t \in Tasks, TaskStep(t) PROVE Goal'
  <2>1. CASE CollectDefer(t) \/ DeadlinePasses(t) \/ AllAnswered(t)
    BY <1>5, <2>1 DEF CollectDefer, DeadlinePasses, AllAnswered, Expecting
  <2>2. CASE FinishDeferred(t) \/ SaveCursor(t)
    BY <1>6, <2>2 DEF FinishDeferred, SaveCursor
  <2>3. CASE Collect(t) \/ ProcessAnswer(t)
    BY <1>1, <2>3 DEF Collect, ProcessAnswer
  <2> QED
    BY <1>4, <1>7, <1>11, <2>1, <2>2, <2>3 DEF TaskStep
<1>12. ASSUME NEW h \in Handlers, HandlerStep(h) PROVE Goal'
  BY <1>1, <1>2, <1>12 DEF HandlerStep, Connect, Disconnect, SendEvent, taskVars
<1>13. ASSUME NEW b \in Bots, FlushCursor(b) PROVE Goal'
  BY <1>1, <1>13 DEF FlushCursor, taskVars
<1>14. CASE UNCHANGED vars
  BY <1>1, <1>14 DEF vars, taskVars
<1> QED
  BY <1>3, <1>8, <1>9, <1>10, <1>11, <1>12, <1>13, <1>14 DEF Next

(* Cursors: the history of concluded events only grows, and each of the    *)
(* three places a cursor is written to takes it from a concluded event or  *)
(* from another of the three.                                              *)
LEMMA CursorStep ==
    DispatchInv /\ [Next]_vars => (ConcludedInv /\ CursorInv)'
<1> SUFFICES ASSUME DispatchInv, [Next]_vars PROVE (ConcludedInv /\ CursorInv)'
  OBVIOUS
<1> USE DispatchAssumption DEF DispatchInv
<1> DEFINE Goal == ConcludedInv /\ CursorInv
<1>1. ASSUME concluded \subseteq concluded',
             UNCHANGED <<lastCursor, dbCursor, toFlush>>
      PROVE  CursorInv'
  BY <1>1 DEF CursorInv, IsCursorOf
<1>2. ASSUME UNCHANGED <<pc, deferred, cursorVars>> PROVE Goal'
  BY <1>1, <1>2 DEF cursorVars, ConcludedInv
<1>3. ASSUME NEW t \in Tasks, \/ Arrive(t) \/ DropGroupMessage(t)
                               \/ OpenTracker(t) \/ FinishDeferred(t)
      PROVE  Goal'
  <2>1. UNCHANGED <<deferred, cursorVars>>
    BY <1>3 DEF Arrive, DropGroupMessage, OpenTracker, FinishDeferred
  <2>2. \A u \in Tasks : pc'[u] \in {"replying", "saving"} => pc'[u] = pc[u]
    BY <1>3 DEF TypeOK, Arrive, DropGroupMessage, OpenTracker, FinishDeferred
  <2>3. ConcludedInv'
    BY <2>1, <2>2 DEF ConcludedInv, cursorVars
  <2> QED
    BY <1>1, <2>1, <2>3 DEF cursorVars
<1>4. ASSUME NEW t \in Tasks, CollectDefer(t) PROVE Goal'
  BY <1>1, <1>4
     DEF TypeOK, CollectDefer, CloseTracker, ConcludedInv, cursorVars
<1>5. ASSUME NEW t \in Tasks, DeadlinePasses(t) \/ AllAnswered(t) PROVE Goal'
  <2>1. concluded' = concluded \cup {t}
    BY <1>5 DEF DeadlinePasses, AllAnswered
  <2> QED
    BY <1>1, <1>5, <2>1
       DEF TypeOK, DeadlinePasses, AllAnswered, CloseTracker, ConcludedInv
<1>6. ASSUME NEW t \in Tasks, AdvanceCursor(t) PROVE Goal'
  <2>1. t \in concluded
    BY <1>6 DEF AdvanceCursor, ConcludedInv
  <2>2. BotOf[t] \in Bots
    OBVIOUS
  <2>3. CursorInv'
    BY <1>6, <2>1, <2>2 DEF TypeOK, AdvanceCursor, CursorInv, IsCursorOf
  <2> QED
    BY <1>6, <2>1, <2>3 DEF TypeOK, AdvanceCursor, ConcludedInv
<1>7. ASSUME NEW t \in Tasks, SaveCursor(t) PROVE Goal'
  <2>1. t \in concluded
    BY <1>7 DEF SaveCursor, ConcludedInv
  <2>2. BotOf[t] \in Bots
    OBVIOUS
  <2>3. CursorInv'
    BY <1>7, <2>1, <2>2 DEF TypeOK, SaveCursor, CursorInv, IsCursorOf
  <2> QED
    BY <1>7, <2>1, <2>3 DEF TypeOK, SaveCursor, ConcludedInv
<1>8. CASE BeginShutdown
  BY <1>8 DEF BeginShutdown, taskVars, ConcludedInv, CursorInv, IsCursorOf
<1>9. ASSUME NEW b \in Bots, FlushCursor(b) PROVE Goal'
  BY <1>9
     DEF TypeOK, FlushCursor, taskVars, ConcludedInv, CursorInv, IsCursorOf
<1>10. CASE Stop
  BY <1>2, <1>10 DEF Stop
<1>11. CASE Restart
  BY <1>11 DEF TypeOK, Restart, ConcludedInv, CursorInv, IsCursorOf
<1>12. ASSUME NEW h \in Handlers, HandlerStep(h) PROVE Goal'
  BY <1>2, <1>12
     DEF HandlerStep, Connect, Disconnect, HandleResponse, SendEvent, taskVars
<1>13. ASSUME NEW t \in Tasks, Collect(t) \/ ProcessAnswer(t) PROVE Goal'
  BY <1>2, <1>13 DEF Collect, ProcessAnswer
<1>14. CASE UNCHANGED vars
  BY <1>2, <1>14 DEF vars, taskVars
<1> QED
  BY <1>3, <1>4, <1>5, <1>6, <1>7, <1>8, <1>9, <1>10, <1>11, <1>12, <1>13, <1>14
     DEF Next, TaskStep

(* The invariant holds in every reachable state of the dispatcher. *)
THEOREM DispatchInvariant == Spec => []DispatchInv
<1>1. DispatchInv /\ [Next]_vars => DispatchInv'
  BY TypeStep, LockStep, CursorStep DEF DispatchInv
<1> QED
  BY DispatchInit, <1>1, PTL DEF Spec

(* Type correctness of the dispatcher. *)
THEOREM DispatchTypes == Spec => []TypeOK
  BY DispatchInvariant, PTL DEF DispatchInv

(* However many dispatches share an event id or a lock bucket, the tracker *)
(* under an id is the one of the task that collects for it.                *)
THEOREM TrackersSafe == Spec => []TrackerIsCollectors
  BY DispatchInvariant, PTL DEF DispatchInv

(* A persisted cursor is always the time of an event of its bot whose      *)
(* dispatch was concluded, whatever fails, stops or overlaps.              *)
THEOREM CursorsConcluded == Spec => []CursorIsConcluded
<1>1. DispatchInv => CursorIsConcluded
  BY DEF DispatchInv, CursorInv, IsCursorOf, CursorIsConcluded
<1> QED
  BY DispatchInvariant, <1>1, PTL

-----------------------------------------------------------------------------
(* Counting answers.                                                       *)

(* The answers of s come from distinct handlers, all of them in S. *)
OncePerHandler(s, S) ==
    /\ \A i \in 1 .. Len(s) : s[i].from \in S
    /\ \A i, j \in 1 .. Len(s) : s[i].from = s[j].from => i = j

(* What a task has collected and what waits in its channel come from       *)
(* distinct handlers of its snapshot, which its tracker has counted.       *)
Counted(t) ==
    /\ tracker[IdOf[t]].handlers = snapshot[t]
    /\ tracker[IdOf[t]].counted \subseteq snapshot[t]
    /\ OncePerHandler(responses[t], tracker[IdOf[t]].counted)
    /\ OncePerHandler(channel[t], tracker[IdOf[t]].counted)
    /\ \A i \in 1 .. Len(responses[t]), j \in 1 .. Len(channel[t]) :
          responses[t][i].from # channel[t][j].from

CountedInv ==
    mode # "down" => \A t \in Tasks : pc[t] = "collecting" => Counted(t)

(* A task that has not opened its tracker has no answers. *)
FreshInv ==
    \A t \in Tasks : pc[t] \in {"waiting", "locking"} =>
        responses[t] = <<>> /\ channel[t] = <<>>

(* Counting is enough: as many answers as there are handlers, each from a  *)
(* handler of its own, are the answers of all handlers.                    *)
LEMMA CountIsEnough ==
    ASSUME NEW S, IsFiniteSet(S), NEW s \in Seq(Answers),
           OncePerHandler(s, S), Len(s) >= Cardinality(S)
    PROVE  {s[i].from : i \in 1 .. Len(s)} = S
<1> DEFINE f == [i \in 1 .. Len(s) |-> s[i].from]
<1>1. f \in Injection(1 .. Len(s), S)
  BY DEF OncePerHandler, Injection, IsInjective
<1>2. Len(s) \in Nat
  OBVIOUS
<1>3. Cardinality(1 .. Len(s)) = Len(s)
  BY <1>2, FS_Interval, SMTT(30)
<1>4. Cardinality(1 .. Len(s)) <= Cardinality(S)
  BY <1>1, FS_Injection
<1>5. Cardinality(S) \in Nat
  BY FS_CardinalityType
<1>6. Cardinality(1 .. Len(s)) = Cardinality(S)
  BY <1>2, <1>3, <1>4, <1>5
<1>7. f \in Surjection(1 .. Len(s), S)
  BY <1>1, <1>6, FS_Injection
<1> QED
  BY <1>7 DEF Surjection

(* One more answer, of a handler not counted before. *)
LEMMA AppendOnce ==
    ASSUME NEW S, NEW h, h \notin S, NEW s \in Seq(Answers),
           OncePerHandler(s, S), NEW m \in Answers, m.from = h
    PROVE  OncePerHandler(Append(s, m), S \cup {h})
<1>1. Len(Append(s, m)) = Len(s) + 1 /\ Len(s) \in Nat
  OBVIOUS
<1>2. \A i \in 1 .. Len(s) + 1 :
          Append(s, m)[i] = IF i <= Len(s) THEN s[i] ELSE m
  OBVIOUS
<1> QED
  BY <1>1, <1>2 DEF OncePerHandler

LEMMA TailOnce ==
    ASSUME NEW S, NEW s \in Seq(Answers), s # <<>>, OncePerHandler(s, S)
    PROVE  /\ OncePerHandler(Tail(s), S)
           /\ \A i \in 1 .. Len(Tail(s)) : Tail(s)[i].from # Head(s).from
<1>1. Len(Tail(s)) = Len(s) - 1 /\ Len(s) \in Nat \ {0} /\ Head(s) = s[1]
  OBVIOUS
<1>2. \A i \in 1 .. Len(s) - 1 : Tail(s)[i] = s[i + 1]
  OBVIOUS
<1> QED
  BY <1>1, <1>2 DEF OncePerHandler

(* An answer enters the channel of the one task that collects for its id.  *)
LEMMA ResponseCounted ==
    ASSUME DispatchInv, CountedInv, NEW h \in Handlers, NEW t \in Tasks,
           NEW a \in Actions, HandleResponse(h, t, a)
    PROVE  CountedInv'
<1> USE DispatchAssumption DEF DispatchInv
<1> DEFINE p == tracker[IdOf[t]]
           ans == [from |-> h, to |-> t, action |-> a]
<1>1. mode # "down" /\ UNCHANGED <<mode, pc, snapshot, responses>>
  BY DEF HandleResponse
<1>2. CASE p # NoTracker /\ h \in p.handlers \ p.counted
  <2>1. IdOf[t] \in Ids /\ ans \in Answers
    BY DEF Answers
  <2>2. p \in [task : Tasks, handlers : SUBSET Handlers, counted : SUBSET Handlers]
    BY <1>2, <2>1 DEF TypeOK
  <2>3. PICK w \in Tasks :
              w = p.task /\ pc[w] = "collecting" /\ IdOf[w] = IdOf[t]
    BY <1>1, <1>2, <2>1, <2>2 DEF TrackerIsCollectors
  <2>4. tracker' = [tracker EXCEPT ![IdOf[t]] =
                      [p EXCEPT !.counted = @ \cup {h}]]
    BY <1>2 DEF HandleResponse
  <2>5. channel' = [channel EXCEPT ![w] = Append(@, ans)]
    BY <1>2, <2>3 DEF HandleResponse
  <2>6. /\ tracker'[IdOf[t]].handlers = p.handlers
        /\ tracker'[IdOf[t]].counted = p.counted \cup {h}
    BY <2>1, <2>2, <2>4 DEF TypeOK
  <2>7. Counted(w)
    BY <1>1, <2>3 DEF CountedInv
  <2>8. Counted(w)'
    <3>1. channel'[w] = Append(channel[w], ans) /\ channel[w] \in Seq(Answers)
          /\ responses[w] \in Seq(Answers)
      BY <2>3, <2>5 DEF TypeOK
    <3>2. OncePerHandler(channel[w], p.counted)
          /\ OncePerHandler(responses[w], p.counted)
      BY <2>3, <2>7 DEF Counted
    <3>3. OncePerHandler(channel'[w], p.counted \cup {h})
      <4>1. h \notin p.counted /\ ans.from = h
        BY <1>2
      <4>2. channel[w] \in Seq(Answers) /\ OncePerHandler(channel[w], p.counted)
        BY <3>1, <3>2
      <4> HIDE DEF ans, p, DispatchInv
      <4>3. OncePerHandler(Append(channel[w], ans), p.counted \cup {h})
        BY <2>1, <4>1, <4>2, AppendOnce, Zenon
      <4> QED
        BY <3>1, <4>3
    <3>4. OncePerHandler(responses[w], p.counted \cup {h})
      BY <3>2 DEF OncePerHandler
    <3>5. \A j \in 1 .. Len(channel'[w]) :
             channel'[w][j] = IF j <= Len(channel[w]) THEN channel[w][j] ELSE ans
      BY <2>1, <3>1
    <3>6. \A i \in 1 .. Len(responses[w]), j \in 1 .. Len(channel'[w]) :
             responses[w][i].from # channel'[w][j].from
      <4> SUFFICES ASSUME NEW i \in 1 .. Len(responses[w]),
                          NEW j \in 1 .. Len(channel'[w])
                   PROVE  responses[w][i].from # channel'[w][j].from
        OBVIOUS
      <4>1. CASE j <= Len(channel[w])
        <5>1. j \in 1 .. Len(channel[w])
          BY <3>1, <4>1
        <5> QED
          BY <2>7, <3>5, <4>1, <5>1 DEF Counted
      <4>2. CASE ~(j <= Len(channel[w]))
        BY <1>2, <3>2, <3>5, <4>2 DEF OncePerHandler
      <4> QED
        BY <4>1, <4>2
    <3>7. /\ tracker'[IdOf[w]].handlers = snapshot'[w] /\ responses'[w] = responses[w]
          /\ tracker'[IdOf[w]].counted = p.counted \cup {h}
      BY <1>1, <2>3, <2>6, <2>7 DEF Counted
    <3>8. p.counted \cup {h} \subseteq snapshot'[w]
      BY <1>1, <1>2, <2>3, <2>7 DEF Counted
    <3> HIDE DEF p, ans
    <3>9. /\ OncePerHandler(responses'[w], tracker'[IdOf[w]].counted)
          /\ OncePerHandler(channel'[w], tracker'[IdOf[w]].counted)
      BY <3>3, <3>4, <3>7
    <3>10. tracker'[IdOf[w]].counted \subseteq snapshot'[w]
      BY <3>7, <3>8
    <3>11. \A i \in 1 .. Len(responses'[w]), j \in 1 .. Len(channel'[w]) :
              responses'[w][i].from # channel'[w][j].from
      BY <3>6, <3>7
    <3>12. OncePerHandler(responses[w], tracker[IdOf[w]].counted)'
           /\ OncePerHandler(channel[w], tracker[IdOf[w]].counted)'
      BY <3>9 DEF OncePerHandler
    <3> QED
      BY <3>7, <3>10, <3>11, <3>12 DEF Counted
  <2>9. ASSUME NEW u \in Tasks, u # w, pc[u] = "collecting" PROVE Counted(u)'
    <3>1. IdOf[u] # IdOf[t]
      BY <1>1, <2>3, <2>9 DEF TrackerIsCollectors
    <3>2. tracker'[IdOf[u]] = tracker[IdOf[u]] /\ channel'[u] = channel[u]
      BY <2>3, <2>4, <2>5, <2>9, <3>1 DEF TypeOK
    <3>3. Counted(u) /\ snapshot'[u] = snapshot[u] /\ responses'[u] = responses[u]
      BY <1>1, <2>9 DEF CountedInv
    <3> HIDE DEF p, ans, DispatchInv
    <3>4. /\ tracker'[IdOf[u]].handlers = snapshot'[u] /\ tracker'[IdOf[u]].counted \subseteq snapshot'[u]
          /\ OncePerHandler(responses[u], tracker[IdOf[u]].counted)
          /\ OncePerHandler(channel[u], tracker[IdOf[u]].counted)
      BY <3>2, <3>3 DEF Counted
    <3>5. (OncePerHandler(responses[u], tracker[IdOf[u]].counted))'
      BY <3>2, <3>3, <3>4 DEF OncePerHandler
    <3>6. (OncePerHandler(channel[u], tracker[IdOf[u]].counted))'
      BY <3>2, <3>4 DEF OncePerHandler
    <3>7. \A i \in 1 .. Len(responses'[u]), j \in 1 .. Len(channel'[u]) :
             responses'[u][i].from # channel'[u][j].from
      BY <3>2, <3>3 DEF Counted
    <3> QED
      BY <3>4, <3>5, <3>6, <3>7 DEF Counted
  <2> QED
    BY <1>1, <2>8, <2>9 DEF CountedInv
<1>3. CASE ~(p # NoTracker /\ h \in p.handlers \ p.counted)
  BY <1>1, <1>3 DEF HandleResponse, CountedInv, Counted
<1> QED
  BY <1>2, <1>3

(* Moving the head of the channel to the collected answers. *)
LEMMA CollectCounted ==
    ASSUME DispatchInv, CountedInv, NEW t \in Tasks, Collect(t)
    PROVE  CountedInv'
<1> USE DispatchAssumption DEF DispatchInv
<1> DEFINE S == tracker[IdOf[t]].counted
           m == Head(channel[t])
<1>1. mode # "down" /\ pc[t] = "collecting" /\ channel[t] # <<>>
      /\ UNCHANGED <<mode, pc, snapshot, tracker>>
  BY DEF Collect, Expecting
<1>2. responses[t] \in Seq(Answers) /\ channel[t] \in Seq(Answers) /\ m \in Answers
  BY <1>1 DEF TypeOK
<1>3. responses'[t] = Append(responses[t], m) /\ channel'[t] = Tail(channel[t])
  BY DEF TypeOK, Collect
<1>4. \A u \in Tasks : u # t => responses'[u] = responses[u]
                                /\ channel'[u] = channel[u]
  BY DEF TypeOK, Collect
<1>5. Counted(t)
  BY <1>1 DEF CountedInv
<1>6. OncePerHandler(Tail(channel[t]), S)
      /\ \A j \in 1 .. Len(Tail(channel[t])) : Tail(channel[t])[j].from # m.from
  <2>1. OncePerHandler(channel[t], S)
    BY <1>5 DEF Counted
  <2> HIDE DEF S, DispatchInv
  <2> QED
    BY <1>1, <1>2, <2>1, TailOnce
<1>7. \A i \in 1 .. Len(responses'[t]) : responses'[t][i] =
          IF i <= Len(responses[t]) THEN responses[t][i] ELSE m
  BY <1>2, <1>3
<1>8. /\ Len(responses'[t]) = Len(responses[t]) + 1
      /\ Len(responses[t]) \in Nat /\ Len(channel[t]) \in Nat \ {0}
      /\ m = channel[t][1]
      /\ Len(Tail(channel[t])) = Len(channel[t]) - 1
      /\ \A j \in 1 .. Len(Tail(channel[t])) : Tail(channel[t])[j] = channel[t][j + 1]
  BY <1>1, <1>2, <1>3
<1>9. m.from \in S /\ \A i \in 1 .. Len(responses[t]) : responses[t][i].from # m.from
  BY <1>5, <1>8 DEF Counted, OncePerHandler
<1>10. OncePerHandler(responses'[t], S)
  <2>1. OncePerHandler(responses[t], S)
    BY <1>5 DEF Counted
  <2> HIDE DEF S, m, DispatchInv
  <2>2. \A i \in 1 .. Len(responses'[t]) : i <= Len(responses[t])
            => i \in 1 .. Len(responses[t])
    BY <1>8
  <2>3. \A i \in 1 .. Len(responses'[t]) : ~(i <= Len(responses[t]))
            => i = Len(responses[t]) + 1
    BY <1>8
  <2> QED
    BY <1>7, <1>9, <2>1, <2>2, <2>3 DEF OncePerHandler
<1>11. \A i \in 1 .. Len(responses'[t]), j \in 1 .. Len(Tail(channel[t])) :
          responses'[t][i].from # Tail(channel[t])[j].from
  <2> SUFFICES ASSUME NEW i \in 1 .. Len(responses'[t]),
                      NEW j \in 1 .. Len(Tail(channel[t]))
               PROVE  responses'[t][i].from # Tail(channel[t])[j].from
    OBVIOUS
  <2>1. CASE i <= Len(responses[t])
    <3>1. i \in 1 .. Len(responses[t]) /\ j + 1 \in 1 .. Len(channel[t])
      BY <1>8, <2>1
    <3>2. responses'[t][i] = responses[t][i]
          /\ Tail(channel[t])[j] = channel[t][j + 1]
      BY <1>7, <1>8, <2>1
    <3> QED
      BY <1>5, <3>1, <3>2 DEF Counted
  <2>2. CASE ~(i <= Len(responses[t]))
    BY <1>6, <1>7, <2>2
  <2> QED
    BY <2>1, <2>2
<1>12. Counted(t)'
  BY <1>1, <1>3, <1>5, <1>6, <1>10, <1>11 DEF Counted
<1>13. ASSUME NEW u \in Tasks, u # t, pc[u] = "collecting" PROVE Counted(u)'
  <2>1. Counted(u)
    BY <1>1, <1>13 DEF CountedInv
  <2>2. responses'[u] = responses[u] /\ channel'[u] = channel[u]
    BY <1>4, <1>13
  <2> HIDE DEF DispatchInv
  <2> QED
    BY <1>1, <2>1, <2>2 DEF Counted
<1> QED
  BY <1>1, <1>12, <1>13 DEF CountedInv

LEMMA CountStep ==
    DispatchInv /\ CountedInv /\ FreshInv /\ [Next]_vars
        => (CountedInv /\ FreshInv)'
<1> SUFFICES ASSUME DispatchInv, CountedInv, FreshInv, [Next]_vars
             PROVE  (CountedInv /\ FreshInv)'
  OBVIOUS
<1> USE DispatchAssumption DEF DispatchInv
<1> DEFINE Goal == CountedInv /\ FreshInv
<1>1. ASSUME UNCHANGED <<mode, pc, snapshot, tracker, channel, responses>>
      PROVE  Goal'
  BY <1>1 DEF CountedInv, Counted, FreshInv
<1>2. ASSUME NEW h \in Handlers, NEW t \in Tasks, NEW a \in Actions,
             HandleResponse(h, t, a)
      PROVE  Goal'
  <2> DEFINE p == tracker[IdOf[t]]
  <2>1. CASE p # NoTracker /\ h \in p.handlers \ p.counted
    <3>1. pc[p.task] = "collecting" /\ mode # "down"
      BY <1>2, <2>1 DEF HandleResponse, TrackerIsCollectors
    <3>2. \A u \in Tasks : pc[u] # "collecting" => channel'[u] = channel[u]
      BY <1>2, <2>1, <3>1 DEF TypeOK, HandleResponse
    <3>3. FreshInv'
      BY <1>2, <3>2 DEF HandleResponse, FreshInv
    <3> QED
      BY <1>2, <3>3, ResponseCounted
  <2>2. CASE ~(p # NoTracker /\ h \in p.handlers \ p.counted)
    BY <1>1, <1>2, <2>2 DEF HandleResponse
  <2> QED
    BY <2>1, <2>2
<1>3. ASSUME NEW t \in Tasks, Arrive(t) \/ DropGroupMessage(t) PROVE Goal'
  <2>1. /\ pc[t] = "waiting" /\ pc'[t] \in {"locking", "dropped"}
        /\ UNCHANGED <<mode, tracker, channel, responses>>
    BY <1>3 DEF TypeOK, Arrive, DropGroupMessage
  <2>2. \A u \in Tasks : u # t => pc'[u] = pc[u] /\ snapshot'[u] = snapshot[u]
    BY <1>3 DEF TypeOK, Arrive, DropGroupMessage
  <2>3. FreshInv'
    BY <2>1, <2>2 DEF FreshInv
  <2>4. ASSUME NEW u \in Tasks, mode # "down", pc'[u] = "collecting"
        PROVE  Counted(u)'
    <3>1. Counted(u) /\ snapshot'[u] = snapshot[u]
      BY <2>1, <2>2, <2>4 DEF CountedInv
    <3> HIDE DEF DispatchInv
    <3> QED
      BY <2>1, <3>1 DEF Counted
  <2> QED
    BY <2>1, <2>3, <2>4 DEF CountedInv
<1>4. ASSUME NEW t \in Tasks, OpenTracker(t) PROVE Goal'
  <2>1. IdOf[t] \in Ids /\ BucketOf[IdOf[t]] \in Buckets /\ mode # "down"
    BY <1>4 DEF OpenTracker
  <2>2. tracker'[IdOf[t]] = Tracker(t, snapshot[t])
    BY <1>4, <2>1 DEF TypeOK, OpenTracker
  <2>3. responses'[t] = <<>> /\ channel'[t] = <<>> /\ snapshot' = snapshot
    BY <1>4 DEF OpenTracker, FreshInv
  <2>4. Counted(t)'
    BY <2>2, <2>3 DEF Counted, OncePerHandler, Tracker
  <2>5. ASSUME NEW u \in Tasks, u # t, pc'[u] = "collecting" PROVE Counted(u)'
    <3>1. pc[u] = "collecting"
      BY <1>4, <2>5 DEF TypeOK, OpenTracker
    <3>2. IdOf[u] # IdOf[t]
      BY <1>4, <2>1, <3>1 DEF OpenTracker, HolderInv
    <3>3. tracker'[IdOf[u]] = tracker[IdOf[u]]
      BY <1>4, <3>2 DEF TypeOK, OpenTracker
    <3>4. Counted(u) /\ UNCHANGED <<snapshot, channel, responses>>
      BY <1>4, <2>1, <3>1 DEF OpenTracker, CountedInv
    <3> HIDE DEF DispatchInv
    <3> QED
      BY <3>3, <3>4 DEF Counted
  <2>6. FreshInv'
    BY <1>4 DEF TypeOK, OpenTracker, FreshInv
  <2> QED
    BY <2>4, <2>5, <2>6 DEF CountedInv
<1>5. ASSUME NEW t \in Tasks, Collect(t) PROVE Goal'
  <2>1. FreshInv'
    BY <1>5 DEF TypeOK, Collect, Expecting, FreshInv
  <2> QED
    BY <1>5, <2>1, CollectCounted
<1>6. ASSUME NEW t \in Tasks, pc[t] = "collecting", mode # "down",
             CloseTracker(t), channel' = [channel EXCEPT ![t] = <<>>],
             UNCHANGED <<mode, snapshot, responses>>
      PROVE  Goal'
  <2>1. \A u \in Tasks : u # t => pc'[u] = pc[u] /\ channel'[u] = channel[u]
    BY <1>6 DEF TypeOK, CloseTracker
  <2>2. \A u \in Tasks : u # t /\ pc[u] = "collecting"
            => tracker'[IdOf[u]] = tracker[IdOf[u]]
    BY <1>6 DEF TypeOK, CloseTracker, TrackerIsCollectors
  <2>3. pc'[t] = "replying"
    BY <1>6 DEF TypeOK, CloseTracker
  <2> QED
    <3>1. ASSUME NEW u \in Tasks, pc'[u] = "collecting" PROVE Counted(u)'
      <4>1. u # t /\ pc[u] = "collecting"
        BY <2>1, <2>3, <3>1
      <4>2. Counted(u)
        BY <1>6, <4>1 DEF CountedInv
      <4>3. tracker'[IdOf[u]] = tracker[IdOf[u]] /\ channel'[u] = channel[u]
        BY <2>1, <2>2, <4>1
      <4> HIDE DEF DispatchInv
      <4> QED
        BY <1>6, <4>2, <4>3 DEF Counted
    <3>2. FreshInv'
      BY <1>6, <2>1, <2>3 DEF FreshInv
    <3> QED
      BY <3>1, <3>2 DEF CountedInv
<1>7. ASSUME NEW t \in Tasks, pc[t] \in {"replying", "saving"},
             NEW x \in {"saving", "done"}, pc' = [pc EXCEPT ![t] = x],
             UNCHANGED <<mode, snapshot, tracker, channel, responses>>
      PROVE  Goal'
  BY <1>7, SMTT(30) DEF TypeOK, CountedInv, Counted, FreshInv
<1>8. CASE BeginShutdown
  BY <1>8 DEF BeginShutdown, taskVars, CountedInv, Counted, FreshInv
<1>9. CASE Stop
  BY <1>9 DEF Stop, CountedInv, FreshInv
<1>10. CASE Restart
  BY <1>10 DEF Restart, CountedInv, FreshInv
<1>11. ASSUME NEW t \in Tasks, TaskStep(t) PROVE Goal'
  <2>1. CASE CollectDefer(t) \/ DeadlinePasses(t) \/ AllAnswered(t)
    BY <1>6, <2>1 DEF CollectDefer, DeadlinePasses, AllAnswered, Expecting
  <2>2. CASE FinishDeferred(t) \/ SaveCursor(t) \/ AdvanceCursor(t)
    BY <1>7, <2>2 DEF FinishDeferred, SaveCursor, AdvanceCursor
  <2>3. CASE ProcessAnswer(t)
    BY <1>1, <2>3 DEF ProcessAnswer
  <2> QED
    BY <1>4, <1>5, <1>11, <2>1, <2>2, <2>3 DEF TaskStep
<1>12. ASSUME NEW h \in Handlers, HandlerStep(h) PROVE Goal'
  BY <1>1, <1>2, <1>12 DEF HandlerStep, Connect, Disconnect, SendEvent, taskVars
<1>13. ASSUME NEW b \in Bots, FlushCursor(b) PROVE Goal'
  BY <1>1, <1>13 DEF FlushCursor, taskVars
<1>14. CASE UNCHANGED vars
  BY <1>1, <1>14 DEF vars, taskVars
<1> QED
  BY <1>3, <1>8, <1>9, <1>10, <1>11, <1>12, <1>13, <1>14 DEF Next

AnswersInv == DispatchInv /\ CountedInv /\ FreshInv /\ CursorAfterTerminal

(* The only step that ends a collection with neither a defer nor a         *)
(* deadline has seen as many answers as the snapshot has handlers.         *)
LEMMA TerminalStep == AnswersInv /\ [Next]_vars => CursorAfterTerminal'
<1> SUFFICES ASSUME AnswersInv, [Next]_vars PROVE CursorAfterTerminal'
  OBVIOUS
<1> USE DispatchAssumption DEF AnswersInv, DispatchInv
<1>1. ASSUME UNCHANGED <<pc, snapshot, responses, deferred, expired>>
      PROVE  CursorAfterTerminal'
  <2>1. \A u \in Tasks : Answered(u)' = Answered(u)
    BY <1>1 DEF Answered
  <2> QED
    BY <1>1, <2>1 DEF CursorAfterTerminal
<1>2. ASSUME NEW t \in Tasks, Arrive(t) \/ DropGroupMessage(t) \/ OpenTracker(t)
      PROVE  CursorAfterTerminal'
  <2>1. pc'[t] \in {"locking", "dropped", "collecting"}
        /\ UNCHANGED <<responses, deferred, expired>>
    BY <1>2 DEF TypeOK, Arrive, DropGroupMessage, OpenTracker
  <2>2. \A u \in Tasks : u # t => pc'[u] = pc[u] /\ snapshot'[u] = snapshot[u]
    BY <1>2 DEF TypeOK, Arrive, DropGroupMessage, OpenTracker
  <2>3. \A u \in Tasks : Answered(u)' = Answered(u)
    BY <2>1 DEF Answered
  <2> QED
    BY <2>1, <2>2, <2>3 DEF CursorAfterTerminal
<1>3. ASSUME NEW t \in Tasks, Collect(t) PROVE CursorAfterTerminal'
  <2>1. pc[t] = "collecting" /\ UNCHANGED <<pc, snapshot, deferred, expired>>
        /\ \A u \in Tasks : u # t => responses'[u] = responses[u]
    BY <1>3 DEF TypeOK, Collect, Expecting
  <2>2. \A u \in Tasks : u # t => Answered(u)' = Answered(u)
    BY <2>1 DEF Answered
  <2> QED
    BY <2>1, <2>2 DEF CursorAfterTerminal
<1>4. ASSUME NEW t \in Tasks, CollectDefer(t) \/ DeadlinePasses(t)
      PROVE  CursorAfterTerminal'
  <2>1. (deferred'[t] \/ expired'[t]) /\ UNCHANGED <<snapshot, responses>>
    BY <1>4 DEF TypeOK, CollectDefer, DeadlinePasses
  <2>2. \A u \in Tasks : u # t => /\ pc'[u] = pc[u]
                                  /\ deferred'[u] = deferred[u]
                                  /\ expired'[u] = expired[u]
    BY <1>4 DEF TypeOK, CollectDefer, DeadlinePasses, CloseTracker
  <2>3. \A u \in Tasks : Answered(u)' = Answered(u)
    BY <2>1 DEF Answered
  <2> QED
    BY <2>1, <2>2, <2>3 DEF CursorAfterTerminal
<1>5. ASSUME NEW t \in Tasks, AllAnswered(t) PROVE CursorAfterTerminal'
  <2>1. /\ pc[t] = "collecting" /\ mode # "down" /\ ~Expecting(t)
        /\ UNCHANGED <<snapshot, responses, deferred, expired>>
    BY <1>5 DEF AllAnswered
  <2>2. \A u \in Tasks : u # t => pc'[u] = pc[u]
    BY <1>5 DEF TypeOK, AllAnswered, CloseTracker
  <2>3. snapshot[t] \subseteq Handlers /\ responses[t] \in Seq(Answers)
    BY DEF TypeOK
  <2>4. IsFiniteSet(snapshot[t])
    BY <2>3, FS_Subset
  <2>5. Len(responses[t]) >= Cardinality(snapshot[t])
    <3>1. Cardinality(snapshot[t]) \in Nat
      BY <2>4, FS_CardinalityType
    <3> QED
      BY <2>1, <2>3, <3>1 DEF Expecting
  <2>6. OncePerHandler(responses[t], snapshot[t])
    BY <2>1 DEF CountedInv, Counted, OncePerHandler
  <2>7. Answered(t) = snapshot[t]
    <3> HIDE DEF AnswersInv, DispatchInv
    <3> QED
      BY <2>3, <2>4, <2>5, <2>6, CountIsEnough DEF Answered
  <2>8. \A u \in Tasks : Answered(u)' = Answered(u)
    BY <2>1 DEF Answered
  <2> QED
    BY <2>1, <2>2, <2>7, <2>8 DEF CursorAfterTerminal
<1>6. ASSUME NEW t \in Tasks, FinishDeferred(t) \/ AdvanceCursor(t) \/ SaveCursor(t)
      PROVE  CursorAfterTerminal'
  <2>1. pc[t] \in {"replying", "saving"}
        /\ UNCHANGED <<snapshot, responses, deferred, expired>>
    BY <1>6 DEF FinishDeferred, AdvanceCursor, SaveCursor
  <2>2. \A u \in Tasks : u # t => pc'[u] = pc[u]
    BY <1>6 DEF TypeOK, FinishDeferred, AdvanceCursor, SaveCursor
  <2>3. \A u \in Tasks : Answered(u)' = Answered(u)
    BY <2>1 DEF Answered
  <2> QED
    BY <2>1, <2>2, <2>3 DEF CursorAfterTerminal
<1>7. ASSUME NEW t \in Tasks, ProcessAnswer(t) PROVE CursorAfterTerminal'
  BY <1>1, <1>7 DEF ProcessAnswer
<1>8. ASSUME NEW h \in Handlers, HandlerStep(h) PROVE CursorAfterTerminal'
  BY <1>1, <1>8
     DEF HandlerStep, Connect, Disconnect, HandleResponse, SendEvent, taskVars
<1>9. CASE BeginShutdown \/ Stop \/ \E b \in Bots : FlushCursor(b)
  BY <1>1, <1>9 DEF BeginShutdown, Stop, FlushCursor, taskVars
<1>10. CASE Restart
  BY <1>10 DEF Restart, CursorAfterTerminal
<1>11. CASE UNCHANGED vars
  BY <1>1, <1>11 DEF vars, taskVars
<1> QED
  BY <1>2, <1>3, <1>4, <1>5, <1>6, <1>7, <1>8, <1>9, <1>10, <1>11
     DEF Next, TaskStep

(* The dispatcher, its trackers and what was answered agree. *)
THEOREM AnswersInvariance == Spec => []AnswersInv
<1>1. Init => AnswersInv
  BY DispatchInit
     DEF Init, AnswersInv, CountedInv, FreshInv, CursorAfterTerminal
<1>2. AnswersInv /\ [Next]_vars => DispatchInv'
  BY TypeStep, LockStep, CursorStep DEF AnswersInv, DispatchInv
<1>3. AnswersInv /\ [Next]_vars => AnswersInv'
  BY <1>2, CountStep, TerminalStep DEF AnswersInv
<1> QED
  BY <1>1, <1>3, PTL DEF Spec

(* However many handlers there are and however often each of them answers, *)
(* a dispatch that goes on to move the cursor without its deadline has the *)
(* terminal answer of every handler it was sent to.                        *)
THEOREM TerminalBeforeCursor == Spec => []CursorAfterTerminal
<1>1. AnswersInv => CursorAfterTerminal
  BY DEF AnswersInv
<1> QED
  BY <1>1, AnswersInvariance, PTL

-----------------------------------------------------------------------------
(* The refinement: dispatch is EventDelivery.                              *)

(* The variables of EventDelivery that are not variables of the dispatcher. *)
Stages == [t \in Tasks |-> StageOf(t)]
Heard == [t \in Tasks |-> Answered(t)]

(* A collection that has not ended was neither deferred nor cut off. *)
UnmarkedInv ==
    \A t \in Tasks : pc[t] \in {"waiting", "locking", "collecting"} =>
        deferred[t] = FALSE /\ expired[t] = FALSE

(* The marks are set by the steps that end a collection, and cleared by a  *)
(* restart.                                                                *)
LEMMA UnmarkedStep == TypeOK /\ UnmarkedInv /\ [Next]_vars => UnmarkedInv'
<1> SUFFICES ASSUME TypeOK, UnmarkedInv, [Next]_vars PROVE UnmarkedInv'
  OBVIOUS
<1>1. ASSUME UNCHANGED <<deferred, expired>>,
             \A u \in Tasks : pc'[u] = pc[u] \/ pc[u] \in {"waiting", "locking"}
                                \/ pc'[u] \in {"replying", "saving", "done"}
      PROVE  UnmarkedInv'
  BY <1>1 DEF UnmarkedInv
<1>2. ASSUME NEW t \in Tasks,
             \/ Arrive(t) \/ DropGroupMessage(t) \/ OpenTracker(t) \/ Collect(t) \/ AllAnswered(t)
             \/ ProcessAnswer(t) \/ FinishDeferred(t) \/ AdvanceCursor(t) \/ SaveCursor(t)
      PROVE  UnmarkedInv'
  <2>1. UNCHANGED <<deferred, expired>>
    BY <1>2 DEF Arrive, DropGroupMessage, OpenTracker, Collect, AllAnswered, ProcessAnswer,
                FinishDeferred, AdvanceCursor, SaveCursor
  <2>2. \/ pc' = pc
        \/ pc[t] \in {"waiting", "locking"} /\ \E s : pc' = [pc EXCEPT ![t] = s]
        \/ \E s \in {"replying", "saving", "done"} : pc' = [pc EXCEPT ![t] = s]
    BY <1>2 DEF Arrive, DropGroupMessage, OpenTracker, Collect, AllAnswered, ProcessAnswer,
                FinishDeferred, AdvanceCursor, SaveCursor, CloseTracker
  <2>3. \A u \in Tasks : pc'[u] = pc[u] \/ pc[u] \in {"waiting", "locking"}
                                \/ pc'[u] \in {"replying", "saving", "done"}
    BY <2>2 DEF TypeOK
  <2> QED
    BY <1>1, <2>1, <2>3
<1>3. ASSUME NEW t \in Tasks, CollectDefer(t) \/ DeadlinePasses(t) PROVE UnmarkedInv'
  <2>1. pc'[t] = "replying"
    BY <1>3 DEF CollectDefer, DeadlinePasses, CloseTracker, TypeOK
  <2>2. \A u \in Tasks : u # t => /\ pc'[u] = pc[u] /\ deferred'[u] = deferred[u]
                                  /\ expired'[u] = expired[u]
    BY <1>3 DEF CollectDefer, DeadlinePasses, CloseTracker, TypeOK
  <2> QED
    BY <2>1, <2>2 DEF UnmarkedInv
<1>4. ASSUME NEW h \in Handlers, HandlerStep(h) PROVE UnmarkedInv'
  BY <1>1, <1>4
     DEF HandlerStep, Connect, Disconnect, HandleResponse, SendEvent, taskVars
<1>5. CASE BeginShutdown \/ Stop \/ \E b \in Bots : FlushCursor(b)
  BY <1>1, <1>5 DEF BeginShutdown, Stop, FlushCursor, taskVars
<1>6. CASE Restart
  <2>1. deferred' = [t \in Tasks |-> FALSE] /\ expired' = [t \in Tasks |-> FALSE]
    BY <1>6 DEF Restart
  <2> QED
    BY <2>1 DEF UnmarkedInv
<1>7. CASE UNCHANGED vars
  BY <1>1, <1>7 DEF vars, taskVars
<1> QED
  BY <1>2, <1>3, <1>4, <1>5, <1>6, <1>7 DEF Next, TaskStep

(* A step of one event. *)
LEMMA StageMoves ==
    ASSUME NEW t \in Tasks, NEW s, StageOf(t)' = s,
           \A u \in Tasks : u # t => /\ pc'[u] = pc[u] /\ deferred'[u] = deferred[u]
                                     /\ expired'[u] = expired[u]
    PROVE  Stages' = [Stages EXCEPT ![t] = s]
<1>1. \A u \in Tasks : u # t => StageOf(u)' = StageOf(u)
  BY DEF StageOf
<1> QED
  BY <1>1 DEF Stages

(* A task that still expects answers lacks the answer of some handler. *)
LEMMA OneIsMissing ==
    ASSUME DispatchInv, NEW t \in Tasks, Expecting(t)
    PROVE  Answered(t) # snapshot[t]
<1>1. responses[t] \in Seq(Answers) /\ snapshot[t] \subseteq Handlers
  BY DEF DispatchInv, TypeOK
<1>2. IsFiniteSet(snapshot[t])
  BY <1>1, FS_Subset, DispatchAssumption
<1>3. Len(responses[t]) \in Nat /\ Cardinality(snapshot[t]) \in Nat
  BY <1>1, <1>2, FS_CardinalityType
<1>4. ASSUME Answered(t) = snapshot[t] PROVE FALSE
  <2> DEFINE f == [i \in 1 .. Len(responses[t]) |-> responses[t][i].from]
  <2>1. f \in Surjection(1 .. Len(responses[t]), snapshot[t])
    BY <1>4 DEF Answered, Surjection
  <2> HIDE DEF f
  <2>2. ExistsSurjection(1 .. Len(responses[t]), snapshot[t])
    BY <2>1 DEF ExistsSurjection
  <2>3. PICK n \in Nat : n = Len(responses[t])
    BY <1>3
  <2>4. ExistsSurjection(1 .. n, snapshot[t])
    BY <2>2, <2>3
  <2>5. Cardinality(snapshot[t]) <= n
    BY <2>4, FS_SurjCardinalityBound
  <2> QED
    BY <1>3, <2>3, <2>5 DEF Expecting
<1> QED
  BY <1>4

(* Nothing has been seen and no bot has a cursor. *)
LEMMA DeliveryInit == Init => Delivery!Init
<1> SUFFICES ASSUME Init PROVE Delivery!Init
  OBVIOUS
<1>1. /\ mode # "down" /\ concluded = {} /\ snapshot = [t \in Tasks |-> {}]
      /\ dbCursor = [b \in Bots |-> NoCursor]
  BY DEF Init
<1>2. [t \in Tasks |-> StageOf(t)] = [t \in Tasks |-> "waiting"]
  BY DEF Init, StageOf
<1>3. [t \in Tasks |-> Answered(t)] = [t \in Tasks |-> {}]
  <2>1. \A t \in Tasks : responses[t] = <<>>
    BY DEF Init
  <2>2. \A t \in Tasks : 1 .. Len(responses[t]) = {}
    BY <2>1
  <2> QED
    BY <2>2 DEF Answered
<1> QED
  BY <1>1, <1>2, <1>3 DEF Delivery!Init

(* What neither begins nor ends anything is not seen. *)
LEMMA DeliveryQuiet ==
    ASSUME UNCHANGED <<pc, deferred, expired, snapshot, responses, concluded, dbCursor>>,
           mode' # "down" <=> mode # "down"
    PROVE  UNCHANGED Delivery!deliveryVars
<1>1. Stages' = Stages
  BY DEF Stages, StageOf
<1>2. Heard' = Heard
  BY DEF Heard, Answered
<1>3. (mode' # "down") = (mode # "down")
  OBVIOUS
<1> QED
  BY <1>1, <1>2, <1>3 DEF Delivery!deliveryVars, Stages, Heard

(* The beginning of a dispatch: the gate of group messages, the snapshot   *)
(* of handlers, the lock of the event id.                                  *)
LEMMA BeginDelivers ==
    ASSUME AnswersInv, NEW t \in Tasks, DropGroupMessage(t) \/ Arrive(t) \/ OpenTracker(t)
    PROVE  Delivery!Next
<1> USE DEF handlerVars, cursorVars
<1>0. TypeOK /\ HolderInv
  BY DEF AnswersInv, DispatchInv
<1>1. /\ mode # "down" /\ mode' = mode /\ pc[t] \in {"waiting", "locking"}
      /\ UNCHANGED <<responses, deferred, expired, concluded, dbCursor>>
  BY DEF DropGroupMessage, Arrive, OpenTracker
<1>2. PICK s \in {"dropped", "locking", "collecting"} : pc' = [pc EXCEPT ![t] = s]
  BY DEF DropGroupMessage, Arrive, OpenTracker
<1>3. pc'[t] = s /\ \A u \in Tasks : u # t => pc'[u] = pc[u]
  BY <1>0, <1>2 DEF TypeOK
<1>4. Stages' = [Stages EXCEPT ![t] = s]
  <2>1. StageOf(t)' = s
    BY <1>3 DEF StageOf
  <2> QED
    BY <1>1, <1>3, <2>1, StageMoves
<1>5. Stages[t] = pc[t]
  BY <1>1 DEF Stages, StageOf
<1>6. Heard' = Heard
  BY <1>1 DEF Heard, Answered
<1>7. (mode' # "down") = (mode # "down")
  BY <1>1
<1>8. CASE DropGroupMessage(t)
  <2>1. /\ t \in GroupTasks /\ pc[t] = "waiting" /\ snapshot' = snapshot
        /\ pc' = [pc EXCEPT ![t] = "dropped"]
    BY <1>8 DEF DropGroupMessage
  <2>2. s = "dropped"
    BY <1>0, <1>3, <2>1 DEF TypeOK
  <2>3. Delivery!Refuse(t)
    BY <1>1, <1>4, <1>5, <1>6, <1>7, <2>1, <2>2
       DEF Delivery!Refuse, Delivery!Moves, Stages, Heard
  <2> QED
    BY <2>3 DEF Delivery!Next, Delivery!EventStep
<1>9. CASE Arrive(t)
  <2>1. /\ pc[t] = "waiting" /\ snapshot' = [snapshot EXCEPT ![t] = Find(t)]
        /\ pc' = [pc EXCEPT ![t] = "locking"]
    BY <1>9 DEF Arrive
  <2>2. s = "locking"
    BY <1>0, <1>3, <2>1 DEF TypeOK
  <2>3. Find(t) \in SUBSET {h \in Handlers : BotOf[t] \in Subscribed[h]}
    BY <1>0 DEF Find, TypeOK
  <2>4. Delivery!Ask(t)
    BY <1>1, <1>4, <1>5, <1>6, <1>7, <2>1, <2>2, <2>3
       DEF Delivery!Ask, Delivery!Moves, Stages, Heard
  <2> QED
    BY <2>4 DEF Delivery!Next, Delivery!EventStep
<1>10. CASE OpenTracker(t)
  <2>1. /\ pc[t] = "locking" /\ snapshot' = snapshot /\ holder[BucketOf[IdOf[t]]] = NoTask
        /\ pc' = [pc EXCEPT ![t] = "collecting"]
    BY <1>10 DEF OpenTracker
  <2>2. s = "collecting"
    BY <1>0, <1>3, <2>1 DEF TypeOK
  <2>3. \A u \in Tasks : Stages[u] = "collecting" => IdOf[u] # IdOf[t]
    <3>1. \A u \in Tasks : Stages[u] = "collecting" => pc[u] = "collecting"
      BY DEF Stages, StageOf
    <3>2. \A u \in Tasks : pc[u] = "collecting" => holder[BucketOf[IdOf[u]]] = u /\ u # NoTask
      BY <1>0, <1>1, DispatchAssumption DEF HolderInv
    <3> QED
      BY <2>1, <3>1, <3>2
  <2>4. Delivery!Open(t)
    BY <1>1, <1>4, <1>5, <1>6, <1>7, <2>1, <2>2, <2>3
       DEF Delivery!Open, Delivery!Moves, Stages, Heard
  <2> QED
    BY <2>4 DEF Delivery!Next, Delivery!EventStep
<1> QED
  BY <1>8, <1>9, <1>10

(* An answer is taken from the channel: it is the first of its handler. *)
LEMMA CollectDelivers ==
    ASSUME AnswersInv, NEW t \in Tasks, Collect(t)
    PROVE  Delivery!Next
<1> USE DEF handlerVars, cursorVars
<1>0. TypeOK /\ CountedInv
  BY DEF AnswersInv, DispatchInv
<1>1. /\ mode # "down" /\ mode' = mode /\ pc[t] = "collecting" /\ channel[t] # <<>>
      /\ UNCHANGED <<pc, snapshot, deferred, expired, concluded, dbCursor>>
      /\ responses' = [responses EXCEPT ![t] = Append(@, Head(channel[t]))]
  BY DEF Collect, Expecting
<1>2. PICK a \in Answers : a = Head(channel[t]) /\ a = channel[t][1] /\ 1 \in 1 .. Len(channel[t])
  BY <1>0, <1>1 DEF TypeOK
<1>3. Counted(t)
  BY <1>0, <1>1 DEF CountedInv
<1>4. a.from \in snapshot[t] /\ a.from \notin Answered(t) /\ a.from \in Handlers
  <2>1. a.from \in tracker[IdOf[t]].counted
    BY <1>2, <1>3 DEF Counted, OncePerHandler
  <2>2. a.from \in Handlers
    BY <1>2 DEF Answers
  <2> QED
    BY <1>2, <1>3, <2>1, <2>2 DEF Counted, Answered
<1>5. Heard' = [Heard EXCEPT ![t] = @ \cup {a.from}]
  <2>1. \A u \in Tasks : u # t => responses'[u] = responses[u]
    BY <1>0, <1>1 DEF TypeOK
  <2>2. \A u \in Tasks : u # t => Answered(u)' = Answered(u)
    BY <2>1 DEF Answered
  <2>3. responses[t] \in Seq(Answers) /\ responses'[t] = Append(responses[t], a)
    BY <1>0, <1>1, <1>2 DEF TypeOK
  <2>4. Answered(t)' = Answered(t) \cup {a.from}
    <3>1. /\ Len(responses[t]) \in Nat /\ Len(responses'[t]) = Len(responses[t]) + 1
          /\ \A i \in 1 .. Len(responses[t]) : responses'[t][i] = responses[t][i]
          /\ responses'[t][Len(responses[t]) + 1] = a
      BY <2>3
    <3>2. 1 .. Len(responses'[t]) = 1 .. Len(responses[t]) \cup {Len(responses[t]) + 1}
      BY <3>1
    <3>3. \A h : h \in Answered(t)' <=> h \in Answered(t) \/ h = a.from
      BY <3>1, <3>2 DEF Answered
    <3> QED
      BY <3>3
  <2> QED
    BY <2>2, <2>4 DEF Heard
<1>6. Stages' = Stages /\ Stages[t] = "collecting"
  BY <1>1 DEF Stages, StageOf
<1>7. (mode' # "down") = (mode # "down")
  BY <1>1
<1>8. Heard[t] = Answered(t)
  BY DEF Heard
<1>9. Delivery!Hear(t, a.from)
  BY <1>1, <1>4, <1>5, <1>6, <1>7, <1>8 DEF Delivery!Hear, Stages, Heard
<1> QED
  BY <1>4, <1>9 DEF Delivery!Next, Delivery!EventStep

(* The end of a collection: a defer, the deadline, or the last answer. *)
LEMMA EndDelivers ==
    ASSUME AnswersInv, UnmarkedInv, NEW t \in Tasks,
           CollectDefer(t) \/ DeadlinePasses(t) \/ AllAnswered(t), [Next]_vars
    PROVE  Delivery!Next
<1> USE DEF handlerVars, cursorVars
<1>0. TypeOK /\ DispatchInv
  BY DEF AnswersInv, DispatchInv
<1>1. /\ mode # "down" /\ mode' = mode /\ pc[t] = "collecting"
      /\ pc' = [pc EXCEPT ![t] = "replying"]
      /\ UNCHANGED <<snapshot, responses, dbCursor>>
  BY DEF CollectDefer, DeadlinePasses, AllAnswered, CloseTracker, Expecting
<1>2. pc'[t] = "replying" /\ \A u \in Tasks : u # t => pc'[u] = pc[u]
  BY <1>0, <1>1 DEF TypeOK
<1>3. deferred[t] = FALSE /\ expired[t] = FALSE
  BY <1>1 DEF UnmarkedInv
<1>4. Stages[t] = "collecting"
  BY <1>1 DEF Stages, StageOf
<1>5. Heard' = Heard /\ Heard[t] = Answered(t)
  BY <1>1 DEF Heard, Answered
<1>6. (mode' # "down") = (mode # "down")
  BY <1>1
<1>7. CASE CollectDefer(t)
  <2>1. Expecting(t) /\ deferred' = [deferred EXCEPT ![t] = TRUE] /\ UNCHANGED <<expired, concluded>>
    BY <1>7 DEF CollectDefer
  <2>2. deferred'[t] = TRUE /\ \A u \in Tasks : u # t => deferred'[u] = deferred[u]
    BY <1>0, <2>1 DEF TypeOK
  <2>3. StageOf(t)' = "deferred"
    BY <1>2, <2>2 DEF StageOf
  <2>a. \A u \in Tasks : u # t => /\ pc'[u] = pc[u] /\ deferred'[u] = deferred[u]
                                  /\ expired'[u] = expired[u]
    BY <1>2, <2>1, <2>2
  <2>4. Stages' = [Stages EXCEPT ![t] = "deferred"]
    BY <2>3, <2>a, StageMoves
  <2>5. Answered(t) # snapshot[t]
    BY <1>0, <2>1, OneIsMissing
  <2>6. Delivery!Defer(t)
    BY <1>1, <1>4, <1>5, <1>6, <2>1, <2>4, <2>5
       DEF Delivery!Defer, Delivery!Moves, Stages, Heard
  <2> QED
    BY <2>6 DEF Delivery!Next, Delivery!EventStep
<1>8. CASE DeadlinePasses(t)
  <2>1. /\ Expecting(t) /\ expired' = [expired EXCEPT ![t] = TRUE] /\ UNCHANGED deferred
        /\ concluded' = concluded \cup {t}
    BY <1>8 DEF DeadlinePasses
  <2>2. expired'[t] = TRUE /\ \A u \in Tasks : u # t => expired'[u] = expired[u]
    BY <1>0, <2>1 DEF TypeOK
  <2>3. StageOf(t)' = "expired"
    BY <1>2, <1>3, <2>1, <2>2 DEF StageOf
  <2>a. \A u \in Tasks : u # t => /\ pc'[u] = pc[u] /\ deferred'[u] = deferred[u]
                                  /\ expired'[u] = expired[u]
    BY <1>2, <2>1, <2>2
  <2>4. Stages' = [Stages EXCEPT ![t] = "expired"]
    BY <2>3, <2>a, StageMoves
  <2>5. Answered(t) # snapshot[t]
    BY <1>0, <2>1, OneIsMissing
  <2>6. Delivery!Conclude(t)
    BY <1>1, <1>4, <1>5, <1>6, <2>1, <2>4, <2>5
       DEF Delivery!Conclude, Delivery!Moves, Stages, Heard
  <2> QED
    BY <2>6 DEF Delivery!Next, Delivery!EventStep
<1>9. CASE AllAnswered(t)
  <2>1. UNCHANGED <<deferred, expired>> /\ concluded' = concluded \cup {t}
    BY <1>9 DEF AllAnswered
  <2>2. StageOf(t)' = "answered"
    BY <1>2, <1>3, <2>1 DEF StageOf
  <2>3. Stages' = [Stages EXCEPT ![t] = "answered"]
    BY <1>2, <2>1, <2>2, StageMoves
  <2>4. Answered(t) = snapshot[t]
    <3>1. CursorAfterTerminal'
      BY TerminalStep
    <3>2. Answered(t)' = snapshot'[t]
      BY <1>2, <1>3, <2>1, <3>1 DEF CursorAfterTerminal
    <3> QED
      BY <1>1, <3>2 DEF Answered
  <2>5. Delivery!Conclude(t)
    BY <1>1, <1>4, <1>5, <1>6, <2>1, <2>3, <2>4
       DEF Delivery!Conclude, Delivery!Moves, Stages, Heard
  <2> QED
    BY <2>5 DEF Delivery!Next, Delivery!EventStep
<1> QED
  BY <1>7, <1>8, <1>9

(* What a task does after its collection is not seen until it saves. *)
LEMMA AfterwardsDelivers ==
    ASSUME AnswersInv, NEW t \in Tasks,
           FinishDeferred(t) \/ AdvanceCursor(t) \/ SaveCursor(t)
    PROVE  [Delivery!Next]_(Delivery!deliveryVars)
<1> USE DEF handlerVars, cursorVars
<1>0. TypeOK /\ ConcludedInv
  BY DEF AnswersInv, DispatchInv
<1>1. /\ mode # "down" /\ mode' = mode /\ pc[t] \in {"replying", "saving"}
      /\ UNCHANGED <<snapshot, responses, deferred, expired, concluded>>
      /\ \E s \in {"saving", "done"} : pc' = [pc EXCEPT ![t] = s]
  BY DEF FinishDeferred, AdvanceCursor, SaveCursor
<1>2. Stages' = Stages
  <2>1. pc'[t] \in {"saving", "done"} /\ \A u \in Tasks : u # t => pc'[u] = pc[u]
    BY <1>0, <1>1 DEF TypeOK
  <2>2. \A u \in Tasks : StageOf(u)' = StageOf(u)
    BY <1>1, <2>1 DEF StageOf
  <2> QED
    BY <2>2 DEF Stages
<1>3. Heard' = Heard
  BY <1>1 DEF Heard, Answered
<1>4. (mode' # "down") = (mode # "down")
  BY <1>1
<1>5. CASE dbCursor' = dbCursor
  BY <1>1, <1>2, <1>3, <1>4, <1>5 DEF Delivery!deliveryVars, Stages, Heard
<1>6. CASE dbCursor' # dbCursor
  <2>1. pc[t] = "saving" /\ dbCursor' = [dbCursor EXCEPT ![BotOf[t]] = Timestamp[t]]
    BY <1>6 DEF FinishDeferred, AdvanceCursor, SaveCursor
  <2>2. t \in concluded
    BY <1>0, <2>1 DEF ConcludedInv
  <2>3. Delivery!Persist(t)
    BY <1>1, <1>2, <1>3, <1>4, <2>1, <2>2 DEF Delivery!Persist, Stages, Heard
  <2> QED
    BY <2>3 DEF Delivery!Next, Delivery!EventStep
<1> QED
  BY <1>5, <1>6

(* The flush at shutdown writes cursors of concluded events. *)
LEMMA FlushDelivers ==
    ASSUME AnswersInv, NEW b \in Bots, FlushCursor(b)
    PROVE  Delivery!Next
<1> USE DEF taskVars, handlerVars
<1>1. /\ mode = "flushing" /\ mode' = mode /\ toFlush[b] # NoCursor
      /\ dbCursor' = [dbCursor EXCEPT ![b] = toFlush[b]]
      /\ UNCHANGED <<pc, deferred, expired, snapshot, responses, concluded>>
  BY DEF FlushCursor
<1>2. PICK t \in concluded : BotOf[t] = b /\ Timestamp[t] = toFlush[b]
  BY <1>1 DEF AnswersInv, DispatchInv, CursorInv, IsCursorOf
<1>3. t \in Tasks
  BY DEF AnswersInv, DispatchInv, TypeOK
<1>4. Stages' = Stages
  BY <1>1 DEF Stages, StageOf
<1>5. Heard' = Heard
  BY <1>1 DEF Heard, Answered
<1>6. (mode' # "down") = (mode # "down") /\ mode # "down"
  BY <1>1
<1>7. Delivery!Persist(t)
  BY <1>1, <1>2, <1>4, <1>5, <1>6 DEF Delivery!Persist, Stages, Heard
<1> QED
  BY <1>3, <1>7 DEF Delivery!Next, Delivery!EventStep

(* The process ends and begins again with what the tables hold. *)
LEMMA RestartDelivers == Stop \/ Restart => Delivery!Next
<1>1. CASE Stop
  <2>1. /\ mode # "down" /\ mode' = "down"
        /\ UNCHANGED <<pc, deferred, expired, snapshot, responses, concluded, dbCursor>>
    BY <1>1 DEF Stop, cursorVars
  <2>2. Stages' = Stages
    BY <2>1 DEF Stages, StageOf
  <2>3. Heard' = Heard
    BY <2>1 DEF Heard, Answered
  <2>4. (mode' # "down") = FALSE
    BY <2>1
  <2>5. Delivery!Stop
    BY <2>1, <2>2, <2>3, <2>4 DEF Delivery!Stop, Stages, Heard
  <2> QED
    BY <2>5 DEF Delivery!Next
<1>2. CASE Restart
  <2>1. /\ mode = "down" /\ mode' = "running"
        /\ pc' = [t \in Tasks |-> IF Replayed(t) THEN "waiting" ELSE "skipped"]
        /\ snapshot' = [t \in Tasks |-> {}] /\ responses' = [t \in Tasks |-> <<>>]
        /\ UNCHANGED <<concluded, dbCursor>>
    BY <1>2 DEF Restart
  <2>2. \A t \in Tasks : Replayed(t) <=> Delivery!Resumed(t)
    BY DEF Replayed, LoadCursor, Delivery!Resumed
  <2>3. Stages' = [t \in Tasks |-> IF Delivery!Resumed(t) THEN "waiting" ELSE "skipped"]
    <3>1. \A t \in Tasks : pc'[t] = IF Delivery!Resumed(t) THEN "waiting" ELSE "skipped"
      BY <2>1, <2>2
    <3>2. \A t \in Tasks : StageOf(t)' = pc'[t]
      BY <3>1 DEF StageOf
    <3> QED
      BY <3>1, <3>2 DEF Stages
  <2>4. Heard' = [t \in Tasks |-> {}]
    <3>1. \A t \in Tasks : 1 .. Len(responses'[t]) = {}
      BY <2>1
    <3>2. \A t \in Tasks : Answered(t)' = {}
      BY <3>1 DEF Answered
    <3> QED
      BY <3>2 DEF Heard
  <2>5. (mode' # "down") = TRUE
    BY <2>1
  <2>6. Delivery!Resume
    BY <2>1, <2>3, <2>4, <2>5 DEF Delivery!Resume, Stages, Heard
  <2> QED
    BY <2>6 DEF Delivery!Next
<1> QED
  BY <1>1, <1>2

(* Every step of dispatch, of handlers and of shutdown is a step of        *)
(* EventDelivery or is not seen there.                                     *)
LEMMA DeliveryStep ==
    AnswersInv /\ UnmarkedInv /\ [Next]_vars => [Delivery!Next]_(Delivery!deliveryVars)
<1> SUFFICES ASSUME AnswersInv, UnmarkedInv, [Next]_vars
             PROVE  [Delivery!Next]_(Delivery!deliveryVars)
  OBVIOUS
<1>1. ASSUME NEW h \in Handlers, HandlerStep(h) PROVE UNCHANGED Delivery!deliveryVars
  BY <1>1, DeliveryQuiet
     DEF HandlerStep, Connect, Disconnect, HandleResponse, SendEvent, taskVars, cursorVars
<1>2. ASSUME NEW t \in Tasks, ProcessAnswer(t) PROVE UNCHANGED Delivery!deliveryVars
  BY <1>2, DeliveryQuiet DEF ProcessAnswer, cursorVars
<1>3. ASSUME NEW t \in Tasks, Arrive(t) \/ DropGroupMessage(t) \/ TaskStep(t)
      PROVE  [Delivery!Next]_(Delivery!deliveryVars)
  BY <1>2, <1>3, BeginDelivers, CollectDelivers, EndDelivers, AfterwardsDelivers DEF TaskStep
<1>4. CASE BeginShutdown
  BY <1>4, DeliveryQuiet DEF BeginShutdown, taskVars
<1>5. CASE UNCHANGED vars
  BY <1>5, DeliveryQuiet DEF vars, taskVars, cursorVars
<1> QED
  BY <1>1, <1>3, <1>4, <1>5, FlushDelivers, RestartDelivers DEF Next

(* dispatch_event, handle_response, the cursors and the resumed            *)
(* subscription implement EventDelivery, for any events, bots, handlers,   *)
(* lock buckets, timestamps, answers and restarts.                         *)
THEOREM DispatchImplements == Spec => DeliveryRefines
<1>1. Init => UnmarkedInv
  BY DEF Init, UnmarkedInv
<1>2. AnswersInv => TypeOK
  BY DEF AnswersInv, DispatchInv
<1>3. AnswersInv /\ UnmarkedInv /\ [Next]_vars => UnmarkedInv'
  BY <1>2, UnmarkedStep
<1> QED
  BY <1>1, <1>3, DeliveryInit, DeliveryStep, AnswersInvariance, PTL
     DEF Spec, DeliveryRefines, Delivery!Spec

=============================================================================
