------------------------ MODULE HandlerRegistryProofs ------------------------
(***************************************************************************)
(* Proofs about HandlerRegistry for any number of handlers and             *)
(* connections, any stale timeout, with failing writes and restarts.       *)
(***************************************************************************)
EXTENDS HandlerRegistry, FiniteSetTheorems, TLAPS

(* The facts that make AckedIsPersisted and UnregisteredStaysGone          *)
(* inductive.  An id in the hands of a task has been issued, so a new      *)
(* registration cannot collide with it; an entry leaves the registry       *)
(* before its row is deleted; an id about to be counted has its row unless *)
(* the reaper took the entry; the id the consumer works on is none it has  *)
(* unregistered before.                                                    *)
WorkInv ==
    /\ handlers \cup rows \cup acked \cup gone["consumer"] \subseteq issued
    /\ \A p \in Procs : proc[p].pc # "idle" => proc[p].id \in issued
    /\ \A p \in Procs :
         proc[p].pc \in {"delete", "subtract"} => proc[p].id \notin handlers
    /\ proc["consumer"].pc = "count" /\ proc["consumer"].id \in handlers
         => proc["consumer"].id \in rows
    /\ proc["consumer"].pc \in {"save_new", "count", "save_again"}
         => proc["consumer"].id \notin gone["consumer"]
    /\ proc["consumer"].pc = "subtract" => proc["consumer"].id \notin rows
    /\ ~up => handlers = {} /\ \A p \in Procs : proc[p].pc = "idle"

RegistryInv ==
    /\ TypeOK
    /\ WorkInv
    /\ AckedIsPersisted
    /\ UnregisteredStaysGone

(* A remainder modulo the width of the counter is a value of the counter. *)
LEMMA CounterStays ==
    ASSUME NEW i \in Int
    PROVE  i % CounterModulus \in 0 .. CounterModulus - 1
  BY RegistryAssumption

(* What an answer carries is a handler id, or none. *)
LEMMA ReplyId ==
    ASSUME NEW s \in Slots, s.type = "reply"
    PROVE  s.id \in HandlerIds \cup {NoHandler}
  BY DEF Slots, Requests, NoRequest, Register, Reconnect, Unregister,
         AdminUnregister, Serving, Reply, Stopped

(* The request that names an id names one the daemon can generate. *)
LEMMA ReconnectId ==
    ASSUME NEW s \in Slots, s.type = "reconnect"
    PROVE  s.id \in HandlerIds
  BY DEF Slots, Requests, NoRequest, Register, Reconnect, Unregister,
         AdminUnregister, Serving, Reply, Stopped

(* Answering leaves the slots well-formed. *)
LEMMA AnsweredType ==
    ASSUME TypeOK, NEW c \in Conns \cup {NoConn},
           NEW h \in HandlerIds \cup {NoHandler}
    PROVE  Answered(c, h) \in [Conns -> Slots]
  BY RegistryAssumption DEF Answered, TypeOK, Slots

(* A task that is not idle works on a handler, for a connection or none. *)
LEMMA WorkingType ==
    ASSUME TypeOK, NEW p \in Procs, proc[p].pc # "idle"
    PROVE  /\ proc[p] \in Working
           /\ proc[p].id \in HandlerIds
           /\ proc[p].conn \in Conns \cup {NoConn}
  BY DEF TypeOK, Working, Idle

(* Every step of every task keeps the types. *)
LEMMA TypeStep ==
    ASSUME TypeOK, [Next]_vars
    PROVE  TypeOK'
<1> USE RegistryAssumption
<1>1. ASSUME NEW c \in Conns, Accept(c)
      PROVE  TypeOK'
  BY <1>1
  DEF Accept, TypeOK, registryVars, transportVars, historyVars
<1>2. ASSUME NEW c \in Conns, NEW r \in Requests, Send(c, r)
      PROVE  TypeOK'
  BY <1>2
  DEF Send, TypeOK, registryVars, transportVars, historyVars, Slots
<1>3. ASSUME NEW c \in Conns, Drain(c)
      PROVE  TypeOK'
  BY <1>3, ReplyId
  DEF Drain, TypeOK, registryVars, transportVars, historyVars, Slots
<1>4. ASSUME NEW c \in Conns, WriterFails(c)
      PROVE  TypeOK'
  BY <1>4
  DEF WriterFails, TypeOK, registryVars, transportVars, historyVars
<1>5. ASSUME NEW c \in Conns, Close(c)
      PROVE  TypeOK'
  BY <1>5
  DEF Close, TypeOK, registryVars, transportVars, historyVars
<1>6. ASSUME NEW c \in Conns, AbortTasks(c)
      PROVE  TypeOK'
  BY <1>6
  DEF AbortTasks, TypeOK, registryVars, transportVars, historyVars, Slots
<1>7. ASSUME NEW c \in Conns, RegisterInsert(c)
      PROVE  TypeOK'
  BY <1>7
  DEF RegisterInsert, TypeOK, registryVars, transportVars, historyVars, At,
      PCs, Procs, Working, Age, Slots
<1>8. ASSUME NEW c \in Conns, ReconnectAttach(c)
      PROVE  TypeOK'
  BY <1>8, ReconnectId
  DEF ReconnectAttach, TypeOK, registryVars, transportVars, historyVars, At,
      PCs, Procs, Working, Age, Slots
<1>9. ASSUME NEW c \in Conns, UnregisterRequest(c)
      PROVE  TypeOK'
  BY <1>9
  DEF UnregisterRequest, TypeOK, registryVars, transportVars, historyVars,
      At, PCs, Procs, Working, Detach, Slots
<1>10. ASSUME NEW c \in Conns, Refuse(c)
      PROVE  TypeOK'
  BY <1>10, AnsweredType
  DEF Refuse, TypeOK, registryVars, transportVars, historyVars
<1>11. ASSUME NEW c \in Conns, NEW h \in HandlerIds, ServeDisconnect(c, h)
      PROVE  TypeOK'
  BY <1>11
  DEF ServeDisconnect, TypeOK, registryVars, transportVars, historyVars, At,
      PCs, Procs, Working, Detach
<1>12. ASSUME SaveRow
      PROVE  TypeOK'
  <2>1. /\ "consumer" \in Procs
        /\ proc["consumer"] \in Working
        /\ proc["consumer"].id \in HandlerIds
        /\ proc["consumer"].conn \in Conns \cup {NoConn}
    BY <1>12, WorkingType DEF SaveRow, Procs
  <2>2. slot' \in [Conns -> Slots]
    BY <1>12, <2>1, AnsweredType DEF SaveRow, TypeOK
  <2>3. proc' \in [Procs -> {Idle} \cup Working]
    BY <1>12, <2>1 DEF SaveRow, TypeOK, At, PCs, Working
  <2>4. rows' \subseteq HandlerIds
    BY <1>12, <2>1 DEF SaveRow, TypeOK
  <2> QED
    BY <1>12, <2>1, <2>2, <2>3, <2>4
    DEF SaveRow, TypeOK, registryVars, transportVars, historyVars
<1>13. ASSUME CountHandler
      PROVE  TypeOK'
  <2>1. /\ "consumer" \in Procs
        /\ proc["consumer"] \in Working
        /\ proc["consumer"].id \in HandlerIds
        /\ proc["consumer"].conn \in Conns \cup {NoConn}
    BY <1>13, WorkingType DEF CountHandler, Procs
  <2>2. slot' \in [Conns -> Slots]
    BY <1>13, <2>1, AnsweredType DEF CountHandler
  <2>3. proc' \in [Procs -> {Idle} \cup Working]
    BY <1>13, <2>1 DEF CountHandler, TypeOK
  <2>4. counter' \in 0 .. CounterModulus - 1
    BY <1>13, CounterStays DEF CountHandler, TypeOK
  <2> QED
    BY <1>13, <2>1, <2>2, <2>3, <2>4
    DEF CountHandler, TypeOK, registryVars, transportVars, historyVars
<1>14. ASSUME NEW p \in Procs, DeleteRow(p)
      PROVE  TypeOK'
  <2>1. /\ p \in Procs
        /\ proc[p] \in Working
        /\ proc[p].id \in HandlerIds
        /\ proc[p].conn \in Conns \cup {NoConn}
    BY <1>14, WorkingType DEF DeleteRow, Procs
  <2>2. slot' \in [Conns -> Slots]
    BY <1>14, <2>1, AnsweredType DEF DeleteRow, TypeOK
  <2>3. proc' \in [Procs -> {Idle} \cup Working]
    BY <1>14, <2>1 DEF DeleteRow, TypeOK, PCs, Working
  <2> QED
    BY <1>14, <2>1, <2>2, <2>3
    DEF DeleteRow, TypeOK, registryVars, transportVars, historyVars
<1>15. ASSUME NEW p \in Procs, SubtractHandler(p)
      PROVE  TypeOK'
  <2>1. /\ p \in Procs
        /\ proc[p] \in Working
        /\ proc[p].id \in HandlerIds
        /\ proc[p].conn \in Conns \cup {NoConn}
    BY <1>15, WorkingType DEF SubtractHandler, Procs
  <2>2. slot' \in [Conns -> Slots]
    BY <1>15, <2>1, AnsweredType DEF SubtractHandler
  <2>3. proc' \in [Procs -> {Idle} \cup Working]
    BY <1>15, <2>1 DEF SubtractHandler, TypeOK
  <2>4. counter' \in 0 .. CounterModulus - 1
    BY <1>15, CounterStays DEF SubtractHandler, TypeOK
  <2> QED
    BY <1>15, <2>1, <2>2, <2>3, <2>4
    DEF SubtractHandler, TypeOK, registryVars, transportVars, historyVars
<1>16. ASSUME ReaperScan
      PROVE  TypeOK'
  BY <1>16
  DEF ReaperScan, TypeOK, registryVars, transportVars, historyVars
<1>17. ASSUME NEW h \in HandlerIds, ReaperUnregister(h)
      PROVE  TypeOK'
  BY <1>17
  DEF ReaperUnregister, TypeOK, registryVars, transportVars, historyVars, At,
      PCs, Procs, Working, Detach
<1>18. ASSUME Crash
      PROVE  TypeOK'
  BY <1>18
  DEF Crash, TypeOK, registryVars, transportVars, historyVars, Slots
<1>19. ASSUME Restart
      PROVE  TypeOK'
  <2>1. Cardinality(rows) \in Nat
    BY FS_Subset, FS_CardinalityType DEF TypeOK
  <2>2. counter' \in 0 .. CounterModulus - 1
    BY <1>19, <2>1, CounterStays DEF Restart, LoadHandlers
  <2> QED
    BY <1>19, <2>1, <2>2
    DEF Restart, LoadHandlers, TypeOK, registryVars, transportVars, historyVars
<1>20. ASSUME Tick
      PROVE  TypeOK'
  BY <1>20
  DEF Tick, TypeOK, registryVars, transportVars, historyVars, Older, Age
<1>21. CASE UNCHANGED vars
  BY <1>21 DEF vars, TypeOK, registryVars, transportVars, historyVars
<1>22. QED
  BY <1>1, <1>2, <1>3, <1>4, <1>5, <1>6, <1>7, <1>8, <1>9, <1>10, <1>11,
      <1>12, <1>13, <1>14, <1>15, <1>16, <1>17, <1>18, <1>19, <1>20, <1>21
  DEF Next, ConnectionStep, ConsumerStep, ReaperStep, Procs

(* Every step keeps the facts about the registry, the rows and the tasks.  *)
(* The steps of connections, refusals, the reaper's scan and the clock     *)
(* leave all of that state alone.                                          *)
LEMMA RegistryStep ==
    ASSUME RegistryInv, [Next]_vars
    PROVE  WorkInv' /\ AckedIsPersisted' /\ UnregisteredStaysGone'
<1> DEFINE state == <<up, handlers, rows, issued, proc, acked, gone>>
<1> USE DEF RegistryInv, WorkInv, AckedIsPersisted, UnregisteredStaysGone
<1>1. CASE UNCHANGED state
  BY <1>1
<1>2. ASSUME NEW c \in Conns, RegisterInsert(c)
      PROVE  WorkInv' /\ AckedIsPersisted' /\ UnregisteredStaysGone'
  BY <1>2 DEF RegisterInsert, ConsumerIdle, historyVars, TypeOK, At, Procs
<1>3. ASSUME NEW c \in Conns, ReconnectAttach(c)
      PROVE  WorkInv' /\ AckedIsPersisted' /\ UnregisteredStaysGone'
  BY <1>3 DEF ReconnectAttach, ConsumerIdle, historyVars, TypeOK, At, Procs
<1>4. ASSUME NEW c \in Conns, UnregisterRequest(c)
      PROVE  WorkInv' /\ AckedIsPersisted' /\ UnregisteredStaysGone'
  BY <1>4
  DEF UnregisterRequest, Detach, ConsumerIdle, historyVars, TypeOK, At, Procs
<1>5. ASSUME NEW c \in Conns, NEW h \in HandlerIds, ServeDisconnect(c, h)
      PROVE  WorkInv' /\ AckedIsPersisted' /\ UnregisteredStaysGone'
  BY <1>5
  DEF ServeDisconnect, Detach, ConsumerIdle, historyVars, TypeOK, At, Procs
<1>6. ASSUME SaveRow
      PROVE  WorkInv' /\ AckedIsPersisted' /\ UnregisteredStaysGone'
  BY <1>6 DEF SaveRow, registryVars, historyVars, TypeOK, At, Idle, Procs
<1>7. ASSUME CountHandler
      PROVE  WorkInv' /\ AckedIsPersisted' /\ UnregisteredStaysGone'
  BY <1>7 DEF CountHandler, registryVars, TypeOK, Idle, Procs
<1>8. ASSUME NEW p \in Procs, DeleteRow(p)
      PROVE  WorkInv' /\ AckedIsPersisted' /\ UnregisteredStaysGone'
  <2>1. /\ proc[p] \in Working
        /\ proc[p].pc = "delete"
        /\ proc[p].id \notin handlers
    BY <1>8, WorkingType DEF DeleteRow
  <2>2. /\ proc' \in [Procs -> {Idle} \cup Working]
        /\ \/ proc'[p].pc = "idle" /\ rows' = rows
           \/ /\ proc'[p].pc = "subtract" /\ proc'[p].id = proc[p].id
              /\ rows' = rows \ {proc[p].id}
        /\ \A q \in Procs \ {p} : proc'[q] = proc[q]
    BY <1>8, <2>1, TypeStep DEF DeleteRow, TypeOK, Idle, Working
  <2>3. UNCHANGED <<up, handlers, issued, acked, gone>>
    BY <1>8 DEF DeleteRow, registryVars, historyVars
  <2>4. WorkInv'
    BY <2>1, <2>2, <2>3 DEF Procs
  <2>5. AckedIsPersisted' /\ UnregisteredStaysGone'
    BY <2>1, <2>2, <2>3
  <2> QED
    BY <2>4, <2>5
<1>9. ASSUME NEW p \in Procs, SubtractHandler(p)
      PROVE  WorkInv' /\ AckedIsPersisted' /\ UnregisteredStaysGone'
  BY <1>9 DEF SubtractHandler, registryVars, TypeOK, Idle, Procs
<1>10. ASSUME NEW h \in HandlerIds, ReaperUnregister(h)
       PROVE  WorkInv' /\ AckedIsPersisted' /\ UnregisteredStaysGone'
  BY <1>10
  DEF ReaperUnregister, Detach, ReaperIdle, historyVars, TypeOK, At, Procs
<1>11. ASSUME Crash
       PROVE  WorkInv' /\ AckedIsPersisted' /\ UnregisteredStaysGone'
  BY <1>11 DEF Crash, historyVars, Idle, Procs
<1>12. ASSUME Restart
       PROVE  WorkInv' /\ AckedIsPersisted' /\ UnregisteredStaysGone'
  BY <1>12 DEF Restart, LoadHandlers, historyVars
<1>13. ASSUME NEW c \in Conns, NEW r \in Requests,
              \/ Accept(c) \/ Send(c, r) \/ Drain(c) \/ WriterFails(c)
              \/ Close(c) \/ AbortTasks(c) \/ Refuse(c) \/ ReaperScan
              \/ Tick \/ UNCHANGED vars
       PROVE  UNCHANGED state
  BY <1>13
  DEF Accept, Send, Drain, WriterFails, Close, AbortTasks, Refuse, ReaperScan,
      Tick, vars, registryVars, historyVars
<1>14. ASSUME ReaperScan \/ Tick \/ UNCHANGED vars
       PROVE  UNCHANGED state
  BY <1>14 DEF ReaperScan, Tick, vars, registryVars, historyVars
<1>15. Register \in Requests
  BY DEF Requests
<1> QED
  BY <1>1, <1>2, <1>3, <1>4, <1>5, <1>6, <1>7, <1>8, <1>9, <1>10, <1>11, <1>12,
     <1>13, <1>14, <1>15
  DEF Next, ConnectionStep, ConsumerStep, ReaperStep, Procs

(* The initial state satisfies all of it. *)
LEMMA RegistryInit == Init => RegistryInv
<1> SUFFICES ASSUME Init PROVE RegistryInv
  OBVIOUS
<1>1. TypeOK
  <2>1. up \in BOOLEAN /\ failed \in BOOLEAN
    BY DEF Init
  <2>2. /\ handlers \subseteq HandlerIds /\ rows \subseteq HandlerIds
        /\ issued \subseteq HandlerIds /\ acked \subseteq HandlerIds
        /\ todo \subseteq HandlerIds /\ notices \subseteq Conns \X HandlerIds
        /\ gone \in [Procs -> SUBSET HandlerIds]
    BY DEF Init
  <2>3. /\ sinceSeen \in [HandlerIds -> Age] /\ sinceRegistered \in [HandlerIds -> Age]
        /\ counter \in 0 .. CounterModulus - 1
    BY RegistryAssumption DEF Init, Age
  <2>4. /\ connection \in [HandlerIds -> Conns \cup {NoConn}]
        /\ phase \in [Conns -> {"new", "open", "closing", "closed"}]
        /\ alive \in [Conns -> BOOLEAN]
        /\ connHandler \in [Conns -> HandlerIds \cup {NoHandler}]
        /\ slot \in [Conns -> Slots]
        /\ proc \in [Procs -> {Idle} \cup Working]
    BY DEF Init, Slots
  <2> QED
    BY <2>1, <2>2, <2>3, <2>4 DEF TypeOK
<1>2. WorkInv /\ AckedIsPersisted /\ UnregisteredStaysGone
  BY DEF Init, WorkInv, AckedIsPersisted, UnregisteredStaysGone, Procs, Idle
<1> QED
  BY <1>1, <1>2 DEF RegistryInv

(* Every state of the registry, the table, the connections and the two     *)
(* tasks is well-formed: in particular a task that is at work always holds *)
(* a handler id, and the counter stays within its width when it wraps.     *)
THEOREM TypeCorrect == Spec => []TypeOK
<1>1. Init => TypeOK
  BY RegistryInit DEF RegistryInv
<1>2. TypeOK /\ [Next]_vars => TypeOK'
  BY TypeStep
<1> QED
  BY <1>1, <1>2, PTL DEF Spec

(* The inductive invariant behind the two safety theorems. *)
THEOREM RegistryInvariant == Spec => []RegistryInv
<1>1. Init => RegistryInv
  BY RegistryInit
<1>2. RegistryInv /\ [Next]_vars => RegistryInv'
  BY TypeStep, RegistryStep DEF RegistryInv
<1> QED
  BY <1>1, <1>2, PTL DEF Spec

(* handle_register acknowledges a handler only once its row is saved, and  *)
(* unregister_handler takes the entry before the row: an acknowledged      *)
(* handler in the registry always has its row, whatever the interleaving   *)
(* of consumer and reaper, failing writes and restarts.                    *)
THEOREM AckedPersisted == Spec => []AckedIsPersisted
<1>1. RegistryInv => AckedIsPersisted
  BY DEF RegistryInv
<1> QED
  BY <1>1, RegistryInvariant, PTL

(* What the consumer has unregistered to the end stays out of the registry *)
(* and of the table for good, because only the consumer writes rows and it *)
(* serves one event at a time.                                             *)
THEOREM UnregisteredForGood == Spec => []UnregisteredStaysGone
<1>1. RegistryInv => UnregisteredStaysGone
  BY DEF RegistryInv
<1> QED
  BY <1>1, RegistryInvariant, PTL

-----------------------------------------------------------------------------
(* The counter.  Division by the width of the counter, and what a task     *)
(* still owes it: +1 for an entry it has taken out and not subtracted, -1  *)
(* for one it has put in and not counted.                                  *)

(* The quotient and the remainder of a division. *)
LEMMA Division ==
    ASSUME NEW i \in Int
    PROVE  /\ i \div CounterModulus \in Int
           /\ i % CounterModulus \in 0 .. CounterModulus - 1
           /\ i = CounterModulus * (i \div CounterModulus) + (i % CounterModulus)
  BY RegistryAssumption

(* A positive multiple of the width is no less than the width. *)
LEMMA Multiple ==
    ASSUME NEW q \in Int, q >= 1
    PROVE  CounterModulus * q >= CounterModulus
  BY RegistryAssumption

(* Multiples add up. *)
LEMMA Distributes ==
    ASSUME NEW x \in Int, NEW y \in Int
    PROVE  CounterModulus * (x + y) = CounterModulus * x + CounterModulus * y
  BY RegistryAssumption

(* There is only one remainder. *)
LEMMA RemainderUnique ==
    ASSUME NEW q1 \in Int, NEW r1 \in 0 .. CounterModulus - 1,
           NEW q2 \in Int, NEW r2 \in 0 .. CounterModulus - 1,
           CounterModulus * q1 + r1 = CounterModulus * q2 + r2
    PROVE  r1 = r2
<1> DEFINE M == CounterModulus
<1>1. M \in Nat /\ M * q1 \in Int /\ M * q2 \in Int
  BY RegistryAssumption
<1>2. CASE q1 = q2
  BY <1>1, <1>2
<1>3. CASE q1 > q2
  <2>1. M * (q1 - q2) >= M
    BY <1>3, Multiple
  <2>2. M * (q1 - q2) = M * q1 - M * q2
    BY <1>1
  <2> QED
    BY <1>1, <2>1, <2>2
<1>4. CASE q1 < q2
  <2>1. M * (q2 - q1) >= M
    BY <1>4, Multiple
  <2>2. M * (q2 - q1) = M * q2 - M * q1
    BY <1>1
  <2> QED
    BY <1>1, <2>1, <2>2
<1> QED
  BY <1>2, <1>3, <1>4

(* Adding to a wrapped value and wrapping again is adding and wrapping     *)
(* once: fetch_add and fetch_sub of an AtomicU64.                          *)
LEMMA WrapsOnce ==
    ASSUME NEW i \in Int, NEW d \in Int
    PROVE  ((i % CounterModulus) + d) % CounterModulus = (i + d) % CounterModulus
<1> DEFINE M == CounterModulus
           a == (i % M) + d
           b == i + d
           x == a \div M
           y == i \div M
           q == x + y
           p == b \div M
           r == a % M
           s == b % M
<1>1. M \in Nat \ {0} /\ i \div M \in Int /\ i % M \in Int /\ i = M * (i \div M) + (i % M)
  BY Division, RegistryAssumption
<1>2. a \in Int /\ b \in Int /\ b = a + M * (i \div M)
  BY <1>1
<1> HIDE DEF a, b
<1>3. a = M * (a \div M) + r /\ a \div M \in Int /\ r \in 0 .. M - 1
  BY <1>2, Division
<1>4. b = M * p + s /\ p \in Int /\ s \in 0 .. M - 1
  BY <1>2, Division
<1>5. x \in Int /\ y \in Int
  BY <1>1, <1>3
<1> HIDE DEF x, y
<1>6. q \in Int /\ M * q = M * x + M * y
  BY <1>5, Distributes
<1> HIDE DEF p, q, r, s
<1>7. a = M * x + r /\ b = a + M * y /\ M * x \in Int /\ M * y \in Int
  BY <1>1, <1>2, <1>3, <1>5 DEF x, y
<1>8. M * q + r = M * p + s
  BY <1>3, <1>4, <1>6, <1>7
<1> HIDE DEF M
<1>9. r = s
  BY <1>3, <1>4, <1>6, <1>8, RemainderUnique DEF M
<1> QED
  BY <1>9 DEF M, r, s, a, b

(* What a task owes the counter. *)
Owes(p) ==
    IF proc[p].pc \in {"delete", "subtract"} THEN 1
    ELSE IF proc[p].pc \in {"save_new", "count"} THEN -1 ELSE 0

(* The value the counter would have without wrapping. *)
Balance == Cardinality(handlers) + Owes("consumer") + Owes("reaper")

(* A set of tasks is counted task by task. *)
LEMMA CountTasks ==
    ASSUME NEW S \in SUBSET Procs
    PROVE  Cardinality(S) = (IF "consumer" \in S THEN 1 ELSE 0)
                            + (IF "reaper" \in S THEN 1 ELSE 0)
<1>1. "consumer" # "reaper"
  OBVIOUS
<1>2. Cardinality({}) = 0 /\ IsFiniteSet({})
  BY FS_EmptySet
<1>3. Cardinality({"reaper"}) = 1 /\ IsFiniteSet({"reaper"}) /\ Cardinality({"consumer"}) = 1
  BY FS_Singleton
<1>4. Cardinality({"reaper"} \cup {"consumer"}) = 2
  BY <1>1, <1>3, FS_AddElement
<1>5. \/ S = {} \/ S = {"consumer"} \/ S = {"reaper"} \/ S = {"reaper"} \cup {"consumer"}
  BY DEF Procs
<1> QED
  BY <1>1, <1>2, <1>3, <1>4, <1>5

(* The property's sets of tasks amount to what the tasks owe. *)
LEMMA BalanceIsAccount ==
    ASSUME TypeOK
    PROVE  /\ Balance \in Int
           /\ Cardinality(handlers) + Cardinality(ToSubtract) - Cardinality(ToCount) = Balance
<1>1. Cardinality(handlers) \in Nat
  BY RegistryAssumption, FS_Subset, FS_CardinalityType DEF TypeOK
<1>2. Cardinality(ToSubtract) = (IF "consumer" \in ToSubtract THEN 1 ELSE 0)
                                + (IF "reaper" \in ToSubtract THEN 1 ELSE 0)
  BY CountTasks DEF ToSubtract
<1>3. Cardinality(ToCount) = (IF "consumer" \in ToCount THEN 1 ELSE 0)
                             + (IF "reaper" \in ToCount THEN 1 ELSE 0)
  BY CountTasks DEF ToCount
<1> QED
  BY <1>1, <1>2, <1>3 DEF Balance, Owes, ToCount, ToSubtract, Procs

(* Putting an entry in and taking one out changes the size by one. *)
LEMMA RegistrySize ==
    ASSUME TypeOK, NEW h
    PROVE  /\ Cardinality(handlers) \in Nat
           /\ h \notin handlers => Cardinality(handlers \cup {h}) = Cardinality(handlers) + 1
           /\ h \in handlers => Cardinality(handlers \ {h}) = Cardinality(handlers) - 1
  BY RegistryAssumption, FS_Subset, FS_CardinalityType, FS_AddElement,
     FS_RemoveElement DEF TypeOK

(* Every step of a daemon that stays up, and whose writes succeed, changes *)
(* the counter by as much as the balance.                                  *)
LEMMA BalanceStep ==
    ASSUME RegistryInv, Next, up', ~failed', ~Restart
    PROVE  /\ up /\ ~failed
           /\ \/ Balance' = Balance /\ counter' = counter
              \/ Balance' = Balance + 1 /\ counter' = (counter + 1) % CounterModulus
              \/ Balance' = Balance - 1 /\ counter' = (counter - 1) % CounterModulus
<1> DEFINE Same == up /\ ~failed /\ Balance' = Balance /\ counter' = counter
<1>1. TypeOK /\ WorkInv /\ Cardinality(handlers) \in Nat
  BY RegistrySize DEF RegistryInv
<1>2. ASSUME NEW c \in Conns, RegisterInsert(c)
      PROVE  Same
  <2> PICK h \in HandlerIds \ issued :
        handlers' = handlers \cup {h} /\ proc' = [proc EXCEPT !["consumer"] = At("save_new", h, c)]
    BY <1>2 DEF RegisterInsert
  <2>1. Cardinality(handlers') = Cardinality(handlers) + 1
    BY <1>1, RegistrySize DEF WorkInv
  <2>2. Owes("consumer") = 0 /\ Owes("consumer")' = -1 /\ Owes("reaper")' = Owes("reaper")
    BY <1>1, <1>2 DEF RegisterInsert, ConsumerIdle, Owes, At, TypeOK, Procs
  <2>3. Owes("reaper") \in Int
    BY DEF Owes
  <2> QED
    BY <1>1, <1>2, <2>1, <2>2, <2>3 DEF RegisterInsert, historyVars, Balance
<1>3. ASSUME NEW p \in Procs, NEW h, NEW c, Detach(p, h, c), proc[p].pc = "idle",
             UNCHANGED <<up, counter, failed>>
      PROVE  Same
  <2>1. Cardinality(handlers') = Cardinality(handlers) - 1
    BY <1>1, <1>3, RegistrySize DEF Detach
  <2>2. Owes(p) = 0 /\ Owes(p)' = 1 /\ \A q \in Procs \ {p} : Owes(q)' = Owes(q)
    BY <1>1, <1>3 DEF Detach, Owes, At, TypeOK
  <2>3. \A q \in Procs : Owes(q) \in Int
    BY DEF Owes
  <2> QED
    BY <1>1, <1>3, <2>1, <2>2, <2>3 DEF Balance, Procs
<1>4. ASSUME NEW p \in Procs, SubtractHandler(p)
      PROVE  /\ up /\ ~failed
             /\ Balance' = Balance - 1 /\ counter' = (counter - 1) % CounterModulus
  <2>1. Owes(p) = 1 /\ Owes(p)' = 0 /\ \A q \in Procs \ {p} : Owes(q)' = Owes(q)
    BY <1>1, <1>4 DEF SubtractHandler, Owes, Idle, TypeOK
  <2>2. \A q \in Procs : Owes(q) \in Int
    BY DEF Owes
  <2> QED
    BY <1>1, <1>4, <2>1, <2>2 DEF SubtractHandler, registryVars, Balance, Procs
<1>5. ASSUME CountHandler
      PROVE  /\ up /\ ~failed
             /\ Balance' = Balance + 1 /\ counter' = (counter + 1) % CounterModulus
  <2>1. Owes("consumer") = -1 /\ Owes("consumer")' = 0 /\ Owes("reaper")' = Owes("reaper")
    BY <1>1, <1>5 DEF CountHandler, Owes, Idle, TypeOK, Procs
  <2>2. Owes("reaper") \in Int
    BY DEF Owes
  <2> QED
    BY <1>1, <1>5, <2>1, <2>2 DEF CountHandler, registryVars, Balance
<1>6. CASE SaveRow
  <2>1. Owes("consumer")' = Owes("consumer") /\ Owes("reaper")' = Owes("reaper")
    BY <1>1, <1>6 DEF SaveRow, Owes, Idle, At, TypeOK, Procs
  <2> QED
    BY <1>6, <2>1 DEF SaveRow, registryVars, Balance
<1>7. ASSUME NEW p \in Procs, DeleteRow(p)
      PROVE  Same
  <2>1. proc[p] \in Working
    BY <1>1, <1>7, WorkingType DEF DeleteRow
  <2>2. /\ proc[p].pc = "delete"
        /\ proc' = [proc EXCEPT ![p].pc = "subtract"] /\ ~failed
    BY <1>7 DEF DeleteRow
  <2>3. proc'[p].pc = "subtract" /\ \A q \in Procs \ {p} : proc'[q] = proc[q]
    BY <1>1, <2>1, <2>2 DEF TypeOK, Working
  <2>4. \A q \in Procs : Owes(q)' = Owes(q)
    BY <2>2, <2>3 DEF Owes
  <2> QED
    BY <1>7, <2>2, <2>4 DEF DeleteRow, registryVars, Balance, Procs
<1>8. ASSUME NEW c \in Conns, ReconnectAttach(c)
      PROVE  Same
  <2>1. Owes("consumer")' = Owes("consumer") /\ Owes("reaper")' = Owes("reaper")
    BY <1>1, <1>8 DEF ReconnectAttach, ConsumerIdle, Owes, At, TypeOK, Procs
  <2> QED
    BY <1>8, <2>1 DEF ReconnectAttach, historyVars, Balance
<1>9. ASSUME UNCHANGED <<up, handlers, counter, proc, failed>>
      PROVE  Same
  BY <1>9 DEF Balance, Owes
<1>10. ASSUME NEW c \in Conns, UnregisterRequest(c)
       PROVE  Same
  BY <1>3, <1>10 DEF UnregisterRequest, ConsumerIdle, historyVars, Procs
<1>11. ASSUME NEW c \in Conns, NEW h \in HandlerIds, ServeDisconnect(c, h)
       PROVE  Same
  BY <1>3, <1>9, <1>11 DEF ServeDisconnect, ConsumerIdle, historyVars, Procs
<1>12. ASSUME NEW h \in HandlerIds, ReaperUnregister(h)
       PROVE  Same
  BY <1>3, <1>9, <1>12 DEF ReaperUnregister, ReaperIdle, historyVars, Procs
<1>13. ASSUME NEW c \in Conns, ConnectionStep(c) \/ Refuse(c)
       PROVE  Same
  BY <1>9, <1>13
  DEF ConnectionStep, Accept, Send, Drain, WriterFails, Close, AbortTasks, Refuse,
      registryVars, historyVars
<1>14. CASE ReaperScan \/ Tick
  BY <1>9, <1>14 DEF ReaperScan, Tick, registryVars, historyVars
<1>15. ~Crash
  BY DEF Crash
<1> QED
  BY <1>2, <1>4, <1>5, <1>6, <1>7, <1>8, <1>10, <1>11, <1>12, <1>13, <1>14, <1>15
  DEF Next, ConsumerStep, ReaperStep, Procs

(* handlers_registered, which metrics and status report, is the size of    *)
(* the registry up to what the two tasks are about to add or subtract, for *)
(* any number of handlers and any width of the counter, as long as no      *)
(* write fails; a restart counts the rows and starts a new account.        *)
THEOREM CounterExact == Spec => []CounterAccounts
<1> DEFINE Account == up /\ ~failed => counter = Balance % CounterModulus
<1>1. RegistryInv => (Account <=> CounterAccounts)
  BY BalanceIsAccount DEF RegistryInv, CounterAccounts
<1>2. Init => Account
  <2> SUFFICES ASSUME Init PROVE counter = Balance % CounterModulus
    OBVIOUS
  <2>1. Balance = 0
    BY FS_EmptySet DEF Init, Balance, Owes, Idle, Procs
  <2>2. 0 % CounterModulus = 0
    BY RegistryAssumption
  <2> QED
    BY <2>1, <2>2 DEF Init
<1>3. RegistryInv /\ Account /\ [Next]_vars => Account'
  <2> SUFFICES ASSUME RegistryInv, Account, [Next]_vars, up', ~failed'
               PROVE  counter' = Balance' % CounterModulus
    OBVIOUS
  <2>1. Balance \in Int /\ TypeOK
    BY BalanceIsAccount DEF RegistryInv
  <2>2. CASE UNCHANGED vars
    <3>1. Balance' = Balance /\ counter' = counter /\ up /\ ~failed
      BY <2>2 DEF vars, registryVars, historyVars, Balance, Owes
    <3> QED
      BY <3>1
  <2>3. CASE Restart
    <3>1. \A p \in Procs : Owes(p)' = 0
      BY <2>3 DEF Restart, RegistryInv, WorkInv, Owes
    <3>2. Cardinality(rows) \in Nat
      BY <2>1, RegistryAssumption, FS_Subset, FS_CardinalityType DEF TypeOK
    <3>3. Balance' = Cardinality(rows)
      BY <2>3, <3>1, <3>2 DEF Restart, LoadHandlers, Balance, Procs
    <3> QED
      BY <2>3, <3>3 DEF Restart, LoadHandlers
  <2>4. CASE Next /\ ~Restart
    <3>1. up /\ ~failed /\ counter = Balance % CounterModulus
      BY <2>4, BalanceStep
    <3>2. \A d \in Int :
             (counter + d) % CounterModulus = (Balance + d) % CounterModulus
      BY <2>1, <3>1, WrapsOnce
    <3>3. /\ (counter + 1) % CounterModulus = (Balance + 1) % CounterModulus
          /\ (counter - 1) % CounterModulus = (Balance - 1) % CounterModulus
      <4>1. counter + (-1) = counter - 1 /\ Balance + (-1) = Balance - 1
        BY <2>1 DEF TypeOK
      <4>2. 1 \in Int /\ -1 \in Int
        OBVIOUS
      <4> QED
        BY <3>2, <4>1, <4>2
    <3> QED
      BY <2>4, <3>1, <3>2, <3>3, BalanceStep
  <2> QED
    BY <2>2, <2>3, <2>4
<1> QED
  BY <1>1, <1>2, <1>3, RegistryInvariant, PTL DEF Spec

=============================================================================
