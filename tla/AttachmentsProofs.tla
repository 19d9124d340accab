------------------------- MODULE AttachmentsProofs -------------------------
(***************************************************************************)
(* Proofs about Attachments, for any number of rumors and payloads and any *)
(* retention, sweep interval and threshold: the type invariant, that a     *)
(* delivered file can be read until it expires, and that a payload that    *)
(* was not sent stays on disk.                                             *)
(***************************************************************************)
EXTENDS Attachments, TLAPS

-----------------------------------------------------------------------------
\* Types

\* Spool::open and the sweep counters: at startup every variable has its type.
LEMMA InitTyped == Init => TypeOK
BY AttachmentAssumption DEF Init, TypeOK, Sends, NoSend

\* delete_stale on the inbound directory yields files again, whatever it drops.
LEMMA KeptTyped ==
    file \in [Rumors -> {"none", "partial", "complete"}]
      => Kept \in [Rumors -> {"none", "partial", "complete"}]
BY DEF Kept

\* A record of the send in progress other than NoSend has a payload and a host.
LEMMA SendTyped ==
    ASSUME send \in Sends, send.step # "idle"
    PROVE  send \in [payload : {{p} : p \in Payloads},
                     step : {"load", "upload", "publish", "complete"}, host : 0 .. Hosts]
BY DEF Sends, NoSend

\* No step of a task, a sweep, a send, the process or the clock takes a
\* variable out of its type.
LEMMA StepTyped == TypeOK /\ [Next]_vars => TypeOK'
<1> SUFFICES ASSUME TypeOK, [Next]_vars PROVE TypeOK'
  OBVIOUS
<1> USE AttachmentAssumption
<1>1. ASSUME NEW r \in Rumors, Fetch(r) PROVE TypeOK'
  BY <1>1 DEF Fetch, TypeOK, outVars, sweepVars
<1>2. ASSUME NEW r \in Rumors, Abandon(r) PROVE TypeOK'
  BY <1>2 DEF Abandon, TypeOK, outVars, sweepVars
<1>3. ASSUME NEW r \in Rumors, CreateInbound(r) PROVE TypeOK'
  BY <1>3 DEF CreateInbound, AtMost, TypeOK, outVars
<1>4. ASSUME NEW r \in Rumors, WriteInbound(r) PROVE TypeOK'
  BY <1>4 DEF WriteInbound, TypeOK, outVars, sweepVars
<1>5. ASSUME NEW r \in Rumors, DiscardInbound(r) PROVE TypeOK'
  BY <1>5 DEF DiscardInbound, TypeOK, outVars, sweepVars
<1>6. ASSUME NEW r \in Rumors, Deliver(r) PROVE TypeOK'
  BY <1>6, KeptTyped DEF Deliver, Sweep, TypeOK, sweepVars
<1>7. CASE PeriodicSweep
  BY <1>7, KeptTyped DEF PeriodicSweep, Sweep, TypeOK, sweepVars
<1>8. ASSUME NEW p \in Payloads, Stage(p) PROVE TypeOK'
  BY <1>8 DEF Stage, TypeOK, inVars, sweepVars
<1>9. ASSUME NEW p \in Payloads, AskSend(p) PROVE TypeOK'
  BY <1>9 DEF AskSend, Sends, TypeOK, inVars, sweepVars
<1>10. CASE LoadSource
  <2>1. \/ Hosts > 0 /\ send' = [send EXCEPT !.step = "upload", !.host = 1]
        \/ send' = NoSend
    BY <1>10 DEF LoadSource, SendFails
  <2>2. send.step = "load" /\ send \in Sends
    BY <1>10 DEF LoadSource, TypeOK
  <2>3. send' \in Sends
    <3>1. send \in [payload : {{p} : p \in Payloads},
                    step : {"load", "upload", "publish", "complete"}, host : 0 .. Hosts]
      BY <2>2, SendTyped
    <3>2. CASE send' = NoSend
      BY <3>2 DEF Sends
    <3>3. CASE Hosts > 0 /\ send' = [send EXCEPT !.step = "upload", !.host = 1]
      <4>1. 1 \in 0 .. Hosts
        BY <3>3
      <4>2. [[send EXCEPT !.step = "upload"] EXCEPT !.host = 1]
              \in [payload : {{p} : p \in Payloads},
                  step : {"load", "upload", "publish", "complete"}, host : 0 .. Hosts]
        BY <3>1, <4>1
      <4> QED
        BY <3>3, <4>2 DEF Sends
    <3> QED
      BY <2>1, <3>2, <3>3
  <2> QED
    BY <1>10, <2>3 DEF LoadSource, TypeOK, inVars, sweepVars
<1>11. CASE UploadAttempt
  <2>1. send' \in Sends
    BY <1>11, SendTyped DEF UploadAttempt, SendFails, Sends, TypeOK
  <2> QED
    BY <1>11, <2>1 DEF UploadAttempt, TypeOK, inVars, sweepVars
<1>12. CASE PublishRumor
  <2>1. send' \in Sends /\ sent' \subseteq Payloads
    BY <1>12, SendTyped DEF PublishRumor, SendFails, Sends, TypeOK
  <2> QED
    BY <1>12, <2>1 DEF PublishRumor, TypeOK, inVars, sweepVars
<1>13. CASE Complete
  BY <1>13 DEF Complete, Sends, TypeOK, inVars, sweepVars
<1>14. CASE Stop
  BY <1>14, KeptTyped DEF Stop, Sends, TypeOK, sweepVars
<1>15. CASE Start
  BY <1>15, KeptTyped DEF Start, TypeOK, outVars
<1>16. CASE Tick
  BY <1>16 DEF Tick, AtMost, TypeOK
<1>17. CASE UNCHANGED vars
  BY <1>17 DEF TypeOK, vars, inVars, outVars, sweepVars
<1> QED
  BY <1>1, <1>2, <1>3, <1>4, <1>5, <1>6, <1>7, <1>8, <1>9, <1>10, <1>11, <1>12,
     <1>13, <1>14, <1>15, <1>16, <1>17
     DEF Next, Inbound, Sending, RejectTags, RefuseFetch, RejectPlaintext

\* The spool and the tasks around it keep every variable in its type, for any
\* retentions, thresholds and numbers of rumors, payloads and hosts.
THEOREM TypeCorrect == Spec => []TypeOK
BY InitTyped, StepTyped, PTL DEF Spec

-----------------------------------------------------------------------------
\* Inbound files

\* The file of a rumor whose announced time runs: it is younger than the
\* retention by at least what is left, and holds what the task has written.
Timely(r) ==
    left[r] > 0 =>
        /\ age[r] + left[r] <= Retention
        /\ task[r] = "created" => file[r] = "partial"
        /\ task[r] \in {"written", "delivered"} => file[r] = "complete"

AllTimely == \A r \in Rumors : Timely(r)

\* A sweep leaves a timely file alone, because it is younger than the retention.
LEMMA SweepSpares ==
    ASSUME TypeOK, AllTimely, NEW r \in Rumors, left[r] > 0
    PROVE  Kept[r] = file[r]
<1>1. Timely(r) /\ age[r] \in Nat /\ left[r] \in Nat /\ Retention \in Nat
  BY AttachmentAssumption DEF AllTimely, TypeOK
<1>2. ~ (age[r] >= Retention)
  BY <1>1 DEF Timely
<1> QED
  BY <1>2 DEF Kept

\* What concerns one rumor: its task is where it was, its file is what it was
\* or what a sweep made of it, and its times are unchanged.
LEMMA SweptTimely ==
    ASSUME TypeOK, AllTimely, NEW r \in Rumors,
           file'[r] \in {file[r], Kept[r]}, age' = age, left' = left,
           \/ task'[r] \in {task[r], "ended"}
           \/ task[r] = "written" /\ task'[r] = "delivered"
    PROVE  Timely(r)'
BY SweepSpares DEF AllTimely, Timely

\* process_rumor fixes expires_at before it creates the file, so the file is
\* never older than the announced time allows; sweeps, restarts and the steps
\* of other tasks keep it so.
LEMMA StepTimely == TypeOK /\ AllTimely /\ [Next]_vars => AllTimely'
<1> SUFFICES ASSUME TypeOK, AllTimely, [Next]_vars, NEW s \in Rumors
             PROVE  Timely(s)'
  BY DEF AllTimely
<1> USE AttachmentAssumption
<1>0. Timely(s)
  BY DEF AllTimely
<1>1. ASSUME NEW r \in Rumors, Fetch(r) PROVE Timely(s)'
  BY <1>1, <1>0 DEF Fetch, Timely, TypeOK
<1>2. ASSUME NEW r \in Rumors, Abandon(r) PROVE Timely(s)'
  BY <1>2, <1>0 DEF Abandon, Timely, TypeOK
<1>3. ASSUME NEW r \in Rumors, CreateInbound(r) PROVE Timely(s)'
  BY <1>3, <1>0 DEF CreateInbound, Timely, TypeOK
<1>4. ASSUME NEW r \in Rumors, WriteInbound(r) PROVE Timely(s)'
  BY <1>4, <1>0 DEF WriteInbound, Timely, TypeOK
<1>5. ASSUME NEW r \in Rumors, DiscardInbound(r) PROVE Timely(s)'
  BY <1>5, <1>0 DEF DiscardInbound, Timely, TypeOK
<1>6. ASSUME NEW r \in Rumors, Deliver(r) PROVE Timely(s)'
  <2>1. file'[s] \in {file[s], Kept[s]} /\ age' = age /\ left' = left
    BY <1>6 DEF Deliver, Sweep
  <2>2. \/ task'[s] \in {task[s], "ended"}
        \/ task[s] = "written" /\ task'[s] = "delivered"
    BY <1>6 DEF Deliver, TypeOK
  <2> QED
    BY <2>1, <2>2, SweptTimely
<1>7. CASE PeriodicSweep
  <2>1. file'[s] \in {file[s], Kept[s]} /\ age' = age /\ left' = left /\ task' = task
    BY <1>7 DEF PeriodicSweep, Sweep
  <2> QED
    BY <2>1, SweptTimely
<1>8. CASE Stop
  <2>1. /\ file'[s] \in {file[s], Kept[s]} /\ age' = age /\ left' = left
        /\ task'[s] \in {task[s], "ended"}
    BY <1>8 DEF Stop
  <2> QED
    BY <2>1, SweptTimely
<1>9. CASE Start
  <2>1. file'[s] = Kept[s] /\ age' = age /\ left' = left /\ task' = task
    BY <1>9 DEF Start
  <2> QED
    BY <2>1, SweptTimely
<1>10. CASE Tick
  BY <1>10, <1>0 DEF Tick, AtMost, Timely, TypeOK
<1>11. CASE UNCHANGED inVars
  BY <1>11, <1>0 DEF inVars, Timely
<1> QED
  BY <1>1, <1>2, <1>3, <1>4, <1>5, <1>6, <1>7, <1>8, <1>9, <1>10, <1>11
     DEF Next, Inbound, Sending, RejectTags, RefuseFetch, RejectPlaintext,
         Stage, AskSend, LoadSource, UploadAttempt, PublishRumor, Complete, vars

\* A path handed to a handler holds the whole payload until its expires_at, for
\* any retention and any order of tasks, sweeps and restarts.
THEOREM Readable == Spec => []ReadableUntilExpiry
<1>1. Init => AllTimely
  BY DEF Init, AllTimely, Timely
<1>2. AllTimely => ReadableUntilExpiry
  BY DEF AllTimely, Timely, ReadableUntilExpiry
<1> QED
  BY <1>1, <1>2, StepTimely, TypeCorrect, PTL DEF Spec

-----------------------------------------------------------------------------
\* Outbound payloads

\* A send reaches complete, which removes the payload, only once the rumor is out.
CompletedWasSent == send.step = "complete" => send.payload \subseteq sent

Retained == UnsentIsKept /\ CompletedWasSent

\* Only a sweep past the retention and OutboundAttachmentProcessor::complete
\* remove a payload, and complete follows the publication.
LEMMA StepRetained == TypeOK /\ Retained /\ [Next]_vars => Retained'
<1> SUFFICES ASSUME TypeOK, Retained, [Next]_vars PROVE Retained'
  OBVIOUS
<1> USE AttachmentAssumption
<1>1. CASE Sweep /\ UNCHANGED <<stagedAge, sent, send>>
  <2>1. staged' \in {staged, staged \ StalePayloads}
    BY <1>1 DEF Sweep
  <2>2. \A p \in Payloads : stagedAge[p] \in 1 .. (OutRetention - 1) => p \notin StalePayloads
    BY DEF StalePayloads, TypeOK
  <2> QED
    BY <1>1, <2>1, <2>2 DEF Retained, UnsentIsKept, CompletedWasSent
<1>2. ASSUME NEW p \in Payloads, Stage(p) PROVE Retained'
  BY <1>2 DEF Stage, Retained, UnsentIsKept, CompletedWasSent, TypeOK
<1>3. ASSUME NEW p \in Payloads, AskSend(p) PROVE Retained'
  BY <1>3 DEF AskSend, Retained, UnsentIsKept, CompletedWasSent
<1>4. CASE LoadSource
  <2>1. \/ send' = [send EXCEPT !.step = "upload", !.host = 1]
        \/ send' = NoSend
    BY <1>4 DEF LoadSource, SendFails
  <2>2. send.step = "load" /\ send \in Sends
    BY <1>4 DEF LoadSource, TypeOK
  <2>3. CompletedWasSent'
    <3>1. send \in [payload : {{p} : p \in Payloads},
                    step : {"load", "upload", "publish", "complete"}, host : 0 .. Hosts]
      BY <2>2, SendTyped
    <3>2. [[send EXCEPT !.step = "upload"] EXCEPT !.host = 1].step = "upload"
      BY <3>1
    <3>3. CASE send' = NoSend
      BY <3>3 DEF NoSend, CompletedWasSent
    <3>4. CASE send' = [[send EXCEPT !.step = "upload"] EXCEPT !.host = 1]
      BY <3>2, <3>4 DEF CompletedWasSent
    <3> QED
      BY <2>1, <3>3, <3>4
  <2> QED
    BY <1>4, <2>3 DEF LoadSource, Retained, UnsentIsKept
<1>5. CASE UploadAttempt
  <2>1. CompletedWasSent'
    BY <1>5, SendTyped DEF UploadAttempt, SendFails, NoSend, CompletedWasSent, TypeOK
  <2> QED
    BY <1>5, <2>1 DEF UploadAttempt, Retained, UnsentIsKept
<1>6. CASE PublishRumor
  <2>1. CompletedWasSent'
    BY <1>6, SendTyped DEF PublishRumor, SendFails, NoSend, CompletedWasSent, TypeOK
  <2>2. sent \subseteq sent'
    BY <1>6 DEF PublishRumor
  <2> QED
    BY <1>6, <2>1, <2>2 DEF PublishRumor, Retained, UnsentIsKept
<1>7. CASE Complete
  BY <1>7 DEF Complete, NoSend, Retained, UnsentIsKept, CompletedWasSent
<1>8. CASE Stop
  BY <1>8 DEF Stop, NoSend, Retained, UnsentIsKept, CompletedWasSent
<1>9. CASE Tick
  <2>1. \A p \in Payloads : stagedAge'[p] \in 1 .. (OutRetention - 1) /\ p \notin staged
            => stagedAge[p] \in 1 .. (OutRetention - 1)
    BY <1>9 DEF Tick, TypeOK
  <2> QED
    BY <1>9, <2>1 DEF Tick, Retained, UnsentIsKept, CompletedWasSent
<1>10. CASE UNCHANGED outVars
  BY <1>10 DEF outVars, Retained, UnsentIsKept, CompletedWasSent
<1> QED
  BY <1>1, <1>2, <1>3, <1>4, <1>5, <1>6, <1>7, <1>8, <1>9, <1>10
     DEF Next, Inbound, Sending, Fetch, Abandon, RejectTags, RefuseFetch, RejectPlaintext,
         CreateInbound, WriteInbound, DiscardInbound, Deliver, PeriodicSweep, Start, vars

\* A staged payload is on disk until it was published or its retention is over,
\* for any retention, any hosts and wherever a send or the daemon ended.
THEOREM UnsentKept == Spec => []UnsentIsKept
<1>1. Init => Retained
  BY DEF Init, NoSend, Retained, UnsentIsKept, CompletedWasSent
<1>2. Retained => UnsentIsKept
  BY DEF Retained
<1> QED
  BY <1>1, <1>2, StepRetained, TypeCorrect, PTL DEF Spec
=============================================================================
