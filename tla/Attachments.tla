---------------------------- MODULE Attachments ----------------------------
(***************************************************************************)
(* The attachment spool (src/spool.rs) and the tasks around it: inbound    *)
(* rumors of kind 15 are fetched, decrypted and written to the inbound     *)
(* directory (src/attachment/inbound.rs); payloads that a handler stages in *)
(* the outbound directory are uploaded and published                       *)
(* (src/attachment/outbound.rs, src/attachment/blossom.rs, the             *)
(* send_attachment handlers of src/dispatch.rs); sweeps remove what is     *)
(* older than its retention.                                               *)
(*                                                                         *)
(* Time is kept as ages that saturate at the threshold they are compared   *)
(* with.  An inbound file has a random name of its own, and a handler      *)
(* gives every payload a name of its own.                                  *)
(***************************************************************************)
EXTENDS Integers, FiniteSets

CONSTANTS
    Rumors,          \* inbound kind 15 rumors
    Payloads,        \* payloads that handlers stage, by file name
    Retention,       \* INBOUND_RETENTION
    OutRetention,    \* spool_outbound_retention_secs
    SweepInterval,   \* SWEEP_INTERVAL
    SweepThreshold,  \* SWEEP_ENTRY_THRESHOLD
    Hosts,           \* number of Blossom hosts configured
    MaxBytes,        \* attachment_max_bytes
    TagBytes,        \* GCM_TAG_BYTES
    Size,            \* bytes of plaintext behind each rumor and payload
    Reported,        \* the size tag of each rumor, or 0 without one
    MaxSends         \* how often handlers ask for a send

ASSUME AttachmentAssumption ==
    /\ {Retention, OutRetention, SweepInterval} \subseteq Nat \ {0}
    /\ {SweepThreshold, Hosts, MaxBytes, TagBytes, MaxSends} \subseteq Nat
    /\ Size \in [Rumors \cup Payloads -> Nat]
    /\ Reported \in [Rumors -> Nat]

VARIABLES
    up,          \* the daemon runs
    task,        \* process_rumor, per rumor
    file,        \* the inbound file of a rumor
    age,         \* time since the file was last written
    left,        \* time until the expires_at that the task computed
    staged,      \* payloads on disk in the outbound directory
    stagedAge,   \* time since a payload was staged
    sent,        \* payloads whose rumor was published
    send,        \* the send the consumer is serving
    asked,       \* sends asked for so far
    sinceSweep,  \* SweepState.last_sweep
    writes       \* SweepState.inbound_writes_since_sweep

inVars == <<task, file, age, left>>
outVars == <<staged, stagedAge, sent, send, asked>>
sweepVars == <<sinceSweep, writes>>
vars == <<up, inVars, outVars, sweepVars>>

NoSend == [payload |-> {}, step |-> "idle", host |-> 0]
Sends == {NoSend} \cup
         [payload : {{p} : p \in Payloads},
          step : {"load", "upload", "publish", "complete"}, host : 0 .. Hosts]

\* A send is one record at a time because dispatch_consumer awaits
\* handle_message; inbound rumors each have a task of their own.
TypeOK ==
    /\ up \in BOOLEAN
    /\ task \in [Rumors -> {"new", "fetched", "created", "written", "delivered", "ended"}]
    /\ file \in [Rumors -> {"none", "partial", "complete"}]
    /\ age \in [Rumors -> 0 .. Retention]
    /\ left \in [Rumors -> 0 .. Retention]
    /\ staged \subseteq Payloads
    /\ stagedAge \in [Payloads -> 0 .. OutRetention]
    /\ sent \subseteq Payloads
    /\ send \in Sends
    /\ asked \in 0 .. MaxSends
    /\ sinceSweep \in 0 .. SweepInterval
    /\ writes \in 0 .. SweepThreshold

Init ==
    /\ up = TRUE
    /\ task = [r \in Rumors |-> "new"]
    /\ file = [r \in Rumors |-> "none"]
    /\ age = [r \in Rumors |-> 0]
    /\ left = [r \in Rumors |-> 0]
    /\ staged = {}
    /\ stagedAge = [p \in Payloads |-> 0]
    /\ sent = {}
    /\ send = NoSend
    /\ asked = 0
    /\ sinceSweep = 0
    /\ writes = 0

AtMost(n, bound) == IF n > bound THEN bound ELSE n

-----------------------------------------------------------------------------
(* Inbound.                                                                *)

MaxCiphertext == MaxBytes + TagBytes

\* Tags are read, a reported size above the budget is refused, the blob is
\* fetched under the budget.
Fetch(r) ==
    /\ up
    /\ task[r] = "new"
    /\ Reported[r] <= MaxCiphertext
    /\ Size[r] + TagBytes <= MaxCiphertext
    /\ task' = [task EXCEPT ![r] = "fetched"]
    /\ UNCHANGED <<up, file, age, left, outVars, sweepVars>>

Abandon(r) ==
    /\ up
    /\ task' = [task EXCEPT ![r] = "ended"]
    /\ UNCHANGED <<up, file, age, left, outVars, sweepVars>>

\* AttachmentTags::parse: a required tag is missing or the size is no number.
RejectTags(r) == task[r] = "new" /\ Abandon(r)

\* No address, a forbidden one, a timeout, an HTTP error or a body above the
\* budget.
RefuseFetch(r) ==
    /\ task[r] = "new"
    /\ Reported[r] <= MaxCiphertext
    /\ Abandon(r)

\* The ciphertext does not decrypt, or the plaintext is not the one of ox.
RejectPlaintext(r) == task[r] = "fetched" /\ Abandon(r)

\* expires_at is fixed before the file is created; the write is counted.
CreateInbound(r) ==
    /\ up
    /\ task[r] = "fetched"
    /\ Size[r] <= MaxBytes
    /\ task' = [task EXCEPT ![r] = "created"]
    /\ file' = [file EXCEPT ![r] = "partial"]
    /\ age' = [age EXCEPT ![r] = 0]
    /\ left' = [left EXCEPT ![r] = Retention]
    /\ writes' = AtMost(writes + 1, SweepThreshold)
    /\ UNCHANGED <<up, outVars, sinceSweep>>

\* A sweep may have unlinked the name before the payload was written: the
\* open handle then writes to a file nobody can open.
WriteInbound(r) ==
    /\ up
    /\ task[r] = "created"
    /\ task' = [task EXCEPT ![r] = "written"]
    /\ file' = [file EXCEPT ![r] = IF @ = "partial" THEN "complete" ELSE @]
    /\ age' = [age EXCEPT ![r] = 0]
    /\ UNCHANGED <<up, left, outVars, sweepVars>>

DiscardInbound(r) ==
    /\ up
    /\ task[r] = "created"
    /\ task' = [task EXCEPT ![r] = "ended"]
    /\ file' = [file EXCEPT ![r] = "none"]
    /\ UNCHANGED <<up, age, left, outVars, sweepVars>>

-----------------------------------------------------------------------------
(* Sweeps.                                                                 *)

NeedsSweep == writes >= SweepThreshold \/ sinceSweep >= SweepInterval

\* delete_stale on the inbound directory.
Kept == [r \in Rumors |-> IF file[r] # "none" /\ age[r] >= Retention
                          THEN "none" ELSE file[r]]
StalePayloads == {p \in staged : stagedAge[p] >= OutRetention}

Sweep ==
    IF NeedsSweep
    THEN /\ file' = Kept
         /\ staged' = staged \ StalePayloads
         /\ sinceSweep' = 0
         /\ writes' = 0
    ELSE UNCHANGED <<file, staged, sweepVars>>

\* The task sweeps once its own file is complete, then the event goes out.
Deliver(r) ==
    /\ up
    /\ task[r] = "written"
    /\ task' = [task EXCEPT ![r] = "delivered"]
    /\ Sweep
    /\ UNCHANGED <<up, age, left, stagedAge, sent, send, asked>>

\* Mutation: housekeeping only follows inbound traffic.
PeriodicSweepOnTraffic ==
    /\ up
    /\ writes >= SweepThreshold
    /\ Sweep
    /\ UNCHANGED <<up, task, age, left, stagedAge, sent, send, asked>>

\* The tick of the main loop every 30 seconds.
PeriodicSweep ==
    /\ up
    /\ NeedsSweep
    /\ Sweep
    /\ UNCHANGED <<up, task, age, left, stagedAge, sent, send, asked>>

-----------------------------------------------------------------------------
(* Outbound.                                                               *)

\* A handler process writes a payload; it gives every payload a new name.
Stage(p) ==
    /\ p \notin staged \cup sent
    /\ stagedAge[p] = 0
    /\ send.payload # {p}
    /\ staged' = staged \cup {p}
    /\ stagedAge' = [stagedAge EXCEPT ![p] = 0]
    /\ UNCHANGED <<up, inVars, sent, send, asked, sweepVars>>

\* The request passed parameters, authorization, rate limit and group state.
AskSend(p) ==
    /\ up
    /\ send = NoSend
    /\ p \in staged
    /\ asked < MaxSends
    /\ asked' = asked + 1
    /\ send' = [payload |-> {p}, step |-> "load", host |-> 0]
    /\ UNCHANGED <<up, inVars, staged, stagedAge, sent, sweepVars>>

SendFails == send' = NoSend

\* The name is a regular file of the outbound directory.
ResolveOutbound(payload) == payload \subseteq staged

\* resolve_outbound refuses a path that is gone; the read stops one byte
\* above the cap.
LoadSource ==
    /\ up
    /\ send.step = "load"
    /\ \/ /\ ResolveOutbound(send.payload)
          /\ \A p \in send.payload : Size[p] <= MaxBytes
          /\ Hosts > 0
          /\ send' = [send EXCEPT !.step = "upload", !.host = 1]
       \/ SendFails
    /\ UNCHANGED <<up, inVars, staged, stagedAge, sent, asked, sweepVars>>

\* Mutation: after the last host the walk begins again.
UploadAttemptAround ==
    /\ up
    /\ send.step = "upload"
    /\ \/ send' = [send EXCEPT !.step = "publish"]
       \/ send' = [send EXCEPT !.host = IF @ < Hosts THEN @ + 1 ELSE 1]
       \/ SendFails
    /\ UNCHANGED <<up, inVars, staged, stagedAge, sent, asked, sweepVars>>

\* One host of the ordered list: it accepts, or the next one is tried, or
\* signing the authorization fails and ends the send.
UploadAttempt ==
    /\ up
    /\ send.step = "upload"
    /\ \/ send' = [send EXCEPT !.step = "publish"]
       \/ send.host < Hosts /\ send' = [send EXCEPT !.host = @ + 1]
       \/ SendFails
    /\ UNCHANGED <<up, inVars, staged, stagedAge, sent, asked, sweepVars>>

\* Mutation: a failed publication also removes the payload.
PublishRumorAndForget ==
    /\ up
    /\ send.step = "publish"
    /\ \/ sent' = sent \cup send.payload /\ send' = [send EXCEPT !.step = "complete"]
       \/ send' = [send EXCEPT !.step = "complete"] /\ UNCHANGED sent
    /\ UNCHANGED <<up, inVars, staged, stagedAge, asked, sweepVars>>

PublishRumor ==
    /\ up
    /\ send.step = "publish"
    /\ \/ sent' = sent \cup send.payload /\ send' = [send EXCEPT !.step = "complete"]
       \/ SendFails /\ UNCHANGED sent
    /\ UNCHANGED <<up, inVars, staged, stagedAge, asked, sweepVars>>

\* The entry is removed by name; a name that is gone is only logged.
Complete ==
    /\ up
    /\ send.step = "complete"
    /\ staged' = staged \ send.payload
    /\ send' = NoSend
    /\ UNCHANGED <<up, inVars, stagedAge, sent, asked, sweepVars>>

-----------------------------------------------------------------------------
(* The daemon and the clock.                                               *)

\* Tasks end with the process; files stay.  A graceful end sweeps first.
Stop ==
    /\ up
    /\ up' = FALSE
    /\ task' = [r \in Rumors |-> IF task[r] \in {"new", "delivered"} THEN task[r] ELSE "ended"]
    /\ file' \in {file, Kept}
    /\ send' = NoSend
    /\ UNCHANGED <<age, left, staged, stagedAge, sent, asked, sweepVars>>

\* Mutation: the startup sweep clears the inbound directory.
StartClears ==
    /\ ~up
    /\ up' = TRUE
    /\ file' = [r \in Rumors |-> "none"]
    /\ sinceSweep' = 0
    /\ writes' = 0
    /\ UNCHANGED <<task, age, left, outVars>>

\* Spool::open and sweep_inbound_now.
Start ==
    /\ ~up
    /\ up' = TRUE
    /\ file' = Kept
    /\ sinceSweep' = 0
    /\ writes' = 0
    /\ UNCHANGED <<task, age, left, outVars>>

Tick ==
    /\ age' = [r \in Rumors |-> IF file[r] = "none" THEN age[r] ELSE AtMost(age[r] + 1, Retention)]
    /\ left' = [r \in Rumors |-> IF left[r] = 0 THEN 0 ELSE left[r] - 1]
    /\ stagedAge' = [p \in Payloads |->
                       IF p \in staged THEN AtMost(stagedAge[p] + 1, OutRetention) ELSE stagedAge[p]]
    /\ sinceSweep' = IF up THEN AtMost(sinceSweep + 1, SweepInterval) ELSE sinceSweep
    /\ UNCHANGED <<up, task, file, staged, sent, send, asked, writes>>

Inbound(r) ==
    \/ Fetch(r) \/ RejectTags(r) \/ RefuseFetch(r) \/ RejectPlaintext(r)
    \/ CreateInbound(r) \/ WriteInbound(r) \/ DiscardInbound(r) \/ Deliver(r)
Sending == LoadSource \/ UploadAttempt \/ PublishRumor \/ Complete

Next ==
    \/ \E r \in Rumors : Inbound(r)
    \/ \E p \in Payloads : Stage(p) \/ AskSend(p)
    \/ Sending
    \/ PeriodicSweep
    \/ Stop \/ Start \/ Tick

Spec == Init /\ [][Next]_vars

\* tokio polls the consumer and the main loop, time passes, and a stopped
\* daemon is started again.  Nothing is assumed of handlers or hosts.
FairSpec ==
    /\ Spec
    /\ WF_vars(Tick) /\ WF_vars(Start) /\ WF_vars(PeriodicSweep) /\ WF_vars(Sending)

-----------------------------------------------------------------------------
(* Properties.                                                             *)

\* A path handed to a handler can be opened, and holds the whole payload,
\* until the expires_at that was announced with it, whatever sweeps,
\* restarts and other rumors do in between (inbound.rs, spool.rs).
ReadableUntilExpiry ==
    \A r \in Rumors : task[r] = "delivered" /\ left[r] > 0 => file[r] = "complete"

\* A staged payload is on disk until it was published or its retention is
\* over: a failed upload or publication leaves it for a retry
\* (OutboundAttachmentProcessor::complete, Spool::sweep).
UnsentIsKept ==
    \A p \in Payloads :
        stagedAge[p] \in 1 .. (OutRetention - 1) /\ p \notin sent => p \in staged

\* Decrypted plaintext does not stay on disk: every inbound file is removed
\* in the end, the ones a crash left behind included.
PlaintextExpires == \A r \in Rumors : file[r] # "none" ~> file[r] = "none"

\* A send is answered although hosts hang or refuse: the consumer serves no
\* other request meanwhile.
SendEnds == send # NoSend ~> send = NoSend

=============================================================================
