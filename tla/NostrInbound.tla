---------------------------- MODULE NostrInbound ----------------------------
(***************************************************************************)
(* NostrClient (nostr.rs): what the daemon's one relay client delivers to  *)
(* the bots, and what the bots publish through it.                         *)
(*                                                                         *)
(* One loop takes the notifications in order.  A gift wrap needs a permit  *)
(* and is decrypted by a task of its own, under a timeout; a group event   *)
(* is processed by a task of its own, for one local member after another.  *)
(* Because the client never reports an event it published itself, an event *)
(* from one local bot to another is pushed through the same pipeline by    *)
(* the sender (deliver_locally).                                           *)
(*                                                                         *)
(* An MLS engine is modelled by the commits it has applied, in order; the  *)
(* engine belongs to the mdk library and is used here as nostr.rs and      *)
(* mls.rs use it.                                                          *)
(***************************************************************************)
EXTENDS Naturals, Sequences, FiniteSets, SequencesExt

CONSTANTS
    Bots,        \* the bots of the daemon, all members of one group
    Admins,      \* the bots that may commit a proposal by themselves
    Wraps,       \* gift wraps
    Recipient,   \* Recipient[w]: the bot a wrap is for
    Sender,      \* Sender[w]: the local bot that sends it, or Outside
    Outside,
    None,
    Messages,    \* application messages of the group
    Author,      \* Author[m]: the bot that sends it
    Proposals,   \* a member's proposals to leave
    CommitOf,    \* CommitOf[b]: the commit bot b would make
    Permits,     \* MAX_CONCURRENT_GIFT_WRAP_TASKS
    MaxPending,  \* bound: notifications waiting to be taken
    MaxRestarts, \* bound: restarts of the daemon
    MaxFailures  \* bound: publishes no relay accepts

Commits == {CommitOf[b] : b \in Bots}
GroupEvents == Messages \cup Proposals \cup Commits
Events == Wraps \cup GroupEvents

\* Events have different ids, and two bots never make the same commit.
ASSUME InboundAssumption ==
    /\ Admins \subseteq Bots
    /\ Recipient \in [Wraps -> Bots]
    /\ Sender \in [Wraps -> Bots \cup {Outside}]
    /\ Author \in [Messages -> Bots]
    /\ \A a, b \in Bots : CommitOf[a] = CommitOf[b] => a = b
    /\ None \notin Commits
    /\ Wraps \cap GroupEvents = {} /\ Messages \cap (Proposals \cup Commits) = {}
    /\ Proposals \cap Commits = {}
    /\ Permits \in Nat \ {0} /\ MaxPending \in Nat /\ MaxRestarts \in Nat /\ MaxFailures \in Nat

VARIABLES
    relay,      \* events the relays have
    made,       \* wraps and messages the bots have sent
    saved,      \* the client's own record of events it has seen
    notif,      \* notifications the loop has still to take
    task,       \* where the processing of each event is
    todo,       \* local members a group event has still to be applied to
    decoded,    \* local members whose engine decoded a message
    inline,     \* wraps and messages processed by their sender
    hist,       \* commits each bot's engine has applied
    based,      \* the commits a message or a commit was made after
    answers,    \* history: the proposal each commit was made for
    sub,        \* the commit a group event's task is publishing or applying
    runs,       \* how often each event has entered the pipeline
    stream,     \* AgentEvents of this run: [event, bot]
    restarts, failures

taskVars == <<task, todo, decoded, inline, sub>>
netVars == <<relay, made, saved, notif>>
inboundVars == <<netVars, taskVars, hist, based, answers, runs, stream, restarts, failures>>

\* The relays have some of the wraps and proposals from outside; when one of
\* them is reported is open.  Some of what the bots could send was sent before,
\* and taken by no relay.
InboundInit ==
    /\ relay \in SUBSET ({w \in Wraps : Sender[w] = Outside} \cup Proposals)
    /\ made \in SUBSET ({w \in Wraps : Sender[w] # Outside} \cup Messages)
    /\ saved = {} /\ notif = <<>>
    /\ task = [e \in Events |-> "none"]
    /\ todo = [e \in GroupEvents |-> {}]
    /\ decoded = [e \in GroupEvents |-> {}]
    /\ inline = {}
    /\ hist = [b \in Bots |-> <<>>]
    /\ based = [m \in Messages \cup Commits |-> <<>>]
    /\ answers = [c \in Commits |-> None]
    /\ sub = [e \in GroupEvents |-> None]
    /\ runs = [e \in Events |-> 0]
    /\ stream = {}
    /\ restarts = 0 /\ failures = 0

-----------------------------------------------------------------------------
\* The relays

\* A relay sends an event of the subscription.  The client reports an event
\* once: one it has seen, or has published itself, is not reported.
Notify(e) ==
    /\ e \in relay \ saved /\ Len(notif) < MaxPending
    /\ saved' = saved \cup {e}
    /\ notif' = Append(notif, e)
    /\ UNCHANGED <<relay, made, taskVars, hist, based, answers, runs, stream, restarts, failures>>

-----------------------------------------------------------------------------
\* The notification loop

Decrypting == {w \in Wraps : task[w] \in {"decrypting", "finishing"} /\ w \notin inline}

Begin(e, state, by) ==
    /\ task' = [task EXCEPT ![e] = state]
    /\ runs' = [runs EXCEPT ![e] = @ + 1]
    /\ inline' = by
    /\ IF e \in GroupEvents
         THEN todo' = [todo EXCEPT ![e] = Bots] /\ decoded' = [decoded EXCEPT ![e] = {}]
         ELSE UNCHANGED <<todo, decoded>>

\* A gift wrap waits, and every later notification behind it, for a permit.
TakeWrap ==
    /\ notif # <<>> /\ Head(notif) \in Wraps
    /\ Cardinality(Decrypting) < Permits
    /\ notif' = Tail(notif)
    /\ Begin(Head(notif), "decrypting", inline)
    /\ UNCHANGED <<relay, made, saved, sub, hist, based, answers, stream, restarts, failures>>

TakeGroupEvent ==
    /\ notif # <<>> /\ Head(notif) \in GroupEvents
    /\ notif' = Tail(notif)
    /\ Begin(Head(notif), "group", inline)
    /\ UNCHANGED <<relay, made, saved, sub, hist, based, answers, stream, restarts, failures>>

-----------------------------------------------------------------------------
\* Gift wraps

\* The recipient's signer decrypts the wrap and the seal; signatures and
\* authors agree.
Decrypted(w) ==
    /\ w \in Wraps /\ task[w] = "decrypting"
    /\ task' = [task EXCEPT ![w] = "finishing"]
    /\ UNCHANGED <<netVars, todo, decoded, inline, sub, hist, based, answers, runs, stream,
                   restarts, failures>>

\* Mutant: only the sender's own delivery is under the timeout.
DecryptTimeoutInline(w) ==
    /\ w \in inline /\ task[w] = "decrypting"
    /\ task' = [task EXCEPT ![w] = "dropped"]
    /\ UNCHANGED <<netVars, todo, decoded, inline, sub, hist, based, answers, runs, stream,
                   restarts, failures>>

\* The timeout, which holds for wraps the loop took.
DecryptTimeout(w) ==
    /\ w \in Decrypting /\ task[w] = "decrypting"
    /\ task' = [task EXCEPT ![w] = "dropped"]
    /\ UNCHANGED <<netVars, todo, decoded, inline, sub, hist, based, answers, runs, stream,
                   restarts, failures>>

\* A bad signature, a wrong author, no signer, or an error or timeout of the
\* signer itself.
DecryptFails(w) ==
    /\ w \in Wraps /\ task[w] = "decrypting"
    /\ task' = [task EXCEPT ![w] = "dropped"]
    /\ inline' = inline \ {w}
    /\ UNCHANGED <<netVars, todo, decoded, sub, hist, based, answers, runs, stream, restarts,
                   failures>>

\* finish_gift_wrap: an AgentEvent for the recipient, or nothing for a kind
\* that is not represented or content that is refused.
FinishWrap(w) ==
    /\ w \in Wraps /\ task[w] = "finishing"
    /\ \/ /\ task' = [task EXCEPT ![w] = "done"]
          /\ stream' = stream \cup {[event |-> w, bot |-> Recipient[w]]}
       \/ /\ task' = [task EXCEPT ![w] = "dropped"]
          /\ UNCHANGED stream
    /\ inline' = inline \ {w}
    /\ UNCHANGED <<netVars, todo, decoded, sub, hist, based, answers, runs, restarts, failures>>

-----------------------------------------------------------------------------
\* Group events, one local member after another

OwnEvent(e, b) == e \in Messages /\ Author[e] = b

\* The engine decodes a message of an epoch it has reached, applies a commit
\* made in its epoch, and commits a proposal of the first epoch when its bot
\* is an admin.
CanDecode(e, b) == e \in Messages /\ ~OwnEvent(e, b) /\ IsPrefix(based[e], hist[b])
Applies(e, b) == e \in Commits /\ hist[b] = based[e] /\ e # CommitOf[b]
AutoCommits(e, b) == e \in Proposals /\ b \in Admins /\ hist[b] = <<>>

Turn(e, b) ==
    /\ task[e] = "group" /\ sub[e] = None /\ b \in todo[e]
    /\ todo' = [todo EXCEPT ![e] = @ \ {b}]

\* After a restart an engine may refuse a message it has decoded before.
ProcessFor(e, b) ==
    /\ Turn(e, b) /\ ~AutoCommits(e, b)
    /\ \/ CanDecode(e, b) /\ decoded' = [decoded EXCEPT ![e] = @ \cup {b}]
       \/ ~CanDecode(e, b) /\ UNCHANGED decoded
       \/ restarts > 0 /\ UNCHANGED decoded
    /\ hist' = IF Applies(e, b) THEN [hist EXCEPT ![b] = Append(@, e)] ELSE hist
    /\ UNCHANGED <<netVars, task, inline, sub, based, answers, runs, stream, restarts, failures>>

\* The engine commits the proposal and merges the commit before anyone else
\* has it.
AutoCommit(e, b) ==
    /\ Turn(e, b) /\ AutoCommits(e, b)
    /\ sub' = [sub EXCEPT ![e] = CommitOf[b]]
    /\ based' = [based EXCEPT ![CommitOf[b]] = hist[b]]
    /\ answers' = [answers EXCEPT ![CommitOf[b]] = e]
    /\ hist' = [hist EXCEPT ![b] = Append(@, CommitOf[b])]
    /\ UNCHANGED <<netVars, task, decoded, inline, runs, stream, restarts, failures>>

\* client.send_event: the relays take the event, or none of them does, or the
\* call fails.
SendEvent(e, outcome) ==
    /\ saved' = saved \cup {e}
    /\ IF outcome = "taken"
         THEN relay' = relay \cup {e} /\ UNCHANGED failures
         ELSE failures < MaxFailures /\ failures' = failures + 1 /\ UNCHANGED relay

\* Mutant: the commit is published and left to the relays.
PublishCommitOnly(e, outcome) ==
    LET c == sub[e]
    IN  /\ c # None
        /\ SendEvent(c, outcome)
        /\ sub' = [sub EXCEPT ![e] = None]
        /\ UNCHANGED <<made, notif, task, todo, decoded, inline, runs, hist, based, answers, stream,
                       restarts>>

\* The commit is published and, unless the call failed, applied to the other
\* local members before the task goes on to the next member.
PublishCommit(e, outcome) ==
    LET c == sub[e]
    IN  /\ c # None /\ task[c] # "group"
        /\ SendEvent(c, outcome)
        /\ IF outcome = "error"
             THEN /\ sub' = [sub EXCEPT ![e] = None]
                  /\ UNCHANGED <<task, todo, decoded, inline, runs>>
             ELSE Begin(c, "group", inline) /\ UNCHANGED sub
        /\ UNCHANGED <<made, notif, hist, based, answers, stream, restarts>>

\* One AgentEvent for every member whose own engine decoded the message, or
\* none for content that is not represented or refused.
EndGroupEvent(e) ==
    /\ task[e] = "group" /\ todo[e] = {} /\ sub[e] = None
    /\ \/ /\ task' = [task EXCEPT ![e] = "done"]
          /\ stream' = stream \cup {[event |-> e, bot |-> b] : b \in decoded[e]}
       \/ /\ e \in Messages
          /\ task' = [task EXCEPT ![e] = "dropped"]
          /\ UNCHANGED stream
    /\ inline' = inline \ {e}
    /\ decoded' = [decoded EXCEPT ![e] = {}]
    /\ sub' = [x \in GroupEvents |-> IF sub[x] = e THEN None ELSE sub[x]]
    /\ UNCHANGED <<netVars, todo, hist, based, answers, runs, restarts, failures>>

-----------------------------------------------------------------------------
\* Publishing, by the one consumer that serves requests

\* deliver_locally: the sender runs the pipeline on the event itself.
DeliverLocally(e) == Begin(e, IF e \in Wraps THEN "decrypting" ELSE "group", {e})

\* recipient_has_connected_relay is false: nothing is delivered to a bot none of
\* whose relays is connected.
RecipientOffline(w) == w \in Wraps /\ UNCHANGED <<runs, task, todo, decoded, inline>>

\* A wrap that no relay accepts is an error and goes nowhere.
SendWrap(w, outcome) ==
    /\ Sender[w] # Outside /\ w \notin made /\ inline = {}
    /\ made' = made \cup {w}
    /\ SendEvent(w, outcome)
    /\ IF outcome = "taken"
         THEN DeliverLocally(w) \/ RecipientOffline(w)
         ELSE UNCHANGED <<runs, task, todo, decoded, inline>>
    /\ UNCHANGED <<notif, sub, hist, based, answers, stream, restarts>>

\* Mutant: the message is also put in front of the notification loop.
SendMessageLooped(m, outcome) ==
    /\ m \notin made /\ inline = {}
    /\ made' = made \cup {m}
    /\ SendEvent(m, outcome)
    /\ based' = [based EXCEPT ![m] = hist[Author[m]]]
    /\ IF outcome # "error"
         THEN DeliverLocally(m) /\ notif' = Append(notif, m)
         ELSE UNCHANGED <<runs, task, todo, decoded, inline, notif>>
    /\ UNCHANGED <<sub, hist, answers, stream, restarts>>

\* A group message is delivered to the other local members whether or not a
\* relay took it, unless the call failed.
SendMessage(m, outcome) ==
    /\ m \notin made /\ inline = {}
    /\ made' = made \cup {m}
    /\ SendEvent(m, outcome)
    /\ based' = [based EXCEPT ![m] = hist[Author[m]]]
    /\ IF outcome # "error"
         THEN DeliverLocally(m)
         ELSE UNCHANGED <<runs, task, todo, decoded, inline>>
    /\ UNCHANGED <<notif, sub, hist, answers, stream, restarts>>

-----------------------------------------------------------------------------
\* The process ends and starts again: the engines keep their state, the
\* client, the tasks and the stream do not, and the subscription starts over.
Restart ==
    /\ restarts < MaxRestarts
    /\ restarts' = restarts + 1
    /\ saved' = {} /\ notif' = <<>>
    /\ task' = [e \in Events |-> "none"]
    /\ todo' = [e \in GroupEvents |-> {}]
    /\ decoded' = [e \in GroupEvents |-> {}]
    /\ inline' = {}
    /\ sub' = [e \in GroupEvents |-> None]
    /\ runs' = [e \in Events |-> 0]
    /\ stream' = {}
    /\ UNCHANGED <<relay, made, hist, based, answers, failures>>

Outcomes == {"taken", "none", "error"}

GroupStep(e) ==
    \/ \E b \in Bots : ProcessFor(e, b) \/ AutoCommit(e, b)
    \/ \E o \in Outcomes : PublishCommit(e, o)
    \/ EndGroupEvent(e)

InboundNext ==
    \/ \E e \in Events : Notify(e)
    \/ TakeWrap \/ TakeGroupEvent
    \/ \E w \in Wraps : Decrypted(w) \/ DecryptTimeout(w) \/ DecryptFails(w) \/ FinishWrap(w)
    \/ \E e \in GroupEvents : GroupStep(e)
    \/ \E w \in Wraps, o \in Outcomes : SendWrap(w, o)
    \/ \E m \in Messages, o \in Outcomes : SendMessage(m, o)
    \/ Restart

InboundSpec == InboundInit /\ [][InboundNext]_inboundVars

\* The loop and the tasks run; the timeout expires; a wrap that is decrypted
\* is finished.  A signer need not answer.
Fairness ==
    /\ WF_inboundVars(TakeWrap) /\ WF_inboundVars(TakeGroupEvent)
    /\ \A w \in Wraps : WF_inboundVars(DecryptTimeout(w)) /\ WF_inboundVars(FinishWrap(w))
    /\ \A e \in GroupEvents : WF_inboundVars(GroupStep(e))

FairInbound == InboundSpec /\ Fairness

-----------------------------------------------------------------------------
\* Properties

\* Every variable has its type, and what the pipeline delivered to a bot was
\* addressed to it.
InboundTypeOK ==
    /\ relay \subseteq Events /\ made \subseteq Wraps \cup Messages /\ saved \subseteq Events
    /\ notif \in Seq(Events)
    /\ task \in [Events -> {"none", "decrypting", "finishing", "group", "done", "dropped"}]
    /\ todo \in [GroupEvents -> SUBSET Bots]
    /\ decoded \in [GroupEvents -> SUBSET Bots]
    /\ inline \subseteq Wraps \cup Messages
    /\ hist \in [Bots -> Seq(Commits)]
    /\ based \in [Messages \cup Commits -> Seq(Commits)]
    /\ answers \in [Commits -> Proposals \cup {None}]
    /\ sub \in [GroupEvents -> Commits \cup {None}]
    /\ runs \in [Events -> Nat]
    /\ restarts \in 0..MaxRestarts /\ failures \in 0..MaxFailures
    /\ \A d \in stream : d.event \in Wraps => d.bot = Recipient[d.event]

\* Commits an engine has merged that no relay has and no task will publish.
Orphans ==
    {c \in Commits : /\ \E b \in Bots : c \in ToSet(hist[b])
                     /\ c \notin relay /\ \A e \in GroupEvents : sub[e] # c}

\* process_group_message applies an automatic commit to the other local bots
\* before they see the proposal: where the engines of two bots of one daemon part,
\* they followed commits of different proposals, unless a merged commit was lost
\* by a failed publish.  (Two proposals are two tasks, in which two admins may each
\* commit one at the same time.  The process may end between the merge and the
\* last of those steps, and then the redelivered proposal is committed again: the
\* restart is excluded.)
Comparable(s, t) == IsPrefix(s, t) \/ IsPrefix(t, s)

NoFork ==
    restarts = 0 /\ Orphans = {}
        => \A a, b \in Bots : \/ Comparable(hist[a], hist[b])
                              \/ answers[Head(hist[a])] # answers[Head(hist[b])]

\* An event of a local bot is delivered to the others once.  deliver_locally:
\* "the pipeline is only ever invoked here or from a genuine (non-duplicate)
\* relay notification, never both", so within one run of the daemon no event
\* enters it twice; process_group_message: "Attempt every recipient rather than
\* stopping at the first success", so a message of the first epoch is reported to
\* every local member but its author, and none to a member whose engine could
\* not decode it.
LocalDelivery ==
    /\ \A e \in Events : runs[e] <= 1
    /\ \A m \in Messages :
          LET got == {b \in Bots : [event |-> m, bot |-> b] \in stream}
          IN  /\ Author[m] \notin got
              /\ \A b \in got : IsPrefix(based[m], hist[b])
              /\ restarts = 0 /\ task[m] = "done" /\ based[m] = <<>>
                   => Bots \ {Author[m]} \subseteq got

\* A signer that never answers holds up the loop for a while only: every gift
\* wrap that was reported is taken in the end.
IntakeMovesOn == \A w \in Wraps : (w \in ToSet(notif)) ~> (w \notin ToSet(notif))
=============================================================================
