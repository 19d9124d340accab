--------------------------- MODULE RequestsProofs ---------------------------
(***************************************************************************)
(* Proofs about Requests: client_manager has one writer or only readers,   *)
(* nothing is done for a handler that was not registered when its request  *)
(* was taken, and a connection's requests are served as the handler it     *)
(* registered, for any number of connections, tasks and requests and any   *)
(* use the clients make of the methods.                                    *)
(***************************************************************************)
EXTENDS Requests, TLAPS

Checks == {"agent", "admin"}
Frames == {"register", "request", "unregister"}
Served == Methods \cup {"unregister", "disconnect"}

\* The steps of the programs.
Steps == {"caller", "read", "drop", "write", "insert", "remove", "welcome", "answer", "store",
          "charge", "bot", "clone", "scan", "next"} \cup Checks \cup Service

\* Programs that register nobody, that do nothing for a bot, and that do
\* neither that nor look at the registry.
Plain == Seq(Steps \ {"insert"})
Idle == Seq(Steps \ Service)
Mute == Seq(Steps \ (Service \cup Checks))

\* A program that looks at the registry before it does anything for a bot.
Vetted(s) ==
    \E k \in 1..Len(s) : s[k] \in Checks /\ \A n \in 1..k : s[n] \notin Service
Checking == {s \in Plain : Vetted(s)}

-----------------------------------------------------------------------------
(* The inductive invariant.                                                *)

Job == [steps : Seq(Steps), conn : Conns \cup {None}, as : Conns \cup {None},
        of : Conns \cup {None}, todo : SUBSET Conns, known : BOOLEAN,
        onerr : {<<>>, <<"answer">>, <<"next">>}]

Message == [method : Frames \cup {"disconnect"}, conn : Conns, as : Conns \cup {None}]

Typed ==
    /\ open \subseteq Conns /\ registry \subseteq Conns /\ welcomed \subseteq Conns
    /\ phase \in [Conns -> {"new", "in", "left"}]
    /\ pend \in [Conns -> Seq(Frames)]
    /\ reply \in [Conns -> {"idle", "waiting", "done", "welcome"}]
    /\ hid \in [Conns -> Conns \cup {None}]
    /\ inbox \in Seq(Message)
    /\ job \in [Actors -> Job]
    /\ holding \in [Actors -> {"none", "read", "write"}]
    /\ queue \in Seq(Actors)

\* An actor at a step that takes a guard of client_manager.
Asks(a) == job[a].steps # <<>> /\ Head(job[a].steps) \in {"read", "write"}

\* client_manager: a writer is alone, and who waits is at such a step and waits
\* once.
Locked ==
    /\ \A a, b \in Actors : a # b /\ holding[a] = "write" => holding[b] = "none"
    /\ \A i, j \in 1..Len(queue) : queue[i] = queue[j] => i = j
    /\ \A i \in 1..Len(queue) : Asks(queue[i])

\* The drainer of an open connection waits for the answer to m, and has noted no
\* other handler id since it passed m on.
Awaited(m) == m.conn \in open => reply[m.conn] = "waiting" /\ m.as = hid[m.conn]

\* An open connection has one request with the consumer at most, and its drainer
\* has noted, or is about to note, the handler id it was answered with.
Attributed ==
    /\ \A c \in Conns : hid[c] \in {None, c} /\ (reply[c] # "idle" => c \in open)
    /\ \A i \in 1..Len(inbox) : Awaited(inbox[i])
    /\ \A i, j \in 1..Len(inbox) :
          inbox[i].conn \in open /\ inbox[i].conn = inbox[j].conn => i = j
    /\ job["rpc"].steps # <<>> =>
          /\ Awaited(job["rpc"])
          /\ \A i \in 1..Len(inbox) :
                inbox[i].conn \in open => inbox[i].conn # job["rpc"].conn
    /\ \A c \in open \cap welcomed : hid[c] = c \/ reply[c] = "welcome"

\* Only the consumer registers.  What it does for a handler that was not
\* registered when it took the job, it does after a look at the registry, and
\* only a job that never looks can find the handler there.
Vouched ==
    /\ \A a \in Actors \ {"rpc"} :
          job[a].steps \in Plain /\ (job[a].as = None \/ job[a].known)
    /\ job["rpc"].steps \in Plain \cup Mute
    /\ \/ job["rpc"].as = None \/ job["rpc"].known
       \/ job["rpc"].steps \in Idle \/ Vetted(job["rpc"].steps)
    /\ job["rpc"].as \in registry => job["rpc"].known \/ job["rpc"].steps \in Mute
    /\ job["rpc"].steps # <<>> => job["rpc"].conn \in Conns

Inv == Typed /\ Locked /\ Attributed /\ Vouched

-----------------------------------------------------------------------------
(* Programs.                                                               *)

\* What follows a program that checks first changes nothing about that.
LEMMA VettedCat ==
    ASSUME NEW s \in Plain, NEW t \in Plain, Vetted(s)
    PROVE  s \o t \in Plain /\ Vetted(s \o t)
<1>1. s \o t \in Plain
  BY DEF Plain
<1>2. PICK k \in 1..Len(s) : s[k] \in Checks /\ \A n \in 1..k : s[n] \notin Service
  BY DEF Vetted
<1>3. Len(s \o t) = Len(s) + Len(t) /\ Len(s) \in Nat /\ Len(t) \in Nat
  BY DEF Plain
<1>4. \A n \in 1..Len(s) : (s \o t)[n] = s[n]
  BY <1>3 DEF Plain
<1>5. k \in 1..Len(s \o t) /\ (s \o t)[k] \in Checks
  BY <1>2, <1>3, <1>4
<1>6. \A n \in 1..k : (s \o t)[n] \notin Service
  BY <1>2, <1>3, <1>4
<1> QED
  BY <1>1, <1>5, <1>6 DEF Vetted

\* The rest of a program that checks first still does, unless its first step
\* was the check.
LEMMA VettedTail ==
    ASSUME NEW s \in Seq(Steps), s # <<>>, Vetted(s), Head(s) \notin Checks
    PROVE  Vetted(Tail(s))
<1>1. PICK k \in 1..Len(s) : s[k] \in Checks /\ \A n \in 1..k : s[n] \notin Service
  BY DEF Vetted
<1>2. k # 1
  BY <1>1
<1>3. k - 1 \in 1..Len(Tail(s)) /\ Tail(s)[k - 1] = s[k]
  BY <1>2
<1>4. \A n \in 1..(k - 1) : Tail(s)[n] \notin Service
  BY <1>1
<1> QED
  BY <1>1, <1>3, <1>4 DEF Vetted

\* authorize and require_admin_or_self, which open most of the handlers.
LEMMA Openings ==
    /\ Authorize \in Plain /\ Vetted(Authorize)
    /\ RequireAdmin \in Plain /\ Vetted(RequireAdmin)
<1>1. Authorize \in Plain /\ RequireAdmin \in Plain
  BY DEF Authorize, RequireAdmin, Plain, Steps, Checks
<1>2. /\ Len(Authorize) = 3 /\ Authorize[1] = "caller"
      /\ Authorize[2] = "read" /\ Authorize[3] = "agent"
  BY DEF Authorize
<1>3. /\ Len(RequireAdmin) = 3 /\ RequireAdmin[1] = "caller"
      /\ RequireAdmin[2] = "read" /\ RequireAdmin[3] = "admin"
  BY DEF RequireAdmin
<1>4. Vetted(Authorize)
  BY <1>2 DEF Vetted, Checks, Service
<1>5. Vetted(RequireAdmin)
  BY <1>3 DEF Vetted, Checks, Service
<1> QED
  BY <1>1, <1>4, <1>5

\* register and the disconnect do nothing for a bot and never ask who is
\* registered.
LEMMA Registering == \A as, of : Program("register", as, of) \in Mute
  BY DEF Program, Register, NotifyUnavailable, Mute, Steps, Service, Checks

\* The steps the handlers are made of.
LEMMA Pieces ==
    /\ Handles \in Plain /\ UnregisterHandler \in Plain
    /\ PublishProfile \in Plain /\ SendWelcome \in Plain /\ PostToGroup \in Plain
    /\ CreateMlsGroup \in Plain /\ InviteToMlsGroup \in Plain
    /\ CreateKeyPackage \in Plain /\ IsGroupMember \in Plain /\ LeaveGroup \in Plain
    /\ ResolveWireId \in Plain /\ EngineDeleteGroup \in Plain /\ RepairGroupAdmins \in Plain
    /\ SignEvent \in Plain
<1>1. Handles \in Plain /\ UnregisterHandler \in Plain
  BY DEF Handles, UnregisterHandler, Plain, Steps, Service
<1>2. PublishProfile \in Plain /\ SendWelcome \in Plain /\ SignEvent \in Plain
  BY DEF PublishProfile, SendWelcome, SignEvent, Plain, Steps, Service
<1>3. PostToGroup \in Plain
  BY DEF PostToGroup, CreateGroupMessage, SignEvent, Plain, Steps, Service
<1>4. CreateMlsGroup \in Plain
  BY <1>1, <1>2 DEF CreateMlsGroup, EngineCreateGroup, Plain, Steps, Service
<1>5. InviteToMlsGroup \in Plain
  BY <1>1, <1>2 DEF InviteToMlsGroup, EngineAddMember, Plain, Steps, Service
<1> QED
  BY <1>1, <1>2, <1>3, <1>4, <1>5
  DEF CreateKeyPackage, IsGroupMember, LeaveGroup, ResolveWireId, EngineDeleteGroup,
      RepairGroupAdmins, Plain, Steps, Service

\* The two ways programs are put together.
LEMMA Concatenation ==
    /\ \A s, t \in Plain : s \o t \in Plain
    /\ \A s \in Checking, t \in Plain : s \o t \in Checking
  BY VettedCat DEF Plain, Checking

\* The steps that are written out in them.
LEMMA Literals ==
    /\ {<<"charge">>, <<"sign", "publish">>, <<"upload", "sign", "publish">>} \subseteq Plain
    /\ {<<"charge", "read", "bot">>, <<"drop">>, <<"read", "drop">>} \subseteq Plain
    /\ {<<"read", "bot", "sign", "publish", "drop">>, <<"charge", "store", "read", "bot">>, <<"charge", "store">>} \subseteq Plain
    /\ {<<"upload">>, <<"publish", "drop">>, <<"read", "bot">>} \subseteq Plain
    /\ {<<"publish", "publish", "drop">>, <<"store">>, <<"publish">>} \subseteq Plain
    /\ {<<"answer">>, <<"caller">>, <<>>} \subseteq Plain
  BY DEF Plain, Steps, Service

\* Every handler that acts for a bot looks at the registry first.
LEMMA Handlers ==
    /\ {SendDm, SendReaction, SendAttachment, SetProfile, AgentError, SendGroupMessage} \subseteq Checking
    /\ {SendGroupReaction, SendGroupAttachment, PublishKeyPackage, IsSquadMember, ExitGroup} \subseteq Checking
    /\ {DeleteGroup, ListHandlers, SendTestDm, RequireMlsAdmin, RepairAdmins} \subseteq Checking
<1>1. {Authorize, RequireAdmin} \subseteq Checking
  BY Openings DEF Checking
<1> USE <1>1, Pieces, Literals, Concatenation
<1>2. SendDm \in Checking
  BY DEF SendDm
<1>3. SendReaction \in Checking
  BY DEF SendReaction
<1>4. SendAttachment \in Checking
  BY DEF SendAttachment
<1>5. SetProfile \in Checking
  BY DEF SetProfile
<1>6. AgentError \in Checking
  BY DEF AgentError
<1>7. SendGroupMessage \in Checking
  BY DEF SendGroupMessage
<1>8. SendGroupReaction \in Checking
  BY DEF SendGroupReaction
<1>9. SendGroupAttachment \in Checking
  BY DEF SendGroupAttachment
<1>10. PublishKeyPackage \in Checking
  BY DEF PublishKeyPackage
<1>11. IsSquadMember \in Checking
  BY DEF IsSquadMember
<1>12. ExitGroup \in Checking
  BY DEF ExitGroup
<1>13. DeleteGroup \in Checking
  BY DEF DeleteGroup
<1>14. ListHandlers \in Checking
  BY DEF ListHandlers
<1>15. SendTestDm \in Checking
  BY DEF SendTestDm
<1>16. RequireMlsAdmin \in Checking
  BY DEF RequireMlsAdmin
<1>17. RepairAdmins \in Checking
  BY <1>16 DEF RepairAdmins
<1> QED
  BY <1>2, <1>3, <1>4, <1>5, <1>6, <1>7, <1>8, <1>9, <1>10, <1>11, <1>12, <1>13, <1>14, <1>15, <1>16, <1>17

\* What the consumer runs registers nobody, but for handler.register; for a
\* caller with a handler id it does nothing for a bot, or looks at the registry
\* first.
LEMMA Programs ==
    ASSUME NEW m \in Served, NEW as, NEW of
    PROVE  /\ Program(m, as, of) \in Plain
           /\ as # None => Program(m, as, of) \in Checking \cup Idle
<1> DEFINE Fine(p) == p \in Plain /\ (as # None => p \in Checking \cup Idle)
<1> SUFFICES Fine(Program(m, as, of))
  OBVIOUS
<1>1. \A s \in Checking : Fine(s \o <<"answer">>)
  BY Literals, Concatenation DEF Checking
<1>2. CASE m \in {"response", "metrics", "health", "unregister", "disconnect"}
  <2>1. /\ HandlerResponse \o <<"answer">> \in Idle /\ Metrics \o <<"answer">> \in Idle
        /\ Health \o <<"answer">> \in Idle
        /\ <<"caller">> \o UnregisterHandler \o <<"answer">> \in Idle
        /\ UnregisterHandler \in Idle
    BY DEF HandlerResponse, Metrics, Health, UnregisterHandler, Idle, Steps, Service
  <2>2. /\ HandlerResponse \o <<"answer">> \in Plain /\ Metrics \o <<"answer">> \in Plain
        /\ Health \o <<"answer">> \in Plain
        /\ <<"caller">> \o UnregisterHandler \o <<"answer">> \in Plain
        /\ UnregisterHandler \in Plain
    BY Pieces, Literals, Concatenation DEF HandlerResponse, Metrics, Health
  <2>3. /\ Fine(HandlerResponse \o <<"answer">>) /\ Fine(Metrics \o <<"answer">>)
        /\ Fine(Health \o <<"answer">>)
        /\ Fine(<<"caller">> \o UnregisterHandler \o <<"answer">>)
        /\ Fine(UnregisterHandler)
    BY <2>1, <2>2
  <2> HIDE DEF Fine
  <2>4. CASE m \in {"response", "metrics"}
    BY <2>3, <2>4 DEF Program
  <2>5. CASE m \in {"health", "unregister", "disconnect"}
    BY <2>3, <2>5 DEF Program
  <2> QED
    BY <1>2, <2>4, <2>5
<1>3. CASE m = "unregister_handler"
  <2>1. /\ UnregisterHandler \o <<"answer">> \in Idle
        /\ (<<>> \o UnregisterHandler) \o <<"answer">> \in Idle
    BY DEF UnregisterHandler, Idle, Steps, Service
  <2>2. (<<>> \o UnregisterHandler) \o <<"answer">> \in Plain
    BY Pieces, Literals, Concatenation
  <2>3. (RequireAdmin \o UnregisterHandler) \o <<"answer">> \in Checking
    BY Openings, Pieces, Literals, Concatenation DEF Checking
  <2>4. Fine(AdminUnregister(as, of) \o <<"answer">>)
    BY <2>1, <2>2, <2>3 DEF AdminUnregister, Checking
  <2> HIDE DEF Fine
  <2> QED
    BY <1>3, <2>4 DEF Program
<1>4. CASE m \in {"agent_create", "agent_invite"}
  <2>1. RequireMlsAgent(as) \in Plain /\ (as # None => RequireMlsAgent(as) \in Checking)
    BY Openings, Literals, Concatenation DEF RequireMlsAgent, Checking
  <2>2. /\ RequireMlsAgent(as) \o CreateMlsGroup \in Plain
        /\ RequireMlsAgent(as) \o InviteToMlsGroup \in Plain
        /\ as # None => /\ RequireMlsAgent(as) \o CreateMlsGroup \in Checking
                        /\ RequireMlsAgent(as) \o InviteToMlsGroup \in Checking
    BY <2>1, Pieces, Concatenation
  <2>3. /\ Fine((RequireMlsAgent(as) \o CreateMlsGroup) \o <<"answer">>)
        /\ Fine((RequireMlsAgent(as) \o InviteToMlsGroup) \o <<"answer">>)
    BY <2>2, Literals, Concatenation
  <2> HIDE DEF Fine
  <2> QED
    BY <1>4, <2>3 DEF Program
<1>5. CASE m \in {"admin_create", "admin_invite"}
  <2>1. {RequireMlsAdmin \o CreateMlsGroup, RequireMlsAdmin \o InviteToMlsGroup} \subseteq Checking
    BY Handlers, Pieces, Concatenation
  <2>2. /\ Fine((RequireMlsAdmin \o CreateMlsGroup) \o <<"answer">>)
        /\ Fine((RequireMlsAdmin \o InviteToMlsGroup) \o <<"answer">>)
    BY <1>1, <2>1
  <2> HIDE DEF Fine
  <2> QED
    BY <1>5, <2>2 DEF Program
<1>6. CASE m \in {"send_dm", "send_reaction", "send_attachment", "set_profile", "error",
                  "list_handlers", "send_test_dm", "repair"}
  <2>1. /\ Fine(SendDm \o <<"answer">>) /\ Fine(SendReaction \o <<"answer">>)
        /\ Fine(SendAttachment \o <<"answer">>) /\ Fine(SetProfile \o <<"answer">>)
        /\ Fine(AgentError \o <<"answer">>) /\ Fine(ListHandlers \o <<"answer">>)
        /\ Fine(SendTestDm \o <<"answer">>) /\ Fine(RepairAdmins \o <<"answer">>)
    BY <1>1, Handlers
  <2> HIDE DEF Fine
  <2>2. CASE m \in {"send_dm", "send_reaction", "send_attachment", "set_profile"}
    BY <2>1, <2>2 DEF Program
  <2>3. CASE m \in {"error", "list_handlers", "send_test_dm", "repair"}
    BY <2>1, <2>3 DEF Program
  <2> QED
    BY <1>6, <2>2, <2>3
<1>7. CASE m \in {"group_message", "group_reaction", "group_attachment", "key_package",
                  "is_member", "exit", "delete"}
  <2>1. /\ Fine(SendGroupMessage \o <<"answer">>) /\ Fine(SendGroupReaction \o <<"answer">>)
        /\ Fine(SendGroupAttachment \o <<"answer">>) /\ Fine(PublishKeyPackage \o <<"answer">>)
        /\ Fine(IsSquadMember \o <<"answer">>) /\ Fine(ExitGroup \o <<"answer">>)
        /\ Fine(DeleteGroup \o <<"answer">>)
    BY <1>1, Handlers
  <2> HIDE DEF Fine
  <2>2. CASE m \in {"group_message", "group_reaction", "group_attachment", "key_package"}
    BY <2>1, <2>2 DEF Program
  <2>3. CASE m \in {"is_member", "exit", "delete"}
    BY <2>1, <2>3 DEF Program
  <2> QED
    BY <1>7, <2>2, <2>3
<1> HIDE DEF Fine
<1> QED
  BY <1>2, <1>3, <1>4, <1>5, <1>6, <1>7
  DEF Served, Methods, AgentMethods, AdminGroupCommands, AgentGroupCommands, HandlersCommands,
      ProbeCommands, TestCommands

-----------------------------------------------------------------------------
(* What the actors' steps have in common.                                  *)

\* A step of a handler, which goes on or ends with an error, may drop its guard,
\* and may remove a handler or, if it is the registration, add one.
Works(a) ==
    /\ job[a].steps # <<>> /\ ~Asks(a)
    /\ \/ /\ Advance(a)
          /\ Head(job[a].steps) \in Checks => job[a].as \in registry
       \/ job' = [job EXCEPT ![a] = Rest(a, job[a].onerr)]
    /\ holding' \in {holding, [holding EXCEPT ![a] = "none"]}
    /\ \/ registry' \subseteq registry
       \/ /\ Head(job[a].steps) = "insert"
          /\ registry' = registry \cup {job[a].conn}
    /\ UNCHANGED <<clientVars, drainVars, inbox, welcomed, queue>>

\* A step that takes a guard.
Takes(a) ==
    /\ Asks(a) /\ Compatible(a)
    /\ Advance(a)
    /\ holding' = [holding EXCEPT ![a] = Head(job[a].steps)]
    /\ \/ queue' = queue /\ \A i \in 1..Len(queue) : queue[i] # a
       \/ queue # <<>> /\ Head(queue) = a /\ queue' = Tail(queue)
    /\ UNCHANGED <<clientVars, drainVars, inbox, registry, welcomed>>

\* The steps of Step(a) are of these two kinds, but for the wait.
LEMMA StepKinds ==
    ASSUME Inv, NEW a \in Actors, Step(a)
    PROVE  Works(a) \/ Takes(a) \/ Wait(a)
<1> USE DEF Works, Asks, Doing, Quiet, Go, GoAndDrop, Fail, lockVars, Checks
<1>1. CASE Acquire(a)
  <2>1. Asks(a) /\ Len(queue) = 0
    BY <1>1 DEF Acquire, Asking
  <2> QED
    BY <1>1, <2>1 DEF Takes, Acquire
<1>2. CASE Grant(a)
  <2>1. Head(queue) = queue[1] /\ 1 \in 1..Len(queue)
    BY <1>2 DEF Grant, Inv, Typed
  <2>2. Asks(a)
    BY <1>2, <2>1 DEF Grant, Inv, Locked
  <2> QED
    BY <1>2, <2>2 DEF Takes, Grant
<1>3. CASE Drop(a)
  BY <1>3 DEF Drop
<1>4. CASE Identify(a)
  BY <1>4 DEF Identify
<1>5. CASE CheckCapability(a)
  BY <1>5 DEF CheckCapability
<1>6. CASE CheckAdmin(a)
  BY <1>6 DEF CheckAdmin
<1>7. CASE Charge(a) \/ LookUpBot(a) \/ UseStore(a) \/ UseEngine(a) \/ FetchKeyPackage(a)
           \/ Upload(a) \/ Sign(a) \/ Publish(a)
  BY <1>7 DEF Charge, LookUpBot, UseStore, UseEngine, FetchKeyPackage, Upload, Sign, Publish, Try
<1>8. CASE CloneHandles(a)
  BY <1>8 DEF CloneHandles
<1>9. CASE InsertHandler(a)
  BY <1>9 DEF InsertHandler
<1>10. CASE RemoveHandler(a)
  BY <1>10 DEF RemoveHandler
<1> QED
  BY <1>1, <1>2, <1>3, <1>4, <1>5, <1>6, <1>7, <1>8, <1>9, <1>10 DEF Step

\* A job that goes on keeps whose it is; one at its end is forgotten.
LEMMA RestOfJob ==
    ASSUME Typed, NEW a \in Actors, NEW t \in Seq(Steps)
    PROVE  /\ Rest(a, t) \in Job /\ Rest(a, t).steps = t
           /\ t # <<>> => /\ Rest(a, t).conn = job[a].conn /\ Rest(a, t).as = job[a].as
                          /\ Rest(a, t).known = job[a].known
           /\ t = <<>> => Rest(a, t).as = None
<1>1. job[a] \in Job
  BY DEF Typed
<1> QED
  BY <1>1 DEF Rest, Job, IdleJob

\* A step of an actor leads to the rest of its program or to the end its error
\* leads to.
LEMMA Onward ==
    ASSUME Typed, NEW a \in Actors, job[a].steps # <<>>,
           Advance(a) \/ job' = [job EXCEPT ![a] = Rest(a, job[a].onerr)]
    PROVE  /\ job' \in [Actors -> Job]
           /\ \A b \in Actors \ {a} : job'[b] = job[b]
           /\ job'[a].steps = Tail(job[a].steps) \/ job'[a].steps \in {<<>>, <<"answer">>, <<"next">>}
           /\ job'[a].steps # <<>> => /\ job'[a].conn = job[a].conn /\ job'[a].as = job[a].as
                                      /\ job'[a].known = job[a].known
           /\ job'[a].steps = <<>> => job'[a].as = None
<1>1. job[a] \in Job /\ Tail(job[a].steps) \in Seq(Steps)
  BY DEF Typed, Job
<1>2. {<<>>, <<"answer">>, <<"next">>} \subseteq Seq(Steps)
  BY DEF Steps
<1>3. job[a].onerr \in {<<>>, <<"answer">>, <<"next">>}
  BY <1>1 DEF Job
<1>4. PICK t \in Seq(Steps) :
          /\ job' = [job EXCEPT ![a] = Rest(a, t)]
          /\ t = Tail(job[a].steps) \/ t \in {<<>>, <<"answer">>, <<"next">>}
  BY <1>1, <1>2, <1>3 DEF Advance
<1>5. PICK r \in Job : r = Rest(a, t)
  BY RestOfJob
<1>6. /\ r.steps = t /\ (t = <<>> => r.as = None)
      /\ t # <<>> => r.conn = job[a].conn /\ r.as = job[a].as /\ r.known = job[a].known
  BY <1>5, RestOfJob
<1>7. job' = [job EXCEPT ![a] = r] /\ job \in [Actors -> Job]
  BY <1>4, <1>5 DEF Typed
<1> QED
  BY <1>4, <1>6, <1>7

\* The jobs that are begun, and the programs of the tasks beside the consumer.
LEMMA NewJobs ==
    /\ IdleJob \in Job
    /\ \A c \in Conns : [IdleJob EXCEPT !.steps = SendDm, !.as = c, !.known = TRUE] \in Job
    /\ [IdleJob EXCEPT !.steps = <<"read", "drop">>] \in Job
    /\ \A s \in Plain, of \in Conns \cup {None}, todo \in SUBSET Conns : ReaperJob(s, of, todo) \in Job
    /\ UnregisterHandler \o <<"next">> \in Plain
    /\ {<<>>, <<"answer">>, <<"next">>, <<"read", "drop">>, <<"read", "scan", "next">>} \subseteq Plain
    /\ Plain \subseteq Seq(Steps) /\ Idle \subseteq Seq(Steps) /\ Mute \subseteq Seq(Steps)
<1>1. Plain \subseteq Seq(Steps) /\ Idle \subseteq Seq(Steps) /\ Mute \subseteq Seq(Steps)
  BY DEF Plain, Idle, Mute
<1>2. {<<>>, <<"answer">>, <<"next">>, <<"read", "drop">>, <<"read", "scan", "next">>} \subseteq Plain
  BY DEF Plain, Steps
<1>3. UnregisterHandler \o <<"next">> \in Plain
  BY <1>2, Pieces, Concatenation
<1>4. SendDm \in Seq(Steps)
  BY <1>1, Handlers DEF Checking
<1>5. IdleJob \in Job
  BY <1>1, <1>2 DEF IdleJob, Job
<1>6. \A c \in Conns : [IdleJob EXCEPT !.steps = SendDm, !.as = c, !.known = TRUE] \in Job
  BY <1>4, <1>5 DEF Job, IdleJob
<1>7. [IdleJob EXCEPT !.steps = <<"read", "drop">>] \in Job
  BY <1>1, <1>2, <1>5 DEF Job, IdleJob
<1>8. \A s \in Plain, of \in Conns \cup {None}, todo \in SUBSET Conns : ReaperJob(s, of, todo) \in Job
  BY <1>1 DEF Job, ReaperJob
<1> QED
  BY <1>1, <1>2, <1>3, <1>5, <1>6, <1>7, <1>8

\* What Serve makes of the message in front: a job of the message's caller with
\* a program that was looked up.
LEMMA ServeMakes ==
    ASSUME Inv, Serve
    PROVE  /\ inbox # <<>> /\ Head(inbox) \in Message /\ inbox' = Tail(inbox)
           /\ job["rpc"].steps = <<>>
           /\ job' \in [Actors -> Job]
           /\ \A b \in Actors \ {"rpc"} : job'[b] = job[b]
           /\ job'["rpc"].conn = Head(inbox).conn /\ job'["rpc"].as = Head(inbox).as
           /\ job'["rpc"].known = (Head(inbox).as \in registry)
           /\ \/ job'["rpc"].steps \in Mute
              \/ /\ job'["rpc"].steps \in Plain
                 /\ Head(inbox).as # None => job'["rpc"].steps \in Checking \cup Idle
<1>1. inbox # <<>> /\ inbox' = Tail(inbox) /\ job["rpc"].steps = <<>>
  BY DEF Serve
<1>2. PICK m \in Message : m = Head(inbox)
  BY <1>1 DEF Inv, Typed
<1> DEFINE Made(method, of, k) ==
             [steps |-> Program(method, m.as, of),
              conn |-> m.conn, as |-> m.as, of |-> of, todo |-> {}, known |-> k,
              onerr |-> IF method = "disconnect" THEN <<>> ELSE ErrorAnswer]
<1>3. \E method \in Calls(m) :
        \E of \in IF method = "unregister_handler" THEN Conns ELSE {m.as} :
          job' = [job EXCEPT !["rpc"] = Made(method, of, m.as \in registry)]
  BY <1>2, Zenon DEF Serve
<1>4. PICK k : k = (m.as \in registry)
  OBVIOUS
<1>5. k \in BOOLEAN
  <2>1. (m.as \in registry) \in BOOLEAN
    OBVIOUS
  <2> QED
    BY <1>4, <2>1
<1>6. \E method \in Calls(m) :
        \E of \in IF method = "unregister_handler" THEN Conns ELSE {m.as} :
          job' = [job EXCEPT !["rpc"] = Made(method, of, k)]
  BY <1>3, <1>4, Zenon
<1> HIDE DEF Made
<1>7. PICK method \in Calls(m), of \in Conns \cup {None} :
          job' = [job EXCEPT !["rpc"] = Made(method, of, k)]
  BY <1>2, <1>6 DEF Message
<1>8. method \in Served \cup {"register"}
  BY <1>2, <1>7, RequestsAssumption DEF Calls, Message, Frames, Served
<1>9. PICK p : p = Program(method, m.as, of)
  OBVIOUS
<1>10. \/ p \in Mute
       \/ p \in Plain /\ (m.as # None => p \in Checking \cup Idle)
  BY <1>8, <1>9, Programs, Registering
<1>11. PICK j \in Job : /\ j.steps = p /\ j.conn = m.conn /\ j.as = m.as /\ j.known = k
                        /\ job' = [job EXCEPT !["rpc"] = j]
  <2>1. p \in Seq(Steps)
    BY <1>10, NewJobs DEF Checking
  <2>2. Made(method, of, k) = [steps |-> p, conn |-> m.conn, as |-> m.as, of |-> of, todo |-> {},
                               known |-> k,
                               onerr |-> IF method = "disconnect" THEN <<>> ELSE <<"answer">>]
    BY <1>9 DEF Made, ErrorAnswer
  <2> QED
    BY <1>2, <1>5, <1>7, <2>1, <2>2 DEF Job, Message
<1>12. job \in [Actors -> Job] /\ "rpc" \in Actors
  BY DEF Inv, Typed, Actors
<1>13. job'["rpc"] = j /\ job' \in [Actors -> Job] /\ \A b \in Actors \ {"rpc"} : job'[b] = job[b]
  BY <1>11, <1>12
<1>14. job'["rpc"].known = (Head(inbox).as \in registry)
  BY <1>2, <1>4, <1>11, <1>13, Zenon
<1> QED
  BY <1>1, <1>2, <1>10, <1>11, <1>13, <1>14

\* A step beside the consumer that takes a job up, or the reaper's look at its
\* list: it registers nobody and has no caller that is not known.
Aside(a) ==
    /\ a \in Actors \ {"rpc"} /\ ~Asks(a)
    /\ job' \in [Actors -> Job] /\ \A b \in Actors \ {a} : job'[b] = job[b]
    /\ job'[a].steps \in Plain /\ (job'[a].as = None \/ job'[a].known)
    /\ holding' \in {holding, [holding EXCEPT ![a] = "none"]}
    /\ UNCHANGED <<clientVars, drainVars, inbox, registry, welcomed, queue>>

LEMMA TasksBeside ==
    ASSUME Inv, NEW t \in Tasks, LookAround(t) \/ \E c \in Conns : BeginReply(t, c)
    PROVE  Aside(t)
<1>1. t \in Actors \ {"rpc"} /\ job \in [Actors -> Job] /\ job[t].steps = <<>>
  BY RequestsAssumption DEF Inv, Typed, Actors, LookAround, BeginReply
<1>2. ~Asks(t)
  BY <1>1 DEF Asks
<1>3. CASE LookAround(t)
  <2>1. PICK j \in Job : /\ j = [IdleJob EXCEPT !.steps = <<"read", "drop">>]
                         /\ j.steps = <<"read", "drop">> /\ j.as = None
    BY NewJobs DEF IdleJob
  <2>2. job' = [job EXCEPT ![t] = j]
    BY <1>3, <2>1 DEF LookAround
  <2> QED
    BY <1>1, <1>2, <1>3, <2>1, <2>2, NewJobs DEF Aside, LookAround, lockVars
<1>4. ASSUME NEW c \in Conns, BeginReply(t, c)
      PROVE  Aside(t)
  <2>1. PICK j \in Job : /\ j = [IdleJob EXCEPT !.steps = SendDm, !.as = c, !.known = TRUE]
                         /\ j.steps = SendDm /\ j.known
    BY NewJobs DEF IdleJob
  <2>2. job' = [job EXCEPT ![t] = j]
    BY <1>4, <2>1 DEF BeginReply
  <2>3. SendDm \in Plain
    BY Handlers DEF Checking
  <2> QED
    BY <1>1, <1>2, <1>4, <2>1, <2>2, <2>3 DEF Aside, BeginReply, lockVars
<1> QED
  BY <1>3, <1>4

LEMMA ReaperBeside ==
    ASSUME Inv, Reaper
    PROVE  Aside("reaper")
<1>1. /\ "reaper" \in Actors \ {"rpc"} /\ job \in [Actors -> Job]
      /\ job["reaper"] \in Job /\ job["reaper"].steps \in Plain
      /\ job["reaper"].as = None \/ job["reaper"].known
  BY DEF Inv, Typed, Vouched, Actors
<1>2. ~Asks("reaper")
  BY DEF Asks, Reaper, WakeReaper, Scan, NextStale, Doing
<1>3. \/ NextStale /\ job' = [job EXCEPT !["reaper"] = IdleJob]
      \/ \E s \in Plain, of \in Conns \cup {None}, todo \in SUBSET Conns :
             job' = [job EXCEPT !["reaper"] = ReaperJob(s, of, todo)]
  <2>1. CASE WakeReaper
    BY <2>1, NewJobs DEF WakeReaper
  <2>2. CASE Scan
    BY <2>2, NewJobs DEF Scan, Inv, Typed
  <2>3. CASE NextStale
    <3>1. CASE job["reaper"].todo = {}
      BY <2>3, <3>1 DEF NextStale
    <3>2. CASE job["reaper"].todo # {}
      <4>1. job["reaper"].todo \subseteq Conns
        BY <1>1 DEF Job
      <4>2. PICK c \in job["reaper"].todo :
              job' = [job EXCEPT !["reaper"] =
                         ReaperJob(UnregisterHandler \o <<"next">>, c, job["reaper"].todo \ {c})]
        BY <2>3, <3>2 DEF NextStale
      <4>3. /\ c \in Conns \cup {None} /\ job["reaper"].todo \ {c} \in SUBSET Conns
            /\ UnregisterHandler \o <<"next">> \in Plain
        BY <4>1, NewJobs
      <4> QED
        BY <4>2, <4>3
    <3> QED
      BY <3>1, <3>2
  <2> QED
    BY <2>1, <2>2, <2>3 DEF Reaper
<1>4. PICK j \in Job : /\ job' = [job EXCEPT !["reaper"] = j]
                       /\ j.steps \in Plain /\ j.as = None
  <2>1. IdleJob.steps \in Plain /\ IdleJob.as = None
    BY NewJobs DEF IdleJob
  <2>2. CASE job' = [job EXCEPT !["reaper"] = IdleJob]
    BY <2>1, <2>2, NewJobs
  <2>3. ASSUME NEW s \in Plain, NEW of \in Conns \cup {None}, NEW todo \in SUBSET Conns,
               job' = [job EXCEPT !["reaper"] = ReaperJob(s, of, todo)]
        PROVE  \E j \in Job : /\ job' = [job EXCEPT !["reaper"] = j]
                               /\ j.steps \in Plain /\ j.as = None
    <3>1. ReaperJob(s, of, todo) \in Job
      BY NewJobs
    <3>2. PICK j \in Job : j = ReaperJob(s, of, todo)
      BY <3>1
    <3>3. j.steps = s /\ j.as = None
      BY <3>2 DEF ReaperJob
    <3> QED
      BY <2>3, <3>2, <3>3, Zenon
  <2> QED
    BY <1>3, <2>2, <2>3
<1>5. /\ holding' \in {holding, [holding EXCEPT !["reaper"] = "none"]}
      /\ UNCHANGED <<clientVars, drainVars, inbox, registry, welcomed, queue>>
  BY DEF Reaper, WakeReaper, Scan, NextStale, lockVars
<1> QED
  BY <1>1, <1>2, <1>4, <1>5 DEF Aside

-----------------------------------------------------------------------------
(* The invariant is kept.                                                  *)

\* Only handler.register, which the consumer runs, adds to the registry.
LEMMA OnlyTheConsumerInserts ==
    ASSUME Inv, NEW a \in Actors, Works(a)
    PROVE  registry' \subseteq registry \/ (a = "rpc" /\ registry' = registry \cup {job["rpc"].conn}
                                           /\ job["rpc"].steps \in Mute)
<1>1. job[a].steps # <<>> /\ job[a].steps \in Seq(Steps)
  BY DEF Inv, Typed, Job, Works
<1>2. job[a].steps \in Plain => Head(job[a].steps) # "insert"
  BY <1>1 DEF Plain
<1> QED
  BY <1>1, <1>2 DEF Inv, Vouched, Works

\* Types.
LEMMA TypedStep ==
    ASSUME Inv, [Next]_vars
    PROVE  Typed'
<1> USE DEF Inv, Typed, clientVars, drainVars, lockVars
<1>1. ASSUME NEW a \in Actors, Works(a) PROVE Typed'
  <2>1. job' \in [Actors -> Job]
    BY <1>1, Onward DEF Works
  <2>2. registry' \subseteq Conns
    BY <1>1, OnlyTheConsumerInserts DEF Works, Vouched
  <2> QED
    BY <1>1, <2>1, <2>2 DEF Works
<1>2. ASSUME NEW a \in Actors, Takes(a) PROVE Typed'
  <2>1. job' \in [Actors -> Job]
    BY <1>2, Onward DEF Takes, Asks
  <2>2. queue' \in Seq(Actors)
    <3>1. queue \in Seq(Actors) /\ (queue' = queue \/ (queue # <<>> /\ queue' = Tail(queue)))
      BY <1>2 DEF Takes
    <3>2. CASE queue # <<>> /\ queue' = Tail(queue)
      <4>1. \A q \in Seq(Actors) : q # <<>> => Tail(q) \in Seq(Actors)
        OBVIOUS
      <4> QED
        BY <3>1, <3>2, <4>1
    <3> QED
      BY <3>1, <3>2
  <2>3. PICK g \in {"read", "write"} : holding' = [holding EXCEPT ![a] = g]
    BY <1>2 DEF Takes, Asks
  <2> QED
    BY <1>2, <2>1, <2>2, <2>3 DEF Takes
<1>3. ASSUME NEW a \in Actors, Wait(a) PROVE Typed'
  BY <1>3 DEF Wait
<1>4. ASSUME NEW a, Aside(a) PROVE Typed'
  BY <1>4 DEF Aside
<1>5. ASSUME NEW c \in Conns, SendRegister(c) \/ SendRequest(c) \/ SendUnregister(c) PROVE Typed'
  <2>1. PICK m \in Frames : Frame(c, m)
    BY <1>5 DEF SendRegister, SendRequest, SendUnregister, Frames
  <2>2. pend' \in [Conns -> Seq(Frames)]
    BY <2>1 DEF Frame
  <2>3. phase' \in [Conns -> {"new", "in", "left"}]
    BY <1>5 DEF SendRegister, SendRequest, SendUnregister
  <2> QED
    BY <2>1, <2>2, <2>3 DEF Frame
<1>6. ASSUME NEW c \in Conns, CloseConnection(c) PROVE Typed'
  <2>1. [method |-> "disconnect", conn |-> c, as |-> hid[c]] \in Message
    BY DEF Message
  <2>2. inbox' \in Seq(Message)
    BY <1>6, <2>1 DEF CloseConnection
  <2> QED
    BY <1>6, <2>2 DEF CloseConnection
<1>7. ASSUME NEW c \in Conns, RejectFrame(c) PROVE Typed'
  BY <1>7 DEF RejectFrame, Taking
<1>8. ASSUME NEW c \in Conns, HandOver(c) PROVE Typed'
  <2>1. [method |-> Head(pend[c]), conn |-> c, as |-> hid[c]] \in Message
    BY <1>8 DEF Message, HandOver, Taking
  <2>2. inbox' \in Seq(Message) /\ pend' \in [Conns -> Seq(Frames)]
    BY <1>8, <2>1 DEF HandOver, Taking
  <2> QED
    BY <1>8, <2>2 DEF HandOver
<1>9. ASSUME NEW c \in Conns, PassAnswer(c) PROVE Typed'
  BY <1>9 DEF PassAnswer
<1>10. CASE Serve
  <2>1. job' \in [Actors -> Job]
    BY <1>10, ServeMakes
  <2>2. inbox # <<>> /\ inbox' = Tail(inbox) /\ inbox \in Seq(Message)
    BY <1>10 DEF Serve
  <2>3. inbox' \in Seq(Message)
    BY <2>2
  <2>4. UNCHANGED <<clientVars, drainVars, registry, welcomed, lockVars>>
    BY <1>10 DEF Serve
  <2> QED
    BY <2>1, <2>3, <2>4
<1>11. CASE Answer
  <2>1. job' \in [Actors -> Job]
    BY <1>11, NewJobs DEF Answer
  <2>2. job["rpc"].conn \in Conns
    BY <1>11 DEF Answer, Doing, Vouched
  <2> QED
    BY <1>11, <2>1, <2>2 DEF Answer
<1>12. CASE UNCHANGED vars
  BY <1>12 DEF vars
<1> QED
  BY <1>1, <1>2, <1>3, <1>4, <1>5, <1>6, <1>7, <1>8, <1>9, <1>10, <1>11, <1>12,
     StepKinds, TasksBeside, ReaperBeside DEF Next, Client, Drainer

\* An actor that is not at a lock keeps the waiters and the guards in order,
\* whatever it does next.
LEMMA LockedKept ==
    ASSUME Inv, NEW a \in Actors, ~Asks(a),
           \A b \in Actors \ {a} : job'[b] = job[b],
           queue' = queue, holding' \in {holding, [holding EXCEPT ![a] = "none"]}
    PROVE  Locked'
<1>1. \A b \in Actors \ {a} : Asks(b)' = Asks(b)
  BY DEF Asks
<1>2. \A i \in 1..Len(queue) : queue[i] \in Actors \ {a}
  BY DEF Inv, Typed, Locked
<1> QED
  BY <1>1, <1>2 DEF Inv, Typed, Locked

\* client_manager.
LEMMA LockedStep ==
    ASSUME Inv, [Next]_vars
    PROVE  Locked'
<1> USE DEF lockVars
<1>1. ASSUME NEW a \in Actors, Works(a) PROVE Locked'
  BY <1>1, LockedKept, Onward DEF Works, Inv
<1>2. ASSUME NEW a \in Actors, Takes(a) PROVE Locked'
  <2>1. \A b \in Actors \ {a} : job'[b] = job[b]
    BY <1>2, Onward DEF Takes, Asks, Inv
  <2>2. \A b \in Actors \ {a} : Asks(b)' = Asks(b)
    BY <2>1 DEF Asks
  <2>3. \A b, d \in Actors : b # d /\ holding'[b] = "write" => holding'[d] = "none"
    <3>1. \A b \in Actors : holding[b] = "none" \/ (holding[b] = "read" /\ Head(job[a].steps) = "read")
      BY <1>2 DEF Takes, Compatible, Doing
    <3> QED
      BY <1>2, <3>1 DEF Takes, Asks, Inv, Typed, Locked
  <2>4. CASE queue' = queue /\ \A i \in 1..Len(queue) : queue[i] # a
    <3>1. \A i \in 1..Len(queue) : queue[i] \in Actors \ {a}
      BY <2>4 DEF Inv, Typed
    <3> QED
      BY <2>2, <2>3, <2>4, <3>1 DEF Inv, Locked
  <2>5. CASE queue # <<>> /\ Head(queue) = a /\ queue' = Tail(queue)
    <3>1. queue \in Seq(Actors) /\ queue[1] = a /\ Len(queue') = Len(queue) - 1 /\ Len(queue) \in Nat
      BY <2>5 DEF Inv, Typed
    <3>2. \A i \in 1..Len(queue') : queue'[i] = queue[i + 1] /\ i + 1 \in 1..Len(queue)
      BY <2>5, <3>1
    <3>3. \A i \in 1..Len(queue') : queue'[i] \in Actors \ {a}
      BY <3>1, <3>2 DEF Inv, Locked
    <3>4. \A i, j \in 1..Len(queue') : queue'[i] = queue'[j] => i = j
      BY <3>1, <3>2 DEF Inv, Locked
    <3>5. \A i \in 1..Len(queue') : Asks(queue[i + 1])
      BY <3>1, <3>2 DEF Inv, Locked
    <3> QED
      BY <2>2, <2>3, <3>2, <3>3, <3>4, <3>5 DEF Locked
  <2> QED
    BY <1>2, <2>4, <2>5 DEF Takes
<1>3. ASSUME NEW a \in Actors, Wait(a) PROVE Locked'
  <2>1. queue \in Seq(Actors) /\ queue' = Append(queue, a) /\ job' = job /\ holding' = holding
    BY <1>3 DEF Wait, Inv, Typed
  <2>2. Asks(a) /\ \A i \in 1..Len(queue) : queue[i] # a
    BY <1>3, <2>1 DEF Wait, Asking, Asks, Doing
  <2>3. \A b : Asks(b)' = Asks(b)
    BY <2>1 DEF Asks
  <2>4. /\ Len(queue') = Len(queue) + 1 /\ Len(queue) \in Nat /\ queue'[Len(queue) + 1] = a
        /\ \A i \in 1..Len(queue) : queue'[i] = queue[i]
    BY <2>1
  <2> QED
    BY <2>1, <2>2, <2>3, <2>4 DEF Inv, Locked
<1>4. ASSUME NEW a, Aside(a) PROVE Locked'
  BY <1>4, LockedKept DEF Aside
<1>5. CASE job' = job /\ queue' = queue /\ holding' = holding
  BY <1>5 DEF Inv, Locked, Asks
<1>6. CASE Serve \/ Answer
  <2>1. "rpc" \in Actors /\ \A b \in Actors \ {"rpc"} : job'[b] = job[b]
    BY <1>6, ServeMakes DEF Answer, Actors, Inv, Typed
  <2>2. ~Asks("rpc")
    BY <1>6 DEF Serve, Answer, Asks, Doing
  <2> QED
    BY <1>6, <2>1, <2>2, LockedKept DEF Serve, Answer
<1>7. ASSUME NEW c \in Conns, Client(c) \/ Drainer(c)
      PROVE  job' = job /\ queue' = queue /\ holding' = holding
  BY <1>7 DEF Client, Drainer, SendRegister, SendRequest, SendUnregister, Frame, CloseConnection,
              RejectFrame, HandOver, PassAnswer
<1>8. CASE UNCHANGED vars
  BY <1>5, <1>8 DEF vars
<1> QED
  BY <1>1, <1>2, <1>3, <1>4, <1>5, <1>6, <1>7, <1>8, StepKinds, TasksBeside, ReaperBeside DEF Next

\* A step that leaves connections and messages alone, and gives the consumer no
\* other job.
LEMMA AttributedKept ==
    ASSUME Inv, UNCHANGED <<open, reply, hid, inbox, welcomed>>,
           job'["rpc"].steps # <<>> =>
              /\ job["rpc"].steps # <<>>
              /\ job'["rpc"].conn = job["rpc"].conn /\ job'["rpc"].as = job["rpc"].as
    PROVE  Attributed'
  BY DEF Inv, Attributed, Awaited

\* Connections and who their requests are served as.
LEMMA AttributedStep ==
    ASSUME Inv, [Next]_vars
    PROVE  Attributed'
<1> USE DEF clientVars, drainVars
<1>0. /\ "rpc" \in Actors /\ inbox \in Seq(Message) /\ Len(inbox) \in Nat
      /\ hid \in [Conns -> Conns \cup {None}]
      /\ reply \in [Conns -> {"idle", "waiting", "done", "welcome"}]
      /\ open \subseteq Conns /\ \A i \in 1..Len(inbox) : inbox[i].conn \in Conns
  <2>1. \A m \in Message : m.conn \in Conns
    BY DEF Message
  <2>2. inbox \in Seq(Message)
    BY DEF Inv, Typed
  <2>3. Len(inbox) \in Nat /\ \A i \in 1..Len(inbox) : inbox[i] \in Message
    BY <2>2
  <2> QED
    BY <2>1, <2>2, <2>3 DEF Inv, Typed, Actors
<1>1. ASSUME NEW a \in Actors, Works(a) PROVE Attributed'
  BY <1>0, <1>1, AttributedKept, Onward DEF Works, Inv
<1>2. ASSUME NEW a \in Actors, Takes(a) PROVE Attributed'
  BY <1>0, <1>2, AttributedKept, Onward DEF Takes, Asks, Inv
<1>3. ASSUME NEW a \in Actors, Wait(a) PROVE Attributed'
  BY <1>3, AttributedKept DEF Wait
<1>4. ASSUME NEW a, Aside(a) PROVE Attributed'
  BY <1>0, <1>4, AttributedKept DEF Aside
<1>5. ASSUME NEW c \in Conns, SendRegister(c) \/ SendRequest(c) \/ SendUnregister(c) PROVE Attributed'
  BY <1>5, AttributedKept DEF SendRegister, SendRequest, SendUnregister, Frame
<1>6. ASSUME NEW c \in Conns, CloseConnection(c) PROVE Attributed'
  <2>1. /\ open' = open \ {c} /\ c \in open /\ hid' = hid /\ job' = job /\ welcomed' = welcomed
        /\ reply' = [reply EXCEPT ![c] = "idle"]
    BY <1>6 DEF CloseConnection
  <2>2. /\ Len(inbox') \in {Len(inbox), Len(inbox) + 1}
        /\ \A i \in 1..Len(inbox) : inbox'[i] = inbox[i]
        /\ Len(inbox') = Len(inbox) + 1 => inbox'[Len(inbox) + 1].conn = c
    BY <1>0, <1>6 DEF CloseConnection
  <2>3. \A i \in 1..Len(inbox') :
           inbox'[i].conn \in open' => i \in 1..Len(inbox) /\ inbox'[i] = inbox[i]
    BY <1>0, <2>1, <2>2
  <2>4. \A m : m.conn \in Conns /\ Awaited(m) => Awaited(m)'
    BY <1>0, <2>1 DEF Awaited
  <2>5. \A i \in 1..Len(inbox') : inbox'[i].conn \in open' => Awaited(inbox[i])
    BY <2>3 DEF Inv, Attributed
  <2>6. (\A i \in 1..Len(inbox) : Awaited(inbox[i]))'
    BY <1>0, <2>1, <2>3, <2>5 DEF Awaited
  <2>7. \A i, j \in 1..Len(inbox') :
           inbox'[i].conn \in open' /\ inbox'[i].conn = inbox'[j].conn => i = j
    BY <2>1, <2>3 DEF Inv, Attributed
  <2>8. job'["rpc"].steps # <<>> =>
          /\ Awaited(job["rpc"])'
          /\ \A i \in 1..Len(inbox') : inbox'[i].conn \in open' => inbox'[i].conn # job'["rpc"].conn
    BY <1>0, <2>1, <2>3 DEF Inv, Attributed, Awaited
  <2>9. \A d \in open' \cap welcomed' : hid'[d] = d \/ reply'[d] = "welcome"
    BY <1>0, <2>1 DEF Inv, Attributed
  <2>10. \A d \in Conns : hid'[d] \in {None, d} /\ (reply'[d] # "idle" => d \in open')
    BY <1>0, <2>1 DEF Inv, Attributed
  <2> QED
    BY <2>6, <2>7, <2>8, <2>9, <2>10 DEF Attributed
<1>7. ASSUME NEW c \in Conns, RejectFrame(c) PROVE Attributed'
  BY <1>0, <1>7 DEF RejectFrame, Taking, Inv, Attributed, Awaited
<1>8. ASSUME NEW c \in Conns, HandOver(c) PROVE Attributed'
  <2>1. /\ c \in open /\ reply[c] = "idle" /\ reply' = [reply EXCEPT ![c] = "waiting"]
        /\ UNCHANGED <<open, hid, job, welcomed>>
    BY <1>8 DEF HandOver, Taking
  <2>2. /\ Len(inbox') = Len(inbox) + 1 /\ \A i \in 1..Len(inbox) : inbox'[i] = inbox[i]
        /\ inbox'[Len(inbox) + 1].conn = c /\ inbox'[Len(inbox) + 1].as = hid[c]
    BY <1>0, <1>8 DEF HandOver
  <2>3. /\ \A i \in 1..Len(inbox) : inbox[i].conn # c
        /\ job["rpc"].steps # <<>> => job["rpc"].conn # c
    BY <2>1 DEF Inv, Attributed, Awaited
  <2>4. (\A i \in 1..Len(inbox) : Awaited(inbox[i]))'
    <3>1. \A i \in 1..Len(inbox) : Awaited(inbox[i])
      BY DEF Inv, Attributed
    <3>2. \A i \in 1..Len(inbox) :
             inbox'[i].conn \in open' => /\ reply'[inbox'[i].conn] = "waiting"
                                         /\ inbox'[i].as = hid'[inbox'[i].conn]
      BY <1>0, <2>1, <2>2, <2>3, <3>1 DEF Awaited
    <3>3. reply'[c] = "waiting" /\ hid'[c] = hid[c]
      BY <1>0, <2>1
    <3>4. \A i \in 1..Len(inbox') : i \in 1..Len(inbox) \/ i = Len(inbox) + 1
      BY <1>0, <2>2
    <3> QED
      BY <2>2, <3>2, <3>3, <3>4 DEF Awaited
  <2>5. \A i, j \in 1..Len(inbox') :
           inbox'[i].conn \in open' /\ inbox'[i].conn = inbox'[j].conn => i = j
    BY <1>0, <2>1, <2>2, <2>3 DEF Inv, Attributed
  <2>6. job'["rpc"].steps # <<>> =>
          /\ Awaited(job["rpc"])'
          /\ \A i \in 1..Len(inbox') : inbox'[i].conn \in open' => inbox'[i].conn # job'["rpc"].conn
    BY <1>0, <2>1, <2>2, <2>3 DEF Inv, Attributed, Awaited
  <2>7. \A d \in open' \cap welcomed' : hid'[d] = d \/ reply'[d] = "welcome"
    BY <1>0, <2>1 DEF Inv, Attributed
  <2>8. \A d \in Conns : hid'[d] \in {None, d} /\ (reply'[d] # "idle" => d \in open')
    BY <1>0, <2>1 DEF Inv, Attributed
  <2> QED
    BY <2>4, <2>5, <2>6, <2>7, <2>8 DEF Attributed
<1>9. ASSUME NEW c \in Conns, PassAnswer(c) PROVE Attributed'
  <2>1. /\ reply[c] \in {"done", "welcome"} /\ reply' = [reply EXCEPT ![c] = "idle"]
        /\ hid' = IF reply[c] = "welcome" THEN [hid EXCEPT ![c] = c] ELSE hid
        /\ UNCHANGED <<open, inbox, job, welcomed>>
    BY <1>9 DEF PassAnswer
  <2>2. \A d \in Conns \ {c} : reply'[d] = reply[d] /\ hid'[d] = hid[d]
    BY <1>0, <2>1
  <2>3. reply'[c] = "idle" /\ hid'[c] = (IF reply[c] = "welcome" THEN c ELSE hid[c])
    BY <1>0, <2>1
  <2>4. /\ \A i \in 1..Len(inbox) : inbox[i].conn \in open => inbox[i].conn # c
        /\ job["rpc"].steps # <<>> /\ job["rpc"].conn \in open => job["rpc"].conn # c
    BY <2>1 DEF Inv, Attributed, Awaited
  <2> QED
    BY <1>0, <2>1, <2>2, <2>3, <2>4 DEF Inv, Attributed, Awaited
<1>10. CASE Serve
  <2>1. /\ UNCHANGED <<open, reply, hid, welcomed>> /\ inbox # <<>> /\ inbox' = Tail(inbox)
        /\ job'["rpc"].conn = inbox[1].conn /\ job'["rpc"].as = inbox[1].as
    <3>1. inbox # <<>> => Head(inbox) = inbox[1]
      BY <1>0
    <3> QED
      BY <1>10, <3>1, ServeMakes DEF Serve
  <2>2. /\ Len(inbox') = Len(inbox) - 1 /\ 1 \in 1..Len(inbox)
        /\ \A i \in 1..Len(inbox') : inbox'[i] = inbox[i + 1] /\ i + 1 \in 1..Len(inbox)
    BY <1>0, <2>1
  <2>3. /\ Awaited(inbox[1]) /\ \A i \in 1..Len(inbox') : Awaited(inbox[i + 1])
        /\ \A i \in 1..Len(inbox') : inbox[i + 1].conn \in open => inbox[i + 1].conn # inbox[1].conn
    BY <1>0, <2>2 DEF Inv, Attributed
  <2>4. (\A i \in 1..Len(inbox) : Awaited(inbox[i]))'
    BY <2>1, <2>2, <2>3 DEF Awaited
  <2>5. Awaited(job["rpc"])'
    BY <2>1, <2>3 DEF Awaited
  <2>6. \A i \in 1..Len(inbox') : inbox'[i].conn \in open' => inbox'[i].conn # job'["rpc"].conn
    BY <2>1, <2>2, <2>3
  <2>7. \A i, j \in 1..Len(inbox') :
           inbox'[i].conn \in open' /\ inbox'[i].conn = inbox'[j].conn => i = j
    <3>1. \A i, j \in 1..Len(inbox') :
             inbox[i + 1].conn \in open /\ inbox[i + 1].conn = inbox[j + 1].conn => i + 1 = j + 1
      BY <2>2 DEF Inv, Attributed
    <3>2. \A i, j \in 1..Len(inbox') : i + 1 = j + 1 => i = j
      BY <1>0, <2>2
    <3> QED
      BY <2>1, <2>2, <3>1, <3>2
  <2>8. /\ \A d \in Conns : hid'[d] \in {None, d} /\ (reply'[d] # "idle" => d \in open')
        /\ \A d \in open' \cap welcomed' : hid'[d] = d \/ reply'[d] = "welcome"
    BY <2>1 DEF Inv, Attributed
  <2> QED
    BY <2>4, <2>5, <2>6, <2>7, <2>8 DEF Attributed
<1>11. CASE Answer
  <2>1. PICK c : c = job["rpc"].conn
    OBVIOUS
  <2>2. job["rpc"].steps # <<>> /\ c \in Conns
    BY <1>11, <2>1 DEF Answer, Doing, Inv, Vouched
  <2>3. /\ UNCHANGED <<open, hid, inbox>> /\ job'["rpc"].steps = <<>>
        /\ \/ c \notin open /\ reply' = reply /\ welcomed' \in {welcomed, welcomed \cup {c}}
           \/ /\ c \in open /\ reply' = [reply EXCEPT ![c] = "done"] /\ welcomed' = welcomed
           \/ /\ c \in open /\ reply' = [reply EXCEPT ![c] = "welcome"]
              /\ welcomed' = welcomed \cup {c}
    BY <1>0, <1>11, <2>1 DEF Answer, Doing, IdleJob, Inv, Typed
  <2>4. \A i \in 1..Len(inbox) : inbox[i].conn \in open => inbox[i].conn # c
    BY <2>1, <2>2 DEF Inv, Attributed
  <2>5. c \in open => reply[c] = "waiting"
    BY <2>1, <2>2 DEF Inv, Attributed, Awaited
  <2>6. \A d \in Conns \ {c} : reply'[d] = reply[d]
    BY <1>0, <2>2, <2>3
  <2>7. (\A i \in 1..Len(inbox) : Awaited(inbox[i]))'
    BY <1>0, <2>3, <2>4, <2>6 DEF Inv, Attributed, Awaited
  <2>8. \A d \in open' \cap welcomed' : hid'[d] = d \/ reply'[d] = "welcome"
    BY <1>0, <2>2, <2>3, <2>5, <2>6 DEF Inv, Attributed
  <2>9. \A d \in Conns : hid'[d] \in {None, d} /\ (reply'[d] # "idle" => d \in open')
    BY <1>0, <2>2, <2>3, <2>5, <2>6 DEF Inv, Attributed
  <2> QED
    BY <2>3, <2>7, <2>8, <2>9 DEF Inv, Attributed
<1>12. CASE UNCHANGED vars
  BY <1>12, AttributedKept DEF vars
<1> QED
  BY <1>1, <1>2, <1>3, <1>4, <1>5, <1>6, <1>7, <1>8, <1>9, <1>10, <1>11, <1>12,
     StepKinds, TasksBeside, ReaperBeside DEF Next, Client, Drainer

\* The rest of a program does nothing that the program does not do, and the ends
\* that errors lead to do nothing of interest.
LEMMA Tails ==
    /\ \A s \in Plain : s # <<>> => Tail(s) \in Plain
    /\ \A s \in Idle : s # <<>> => Tail(s) \in Idle
    /\ \A s \in Mute : s # <<>> => Tail(s) \in Mute /\ Head(s) \notin Checks
    /\ {<<>>, <<"answer">>, <<"next">>} \subseteq Plain \cap Idle \cap Mute
    /\ Mute \subseteq Idle
<1>1. \A s \in Plain : s # <<>> => Tail(s) \in Plain
  BY DEF Plain
<1>2. \A s \in Idle : s # <<>> => Tail(s) \in Idle
  BY DEF Idle
<1>3. \A s \in Mute : s # <<>> => Tail(s) \in Mute /\ Head(s) \notin Checks
  BY DEF Mute
<1>4. {<<>>, <<"answer">>, <<"next">>} \subseteq Plain \cap Idle \cap Mute
  BY DEF Plain, Idle, Mute, Steps, Service, Checks
<1>5. Mute \subseteq Idle
  BY DEF Mute, Idle
<1> QED
  BY <1>1, <1>2, <1>3, <1>4, <1>5

\* A step that is not the consumer's and adds nothing to the registry.
LEMMA VouchedKept ==
    ASSUME Inv, NEW a \in Actors \ {"rpc"}, registry' \subseteq registry,
           \A b \in Actors \ {a} : job'[b] = job[b],
           job'[a].steps \in Plain, job'[a].as = None \/ job'[a].known
    PROVE  Vouched'
<1>1. "rpc" \in Actors /\ job'["rpc"] = job["rpc"]
  BY DEF Actors
<1>2. Vetted(job["rpc"].steps)' = Vetted(job["rpc"].steps)
  BY <1>1 DEF Vetted
<1> QED
  BY <1>1, <1>2 DEF Inv, Vouched

\* A step of the consumer's job.
LEMMA VouchedOn ==
    ASSUME Inv, job["rpc"].steps # <<>>,
           \/ Advance("rpc") /\ (Head(job["rpc"].steps) \in Checks => job["rpc"].as \in registry)
           \/ job' = [job EXCEPT !["rpc"] = Rest("rpc", job["rpc"].onerr)],
           \/ registry' \subseteq registry
           \/ registry' = registry \cup {job["rpc"].conn} /\ job["rpc"].steps \in Mute
    PROVE  Vouched'
<1> DEFINE s == job["rpc"].steps
           short == {<<>>, <<"answer">>, <<"next">>}
<1>1. "rpc" \in Actors /\ job["rpc"] \in Job /\ s \in Seq(Steps) /\ job["rpc"].onerr \in short
  BY DEF Inv, Typed, Actors, Job
<1>2. /\ \A b \in Actors \ {"rpc"} : job'[b] = job[b]
      /\ job'["rpc"].steps = Tail(s) \/ job'["rpc"].steps \in short
      /\ job'["rpc"].steps # <<>> =>
            /\ job'["rpc"].conn = job["rpc"].conn /\ job'["rpc"].as = job["rpc"].as
            /\ job'["rpc"].known = job["rpc"].known
      /\ job'["rpc"].steps = <<>> => job'["rpc"].as = None
  BY <1>1, Onward DEF Inv
<1>3. job'["rpc"].steps \in Plain \cup Mute
  BY <1>2, Tails DEF Inv, Vouched
<1>4. \/ job'["rpc"].as = None \/ job'["rpc"].known
      \/ job'["rpc"].steps \in Idle \/ Vetted(job["rpc"].steps)'
  <2>1. CASE job'["rpc"].steps \in short
    BY <2>1, Tails
  <2>2. CASE job'["rpc"].steps = <<>>
    BY <1>2, <2>2
  <2>3. CASE job'["rpc"].steps # <<>> /\ job'["rpc"].steps \notin short
    <3>1. job'["rpc"].steps = Tail(s)
      BY <1>2, <2>3
    <3>2. ~(job' = [job EXCEPT !["rpc"] = Rest("rpc", job["rpc"].onerr)])
      <4>1. short \subseteq Seq(Steps)
        BY Tails, NewJobs
      <4>2. Rest("rpc", job["rpc"].onerr).steps = job["rpc"].onerr
        BY <1>1, <4>1, RestOfJob DEF Inv
      <4>3. job \in [Actors -> Job]
        BY DEF Inv, Typed
      <4> QED
        BY <1>1, <2>3, <4>2, <4>3
    <3>3. CASE Head(s) \in Checks
      <4>1. job["rpc"].as \in registry
        BY <3>2, <3>3
      <4>2. s \notin Mute
        BY <3>3, Tails
      <4> QED
        BY <1>2, <2>3, <4>1, <4>2 DEF Inv, Vouched
    <3>4. CASE Head(s) \notin Checks
      <4>1. Vetted(s) => Vetted(Tail(s))
        BY <1>1, <3>4, VettedTail
      <4>2. Vetted(Tail(s)) => Vetted(job["rpc"].steps)'
        BY <3>1 DEF Vetted
      <4> QED
        BY <1>2, <2>3, <3>1, <4>1, <4>2, Tails DEF Inv, Vouched
    <3> QED
      BY <3>3, <3>4
  <2> QED
    BY <2>1, <2>2, <2>3
<1>5. job'["rpc"].as \in registry' => job'["rpc"].known \/ job'["rpc"].steps \in Mute
  <2>1. CASE s \in Mute
    BY <1>2, <2>1, Tails
  <2>2. CASE s \notin Mute
    <3>1. registry' \subseteq registry
      BY <2>2
    <3> QED
      BY <1>2, <2>2, <3>1, Tails DEF Inv, Vouched
  <2> QED
    BY <2>1, <2>2
<1>6. job'["rpc"].steps # <<>> => job'["rpc"].conn \in Conns
  BY <1>2 DEF Inv, Vouched
<1> QED
  BY <1>2, <1>3, <1>4, <1>5, <1>6 DEF Inv, Vouched

\* Who is registered, and what is done for whom.
LEMMA VouchedStep ==
    ASSUME Inv, [Next]_vars
    PROVE  Vouched'
<1> USE DEF clientVars, drainVars
<1>1. ASSUME NEW a \in Actors, Works(a) PROVE Vouched'
  <2>1. CASE a = "rpc"
    BY <1>1, <2>1, OnlyTheConsumerInserts, VouchedOn DEF Works
  <2>2. CASE a # "rpc"
    <3>1. registry' \subseteq registry
      BY <1>1, <2>2, OnlyTheConsumerInserts
    <3>2. /\ \A b \in Actors \ {a} : job'[b] = job[b]
          /\ job'[a].steps \in Plain /\ (job'[a].as = None \/ job'[a].known)
      BY <1>1, <2>2, Onward, Tails DEF Works, Inv, Vouched
    <3> QED
      BY <2>2, <3>1, <3>2, VouchedKept
  <2> QED
    BY <2>1, <2>2
<1>2. ASSUME NEW a \in Actors, Takes(a) PROVE Vouched'
  <2>1. job[a].steps # <<>> /\ Head(job[a].steps) \notin Checks /\ Advance(a) /\ registry' = registry
    BY <1>2 DEF Takes, Asks, Checks
  <2>2. CASE a = "rpc"
    BY <2>1, <2>2, VouchedOn
  <2>3. CASE a # "rpc"
    <3>1. /\ \A b \in Actors \ {a} : job'[b] = job[b]
          /\ job'[a].steps \in Plain /\ (job'[a].as = None \/ job'[a].known)
      BY <2>1, <2>3, Onward, Tails DEF Inv, Vouched
    <3> QED
      BY <2>1, <2>3, <3>1, VouchedKept
  <2> QED
    BY <2>2, <2>3
<1>3. ASSUME NEW a, Aside(a) PROVE Vouched'
  BY <1>3, VouchedKept DEF Aside
<1>4. CASE job' = job /\ registry' = registry
  BY <1>4 DEF Inv, Vouched, Vetted
<1>5. CASE Serve
  <2>1. registry' = registry /\ "rpc" \in Actors
    BY <1>5 DEF Serve, Actors
  <2>2. job'["rpc"].as \in registry' => job'["rpc"].known
    BY <1>5, <2>1, ServeMakes
  <2>3. /\ job'["rpc"].steps \in Plain \cup Mute
        /\ job'["rpc"].as = None \/ job'["rpc"].steps \in Checking \cup Idle
    BY <1>5, ServeMakes, Tails
  <2>4. job'["rpc"].steps \in Checking => Vetted(job["rpc"].steps)'
    BY DEF Checking, Vetted
  <2>5. job'["rpc"].conn \in Conns /\ \A b \in Actors \ {"rpc"} : job'[b] = job[b]
    BY <1>5, ServeMakes DEF Message
  <2> QED
    BY <2>2, <2>3, <2>4, <2>5 DEF Inv, Vouched
<1>6. CASE Answer
  <2>1. /\ registry' = registry /\ job'["rpc"] = IdleJob
        /\ \A b \in Actors \ {"rpc"} : job'[b] = job[b]
    BY <1>6 DEF Answer, Actors, Inv, Typed
  <2>2. job'["rpc"].as = None /\ job'["rpc"].steps = <<>>
    BY <2>1 DEF IdleJob
  <2>3. job'["rpc"].as \notin registry' /\ job'["rpc"].steps \in Mute
    BY <2>1, <2>2, Tails, RequestsAssumption DEF Inv, Typed
  <2> QED
    BY <2>1, <2>2, <2>3 DEF Inv, Vouched
<1>7. ASSUME NEW c \in Conns, Client(c) \/ Drainer(c)
      PROVE  job' = job /\ registry' = registry
  BY <1>7 DEF Client, Drainer, SendRegister, SendRequest, SendUnregister, Frame, CloseConnection,
              RejectFrame, HandOver, PassAnswer
<1>8. ASSUME NEW a \in Actors, Wait(a) PROVE job' = job /\ registry' = registry
  BY <1>8 DEF Wait
<1>9. CASE UNCHANGED vars
  BY <1>4, <1>9 DEF vars
<1> QED
  BY <1>1, <1>2, <1>3, <1>4, <1>5, <1>6, <1>7, <1>8, <1>9, StepKinds, TasksBeside, ReaperBeside
  DEF Next

-----------------------------------------------------------------------------
(* Theorems.                                                               *)

\* The invariant holds at startup and is kept by every step of the clients, the
\* drainers, the consumer, the reaper and the tasks.
THEOREM Invariance == Spec => []Inv
<1>1. Init => Inv
  <2> SUFFICES ASSUME Init PROVE Inv
    OBVIOUS
  <2>1. "rpc" \in Actors /\ \A a \in Actors : job[a] = IdleJob
    BY DEF Init, Actors
  <2>2. IdleJob.steps = <<>> /\ IdleJob.as = None
    BY DEF IdleJob
  <2>3. Typed
    <3>1. job \in [Actors -> Job] /\ holding \in [Actors -> {"none", "read", "write"}]
      BY NewJobs DEF Init
    <3>2. inbox \in Seq(Message) /\ queue \in Seq(Actors) /\ pend \in [Conns -> Seq(Frames)]
      BY DEF Init
    <3>3. /\ phase \in [Conns -> {"new", "in", "left"}] /\ hid \in [Conns -> Conns \cup {None}]
          /\ reply \in [Conns -> {"idle", "waiting", "done", "welcome"}]
          /\ open \subseteq Conns /\ registry \subseteq Conns /\ welcomed \subseteq Conns
      BY DEF Init
    <3> QED
      BY <3>1, <3>2, <3>3 DEF Typed
  <2>4. Locked
    BY DEF Init, Locked
  <2>5. Attributed
    BY <2>1, <2>2 DEF Init, Attributed
  <2>6. Vouched
    BY <2>1, <2>2, Tails DEF Init, Vouched
  <2> QED
    BY <2>3, <2>4, <2>5, <2>6 DEF Inv
<1>2. Inv /\ [Next]_vars => Inv'
  BY TypedStep, LockedStep, AttributedStep, VouchedStep DEF Inv
<1> QED
  BY <1>1, <1>2, PTL DEF Spec

\* The type invariant, with client_manager's exclusion: a handler inside
\* write() is alone with the registry, whatever guards the others keep over
\* their network calls.
THEOREM TypeCorrect == Spec => []TypeOK
<1>1. Inv => TypeOK
  <2> SUFFICES ASSUME Inv PROVE TypeOK
    OBVIOUS
  <2>1. IsInjective(queue)
    BY DEF IsInjective, Inv, Typed, Locked
  <2> QED
    BY <2>1 DEF TypeOK, Inv, Typed, Locked, Attributed
<1> QED
  BY <1>1, Invariance, PTL

\* Nothing is signed, fetched, uploaded, published or asked of an engine for a
\* handler id that was not registered when the consumer took the request:
\* authorize and require_admin_or_self come first in every handler, and between
\* them and the take nobody but the consumer itself could have registered it.
THEOREM Unserved == Spec => []NoServiceAfterUnregister
<1>1. Inv => NoServiceAfterUnregister
  <2> SUFFICES ASSUME Inv, NEW a \in Actors, job[a].as # None,
                      NEW s \in Service, Doing(a, s)
               PROVE  job[a].known
    BY DEF NoServiceAfterUnregister
  <2>1. CASE a # "rpc"
    BY <2>1 DEF Inv, Vouched
  <2>2. CASE a = "rpc"
    <3>1. /\ job["rpc"].steps \in Seq(Steps) /\ job["rpc"].steps # <<>>
          /\ Head(job["rpc"].steps) \in Service
      BY <2>2 DEF Doing, Inv, Typed, Job
    <3>2. job["rpc"].steps \notin Idle
      BY <3>1 DEF Idle
    <3>3. ~Vetted(job["rpc"].steps)
      BY <3>1 DEF Vetted
    <3> QED
      BY <2>2, <3>2, <3>3 DEF Inv, Vouched
  <2> QED
    BY <2>1, <2>2
<1> QED
  BY <1>1, Invariance, PTL

\* A request that follows the register on its connection is served under the
\* registered id although the client need not wait for answers: the drainer
\* hands over one request at a time and notes the id of an answer before it
\* takes the next frame.
THEOREM CallersAreKnown == Spec => []KnowsItsCaller
<1>1. Inv => KnowsItsCaller
  <2> SUFFICES ASSUME Inv PROVE KnowsItsCaller
    OBVIOUS
  <2>1. \A m : Awaited(m) /\ m.conn \in open /\ m.conn \in welcomed => m.as # None
    <3>1. \A c \in open \cap welcomed : reply[c] = "waiting" => hid[c] = c
      BY DEF Inv, Attributed
    <3>2. None \notin open
      BY RequestsAssumption DEF Inv, Typed
    <3> QED
      BY <3>1, <3>2 DEF Awaited
  <2>2. DOMAIN inbox = 1..Len(inbox)
    BY DEF Inv, Typed
  <2> QED
    BY <2>1, <2>2 DEF KnowsItsCaller, Inv, Attributed
<1> QED
  BY <1>1, Invariance, PTL

=============================================================================
