----------------------------- MODULE SdkSession -----------------------------
(***************************************************************************)
(* A bot of the Python SDK (python/src/pacto_bot_sdk) over HTTP, together  *)
(* with the daemon's side of its requests (EventStreams): Bot._run with    *)
(* its RetryCircuit, _run_once, and HttpTransport.                         *)
(*                                                                         *)
(* The code of a failed request decides what the SDK does next: -32001     *)
(* (not registered) makes it register afresh, -32007 (already connected)   *)
(* is a failed attempt like any other.                                     *)
(***************************************************************************)
EXTENDS EventStreams

CONSTANTS
    Threshold,       \* circuit_failure_threshold
    CoolingOff,      \* circuit_cooling_off_seconds
    AutoAcknowledge, \* auto_acknowledge: None from a handler is an ignore
    MaxLost          \* how many requests and streams the network loses

ASSUME SdkAssumption ==
    /\ Threshold \in Nat \ {0}
    /\ {CoolingOff, MaxLost} \subseteq Nat
    /\ AutoAcknowledge \in BOOLEAN

VARIABLES
    pc,        \* where _run and _run_once are
    session,   \* the stored handler_id and token: {} or {id}
    asking,    \* the id the daemon is registering for the client
    circuit,   \* RetryCircuit._state
    failures,  \* RetryCircuit._failure_count, up to the threshold
    secret,    \* version of the token the transport was made with
    cooled,    \* time since the circuit opened
    event,     \* how far _handle_event is with the event in hand
    lost

loopVars == <<pc, session, asking, circuit, failures, secret, cooled>>
sdkVars == <<loopVars, event, lost>>
sessionVars == <<streamVars, sdkVars>>

\* What a decorated handler does: raises, returns None, a response, or
\* something else.
Results == {"raise", "none", "response", "invalid"}

SdkTypeOK ==
    /\ pc \in {"idle", "post", "answer", "sse", "running", "stopped"}
    /\ session \in {{}} \cup {{i} : i \in Ids}
    /\ asking \in {{}} \cup {{i} : i \in Ids}
    /\ circuit \in {"closed", "open", "half_open"}
    /\ failures \in 0 .. Threshold
    /\ secret \in 0 .. tokenFile
    /\ cooled \in 0 .. CoolingOff
    /\ event \in {"none", "routing", "handler", "answering"}
    /\ event # "none" => pc = "running"
    /\ lost \in 0 .. MaxLost

SessionTypeOK == StreamsTypeOK /\ SdkTypeOK

SessionInit ==
    /\ StreamsInit
    /\ pc = "idle"
    /\ session = {}
    /\ asking = {}
    /\ circuit = "closed"
    /\ failures = 0
    /\ secret = 0
    /\ cooled = 0
    /\ event = "none"
    /\ lost = 0

\* record_failure, after _run_once raised; what the dispatch loop had in hand
\* is cancelled with it.
AttemptFails ==
    LET n == IF failures < Threshold THEN failures + 1 ELSE failures IN
    /\ pc' = "idle"
    /\ event' = "none"
    /\ UNCHANGED secret
    /\ asking' = {}
    /\ failures' = n
    /\ circuit' = IF n >= Threshold THEN "open" ELSE circuit
    /\ cooled' = IF n >= Threshold THEN 0 ELSE cooled

\* Mutation: a cooled-off circuit stays open.
NextActionStuck ==
    /\ pc = "idle"
    /\ circuit # "open"
    /\ pc' = "post"
    /\ UNCHANGED <<streamVars, session, asking, circuit, failures, secret, cooled, event, lost>>

\* next_action, the waits of _run, and a new HttpTransport, which reads the
\* token file and opens nothing yet.
NextAction ==
    /\ pc = "idle"
    /\ circuit = "open" => cooled >= CoolingOff
    /\ circuit' = IF circuit = "open" THEN "half_open" ELSE circuit
    /\ pc' = "post"
    /\ secret' = tokenFile
    /\ UNCHANGED <<streamVars, session, asking, failures, cooled, event, lost>>

Wait ==
    /\ circuit = "open"
    /\ cooled < CoolingOff
    /\ cooled' = cooled + 1
    /\ UNCHANGED <<streamVars, pc, session, asking, circuit, failures, secret, event, lost>>

\* A connection the daemon has a permit for (otherwise it answers 503), with
\* the secret it knows (otherwise 401).
VerifySecret == secret = token
Admitted == OpenStreams < MaxConnections /\ VerifySecret

\* process_single_message: handler.register and handler.reconnect need no
\* X-Pacto-Handler-Id; their parameters pass the schema.
PostAccepted == pc = "post" /\ Admitted

PostRefused ==
    /\ pc = "post"
    /\ ~Admitted
    /\ AttemptFails
    /\ UNCHANGED <<streamVars, session, lost>>

\* handler_register without a stored session.
Register(i, c) ==
    /\ PostAccepted
    /\ session = {}
    /\ ServeRegister(i, c)
    /\ pc' = "answer"
    /\ asking' = {i}
    /\ UNCHANGED <<session, circuit, failures, secret, cooled, event, lost>>

Reconnect(i, c) ==
    /\ PostAccepted
    /\ session = {i}
    /\ ServeReconnect(i, c)
    /\ pc' = "answer"
    /\ asking' = {i}
    /\ UNCHANGED <<session, circuit, failures, secret, cooled, event, lost>>

\* -32001: the session is dropped and the same attempt registers afresh.
SessionUnknown(i) ==
    /\ PostAccepted
    /\ session = {i}
    /\ i \notin registered
    /\ session' = {}
    /\ UNCHANGED <<streamVars, pc, asking, circuit, failures, secret, cooled, event, lost>>

\* -32007 is raised to _run.
AlreadyConnected(i) ==
    /\ PostAccepted
    /\ session = {i}
    /\ i \in registered
    /\ IsConnected(i)
    /\ AttemptFails
    /\ UNCHANGED <<streamVars, session, lost>>

\* The request fails before the daemon sees it, while it is served, or on
\* the way back.
LosePost ==
    /\ lost < MaxLost
    /\ lost' = lost + 1
    /\ AttemptFails
    /\ UNCHANGED session
    /\ \/ pc = "post" /\ UNCHANGED streamVars
       \/ pc = "answer" /\ \E i \in asking : DropRequest(i) \/ Park(i)

\* The answer reaches the client, which stores the session.
Answer(i) ==
    /\ pc = "answer"
    /\ asking = {i}
    /\ Park(i)
    /\ pc' = "sse"
    /\ session' = {i}
    /\ asking' = {}
    /\ UNCHANGED <<circuit, failures, secret, cooled, event, lost>>

\* A GET /events that carries X-Pacto-Handler-Id.  HttpTransport.start_sse
\* sends no such header at this commit, other clients of the daemon do: whether
\* a GET carries it is open.
StartSse(i) ==
    /\ pc = "sse"
    /\ session = {i}
    /\ Admitted
    /\ OpenStream(i)
    /\ pc' = "running"
    /\ UNCHANGED <<session, asking, circuit, failures, secret, cooled, event, lost>>

\* 401 without the header; 503, 401 or 404 when the client is not admitted or
\* nothing is parked.
SseRefused(i) ==
    /\ pc = "sse"
    /\ session = {i}
    /\ AttemptFails
    /\ UNCHANGED <<streamVars, session, lost>>

\* The dispatch loop takes the next event of the stream.
TakeEvent ==
    /\ pc = "running"
    /\ event = "none"
    /\ \E i \in session : streams[i] # {}
    /\ event' = "routing"
    /\ UNCHANGED <<streamVars, loopVars, lost>>

\* _handle_event: an event without a handler and a group message that was
\* gated by a mention are ignored, which is an answer too.
RouteEvent ==
    /\ event = "routing"
    /\ event' \in {"handler", "answering"}
    /\ UNCHANGED <<streamVars, loopVars, lost>>

\* _invoke_handler: an exception and an invalid result are answered, None
\* only with auto_acknowledge.
InvokeHandler(result) ==
    /\ event = "handler"
    /\ IF result = "none" /\ ~AutoAcknowledge
       THEN event' = "none"
       ELSE event' = "answering"
    /\ UNCHANGED <<streamVars, loopVars, lost>>

SendHandlerResponse ==
    /\ event = "answering"
    /\ event' = "none"
    /\ UNCHANGED <<streamVars, loopVars, lost>>

\* A response that cannot be sent ends the dispatch loop, and _run_once with
\* it: "daemon disconnected".
ResponseFails ==
    /\ event = "answering"
    /\ lost < MaxLost
    /\ lost' = lost + 1
    /\ AttemptFails
    /\ UNCHANGED <<streamVars, session>>

\* The stream ends under the client: the daemon closed it or the connection
\* broke, which the daemon notices later.
StreamEnds ==
    /\ pc = "running"
    /\ \/ \E i \in session : streams[i] = {}
       \/ lost < MaxLost
    /\ lost' = IF \E i \in session : streams[i] = {} THEN lost ELSE lost + 1
    /\ AttemptFails
    /\ UNCHANGED <<streamVars, session>>

\* The daemon notices that the peer of a stream is gone.
PeerGone(i, c) ==
    /\ ~(pc = "running" /\ session = {i})
    /\ CloseStream(i, c)
    /\ UNCHANGED sdkVars

\* SIGINT or SIGTERM; record_success and close.
Shutdown ==
    /\ pc \in {"idle", "running"}
    /\ pc' = "stopped"
    /\ circuit' = IF pc = "running" THEN "closed" ELSE circuit
    /\ failures' = IF pc = "running" THEN 0 ELSE failures
    /\ event' = "none"
    /\ UNCHANGED <<streamVars, session, asking, secret, cooled, lost>>

\* A daemon that goes down takes the request that is served with it.
DaemonRestarts ==
    /\ RestartDaemon
    /\ IF pc = "answer"
       THEN AttemptFails /\ UNCHANGED <<session, lost>>
       ELSE UNCHANGED sdkVars

Daemon ==
    \/ ServeNotice
    \/ \E i \in Ids, c \in Channels : StreamRunsOut(i, c)

Client ==
    \/ NextAction \/ Wait \/ PostRefused
    \/ RouteEvent \/ SendHandlerResponse
    \/ \E r \in Results : InvokeHandler(r)
    \/ \E i \in Ids : SessionUnknown(i) \/ AlreadyConnected(i) \/ Answer(i)
                      \/ StartSse(i) \/ SseRefused(i)
    \/ \E i \in Ids, c \in Channels : Register(i, c) \/ Reconnect(i, c)

SessionNext ==
    \/ Client
    \/ TakeEvent \/ ResponseFails
    \/ LosePost \/ StreamEnds \/ Shutdown \/ DaemonRestarts
    \/ Daemon /\ UNCHANGED sdkVars
    \/ (RotateToken \/ ReloadToken) /\ UNCHANGED sdkVars
    \/ \E i \in Ids : Reap(i) /\ UNCHANGED sdkVars
    \/ \E i \in Ids, c \in Channels : PeerGone(i, c)

SessionSpec == SessionInit /\ [][SessionNext]_sessionVars

\* The client's loop and the daemon's tasks go on, a peer that is gone is
\* noticed, a stream that has ended is read to its end.
FairSession ==
    /\ SessionSpec
    /\ WF_sessionVars(Client)
    /\ WF_sessionVars(Daemon /\ UNCHANGED sdkVars)
    /\ WF_sessionVars(StreamEnds /\ lost' = lost)
    /\ \A i \in Ids : WF_sessionVars(Reap(i) /\ UNCHANGED sdkVars)
    /\ \A i \in Ids : WF_sessionVars(\E c \in Channels : PeerGone(i, c))

-----------------------------------------------------------------------------
(* Properties.                                                             *)

\* A bot that is cooling off tries again: neither the circuit nor a
\* rejected session ends the loop of _run.
BotTriesAgain == pc = "idle" ~> pc \in {"post", "stopped"}

=============================================================================
