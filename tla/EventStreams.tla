---------------------------- MODULE EventStreams ----------------------------
(***************************************************************************)
(* The daemon's side of the HTTP transport (src/transport/http.rs): a      *)
(* registration or reconnect over POST makes a channel whose sender goes   *)
(* into the registry and whose receiver is parked in `outbound` until GET  *)
(* /events turns it into an event stream.  A stream that ends drops its    *)
(* receiver and announces the disconnect with try_send; the consumer then  *)
(* unregisters the handler.  The reaper removes what nobody announced.     *)
(*                                                                         *)
(* Channels are numbered and a number is used again once nobody refers to  *)
(* it.  Registrations are rows too, so a restart brings them back without  *)
(* a connection.  Times are left out: the reaper may act on any            *)
(* registration without a live connection.                                 *)
(***************************************************************************)
EXTENDS Naturals, Sequences, FiniteSets

CONSTANTS
    Ids,             \* handler ids
    Channels,        \* numbers of outbound channels, from 1
    NoticeCapacity,  \* room in the disconnect channel
    MaxConnections,  \* http_max_connections
    MaxRestarts,     \* how often the daemon is restarted
    MaxRotations     \* how often the operator replaces the token file

ASSUME StreamsAssumption ==
    /\ Channels \subseteq Nat \ {0}
    /\ {NoticeCapacity, MaxConnections, MaxRestarts, MaxRotations} \subseteq Nat

VARIABLES
    registered,  \* ids in the registry
    current,     \* the channel of a registration, 0 without one
    inflight,    \* receiver held by the future of handle_register
    parked,      \* AppState.outbound
    streams,     \* receivers of open event streams
    notices,     \* disconnects on their way to the consumer
    tokenFile,   \* version of the secret in bot_secret_token
    token,       \* version the daemon accepts, AppState.token
    restarts

tokenVars == <<tokenFile, token>>
streamVars == <<registered, current, inflight, parked, streams, notices, tokenVars, restarts>>

StreamsTypeOK ==
    /\ registered \subseteq Ids
    /\ current \in [Ids -> {0} \cup Channels]
    /\ inflight \in [Ids -> {0} \cup Channels]
    /\ parked \in [Ids -> {0} \cup Channels]
    /\ streams \in [Ids -> SUBSET Channels]
    /\ notices \in Seq(Ids)
    /\ Len(notices) <= NoticeCapacity
    /\ tokenFile \in 0 .. MaxRotations
    /\ token \in 0 .. tokenFile
    /\ restarts \in 0 .. MaxRestarts

StreamsInit ==
    /\ registered = {}
    /\ current = [i \in Ids |-> 0]
    /\ inflight = [i \in Ids |-> 0]
    /\ parked = [i \in Ids |-> 0]
    /\ streams = [i \in Ids |-> {}]
    /\ notices = <<>>
    /\ tokenFile = 0
    /\ token = 0
    /\ restarts = 0

Receivers(i) == ({inflight[i], parked[i]} \ {0}) \cup streams[i]

\* ConnectionHandle::is_alive: the receiver of the channel still exists.
IsConnected(i) == current[i] \in Receivers(i)

UsedChannels == UNION {Receivers(i) \cup {current[i]} : i \in Ids}
Fresh(c) == c \notin UsedChannels /\ \A d \in Channels \ UsedChannels : c <= d
OpenStreams == Cardinality({s \in Ids \X Channels : s[2] \in streams[s[1]]})

\* The consumer registers a new id on a new channel; its receiver is still
\* with the HTTP request.
ServeRegister(i, c) ==
    /\ i \notin registered
    /\ Receivers(i) = {}
    /\ i \notin {notices[n] : n \in DOMAIN notices}
    /\ Fresh(c)
    /\ registered' = registered \cup {i}
    /\ current' = [current EXCEPT ![i] = c]
    /\ inflight' = [inflight EXCEPT ![i] = c]
    /\ UNCHANGED <<parked, streams, notices, tokenVars, restarts>>

\* Mutation: a live connection is taken over.
ServeReconnectTakeover(i, c) ==
    /\ i \in registered
    /\ inflight[i] = 0
    /\ Fresh(c)
    /\ current' = [current EXCEPT ![i] = c]
    /\ inflight' = [inflight EXCEPT ![i] = c]
    /\ UNCHANGED <<registered, parked, streams, notices, tokenVars, restarts>>

ServeReconnect(i, c) ==
    /\ i \in registered
    /\ ~IsConnected(i)
    /\ Fresh(c)
    /\ current' = [current EXCEPT ![i] = c]
    /\ inflight' = [inflight EXCEPT ![i] = c]
    /\ UNCHANGED <<registered, parked, streams, notices, tokenVars, restarts>>

\* handle_register puts the receiver into the map before it answers; a
\* receiver parked before is dropped.
Park(i) ==
    /\ inflight[i] # 0
    /\ parked' = [parked EXCEPT ![i] = inflight[i]]
    /\ inflight' = [inflight EXCEPT ![i] = 0]
    /\ UNCHANGED <<registered, current, streams, notices, tokenVars, restarts>>

\* The peer went away while the request was served: hyper drops the future
\* and the receiver with it.
DropRequest(i) ==
    /\ inflight[i] # 0
    /\ inflight' = [inflight EXCEPT ![i] = 0]
    /\ UNCHANGED <<registered, current, parked, streams, notices, tokenVars, restarts>>

\* events_handler: 200, or 404 when nothing is parked.
OpenStream(i) ==
    /\ OpenStreams < MaxConnections
    /\ parked[i] # 0
    /\ streams' = [streams EXCEPT ![i] = @ \cup {parked[i]}]
    /\ parked' = [parked EXCEPT ![i] = 0]
    /\ UNCHANGED <<registered, current, inflight, notices, tokenVars, restarts>>

\* The response body of a stream is dropped; try_send fails when the
\* channel is full and the disconnect is lost.
CloseStream(i, c) ==
    /\ c \in streams[i]
    /\ streams' = [streams EXCEPT ![i] = @ \ {c}]
    /\ notices' = IF Len(notices) < NoticeCapacity THEN Append(notices, i) ELSE notices
    /\ UNCHANGED <<registered, current, inflight, parked, tokenVars, restarts>>

\* The sender in the registry is gone, so the stream runs out.
StreamRunsOut(i, c) == c # current[i] /\ CloseStream(i, c)

Unregister(i) ==
    /\ registered' = registered \ {i}
    /\ current' = [current EXCEPT ![i] = 0]

\* The consumer serves a disconnect.
ServeNotice ==
    /\ notices # <<>>
    /\ Unregister(Head(notices))
    /\ notices' = Tail(notices)
    /\ UNCHANGED <<inflight, parked, streams, tokenVars, restarts>>

Reap(i) ==
    /\ i \in registered
    /\ ~IsConnected(i)
    /\ Unregister(i)
    /\ UNCHANGED <<inflight, parked, streams, notices, tokenVars, restarts>>

\* The operator writes a new secret, and asks the daemon to read it again
\* with SIGHUP.
RotateToken ==
    /\ tokenFile < MaxRotations
    /\ tokenFile' = tokenFile + 1
    /\ UNCHANGED <<registered, current, inflight, parked, streams, notices, token, restarts>>

ReloadToken ==
    /\ token # tokenFile
    /\ token' = tokenFile
    /\ UNCHANGED <<registered, current, inflight, parked, streams, notices, tokenFile, restarts>>

\* load_or_create_token at startup.
InitToken == token' = tokenFile

\* restore_handlers: the rows come back without a connection.
RestartDaemon ==
    /\ InitToken
    /\ restarts < MaxRestarts
    /\ restarts' = restarts + 1
    /\ current' = [i \in Ids |-> 0]
    /\ inflight' = [i \in Ids |-> 0]
    /\ parked' = [i \in Ids |-> 0]
    /\ streams' = [i \in Ids |-> {}]
    /\ notices' = <<>>
    /\ UNCHANGED <<registered, tokenFile>>

-----------------------------------------------------------------------------
(* Properties.                                                             *)

\* A registration has at most one receiver, and it is the one its events go
\* to: nothing an old request or stream left behind is a receiver of the
\* registration (HandlerRegistry::reconnect, handle_register,
\* events_handler).
OneReceiver ==
    \A i \in registered : Receivers(i) \subseteq {current[i]}

=============================================================================
