# TLA+ models of pacto-bot-api

pacto-bot-api is a daemon that holds several Nostr bot identities and lets
external programs, the *handlers*, receive their events and act for them over
JSON-RPC. An admin command, a scaffolder and a Python SDK come with it. These
modules model the parts in which tasks, connections, timeouts, failing writes,
crashes and restarts meet. TLC checks them on small instances; TLAPS proves every
safety property of the passing runs, and two refinements, for every instance.

## The system

| Component | State | Operations | Meets | Module |
|---|---|---|---|---|
| Handler registry (`handlers.rs`, `dispatch.rs`) | registrations, their connection, `last_seen`; the count | register, reconnect, unregister, reap, restore | handlers table, connections | `HandlerRegistry` |
| Unix transport (`transport/unix.rs`, `transport/mod.rs`) | per connection: reader, drainer, writer, `handler_id` | frames, teardown, disconnect notice | one consumer serves all messages in turn | `HandlerRegistry`, `Requests` |
| HTTP transport (`transport/http.rs`) | parked receivers, event streams, the secret | POST, GET /events, drop of a stream | registry, consumer | `EventStreams` |
| JSON-RPC methods (`dispatch.rs`) | guards of `client_manager` | every method but `handler.reconnect` | registry, engine, relays, database | `Requests` |
| Dispatch (`dispatch.rs`) | trackers by event id, lock pool, cursors | `dispatch_event`, `handle_response`, `flush_cursors` | registry, database | `EventDispatch`, `EventDelivery` |
| Gates (`dispatch.rs`) | token buckets, deduplication cache | `RateLimiter::check`, `is_duplicate` | requests, group messages | `RateGate`, `TokenBuckets` |
| Nostr client (`nostr.rs`, `mls.rs`) | notifications, permits, tasks, the engines | intake, decrypt, process, publish, local delivery | relays, dispatch | `NostrInbound` |
| MLS store (`mls_reset.rs`, `mls_key.rs`) | store file, sidecars, key, archives, marker | classify, harvest, archive, prune, open | startup | `MlsStore` |
| MLS groups (`dispatch.rs`, `client_manager.rs`, `db.rs`) | engine groups, rows of agent.db | create, invite, delete, reconcile, Welcome | engine, database, relays | `MlsGroups` |
| Attachments (`spool.rs`, `attachment/`) | inbound files, staged payloads | fetch, write, sweep, upload, publish | handlers through the file system | `Attachments` |
| Lifecycle (`main.rs`) | lock file, pid, socket | startup, graceful and forced shutdown | other daemons, admin commands | `DataDir` |
| Configuration (`config.rs`, `mls_path.rs`) | the file | load | every process | `Config` |
| Export, import (`admin.rs`) | bundle, rows, store, -wal, key | export, import | a daemon that may run | `DataDir` |
| Scaffolding (`admin.rs`, `scaffold/`) | project files, lock, template cache | new, scaffold, update | the user's edits | `Scaffold` |
| Python SDK (`python/src/pacto_bot_sdk`) | session, retry circuit, event in hand | `_run`, `_run_once`, `_handle_event` | HTTP transport | `SdkSession` |

What is hard to test here: the registry lock is given up between the registry,
the table and the count; the reaper runs beside the consumer; a disconnect
notice travels apart from requests; two dispatches of one group message share an
event id; engine and database are written by separate steps; a file system
operation is a step of its own; a crash may fall between any two steps.
`PROJECT.json` lists these hazards at their lines, with the properties about
them.

## Modules

### HandlerRegistry

One registration from its first request to its removal.

* State. `handlers`, `connection`, `sinceSeen`, `sinceRegistered` are
  `HandlerRegistry.handlers` with the fields of `HandlerRef` that matter; `rows`
  is the handlers table; `counter` the `AtomicU64`, modulo `CounterModulus`;
  `phase`, `alive`, `connHandler`, `slot` the state of `handle_connection`;
  `notices` the disconnects on their way; `proc` and `todo` the program counters
  of the consumer and the reaper. `issued`, `acked`, `gone` and `failed` (a write
  has failed since the start) are history.
* Actions. Connections: `Accept`, `Send`, `Drain`, `WriterFails`, `Close`,
  `AbortTasks`. The consumer: `RegisterInsert`, `SaveRow`, `CountHandler`
  (`handle_register`, one action per lock or await), `ReconnectAttach`,
  `UnregisterRequest`, `ServeDisconnect`, `DeleteRow`, `SubtractHandler`,
  `Refuse` (every error path that changes nothing). The reaper: `ReaperScan`,
  `ReaperUnregister`. `Crash`, `Restart` (`restore_handlers`) and `Tick`.
* Abstractions. Tokens, capabilities and subscriptions are a nondeterministic
  refusal, except the Admin capability (`Admins`). Ages saturate just above the
  timeout, which is exact for the one comparison the code makes.

### EventDelivery and EventDispatch

`EventDispatch` is the dispatch of events to handlers, and the cursor;
`EventDelivery` is what it promises.

* State. `pc`, `snapshot`, `unsent`, `channel`, `responses`, `deferred`,
  `expired`, `unprocessed` are the locals of one `dispatch_event` task per event;
  `holder` the lock pool, `tracker` the `pending` map; `lastCursor`, `dbCursor`
  and `toFlush` the three places a cursor lives in. `delivered` and `concluded`
  are history.
* Actions. The task from the main loop to its end in the code's order (`Arrive` …
  `SaveCursor`); `HandleResponse`; `Connect`, `Disconnect`; `BeginShutdown`,
  `FlushCursor`; `Stop`; `Restart` with `subscribe_bots`, which asks for what is
  not older than the cursor minus the largest NIP-59 tweak (`Replayed`).
* Abstractions. An answer is its handler, the event it means and whether it
  defers. The registry is who is registered and connected. Timestamps outside
  `i64` and errors while a Welcome clears a state-lost mark are left out.
* Contract. `EventDelivery` has no locks, trackers, channels, counters or cursors in
  memory: an event is asked of some handlers that serve its bot, one wire event for
  one bot at a time; each is heard once at most; the event is concluded when all
  were heard or when its deadline finds one missing, never after a defer; a cursor
  takes only the time of a concluded event, whatever earlier ones it passes; a
  restart sees again what the cursor does not exclude. `DeliveryRefines` maps a
  task's program counter and marks to the event's stage (`StageOf`), its snapshot to
  who is asked, its collected answers to who was heard, and the table to the cursor.

### Requests

Every method but `handler.reconnect` (in `HandlerRegistry`) against the locks it
takes.

* State. Frames, drainer and noted handler id of each connection, the consumer's
  queue, the registry, and for every actor (consumer, reaper, other tasks) its
  remaining program, the guard it holds and its place in the queue of
  `client_manager`, a fair RwLock.
* Actions. A handler is a sequence of steps (`SendDm`, `CreateMlsGroup`, …), each
  step an action that works or ends the handler with its error. Handlers that
  keep their read guard over a network call have "drop" after the call.
* Abstractions. The method of a request is chosen when the consumer takes it,
  since nobody before it looks. One connection is enough: the consumer serves one
  message at a time and the lock is contended by tasks. A round of the reaper
  that finds nothing is `LookAround`. What create and invite undo is in
  `MlsGroups`.

### EventStreams and SdkSession

`EventStreams` is the daemon's side of HTTP: `ServeRegister`, `ServeReconnect`,
`Park`, `OpenStream`, `CloseStream` (whose notice is lost when the channel is
full), `ServeNotice`, `Reap`, `RotateToken`, `ReloadToken`, `RestartDaemon`.
`SdkSession` extends it with a bot of the SDK: `NextAction` and `Wait` are the
retry circuit, `Register` … `Answer` the POST, `StartSse` the stream, `TakeEvent`
… `SendHandlerResponse` the dispatch loop. `start_sse` sends no
`X-Pacto-Handler-Id`, which the daemon answers with 401, so a GET that carries the
header stands for other clients of the daemon and whether it does is open. Times
are left out of the reaper's rule: it may act on any registration without a live
connection.

### TokenBuckets and RateGate

`RateGate` has the three maps of buckets with their sweeps and evictions
(`Request`, `Unregister`) and the deduplication cache, a set of entries with the
time and the rank of their message (`GroupMessage`, `Young`, `Cleanup`).
`TokenBuckets` is what a limiter promises: buckets that fill and are drawn from,
and that start over only for the keys in `Resettable`, each time counted in
`forgotten`. `LimiterRefines` is the refinement: a bucket that is not in its map is
full, and the keys that may start over (`Forgettable`) are handlers, and any key
whose map may have to evict or whose burst takes longer to fill than
`BUCKET_STALE_TIMEOUT` (`Roomy` says when neither is so). A Squad's bucket is kept
by bot and group, as `check_group` keys it. A period of observation begins at any
moment (`Observe`), so that the bound `Throttled` of `TokenBuckets` is about every
period. Requests and messages do not share a bucket; a behaviour of the run has one
or the other.

### MlsStore and MlsGroups

`MlsStore` is daemon startup on the store of one bot: `ClassifyMissing`,
`ClassifyUsable`, `ClassifyFailClosed`, `MarkResetStart`, `RecordAdmins`,
`MoveMain`, `MoveSidecars`, `CompleteReset`, `LoadOrCreateKey`, `OpenStore`,
`RepublishKeyPackage`; `Crash` between any two, `KeyFault` from outside, `Tick`
for the archive's retention. The store is a main file and a -wal (`wal` is whose it
is): a process that ends may leave in the -wal what the main file lacks (`split`),
opening the store folds it in, and a reset moves the two one after the other
without a checkpoint of an encrypted store. `severed` is history: stores whose reset
was cut between the two moves. `MlsGroups` extends it with what the engine holds
and what agent.db says of it: reconciliation (`ReconcileGroup`, `MarkStateLost`),
`Create`, `Invite`, `DeleteInEngine`, Welcomes, and what other members do
(`RemoteInvite`, `RemoteEvict`, `RemoteRename`, `PeerLeaves`). A
request ends early when a publish fails or its 30 seconds are over; a command
handed to the engine runs all the same. Stores are numbered, their content is the
set of groups in them.

### NostrInbound

The relay client's one loop (`Notify`, `TakeWrap`, `TakeGroupEvent`), gift-wrap
tasks behind permits and a timeout (`Decrypted`, `DecryptTimeout`, `FinishWrap`),
group events applied to one local member after another (`ProcessFor`,
`AutoCommit`, `PublishCommit`, `EndGroupEvent`), and what bots send (`SendWrap`,
`SendMessage`) with `DeliverLocally` for recipients of the same daemon. An engine
is the sequence of commits it has applied; it belongs to a library and is used
here as `nostr.rs` and `mls.rs` use it.

### Attachments

Inbound: `Fetch`, `RejectTags`, `RefuseFetch`, `RejectPlaintext`,
`CreateInbound`, `WriteInbound`, `Deliver`. Outbound: `Stage`, `AskSend`,
`LoadSource`, `UploadAttempt` (one host after another), `PublishRumor`,
`Complete`. `PeriodicSweep` and the sweep after writes, `Stop`, `Start`. Ages
saturate at the threshold they are compared with. A payload sent inline as base64
never is a file and is left out.

### Config and DataDir

`Config` is the expansion of environment variables and the validation of a config as
operators over a small set of configs and environments. `DataDir` extends it with
processes: `Start`, `TryLockExclusive`, `OpenState`, `Ready`, the socket
(`RemoveStaleSocket`, `Bind`, `DropTransport`), shutdown (`Signal` … `UnlinkLock`,
`Exit`, `ShutdownTimeout`), `Crash`, and the admin command (`CheckPid`, `ProbeLock`,
export and import step by step: store, key, then sidecars). A store has a -wal of
its own (`wal`) after a crash, which `Opens` says whether it keeps a key from
opening it; `leftover` is history: the -wal an import found at its destination. A
behaviour of the run either has two daemons or one daemon and admin commands. One
label for a store that was reset suffices, because no command tells two resets
apart.

### Scaffold

`NewProject`, `ScaffoldBot`, `UpdateBot`, `NewIdentity` start a command; it
locates, clones or fetches the template, renders it, enters the bot in the config
(`WriteConfigSnippet`), merges files one at a time (`MergeFile`, `FinishFile`,
`MergeCompose`) and writes the lock last (`WriteLock`, `RenameLock`). Every write
in place may be torn by `Crash`; `EditFile` and `RepairConfig` are the user. One
cached repository; a secret in docker-compose.yml and concurrent commands are left
out.

## Runs

| Run | Instance | Properties |
|---|---|---|
| `registry` | 1 handler over 2 connections or 2 over 1, timeout 0, failing writes, restarts, fair | `TypeOK`, `AckedIsPersisted`, `UnregisteredStaysGone`, `CounterAccounts`, `LostIsReaped` |
| `dispatch_shared` | 1 group message for 2 bots, 2 handlers, 2 answers each | `TrackerIsCollectors`, `CursorAfterTerminal` |
| `dispatch_stream` | 2 messages for 1 bot in one lock bucket, 1 handler, 1 restart, fair | `CursorIsConcluded`, `DeliveryRefines`, `DispatchEnds` |
| `requests` | 1 connection, every method but `handler.reconnect`, 1 task, the reaper, fair | `NoServiceAfterUnregister`, `KnowsItsCaller`, `EveryRequestServed` |
| `rate_gate` | 3 symmetric handlers, 2 bots with different windows in 2 groups (4 Squads), 2 messages, maps and cache of 2 | `RepeatedOnlyWhenFull`, `LimiterRefines` |
| `sdk_session` | 2 ids, a notice channel of 1, 1 stream permit, 2 restarts, 1 rotation, fair | `OneReceiver`, `BotTriesAgain` |
| `mls_groups` | 2 groups, 1 in the store found, 2 names, 1 peer, 2 stores, 2 crashes, 1 key fault, 1 remote step | `AdminsSurvive`, `StateIsKept`, `LostIffReset`, `InvitedIsMember`, `FailClosed` |
| `inbound` | 2 bots, both admins of 1 group, 2 wraps, 1 message, 2 proposals, 1 permit, 1 failed publish, 1 restart, fair | `NoFork`, `LocalDelivery`, `IntakeMovesOn` |
| `attachments` | 2 inbound rumors, 1 payload, 2 hosts, 2 sends, restarts, fair | `ReadableUntilExpiry`, `UnsentIsKept`, `PlaintextExpires`, `SendEnds` |
| `data_dir` | 2 daemons, or 1 and 3 admin commands, crashes, fair | `OneDaemonPerLockFile`, `ImportedIsBacked`, `OneBotPerStore`, `ShutdownEnds` |
| `scaffold` | 2 symmetric bots, 3 commands, 1 edit, kills | `CompleteWhenLocked`, `NewIsFirst`, `IdentitiesKept`, `EditsSurvive` |
| `scaffold_force` | 1 bot, 2 commands | `ForceOverrides` (violated) |

All but the last hold; the largest instance has 2.4 million states and each takes
less than three minutes. What they show:

* Registry. A registration whose client got its `handler_id` is in the table as long
  as it is in the registry; one the consumer removed to the end never comes back.
  The count is exact until a write fails. Registrations whose end nobody announces
  are reconnected or reaped.
* Dispatch. The lock of an event id keeps trackers apart; counting answers is enough
  because a tracker takes one answer of each handler it lists; no dispatch hangs; a
  persisted cursor is the time of a concluded event, though an earlier one may still
  be in flight. Seen from outside, dispatch is `EventDelivery`.
* Requests. What is pipelined behind an unregister is refused, what is pipelined
  behind a register knows its caller, and the consumer comes to the end of every
  message although some handlers keep their guard over network calls.
* Gates. Sweeping is invisible in a map that holds all its keys and fills its
  buckets in time. Elsewhere a bucket that is forgotten gives its key one more full
  bucket, which is counted; so, by `Throttles`, what passes in any period is
  bounded. A message is dispatched again within its window only after the cache was
  full or a bot with a shorter window cleaned it up.
* Streams. A registration has one receiver, the one its events go to; a bot that
  cools off, is rejected or finds itself still connected tries again.
* MLS. A reset never loses the admins of a legacy store nor an encrypted store with
  its -wal, wherever the process ends, except the -wal when it ends between the two
  moves; once it has completed, a group without state is marked
  lost, and only a reset marks it; a store that is not understood is not touched;
  a member row of an invite that failed is taken back, so a recorded member is one
  or was until it left.
* Inbound. No event enters the pipeline both locally and from the relays; two
  admins of one daemon do not both commit one proposal, unless a publish failed or
  the process ended in between; a message reaches every local member; the loop goes
  on although a signer hangs.
* Attachments. A delivered file stays readable until the time its notification
  names; plaintext is gone in the end; a payload stays until it is published or
  expires.
* Data directory. Of two daemons that run, one has had its lock file unlinked; an
  import that no daemon overlapped, at a destination without a -wal, leaves a group
  unmarked only with the bundle's store, which its key opens; no accepted config has
  two bots at one store; shutdown ends.
* Scaffold. A bot with a lock has all its files, whole but for those a kill tore,
  and its service in the compose file but where that was torn or kept; `new` writes
  files only where no other bot has any; no scaffolding command takes an identity
  out of the config (`new --force` without `--scaffold` does), nor, without
  `--force`, a user's edit unless the user agrees, and a protected file not even
  then. With `--force` a protected file is kept too and the command fails:
  `scaffold_force` shows it against the repository's README (see the findings in
  `PROJECT.json`).

Bounds. One registration and two connections are enough for every race between a
connection, its successor and the reaper, since registrations share only the count,
for which there are two over one connection. Two tasks are enough to share a lock,
an id or a bot; two proposals are enough for two admins to commit different ones;
two handlers distinguish "one answered twice" from "both answered". Caches and maps
of two entries fill up, evict and are swept within `MaxTime` 3 and `MaxCalls` 5; the
four Squads do not fit into theirs, the two bots do. One permit makes the second
gift wrap wait; one failed publish and one restart may fall anywhere. Two stores let
a reset follow a reset, two crashes interrupt it and its recovery. Three commands
are create, an interrupted command and its repeat. `Max…` constants cap what
clients, operators and the world may repeat. Deadlock is not checked where a
behaviour may end because these are used up or a client owes nothing more.

Fairness. `HandlerRegistry!FairSpec`: tokio polls the consumer and the reaper, the
reaper's interval fires, time passes, a stopped daemon is started again.
`EventDispatch!FairSpec`: a dispatch task that can go on does so and a deadline
passes; tokio's mutex is first come, first served. `Requests!FairSpec`: tasks are
polled and network calls end by their timeouts. `SdkSession!FairSession`: the
client's loop and the daemon's tasks go on, a peer that is gone is noticed.
`NostrInbound!FairInbound`: the loop, its tasks and the decrypt timeout; a signer
owes nothing. `Attachments!FairSpec`: the clock, the periodic sweep, the upload
timeouts, and an operator who restarts the daemon. `DataDir!FairSpec`: the shutdown
sequence goes on and its timeout fires. Nothing is assumed of handlers, clients,
relays or file hosts.

## Proofs

Every proof has the shape Init => Inv, Inv /\ [Next]_vars => Inv', Inv => property,
with one step per action; the properties are seldom inductive, and what follows
says what `Inv` adds and why. No bound of a run is used: sets of handlers,
connections, bots, groups, commands, crashes and restarts are arbitrary.

`HandlerRegistryProofs`: `TypeCorrect`, `AckedPersisted`, `UnregisteredForGood`,
`CounterExact`. `AckedIsPersisted` needs that a handler the reaper is
removing has already left the registry, and `UnregisteredStaysGone` that no
request the consumer still has to finish is about an id it has removed. `WorkInv`
states what either task is in the middle of, per program counter, and
`RegistryInv` joins it with the types and the two invariants. `CounterExact` is
arithmetic modulo the width of the counter on top of it.

`EventDispatchProofs`: `DispatchTypes`, `TrackersSafe`, `CursorsConcluded`,
`TerminalBeforeCursor`, `DispatchImplements` (`DeliveryRefines`). `DispatchInv` adds
to the properties who holds which lock (`HolderInv`), that a stopped daemon has no
locks or trackers (`DownInv`), and that all three places of a cursor hold times of
concluded events (`CursorInv`). For `TerminalBeforeCursor`, `CountedInv` says that
the answers collected and waiting come from distinct handlers the tracker has
counted; `CountIsEnough` turns equal cardinality into equal sets. The refinement
takes the actions one by one: a lock that is free means that no other task collects
for the id (`BeginDelivers`), the head of a channel is the first answer of its
handler (`CollectDelivers`), a task that still expects answers lacks one
(`OneIsMissing`), and whatever is saved or flushed is the time of a concluded event;
`UnmarkedInv` adds that a collection in progress is neither deferred nor expired.

`RequestsProofs`: `TypeCorrect` (with the exclusion of `client_manager`),
`Unserved` (`NoServiceAfterUnregister`), `CallersAreKnown` (`KnowsItsCaller`).
`Locked`: a writer is alone, and who is in the queue is at a lock step and waits
once. `Attributed`: an open connection has one request with the consumer, and its
drainer has noted, or is about to note, the id it was answered with. `Vouched`: a
job for a handler that was not known when its request was taken has a look at the
registry before its first step for a bot. That last part is a fact about
programs: lemmas show it of every handler (`Handlers`, `Programs`), and that it
survives each step.

`RateGateProofs`: `LimiterImplements` (`LimiterRefines`), `Throttles`,
`RepeatsExplained` (`RepeatedOnlyWhenFull`), `GateTypes`. A level of `TokenBuckets`
is what the bucket would hold if it were asked now, a full one if there is none.
`SweepInvisible` is the heart: a roomy map never has more keys than `MaxBuckets`, so
a sweep drops only stale buckets, and a stale one has filled up; in any other map a
bucket that is dropped early belongs to a key in `Forgettable` and is counted.
`FillsAtOnce` relates filling at each tick with filling on demand. Each action then
is a `Tick`, `Grant` or `Observe` of `TokenBuckets`. `Throttled` is inductive there
because it counts what is left in the bucket too, and one full bucket for each time
it started over. For the cache, `Kept` says of every message that was let through:
its entry is still there, or as many others as the cache holds were let through
after it, or the window of a later call cut it short; `CacheTyped` ties every entry
to the call that stored it. `SizesInv` bounds the maps for `GateTypes`.

`MlsProofs` on `MlsGroups`: `TypeCorrect`, `AdminsAlwaysSurvive`, `StateAlwaysKept`,
`AlwaysFailsClosed`, `MarksAreRight` (`LostIffReset`), `MembersAreRight`
(`InvitedIsMember`). `StoreInv` says what startup knows in each of its phases
(`PhaseInv`), that the legacy store holds old groups only, and whose -wal lies at
the live path and in which archive a split store's went. `GroupInv` says that
requests and events exist only in a bot that serves (`WhileServing`), that the peer
whose invite is under way is the one exception to recorded members being members
(`InvitedInv`) besides those that have left since, and that whatever a row is
written or unmarked for is in the engine or was left (`LostInv`).

`MlsProofs` on `NostrInbound`: `InboundTypeCorrect`, `EventsDeliveredOnce`
(`LocalDelivery`), `OneProposalOneCommit` (`NoFork`). `Intake`: what is queued was
reported once and not processed, what was processed is in the client's record, and
what a bot has not sent is nowhere; so the loop and `deliver_locally` cannot both
take an event. `CommitsInv`: a commit in a task's hands is known to nobody until it
is published, since its author made it in its first epoch. `Decoding`: a message in
hand has been decoded for every member whose turn has passed, and histories only
grow (`HistoryGrows`), so a member that could decode it still can. `ForkInv`: a
commit of a proposal that is no longer in its task's hands and that a relay has means
that every member has left the first epoch (`Spread`); hence an admin that still
commits that proposal does so when no other commit of it lives (`OneAlive`). The
number of proposals is arbitrary; what two commits of different proposals do to each
other is not claimed, since there the engines part (see below).

`AttachmentsProofs`: `TypeCorrect`, `Readable` (`ReadableUntilExpiry`), `UnsentKept`
(`UnsentIsKept`). A file is no older than its notification says (`Timely`), and a
send that is at its completion has been published (`CompletedWasSent`).

`DataDirProofs`: `TypeCorrect`, `OneDaemon`, `ImportIsBacked`, `StoresAreSeparate`.
`ImportProgress` says what an import nobody overlapped has done by each step, up to
the -wal it copied or found none of, and `QuietUntilOverlap` that the history
variable misses no daemon. `LoadSeparates` is about any config whatever, not only
those of the run.

`BotSideProofs` on `Scaffold`: `TypeCorrect`, `LockedIsComplete`, `NewComesFirst`,
and the action properties `IdentitiesAreKept`, `UserEditsSurvive`. `Progress`: what
a command has behind it is there, tree by tree, and whole unless a kill tore it
(`cut`) or the compose file was kept (`unserved`). `WritingTorn`: the file being
written is one that is still to be merged. `NothingWithoutConfig` and `Alone`: where
`new` goes ahead, no other bot has anything.

`BotSideProofs` on `SdkSession`: `SessionTypeCorrect`, `RegistrationHasOneReceiver`
(`OneReceiver`). `OneReceiver` is inductive together with the types of the streams,
whatever the client does; the session's types add that an event is in hand only
while the bot runs.

The proofs assume of the constants their types, that `None` and the like are no
members, in `NostrInbound` that wraps, messages, proposals and commits have different
ids and no two bots make the same commit, and (`RegistryAssumption`,
`DispatchAssumption`) that the sets that are counted are finite. `GateAssumption` asks
for types and ids that differ, nothing of sizes: which keys a map can hold, and
whether a bucket fills in time, is in the statement (`Roomy`).

Only model-checked are the liveness properties: `LostIsReaped`, `DispatchEnds`,
`EveryRequestServed`, `BotTriesAgain`, `IntakeMovesOn`, `PlaintextExpires`,
`SendEnds`, `ShutdownEnds`. Fairness is beyond TLAPS.

## Met while modelling

What the code does, where a reader of its comments or docs may expect something
else. No property claims otherwise.

Registry and transports
* A handler whose writer has failed reconnects on a new connection; the notice of
  the old one names only the handler and removes the live registration and its
  row. The same holds for a late HTTP disconnect.
* The reaper computes stale ids under the read lock and removes them later without
  a second look, also a handler that reconnected in between, whose row the
  reconnect writes again.
* `restore_handlers` sets `last_seen` to the time of registration and the reaper's
  first tick is immediate, so an old registration is removed before its handler
  can use its token. `is_stale` measures from the last registration or reconnect,
  not from the loss of the connection.
* The end of a connection deletes the row that the comment on
  `TransportEvent::Disconnect` says is kept. A failed write leaves the count
  different from the registry.
* A connection closed before the answer to its register leaves the registration
  to the reaper; so does a register whose save fails.
* A receiver parked for a stream nobody opens stays in the map.
* `HttpTransport.start_sse` sends no `X-Pacto-Handler-Id`. `RetryCircuit` counts
  failures that are not consecutive.

Dispatch and gates
* After the deadline of the first bot's dispatch a late answer to it is counted,
  and its reply sent, for the second bot with the same event id.
* The cursor moves to a later event while an earlier one is in flight or was
  deferred; if the wrapper of the earlier one is backdated enough, a restart does
  not ask for it again. On the other hand a restart delivers concluded direct
  messages again, although `client_manager.rs:286` says historical events are not
  reprocessed. An event that arrives before restored handlers reconnect is
  concluded without them.
* A duplicate does not extend its window; a bot with a shorter window cleans up
  entries of the others; the cache holds one entry more than its maximum; a
  rate-limited message is remembered; a bot stays charged when its handler is
  refused; a Squad burst between 0 and 1 never passes anything, and one that takes
  more than 300 s to fill is full again after 300 s without a message; with more
  Squads than `MAX_BUCKETS` the oldest bucket is evicted and starts over full.
* Some handlers (`set_profile`, `send_test_dm`, `send_group_message`,
  `publish_key_package`, exit, `is_squad_member`) hold the `client_manager` guard
  over network calls, against the comment in `handle_send_group_reaction`. Create
  and invite ask nothing of a caller without a handler id; exit, delete,
  `is_squad_member` and `send_test_dm` are not rate-limited. The admin client
  gives up after 15 s, the daemon's operation after 30 s.

MLS and Nostr
* A reset interrupted after its start marker is not completed later when the store
  is already gone (`db.rs:761`). A completed marker of an earlier reset makes a
  later eviction look like lost state; reconciliation does not clear the mark.
* A reset of an encrypted store that is cut between its two moves leaves the -wal,
  which the next start takes for a legacy store's (`mls_reset.rs:249`): with what the
  main file lacks it goes to an archive that is pruned, or is deleted.
* A member that leaves or is removed by another admin keeps its row. Inviting a
  member who is recorded already is answered with success and does nothing, although
  `docs/plans/2026-08-05-001…:87` relies on it to restore one. A crash in the
  middle of an invite leaves the member's row.
* A repeated create may leave two groups of one name, which reconciliation then
  refuses. A Welcome that fails to send after the merge drops the evolution event.
* `send_group_message` and `publish_key_package` do not look at how many relays
  took the event. An automatic commit is merged before it is published.
* Each group event is processed by a task of its own (`nostr.rs:1082`), and commits
  are handed to the other local bots inside one such task. Two proposals that arrive
  together are two tasks: two admins of one daemon may each commit another of them
  in the same epoch, and their engines part. `deliver_locally` runs without a
  timeout in the consumer.

Data directory
* A refused second start has truncated the pid in the lock file, so the admin
  command's guard passes while the daemon runs. The lock file is unlinked after
  its release; a daemon that locked it in between and one that creates a new file
  both run.
* `--data-dir` moves the lock but not the MLS stores, which are validated against
  the config's own directory. The spool is opened and swept before the lock.
* The drop of a transport unlinks the socket path even when the daemon found
  another's live socket there; a daemon whose transport could not bind runs on.
* Import copies the store before the key and cannot be repeated; it leaves
  a -wal of the old store where the bundle has none, which then keeps the copied
  store from opening; no lock is held. Export does not check that the key
  opens the store. Shutdown with an open connection takes its full 10 seconds.

Attachments
* Completion removes a staged payload by name, whatever is there by then.

Scaffold
* A protected file that exists makes every later merge fail, also with `--force`
  (`README.md:129` and `update.rs:19` say that it overrides; the finding), so a
  scaffold killed after `bot.py` and before its lock cannot be completed. An update
  without a terminal skips files and writes the new versions to the lock. A file
  that a kill tore is skipped by a repeat without a terminal and locked; a killed
  update keeps its old lock. A killed clone is only fetched into until `--refresh`.
  `new --force` overwrites a populated config. Concurrent commands share
  `scaffold.tmp`.

## Plan

1. Leaving a group and the repair of admin sets as actions of `MlsGroups`.
2. Contracts like `EventDelivery` for the registry and the attachments.

## Not modelled

Message parsing and schemas, cryptography and event building are conversions
without state over time; a frame or event that is refused stands for them.
`secure_file.rs` sets the mode a file is created with. `diagnostics.rs`,
`scenario.rs`, the guide and the development probe count and print, and nothing
reads them back to decide anything. The NIP-46 session of a remote signer and the
relay pool belong to libraries: a call answers, fails or hangs. Template text and
command parsing of the SDK are text.
