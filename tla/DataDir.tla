------------------------------- MODULE DataDir -------------------------------
(***************************************************************************)
(* The life of a daemon process on its data directory (src/main.rs,        *)
(* src/transport/unix.rs, src/transport/mod.rs) and the export and import  *)
(* of a bot's state by the admin command (src/admin.rs), which must not    *)
(* overlap.                                                                *)
(*                                                                         *)
(* A daemon opens daemon.lock, locks it, writes its pid into it, opens the *)
(* database and the MLS stores, binds its socket and serves.  A signal     *)
(* starts an orderly shutdown, which ends by releasing and unlinking the   *)
(* lock file; a second signal, a timeout or a crash ends it at once.  The  *)
(* command reads the pid, probes the process and the lock, and then works  *)
(* without holding anything.  Its counterpart, export, writes a bundle an  *)
(* import may later read.  A store is in WAL mode: what was written last   *)
(* is in the -wal beside it until its connection is closed, and a -wal of  *)
(* another store keeps it from being opened.                               *)
(***************************************************************************)
EXTENDS Naturals, FiniteSets, Config

CONSTANTS
    Daemons,     \* processes of the daemon
    Inodes,      \* files daemon.lock has been
    None,
    MaxCommands  \* bound: runs of the admin command

Stores == {"old", "bundle", "reset"}

ASSUME DataDirAssumption ==
    /\ None \notin Daemons \cup Inodes \cup Stores
    /\ MaxCommands \in Nat

VARIABLES
    pc,         \* where each daemon is
    fd,         \* the lock file it has open
    lockPath,   \* the file at daemon.lock
    pid,        \* what each file holds
    holder,     \* who has each file locked
    wire,       \* each daemon's unix transport
    sock,       \* the daemon that bound the socket file, dead or alive
    dropping,   \* transports whose Drop has still to unlink the socket
    conn,       \* a client is connected
    store, key, \* the bot's MLS store file and the key beside it
    wal,        \* the store the -wal beside it was written for
    row,        \* its group in agent.db: absent, backed or lost
    shares,     \* the loaded config has two bots at one store
    command,    \* the admin command that runs, or ran last: export or import
    admin,      \* where it is
    overlap,    \* history: a daemon ran since the command began
    read,       \* what export has read: the row, the key, whether there is a -wal
    bundle,     \* the bundle: its files, and what the state that was printed
                \* last says of them: row, listed (the store), logged (a -wal)
    leftover,   \* history: the -wal an import found beside the store it replaced
    commands

fileVars == <<lockPath, pid, holder>>
wireVars == <<wire, sock, dropping, conn>>
stateVars == <<store, key, wal, row>>
adminVars == <<command, admin, overlap, read, bundle, leftover, commands>>
vars == <<pc, fd, shares, fileVars, wireVars, stateVars, adminVars>>

Init ==
    /\ pc = [d \in Daemons |-> "off"]
    /\ fd = [d \in Daemons |-> None]
    /\ lockPath = None
    /\ pid = [i \in Inodes |-> None] /\ holder = [i \in Inodes |-> None]
    /\ wire = [d \in Daemons |-> "none"] /\ sock = None /\ dropping = {}
    /\ conn = [d \in Daemons |-> FALSE]
    /\ store = "old" /\ key = "old" /\ wal = None /\ row = "absent"
    /\ shares = [d \in Daemons |-> FALSE]
    /\ command = "import" /\ admin = "idle" /\ overlap = FALSE /\ commands = 0
    /\ read = [row |-> "absent", key |-> "old", wal |-> FALSE] /\ leftover = None
    /\ bundle = [row |-> "backed", store |-> "bundle", key |-> "bundle", wal |-> "bundle",
                 listed |-> TRUE, logged |-> TRUE]

Alive(d) == pc[d] \notin {"off", "refused"}
\* The daemon has passed the lock and works on the directory.
Running(d) == pc[d] \in {"locked", "started", "ready", "stopping", "waiting", "stopped"}

\* What MdkSqliteStorage::new_with_key opens.
Opens(s, k, w) == k = s /\ w \in {None, s}

\* A new file at the path takes an inode nobody has open.
Free(i) == i # lockPath /\ \A d \in Daemons : fd[d] # i

-----------------------------------------------------------------------------
\* Startup

\* daemon_startup up to the lock, and open_lock_file: the config is loaded; the
\* file is created or truncated, before it is locked.
Start(d) ==
    /\ pc[d] \in {"off", "refused"}
    /\ pc' = [pc EXCEPT ![d] = "opened"]
    /\ \E s \in Loaded : shares' = [shares EXCEPT ![d] = s]
    /\ \E i \in Inodes :
          /\ IF lockPath # None THEN i = lockPath ELSE Free(i)
          /\ lockPath' = i
          /\ fd' = [fd EXCEPT ![d] = i]
          /\ pid' = [pid EXCEPT ![i] = None]
          /\ holder' = IF lockPath # None THEN holder ELSE [holder EXCEPT ![i] = None]
    /\ UNCHANGED <<wireVars, stateVars, adminVars>>

\* Mutant: a daemon goes on without the lock.
TryLockExclusiveShared(d) ==
    /\ pc[d] = "opened"
    /\ holder' = [holder EXCEPT ![fd[d]] = d]
    /\ pc' = [pc EXCEPT ![d] = "locked"]
    /\ overlap' = TRUE
    /\ UNCHANGED <<fd, shares, lockPath, pid, wireVars, stateVars, command, admin, read, bundle,
                   leftover, commands>>

\* try_lock_exclusive: refused while another process has the file locked.
TryLockExclusive(d) ==
    /\ pc[d] = "opened"
    /\ IF holder[fd[d]] = None
         THEN /\ holder' = [holder EXCEPT ![fd[d]] = d]
              /\ pc' = [pc EXCEPT ![d] = "locked"]
              /\ overlap' = TRUE
              /\ UNCHANGED fd
         ELSE /\ pc' = [pc EXCEPT ![d] = "refused"]
              /\ fd' = [fd EXCEPT ![d] = None]
              /\ UNCHANGED <<holder, overlap>>
    /\ UNCHANGED <<shares, lockPath, pid, wireVars, stateVars, command, admin, read, bundle,
                   leftover, commands>>

\* The pid is written; then the database and the stores are opened.  A store
\* its key does not open, by itself or for the -wal beside it, is reset, and
\* the group it held marked (MlsStore).
OpenState(d) ==
    /\ pc[d] = "locked"
    /\ pid' = [pid EXCEPT ![fd[d]] = d]
    /\ pc' = [pc EXCEPT ![d] = "started"]
    /\ IF Opens(store, key, wal) THEN wal' = store /\ UNCHANGED <<store, key, row>>
       ELSE /\ store' = "reset" /\ key' = "reset" /\ wal' = "reset"
            /\ row' = IF row = "absent" THEN row ELSE "lost"
    /\ UNCHANGED <<fd, shares, lockPath, holder, wireVars, adminVars>>

\* The transport's task is spawned, and the main loop runs whatever becomes
\* of it.
Ready(d) ==
    /\ pc[d] = "started"
    /\ pc' = [pc EXCEPT ![d] = "ready"]
    /\ wire' = [wire EXCEPT ![d] = "checking"]
    /\ UNCHANGED <<fd, shares, fileVars, sock, dropping, conn, stateVars, adminVars>>

-----------------------------------------------------------------------------
\* The unix transport

\* remove_stale_socket: a socket somebody serves is refused, any other file
\* at the path removed.  Dropping the transport unlinks the path, on a thread
\* of its own.
RemoveStaleSocket(d) ==
    /\ wire[d] = "checking"
    /\ IF sock # None /\ wire[sock] = "serving"
         THEN /\ wire' = [wire EXCEPT ![d] = "failed"]
              /\ dropping' = dropping \cup {d}
              /\ UNCHANGED sock
         ELSE /\ wire' = [wire EXCEPT ![d] = "binding"]
              /\ sock' = None
              /\ UNCHANGED dropping
    /\ UNCHANGED <<pc, fd, shares, fileVars, conn, stateVars, adminVars>>

Bind(d) ==
    /\ wire[d] = "binding"
    /\ IF sock # None
         THEN /\ wire' = [wire EXCEPT ![d] = "failed"]
              /\ dropping' = dropping \cup {d}
              /\ UNCHANGED sock
         ELSE /\ wire' = [wire EXCEPT ![d] = "serving"]
              /\ sock' = d
              /\ UNCHANGED dropping
    /\ UNCHANGED <<pc, fd, shares, fileVars, conn, stateVars, adminVars>>

DropTransport(d) ==
    /\ d \in dropping
    /\ dropping' = dropping \ {d}
    /\ sock' = None
    /\ UNCHANGED <<pc, fd, shares, fileVars, wire, conn, stateVars, adminVars>>

Connect(d) ==
    /\ wire[d] = "serving" /\ sock = d /\ ~conn[d]
    /\ conn' = [conn EXCEPT ![d] = TRUE]
    /\ UNCHANGED <<pc, fd, shares, fileVars, wire, sock, dropping, stateVars, adminVars>>

\* The client leaves, or the connection is idle for too long.
CloseConnection(d) ==
    /\ conn[d]
    /\ conn' = [conn EXCEPT ![d] = FALSE]
    /\ UNCHANGED <<pc, fd, shares, fileVars, wire, sock, dropping, stateVars, adminVars>>

-----------------------------------------------------------------------------
\* Shutdown

\* The first signal, or the end of the event stream: cursors and the report
\* are flushed.
Signal(d) ==
    /\ pc[d] = "ready"
    /\ pc' = [pc EXCEPT ![d] = "stopping"]
    /\ UNCHANGED <<fd, shares, fileVars, wireVars, stateVars, adminVars>>

\* The listeners end; connections that are open stay.
StopTransport(d) ==
    /\ pc[d] = "stopping"
    /\ pc' = [pc EXCEPT ![d] = "waiting"]
    /\ IF wire[d] = "failed" THEN UNCHANGED <<wire, dropping>>
       ELSE wire' = [wire EXCEPT ![d] = "closed"] /\ dropping' = dropping \cup {d}
    /\ UNCHANGED <<fd, shares, fileVars, sock, conn, stateVars, adminVars>>

\* The transport ends when the consumer does, and the consumer when the last
\* connection has gone, unless a listener failed.
TransportEnds(d) ==
    /\ pc[d] = "waiting" /\ (~conn[d] \/ wire[d] = "failed")
    /\ pc' = [pc EXCEPT ![d] = "stopped"]
    /\ UNCHANGED <<fd, shares, fileVars, wireVars, stateVars, adminVars>>

ReleaseLock(d) ==
    /\ pc[d] = "stopped"
    /\ holder' = [holder EXCEPT ![fd[d]] = None]
    /\ fd' = [fd EXCEPT ![d] = None]
    /\ pc' = [pc EXCEPT ![d] = "released"]
    /\ UNCHANGED <<shares, lockPath, pid, wireVars, stateVars, adminVars>>

\* The file at the path is unlinked, whosever it is by now, and the process
\* ends; its store was closed by then, which takes the -wal away, or was not.
UnlinkLock(d) ==
    /\ pc[d] = "released"
    /\ lockPath' = None
    /\ pc' = [pc EXCEPT ![d] = "off"]
    /\ wire' = [wire EXCEPT ![d] = "none"]
    /\ dropping' = dropping \ {d}
    /\ conn' = [conn EXCEPT ![d] = FALSE]
    /\ wal' \in {wal, None}
    /\ UNCHANGED <<fd, shares, pid, holder, sock, store, key, row, adminVars>>

\* The process ends: the system closes what it had open and nothing is
\* cleaned up.
Exit(d) ==
    /\ pc' = [pc EXCEPT ![d] = "off"]
    /\ holder' = [i \in Inodes |-> IF holder[i] = d THEN None ELSE holder[i]]
    /\ fd' = [fd EXCEPT ![d] = None]
    /\ wire' = [wire EXCEPT ![d] = "none"]
    /\ dropping' = dropping \ {d}
    /\ conn' = [conn EXCEPT ![d] = FALSE]
    /\ UNCHANGED <<shares, lockPath, pid, sock, stateVars, adminVars>>

Stopping(d) == pc[d] \in {"stopping", "waiting", "stopped", "released"}

\* Mutant: the timeout is armed once the transport has ended.
ShutdownTimeoutLate(d) == pc[d] \in {"stopped", "released"} /\ Exit(d)

\* SHUTDOWN_TIMEOUT, or a second signal.
ShutdownTimeout(d) == Stopping(d) /\ Exit(d)

Crash(d) == Alive(d) /\ Exit(d)

-----------------------------------------------------------------------------
\* pacto-bot-admin export and import

\* is_daemon_lock_held, first half: without a pid of a living process in the
\* file nobody is taken to hold the lock.
CheckPid(c) ==
    /\ admin \in {"idle", "done", "failed"} /\ commands < MaxCommands
    /\ commands' = commands + 1
    /\ command' = c
    /\ overlap' = \E d \in Daemons : Running(d)
    /\ admin' = IF lockPath # None /\ pid[lockPath] # None /\ Alive(pid[lockPath])
                  THEN "probing" ELSE "passed"
    /\ UNCHANGED <<pc, fd, shares, fileVars, wireVars, stateVars, read, bundle, leftover>>

\* Second half: it tries the lock and lets it go at once.
ProbeLock ==
    /\ admin = "probing"
    /\ admin' = IF lockPath # None /\ holder[lockPath] # None THEN "failed" ELSE "passed"
    /\ UNCHANGED <<pc, fd, shares, fileVars, wireVars, stateVars, command, overlap, read,
                   bundle, leftover, commands>>

At(c, step) == command = c /\ admin = step

Proceed(step) ==
    /\ admin' = step
    /\ UNCHANGED <<pc, fd, shares, fileVars, wireVars, command, overlap, commands>>

\* cmd_export reads the rows, export_mls_store the key, before it copies.
ReadState ==
    /\ At("export", "passed")
    /\ read' = [row |-> row, key |-> key, wal |-> FALSE]
    /\ Proceed("read") /\ UNCHANGED <<stateVars, bundle, leftover>>

\* Without --bundle-dir the state is printed alone.
ExportRowsOnly ==
    /\ At("export", "read")
    /\ bundle' = [bundle EXCEPT !.row = read.row, !.listed = FALSE, !.logged = FALSE]
    /\ Proceed("done") /\ UNCHANGED <<stateVars, read, leftover>>

CopyStoreOut ==
    /\ At("export", "read")
    /\ bundle' = [bundle EXCEPT !.store = store]
    /\ Proceed("copied") /\ UNCHANGED <<stateVars, read, leftover>>

WriteKeyOut ==
    /\ At("export", "copied")
    /\ bundle' = [bundle EXCEPT !.key = read.key]
    /\ Proceed("keyed") /\ UNCHANGED <<stateVars, read, leftover>>

\* One that an earlier export left in the bundle stays when there is none.
CopySidecarsOut ==
    /\ At("export", "keyed")
    /\ bundle' = [bundle EXCEPT !.wal = IF wal # None THEN wal ELSE @]
    /\ read' = [read EXCEPT !.wal = (wal # None)]
    /\ Proceed("bundled") /\ UNCHANGED <<stateVars, leftover>>

\* The state that lists the files is printed last.
PrintState ==
    /\ At("export", "bundled")
    /\ bundle' = [bundle EXCEPT !.row = read.row, !.listed = TRUE, !.logged = read.wal]
    /\ Proceed("done") /\ UNCHANGED <<stateVars, read, leftover>>

\* Mutant: the bundle is taken at its word.
CopyStoreUnopened ==
    /\ At("import", "passed") /\ bundle.listed
    /\ store' = bundle.store
    /\ leftover' = wal
    /\ Proceed("copied") /\ UNCHANGED <<key, wal, row, read, bundle>>

\* import_mls_store: the bundle's key must open its store, with whatever -wal is
\* beside it; to open and close it takes the -wal in, and away.  The store is
\* copied over the one at the destination, whose -wal nobody removes.
CopyStore ==
    /\ At("import", "passed") /\ bundle.listed
    /\ Opens(bundle.store, bundle.key, bundle.wal)
    /\ \E w \in {bundle.wal, None} : bundle' = [bundle EXCEPT !.wal = w]
    /\ store' = bundle.store
    /\ leftover' = wal
    /\ Proceed("copied") /\ UNCHANGED <<key, wal, row, read>>

WriteKey ==
    /\ At("import", "copied")
    /\ key' = bundle.key
    /\ Proceed("keyed") /\ UNCHANGED <<store, wal, row, read, bundle, leftover>>

\* A -wal is copied if the state lists one and it is still there.
CopySidecars ==
    /\ At("import", "keyed")
    /\ wal' = IF bundle.logged /\ bundle.wal # None THEN bundle.wal ELSE wal
    /\ Proceed("imported") /\ UNCHANGED <<store, key, row, read, bundle, leftover>>

\* No --bundle-dir, a file that is missing, a key that does not open the store,
\* or an entry that is not a file name.
SkipStore ==
    /\ At("import", "passed") /\ bundle.listed
    /\ Proceed("skipped") /\ UNCHANGED <<stateVars, read, bundle, leftover>>

NotExported ==
    /\ At("import", "passed") /\ ~bundle.listed
    /\ Proceed("imported") /\ UNCHANGED <<stateVars, read, bundle, leftover>>

\* The row is new: there is no ON CONFLICT clause.
InsertMlsGroupExport(r) == row = "absent" /\ row' = r

\* cmd_import: a row is new or the import fails; it is marked when the store was
\* skipped.  The cursor and the handlers follow.
InsertGroup ==
    /\ command = "import" /\ admin \in {"imported", "skipped"}
    /\ \/ bundle.row = "absent" /\ Proceed("done") /\ UNCHANGED row
       \/ /\ bundle.row # "absent"
          /\ InsertMlsGroupExport(IF admin = "skipped" THEN "lost" ELSE bundle.row)
          /\ Proceed("done")
       \/ bundle.row # "absent" /\ row # "absent" /\ Proceed("failed") /\ UNCHANGED row
    /\ UNCHANGED <<store, key, wal, read, bundle, leftover>>

\* The command is killed, or a write fails.
AdminFails ==
    /\ admin \notin {"idle", "done", "failed"}
    /\ Proceed("failed") /\ UNCHANGED <<stateVars, read, bundle, leftover>>

-----------------------------------------------------------------------------
DaemonStep(d) ==
    \/ TryLockExclusive(d) \/ OpenState(d) \/ Ready(d)
    \/ StopTransport(d) \/ TransportEnds(d) \/ ReleaseLock(d) \/ UnlinkLock(d)
WireStep(d) == RemoveStaleSocket(d) \/ Bind(d) \/ DropTransport(d)
AdminStep ==
    \/ \E c \in {"export", "import"} : CheckPid(c)
    \/ ProbeLock
    \/ ReadState \/ ExportRowsOnly \/ CopyStoreOut \/ WriteKeyOut \/ CopySidecarsOut
    \/ PrintState
    \/ CopyStore \/ WriteKey \/ CopySidecars \/ SkipStore \/ NotExported \/ InsertGroup
    \/ AdminFails

Process(d) == Start(d) \/ DaemonStep(d) \/ Signal(d) \/ ShutdownTimeout(d) \/ Crash(d)
Wire(d) == WireStep(d) \/ Connect(d) \/ CloseConnection(d)

Next == (\E d \in Daemons : Process(d) \/ Wire(d)) \/ AdminStep

Spec == Init /\ [][Next]_vars

\* A process that has started runs on, and the timeout expires.  Clients need
\* not leave.
Fairness == \A d \in Daemons : WF_vars(DaemonStep(d)) /\ WF_vars(ShutdownTimeout(d))

FairSpec == Spec /\ Fairness

-----------------------------------------------------------------------------
\* Properties

\* Every variable has its type; a daemon is behind the lock only with a file
\* it has locked.
TypeOK ==
    /\ pc \in [Daemons -> {"off", "refused", "opened", "locked", "started", "ready",
                           "stopping", "waiting", "stopped", "released"}]
    /\ fd \in [Daemons -> Inodes \cup {None}]
    /\ lockPath \in Inodes \cup {None}
    /\ pid \in [Inodes -> Daemons \cup {None}] /\ holder \in [Inodes -> Daemons \cup {None}]
    /\ wire \in [Daemons -> {"none", "checking", "binding", "serving", "failed", "closed"}]
    /\ sock \in Daemons \cup {None} /\ dropping \subseteq Daemons
    /\ conn \in [Daemons -> BOOLEAN]
    /\ store \in Stores /\ key \in Stores /\ row \in {"absent", "backed", "lost"}
    /\ wal \in Stores \cup {None} /\ leftover \in Stores \cup {None}
    /\ shares \in [Daemons -> BOOLEAN]
    /\ command \in {"export", "import"}
    /\ admin \in {"idle", "probing", "passed", "read", "copied", "keyed", "bundled", "imported",
                 "skipped", "done", "failed"}
    /\ overlap \in BOOLEAN /\ commands \in 0..MaxCommands
    /\ bundle.store \in Stores /\ bundle.key \in Stores
    /\ \A d \in Daemons : Running(d) => fd[d] # None /\ holder[fd[d]] = d

\* Two daemons work on one directory only when the lock file of one of them
\* was unlinked, by the shutdown of a third run that overlapped its start.
OneDaemonPerLockFile ==
    \A d, e \in Daemons :
        d # e /\ Running(d) /\ Running(e) => fd[d] # lockPath \/ fd[e] # lockPath

\* "Refusal is scoped to the store artifact only": an import of a bundle that no
\* daemon overlapped leaves the group unmarked only with the bundle's store, its
\* key and no -wal that keeps the one from opening the other, however the
\* exports that wrote the bundle were cut off or overlapped.  That takes a
\* destination without a -wal: one that a daemon left there when it crashed is
\* not removed, and belongs to the store that was replaced.
ImportedIsBacked ==
    /\ At("import", "done") /\ ~overlap /\ bundle.listed
    /\ bundle.row # "absent" /\ row = "backed"
    /\ leftover = None
    => store = bundle.store /\ Opens(store, key, wal)

\* No config a daemon runs with puts two bots' state in one store: distinct ids
\* that are slugs, and stores in the directory of the id.
OneBotPerStore == \A d \in Daemons : Running(d) => ~shares[d]

\* A daemon told to stop ends, whoever is still connected.
ShutdownEnds == \A d \in Daemons : (pc[d] = "stopping") ~> (pc[d] = "off")
=============================================================================
