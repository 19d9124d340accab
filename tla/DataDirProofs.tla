--------------------------- MODULE DataDirProofs ---------------------------
(***************************************************************************)
(* Proofs about DataDir, for any number of daemons, lock files and runs of *)
(* the admin command: the type invariant, what the lock file promises,     *)
(* what an import leaves behind, and that no accepted config puts two bots *)
(* in one store.                                                           *)
(***************************************************************************)
EXTENDS DataDir, TLAPS

-----------------------------------------------------------------------------
\* The inductive invariant

Rows == {"absent", "backed", "lost"}

\* What an export has read and what the bundle holds, which TypeOK leaves open
\* in part.
BundleTyped ==
    /\ read \in [row : Rows, key : Stores, wal : BOOLEAN]
    /\ bundle \in [row : Rows, store : Stores, key : Stores, wal : Stores \cup {None},
                   listed : BOOLEAN, logged : BOOLEAN]

\* A daemon that waits for the lock has the file open, too.
OpenedHasFile == \A d \in Daemons : pc[d] = "opened" => fd[d] # None

\* The history variable is never forgetful: while it is FALSE nobody runs.
QuietUntilOverlap == overlap = FALSE => \A d \in Daemons : ~Running(d)

\* What an import that nobody overlapped and that found no -wal has done so far.
ImportProgress ==
    overlap = FALSE /\ leftover = None =>
        /\ command = "import" /\ admin \in {"copied", "keyed"} =>
              store = bundle.store /\ Opens(bundle.store, bundle.key, bundle.wal) /\ wal = None
        /\ At("import", "keyed") => key = bundle.key
        /\ At("import", "imported") /\ bundle.listed = TRUE =>
              store = bundle.store /\ Opens(store, key, wal)

Inv ==
    /\ TypeOK /\ BundleTyped /\ OpenedHasFile
    /\ QuietUntilOverlap /\ ImportProgress /\ ImportedIsBacked

-----------------------------------------------------------------------------
\* The config

\* DaemonConfig::load accepts no config with two bots at one store: the store of
\* a bot is in the directory of its id, and ids are distinct.  Nothing is assumed
\* of how many bots there are or of what their names and paths may be.
LEMMA LoadSeparates == \A c : Load(c) => ~SharesStore(c)
<1> SUFFICES ASSUME NEW c, Load(c), NEW i \in DOMAIN c.bots, NEW j \in DOMAIN c.bots,
                    i # j, HasStore(c.bots[i]), HasStore(c.bots[j]),
                    StoreDir(c.bots[i]) = StoreDir(c.bots[j])
             PROVE  FALSE
  BY DEF SharesStore
<1>1. StoreDir(c.bots[i]) = c.bots[i].id /\ StoreDir(c.bots[j]) = c.bots[j].id
  BY DEF Load, ValidateBots, ValidateMlsDbPath
<1>2. Distinct([k \in DOMAIN c.bots |-> c.bots[k].id])
  BY DEF Load, ValidateBots
<1> QED
  BY <1>1, <1>2 DEF Distinct

\* So does every config that is loaded once its variables are expanded.
LEMMA LoadedSeparates == \A s \in Loaded : s = FALSE
<1> SUFFICES ASSUME NEW env \in Environments, NEW c \in Configs, Load(Expanded(c, env))
             PROVE  SharesStore(Expanded(c, env)) = FALSE
  BY DEF Loaded
<1>1. ~SharesStore(Expanded(c, env))
  BY LoadSeparates
<1> QED
  BY <1>1 DEF SharesStore

-----------------------------------------------------------------------------
\* Types, and the lock behind every running daemon

Files == TypeOK /\ BundleTyped /\ OpenedHasFile

\* Before anything has started.
LEMMA InitInv == Init => Inv
<1> SUFFICES ASSUME Init PROVE Inv
  OBVIOUS
<1> USE DataDirAssumption DEF Init
<1>0. BundleTyped /\ bundle.store \in Stores /\ bundle.key \in Stores
  BY DEF BundleTyped, Rows, Stores
<1>1. TypeOK
  <2>1. \A d \in Daemons : ~Running(d)
    BY DEF Running
  <2>2. /\ shares \in [Daemons -> BOOLEAN] /\ conn \in [Daemons -> BOOLEAN]
        /\ fd \in [Daemons -> Inodes \cup {None}] /\ lockPath \in Inodes \cup {None}
        /\ pid \in [Inodes -> Daemons \cup {None}] /\ holder \in [Inodes -> Daemons \cup {None}]
        /\ sock \in Daemons \cup {None} /\ dropping \subseteq Daemons
    OBVIOUS
  <2>3. /\ pc \in [Daemons -> {"off", "refused", "opened", "locked", "started", "ready",
                               "stopping", "waiting", "stopped", "released"}]
        /\ wire \in [Daemons -> {"none", "checking", "binding", "serving", "failed", "closed"}]
    OBVIOUS
  <2>4. /\ store \in Stores /\ key \in Stores /\ row \in {"absent", "backed", "lost"}
        /\ command \in {"export", "import"}
        /\ wal \in Stores \cup {None} /\ leftover \in Stores \cup {None}
        /\ admin \in {"idle", "probing", "passed", "read", "copied", "keyed", "bundled",
                      "imported", "skipped", "done", "failed"}
    BY DEF Stores
  <2>5. commands \in 0..MaxCommands
    OBVIOUS
  <2>6. overlap \in BOOLEAN
    OBVIOUS
  <2> HIDE DEF Init
  <2> QED
    BY <1>0, <2>1, <2>2, <2>3, <2>4, <2>5, <2>6 DEF TypeOK
<1>2. OpenedHasFile /\ QuietUntilOverlap /\ ImportProgress /\ ImportedIsBacked
  BY DEF OpenedHasFile, QuietUntilOverlap, Running, ImportProgress, ImportedIsBacked, At
<1> QED
  BY <1>0, <1>1, <1>2 DEF Inv

\* open_lock_file: the file at the path, or one nobody has open.
LEMMA StartKeepsFiles == ASSUME Files, NEW d \in Daemons, Start(d) PROVE Files'
<1> USE DataDirAssumption DEF Files
<1>1. PICK i \in Inodes :
          /\ IF lockPath # None THEN i = lockPath ELSE Free(i)
          /\ lockPath' = i /\ fd' = [fd EXCEPT ![d] = i] /\ pid' = [pid EXCEPT ![i] = None]
          /\ holder' = IF lockPath # None THEN holder ELSE [holder EXCEPT ![i] = None]
  BY DEF Start
<1>2. pc' = [pc EXCEPT ![d] = "opened"] /\ UNCHANGED <<wireVars, stateVars, adminVars>>
  BY DEF Start
<1>3. shares' \in [Daemons -> BOOLEAN]
  <2>1. PICK s \in Loaded : shares' = [shares EXCEPT ![d] = s]
    BY DEF Start
  <2>2. s \in BOOLEAN
    BY LoadedSeparates
  <2>3. shares \in [Daemons -> BOOLEAN]
    BY DEF TypeOK
  <2> QED
    BY <2>1, <2>2, <2>3
<1>4. \A e \in Daemons : Running(e)' => fd'[e] # None /\ holder'[fd'[e]] = e
  <2> SUFFICES ASSUME NEW e \in Daemons, Running(e)'
               PROVE  fd'[e] # None /\ holder'[fd'[e]] = e
    OBVIOUS
  <2>1. e # d /\ Running(e) /\ fd'[e] = fd[e]
    BY <1>1, <1>2 DEF Running, TypeOK
  <2>2. fd[e] # None /\ holder[fd[e]] = e /\ fd[e] \in Inodes
    BY <2>1 DEF TypeOK
  <2>3. lockPath = None => fd[e] # i
    BY <1>1 DEF Free
  <2> QED
    BY <1>1, <2>1, <2>2, <2>3 DEF TypeOK
<1>5. TypeOK'
  <2>1. /\ pc' \in [Daemons -> {"off", "refused", "opened", "locked", "started", "ready",
                                "stopping", "waiting", "stopped", "released"}]
        /\ fd' \in [Daemons -> Inodes \cup {None}] /\ lockPath' \in Inodes \cup {None}
        /\ pid' \in [Inodes -> Daemons \cup {None}] /\ holder' \in [Inodes -> Daemons \cup {None}]
    BY <1>1, <1>2 DEF TypeOK
  <2>2. UNCHANGED <<wire, sock, dropping, conn, store, key, wal, row, command, admin, overlap,
                    bundle, leftover, commands>>
    BY <1>2 DEF wireVars, stateVars, adminVars
  <2> QED
    BY <1>3, <1>4, <2>1, <2>2 DEF TypeOK
<1>6. BundleTyped' /\ OpenedHasFile'
  BY <1>1, <1>2 DEF TypeOK, BundleTyped, OpenedHasFile, adminVars
<1> QED
  BY <1>5, <1>6

\* try_lock_exclusive: the lock is had by one daemon at a time.
LEMMA LockKeepsFiles == ASSUME Files, NEW d \in Daemons, TryLockExclusive(d) PROVE Files'
<1> USE DataDirAssumption DEF Files
<1>1. /\ pc[d] = "opened" /\ fd[d] \in Inodes
      /\ UNCHANGED <<shares, lockPath, pid, wireVars, stateVars, command, admin, read, bundle,
                     leftover, commands>>
  BY DEF TryLockExclusive, TypeOK, OpenedHasFile
<1>2. CASE holder[fd[d]] = None
  <2>1. /\ holder' = [holder EXCEPT ![fd[d]] = d] /\ pc' = [pc EXCEPT ![d] = "locked"]
        /\ overlap' = TRUE /\ fd' = fd
    BY <1>2 DEF TryLockExclusive
  <2>2. \A e \in Daemons : Running(e)' => fd'[e] # None /\ holder'[fd'[e]] = e
    BY <1>1, <1>2, <2>1 DEF TypeOK, Running
  <2> QED
    BY <1>1, <2>1, <2>2 DEF TypeOK, BundleTyped, OpenedHasFile, wireVars, stateVars
<1>3. CASE holder[fd[d]] # None
  <2>1. /\ holder' = holder /\ pc' = [pc EXCEPT ![d] = "refused"]
        /\ overlap' = overlap /\ fd' = [fd EXCEPT ![d] = None]
    BY <1>3 DEF TryLockExclusive
  <2>2. \A e \in Daemons : Running(e)' => fd'[e] # None /\ holder'[fd'[e]] = e
    BY <1>1, <2>1 DEF TypeOK, Running
  <2> QED
    BY <1>1, <2>1, <2>2 DEF TypeOK, BundleTyped, OpenedHasFile, wireVars, stateVars
<1> QED
  BY <1>2, <1>3

\* A daemon that goes on, behind the lock it has.
LEMMA ProceedKeepsFiles ==
    ASSUME Files, NEW d \in Daemons, Running(d),
           NEW step \in {"started", "ready", "stopping", "waiting", "stopped"},
           pc' = [pc EXCEPT ![d] = step], UNCHANGED <<fd, lockPath, holder, shares, adminVars>>,
           pid' \in [Inodes -> Daemons \cup {None}],
           wire' \in [Daemons -> {"none", "checking", "binding", "serving", "failed", "closed"}],
           sock' \in Daemons \cup {None}, dropping' \subseteq Daemons, conn' \in [Daemons -> BOOLEAN],
           store' \in Stores, key' \in Stores, row' \in Rows, wal' \in Stores \cup {None}
    PROVE  Files'
<1> USE DEF Files
<1>1. \A e \in Daemons : Running(e)' => fd'[e] # None /\ holder'[fd'[e]] = e
  BY DEF TypeOK, Running
<1>2. TypeOK'
  <2>1. pc' \in [Daemons -> {"off", "refused", "opened", "locked", "started", "ready",
                             "stopping", "waiting", "stopped", "released"}]
    BY DEF TypeOK
  <2>2. UNCHANGED <<fd, lockPath, holder, shares, command, admin, overlap, bundle, leftover, commands>>
    BY DEF adminVars
  <2> QED
    BY <1>1, <2>1, <2>2 DEF TypeOK, Rows
<1>3. BundleTyped' /\ OpenedHasFile'
  BY DEF TypeOK, BundleTyped, OpenedHasFile, adminVars
<1> QED
  BY <1>2, <1>3

\* release_lock gives up what it has, and nobody else has it.
LEMMA ReleaseKeepsFiles == ASSUME Files, NEW d \in Daemons, ReleaseLock(d) PROVE Files'
<1> USE DataDirAssumption DEF Files
<1>1. fd[d] \in Inodes /\ holder[fd[d]] = d
  BY DEF ReleaseLock, Running, TypeOK
<1>2. \A e \in Daemons : Running(e)' => fd'[e] # None /\ holder'[fd'[e]] = e
  <2> SUFFICES ASSUME NEW e \in Daemons, Running(e)'
               PROVE  fd'[e] # None /\ holder'[fd'[e]] = e
    OBVIOUS
  <2>1. e # d /\ Running(e) /\ fd'[e] = fd[e]
    BY DEF ReleaseLock, Running, TypeOK
  <2>2. fd[e] # None /\ holder[fd[e]] = e /\ fd[e] \in Inodes /\ fd[e] # fd[d]
    BY <1>1, <2>1 DEF TypeOK
  <2> QED
    BY <1>1, <2>1, <2>2 DEF ReleaseLock, TypeOK
<1>3. TypeOK'
  BY <1>1, <1>2 DEF ReleaseLock, TypeOK, wireVars, stateVars, adminVars
<1>4. BundleTyped' /\ OpenedHasFile'
  BY DEF ReleaseLock, TypeOK, BundleTyped, OpenedHasFile, adminVars
<1> QED
  BY <1>3, <1>4

\* The end of a process, orderly or not, takes its locks and nobody else's.
LEMMA EndKeepsFiles ==
    ASSUME Files, NEW d \in Daemons, UnlinkLock(d) \/ Exit(d)
    PROVE  Files'
<1> USE DataDirAssumption DEF Files
<1>1. \A e \in Daemons : Running(e)' => fd'[e] # None /\ holder'[fd'[e]] = e
  <2> SUFFICES ASSUME NEW e \in Daemons, Running(e)'
               PROVE  fd'[e] # None /\ holder'[fd'[e]] = e
    OBVIOUS
  <2>1. e # d /\ Running(e) /\ fd'[e] = fd[e]
    BY DEF UnlinkLock, Exit, Running, TypeOK
  <2>2. fd[e] # None /\ holder[fd[e]] = e /\ fd[e] \in Inodes
    BY <2>1 DEF TypeOK
  <2> QED
    BY <2>1, <2>2 DEF UnlinkLock, Exit
<1>2. CASE UnlinkLock(d)
  BY <1>1, <1>2 DEF UnlinkLock, TypeOK, BundleTyped, OpenedHasFile, stateVars, adminVars
<1>3. CASE Exit(d)
  <2>1. holder' \in [Inodes -> Daemons \cup {None}]
    BY <1>3 DEF Exit, TypeOK
  <2> QED
    BY <1>1, <1>3, <2>1 DEF Exit, TypeOK, BundleTyped, OpenedHasFile, stateVars, adminVars
<1> QED
  BY <1>2, <1>3

\* The socket is nobody's lock: the transport of a daemon has its types and
\* leaves the rest alone.
LEMMA WireKeepsFiles ==
    ASSUME Files, NEW d \in Daemons, Wire(d)
    PROVE  Files' /\ UNCHANGED <<pc, fd, shares, fileVars, stateVars, adminVars>>
<1> USE DataDirAssumption DEF Files
<1>1. UNCHANGED <<pc, fd, shares, fileVars, stateVars, adminVars>>
  BY DEF Wire, WireStep, RemoveStaleSocket, Bind, DropTransport, Connect, CloseConnection
<1>2. /\ wire' \in [Daemons -> {"none", "checking", "binding", "serving", "failed", "closed"}]
      /\ sock' \in Daemons \cup {None} /\ dropping' \subseteq Daemons
  BY DEF Wire, WireStep, RemoveStaleSocket, Bind, DropTransport, Connect, CloseConnection, TypeOK
<1>3. conn' \in [Daemons -> BOOLEAN]
  BY DEF Wire, WireStep, RemoveStaleSocket, Bind, DropTransport, Connect, CloseConnection, TypeOK
<1>4. \A e \in Daemons : Running(e)' = Running(e)
  BY <1>1 DEF Running
<1>5. TypeOK'
  BY <1>1, <1>2, <1>3, <1>4 DEF TypeOK, fileVars, stateVars, adminVars
<1>6. BundleTyped' /\ OpenedHasFile'
  BY <1>1 DEF BundleTyped, OpenedHasFile, adminVars
<1> QED
  BY <1>1, <1>5, <1>6

\* The steps of a daemon that has the lock.
LEMMA RunKeepsFiles ==
    ASSUME Files, NEW d \in Daemons,
           OpenState(d) \/ Ready(d) \/ Signal(d) \/ StopTransport(d) \/ TransportEnds(d)
    PROVE  Files'
<1> USE DataDirAssumption DEF Files
<1>0. Running(d)
  BY DEF OpenState, Ready, Signal, StopTransport, TransportEnds, Running
<1>1. CASE OpenState(d)
  <2>1. fd[d] \in Inodes
    BY <1>0 DEF TypeOK
  <2>2. pid' \in [Inodes -> Daemons \cup {None}]
    BY <1>1, <2>1 DEF OpenState, TypeOK
  <2>3. store' \in Stores /\ key' \in Stores /\ row' \in Rows /\ wal' \in Stores \cup {None}
    BY <1>1 DEF OpenState, TypeOK, Stores, Rows, stateVars
  <2>4. pc' = [pc EXCEPT ![d] = "started"]
        /\ UNCHANGED <<fd, lockPath, holder, shares, adminVars, wire, sock, dropping, conn>>
    BY <1>1 DEF OpenState, wireVars
  <2>5. /\ wire' \in [Daemons -> {"none", "checking", "binding", "serving", "failed", "closed"}]
        /\ sock' \in Daemons \cup {None} /\ dropping' \subseteq Daemons
        /\ conn' \in [Daemons -> BOOLEAN]
    BY <2>4 DEF TypeOK
  <2> QED
    BY <1>0, <2>2, <2>3, <2>4, <2>5, ProceedKeepsFiles
<1>2. CASE Ready(d) \/ Signal(d) \/ StopTransport(d) \/ TransportEnds(d)
  <2>1. PICK step \in {"ready", "stopping", "waiting", "stopped"} : pc' = [pc EXCEPT ![d] = step]
    BY <1>2 DEF Ready, Signal, StopTransport, TransportEnds
  <2>2. UNCHANGED <<fd, lockPath, pid, holder, shares, adminVars, store, key, wal, row, sock, conn>>
    BY <1>2 DEF Ready, Signal, StopTransport, TransportEnds, fileVars, stateVars, wireVars
  <2>3. wire' \in [Daemons -> {"none", "checking", "binding", "serving", "failed", "closed"}]
        /\ dropping' \subseteq Daemons
    BY <1>2 DEF Ready, Signal, StopTransport, TransportEnds, wireVars, TypeOK
  <2>4. /\ pid' \in [Inodes -> Daemons \cup {None}] /\ sock' \in Daemons \cup {None}
        /\ conn' \in [Daemons -> BOOLEAN] /\ store' \in Stores /\ key' \in Stores /\ row' \in Rows
        /\ wal' \in Stores \cup {None}
    BY <2>2 DEF TypeOK, Rows
  <2> QED
    BY <1>0, <2>1, <2>2, <2>3, <2>4, ProceedKeepsFiles
<1> QED
  BY <1>1, <1>2

\* Every step of a process keeps its types, and the lock of every daemon that
\* runs.
LEMMA ProcessKeepsFiles == ASSUME Files, NEW d \in Daemons, Process(d) PROVE Files'
BY StartKeepsFiles, LockKeepsFiles, RunKeepsFiles, ReleaseKeepsFiles, EndKeepsFiles
   DEF Process, DaemonStep, ShutdownTimeout, Crash

\* The admin command holds no lock and takes none away.
LEMMA AdminLeavesDaemons ==
    ASSUME AdminStep PROVE UNCHANGED <<pc, fd, shares, fileVars, wireVars>>
<1>1. CASE \E c \in {"export", "import"} : CheckPid(c)
  BY <1>1 DEF CheckPid
<1>2. CASE ProbeLock
  BY <1>2 DEF ProbeLock
<1>3. CASE \/ ReadState \/ ExportRowsOnly \/ CopyStoreOut \/ WriteKeyOut \/ CopySidecarsOut
           \/ PrintState
  BY <1>3 DEF ReadState, ExportRowsOnly, CopyStoreOut, WriteKeyOut, CopySidecarsOut, PrintState,
              Proceed
<1>4. CASE \/ CopyStore \/ WriteKey \/ CopySidecars
           \/ SkipStore \/ NotExported \/ InsertGroup \/ AdminFails
  BY <1>4 DEF CopyStore, WriteKey, CopySidecars, SkipStore, NotExported, InsertGroup, AdminFails, Proceed
<1> QED
  BY <1>1, <1>2, <1>3, <1>4 DEF AdminStep

AdminTyped ==
    /\ store \in Stores /\ key \in Stores /\ row \in Rows
    /\ wal \in Stores \cup {None} /\ leftover \in Stores \cup {None}
    /\ command \in {"export", "import"}
    /\ admin \in {"idle", "probing", "passed", "read", "copied", "keyed", "bundled", "imported",
                 "skipped", "done", "failed"}
    /\ overlap \in BOOLEAN /\ commands \in 0..MaxCommands
    /\ BundleTyped

\* cmd_export and cmd_import write rows, stores and keys of their kinds.
LEMMA AdminTypes == Files /\ AdminStep => AdminTyped'
<1> SUFFICES ASSUME Files, AdminStep PROVE AdminTyped'
  OBVIOUS
<1>0. AdminTyped
  BY DEF Files, TypeOK, AdminTyped, Rows
<1>1. CASE \E c \in {"export", "import"} : CheckPid(c)
  BY <1>0, <1>1, DataDirAssumption DEF CheckPid, AdminTyped, BundleTyped, stateVars
<1>2. CASE ProbeLock
  BY <1>0, <1>2 DEF ProbeLock, AdminTyped, BundleTyped, stateVars
<1>3. CASE ReadState
  BY <1>0, <1>3 DEF ReadState, Proceed, AdminTyped, BundleTyped, stateVars
<1>4. CASE ExportRowsOnly
  BY <1>0, <1>4 DEF ExportRowsOnly, Proceed, AdminTyped, BundleTyped, stateVars
<1>5. CASE CopyStoreOut
  BY <1>0, <1>5 DEF CopyStoreOut, Proceed, AdminTyped, BundleTyped, stateVars
<1>6. CASE WriteKeyOut
  BY <1>0, <1>6 DEF WriteKeyOut, Proceed, AdminTyped, BundleTyped, stateVars
<1>7. CASE PrintState
  BY <1>0, <1>7 DEF PrintState, Proceed, AdminTyped, BundleTyped, stateVars
<1>8. CASE CopyStore \/ WriteKey \/ CopySidecars
  BY <1>0, <1>8 DEF CopyStore, WriteKey, CopySidecars, Proceed, AdminTyped, BundleTyped
<1>11. CASE CopySidecarsOut
  BY <1>0, <1>11 DEF CopySidecarsOut, Proceed, AdminTyped, BundleTyped, stateVars
<1>9. CASE SkipStore \/ NotExported \/ AdminFails
  BY <1>0, <1>9 DEF SkipStore, NotExported, AdminFails, Proceed, AdminTyped, BundleTyped, stateVars
<1>10. CASE InsertGroup
  <2>1. row' \in Rows
    BY <1>0, <1>10 DEF InsertGroup, InsertMlsGroupExport, AdminTyped, BundleTyped, Rows
  <2> QED
    BY <1>0, <1>10, <2>1 DEF InsertGroup, InsertMlsGroupExport, Proceed, AdminTyped, BundleTyped
<1> QED
  BY <1>1, <1>2, <1>3, <1>4, <1>5, <1>6, <1>7, <1>8, <1>9, <1>10, <1>11 DEF AdminStep

\* So a step of the command keeps types and locks.
LEMMA AdminKeepsFiles == Files /\ AdminStep => Files'
<1> SUFFICES ASSUME Files, AdminStep PROVE Files'
  OBVIOUS
<1>1. UNCHANGED <<pc, fd, shares, fileVars, wireVars>> /\ AdminTyped'
  BY AdminLeavesDaemons, AdminTypes
<1>2. bundle'.store \in Stores /\ bundle'.key \in Stores
  BY <1>1 DEF AdminTyped, BundleTyped
<1>3. \A e \in Daemons : Running(e)' = Running(e)
  BY <1>1 DEF Running
<1>4. TypeOK'
  BY <1>1, <1>2, <1>3 DEF Files, TypeOK, AdminTyped, Rows, fileVars, wireVars
<1> QED
  BY <1>1, <1>4 DEF Files, AdminTyped, OpenedHasFile

\* No step of any process or command takes a variable out of its type or a
\* running daemon from behind its lock.
LEMMA StepFiles == Files /\ [Next]_vars => Files'
<1>1. ASSUME Files, UNCHANGED vars PROVE Files'
  <2>1. \A e \in Daemons : Running(e)' = Running(e)
    BY <1>1 DEF Running, vars
  <2> QED
    BY <1>1, <2>1 DEF Files, TypeOK, BundleTyped, OpenedHasFile, vars, fileVars, wireVars,
                      stateVars, adminVars
<1> QED
  BY <1>1, ProcessKeepsFiles, WireKeepsFiles, AdminKeepsFiles DEF Next

-----------------------------------------------------------------------------
\* What an import leaves

Import == QuietUntilOverlap /\ ImportProgress /\ ImportedIsBacked

\* A daemon that gets the lock is an overlap, and one that has it was one; so
\* while nobody overlapped the command, no daemon wrote to the store.
LEMMA ProcessKeepsImport ==
    ASSUME Files, Import, NEW d \in Daemons, Process(d)
    PROVE  Import'
<1>1. CASE overlap' = TRUE
  BY <1>1 DEF Import, QuietUntilOverlap, ImportProgress, ImportedIsBacked
<1>2. CASE overlap' # TRUE
  <2>0. overlap' = overlap /\ overlap = FALSE
    BY <1>2 DEF Files, TypeOK, Process, DaemonStep, Start, TryLockExclusive, OpenState, Ready,
                StopTransport, TransportEnds, ReleaseLock, UnlinkLock, Signal, ShutdownTimeout,
                Crash, Exit, adminVars
  <2>1. \A e \in Daemons : ~Running(e)
    BY <2>0 DEF Import, QuietUntilOverlap
  <2>2. CASE Start(d) \/ TryLockExclusive(d) \/ UnlinkLock(d) \/ Exit(d)
    <3>1. /\ UNCHANGED <<store, key, row, command, admin, bundle, leftover>>
          /\ wal' \in {wal, None}
      BY <2>2 DEF Start, TryLockExclusive, UnlinkLock, Exit, stateVars, adminVars
    <3>2. \A e \in Daemons : ~Running(e)'
      <4>1. PICK step \in {"opened", "refused", "off"} : pc' = [pc EXCEPT ![d] = step]
        BY <1>2, <2>2 DEF Start, TryLockExclusive, UnlinkLock, Exit
      <4> QED
        BY <2>1, <4>1 DEF Running, Files, TypeOK
    <3> QED
      BY <2>0, <3>1, <3>2 DEF Import, QuietUntilOverlap, ImportProgress, ImportedIsBacked, At,
                              Opens
  <2>3. CASE \/ OpenState(d) \/ Ready(d) \/ Signal(d) \/ StopTransport(d) \/ TransportEnds(d)
             \/ ReleaseLock(d)
    BY <2>1, <2>3 DEF OpenState, Ready, Signal, StopTransport, TransportEnds, ReleaseLock, Running
  <2> QED
    BY <2>2, <2>3 DEF Process, DaemonStep, ShutdownTimeout, Crash
<1> QED
  BY <1>1, <1>2

\* The command: the store is copied only from a bundle whose key opens it, and
\* the group is unmarked only when the store was not skipped.
LEMMA AdminKeepsImport ==
    ASSUME Files, Import, AdminStep
    PROVE  Import'
<1>0. UNCHANGED pc
  BY AdminLeavesDaemons
<1>1. ASSUME NEW c \in {"export", "import"}, CheckPid(c) PROVE Import'
  <2>1. admin' \in {"probing", "passed"} /\ overlap' = \E d \in Daemons : Running(d)
    BY <1>1 DEF CheckPid
  <2>2. QuietUntilOverlap'
    BY <1>0, <2>1 DEF QuietUntilOverlap, Running
  <2> QED
    BY <2>1, <2>2 DEF Import, ImportProgress, ImportedIsBacked, At
<1>2. ASSUME overlap' = overlap PROVE QuietUntilOverlap'
  BY <1>0, <1>2 DEF Import, QuietUntilOverlap, Running
<1>3. CASE ProbeLock
  BY <1>2, <1>3 DEF ProbeLock, Import, ImportProgress, ImportedIsBacked, At
<1>4. CASE \/ ReadState \/ ExportRowsOnly \/ CopyStoreOut \/ WriteKeyOut \/ CopySidecarsOut
           \/ PrintState
  <2>1. command' = "export" /\ overlap' = overlap
    BY <1>4 DEF ReadState, ExportRowsOnly, CopyStoreOut, WriteKeyOut, CopySidecarsOut, PrintState,
                Proceed, At
  <2> QED
    BY <1>2, <2>1 DEF Import, ImportProgress, ImportedIsBacked, At
<1>5. CASE CopyStore
  <2>1. PICK w \in {bundle.wal, None} : bundle' = [bundle EXCEPT !.wal = w]
    BY <1>5 DEF CopyStore
  <2>2. /\ bundle'.store = bundle.store /\ bundle'.key = bundle.key /\ bundle'.wal = w
        /\ Opens(bundle.store, bundle.key, w)
    BY <1>5, <2>1 DEF CopyStore, Opens, Files, BundleTyped
  <2> QED
    BY <1>2, <1>5, <2>2 DEF CopyStore, Proceed, Import, ImportProgress, ImportedIsBacked, At
<1>6. CASE WriteKey
  BY <1>2, <1>6 DEF WriteKey, Proceed, Import, ImportProgress, ImportedIsBacked, At
<1>9. CASE CopySidecars
  <2>1. /\ At("import", "keyed") /\ admin' = "imported"
        /\ wal' = IF bundle.logged /\ bundle.wal # None THEN bundle.wal ELSE wal
        /\ UNCHANGED <<store, key, bundle, leftover, command, overlap>>
    BY <1>9 DEF CopySidecars, Proceed
  <2>2. overlap = FALSE /\ leftover = None => store = bundle.store /\ Opens(store, key, wal')
    BY <2>1 DEF Import, ImportProgress, At, Opens
  <2> QED
    BY <1>2, <2>1, <2>2 DEF Import, ImportProgress, ImportedIsBacked, At, Opens
<1>7. CASE SkipStore \/ NotExported \/ AdminFails
  BY <1>2, <1>7 DEF SkipStore, NotExported, AdminFails, Proceed, stateVars,
                    Import, ImportProgress, ImportedIsBacked, At
<1>8. CASE InsertGroup
  BY <1>2, <1>8 DEF InsertGroup, InsertMlsGroupExport, Proceed,
                    Import, ImportProgress, ImportedIsBacked, At
<1> QED
  BY <1>1, <1>3, <1>4, <1>5, <1>6, <1>7, <1>8, <1>9 DEF AdminStep

\* No step of the daemons or the command breaks what an import has established.
LEMMA StepImport == Files /\ Import /\ [Next]_vars => Import'
<1>1. ASSUME Import, UNCHANGED <<pc, stateVars, adminVars>> PROVE Import'
  BY <1>1 DEF Import, QuietUntilOverlap, Running, ImportProgress, ImportedIsBacked, At,
              stateVars, adminVars
<1> QED
  BY <1>1, ProcessKeepsImport, AdminKeepsImport, WireKeepsFiles DEF Next, vars

-----------------------------------------------------------------------------
\* The theorems

\* The inductive invariant holds in every state.
THEOREM Invariance == Spec => []Inv
<1>1. Inv /\ [Next]_vars => Inv'
  BY StepFiles, StepImport DEF Inv, Files, Import
<1> QED
  BY <1>1, InitInv, PTL DEF Spec

\* Every variable has its type and every daemon past try_lock_exclusive holds
\* the lock of the file it has open, however often daemons start, are refused,
\* time out, crash or unlink each other's lock files.
THEOREM TypeCorrect == Spec => []TypeOK
<1>1. Inv => TypeOK
  BY DEF Inv
<1> QED
  BY <1>1, Invariance, PTL

\* Of any number of daemons at most one works on the directory behind the file
\* that is at daemon.lock.
THEOREM OneDaemon == Spec => []OneDaemonPerLockFile
<1>1. TypeOK => OneDaemonPerLockFile
  BY DEF TypeOK, OneDaemonPerLockFile
<1> QED
  BY <1>1, TypeCorrect, PTL

\* An import that no daemon overlapped and that found no -wal beside the store it
\* replaced leaves an unmarked group only with the bundle's store, which its key
\* opens with the -wal that is then beside it (import_mls_store), for any number
\* of exports and imports cut off anywhere.
THEOREM ImportIsBacked == Spec => []ImportedIsBacked
<1>1. Inv => ImportedIsBacked
  BY DEF Inv
<1> QED
  BY <1>1, Invariance, PTL

\* No daemon runs with a config that puts two bots' state in one store.
THEOREM StoresAreSeparate == Spec => []OneBotPerStore
<1> DEFINE Separate == \A d \in Daemons : shares[d] = FALSE
<1>1. Init => Separate
  BY DEF Init
<1>2. Inv /\ Separate /\ [Next]_vars => Separate'
  <2> SUFFICES ASSUME Inv, Separate, [Next]_vars PROVE Separate'
    OBVIOUS
  <2>1. ASSUME NEW d \in Daemons, Start(d) PROVE Separate'
    <3>1. PICK s \in Loaded : shares' = [shares EXCEPT ![d] = s]
      BY <2>1 DEF Start
    <3>2. s = FALSE
      BY LoadedSeparates
    <3> QED
      BY <3>1, <3>2 DEF Inv, TypeOK
  <2>2. CASE UNCHANGED shares
    BY <2>2
  <2>3. ASSUME NEW d \in Daemons, Process(d), ~Start(d) PROVE UNCHANGED shares
    BY <2>3 DEF Process, DaemonStep, TryLockExclusive, OpenState, Ready, StopTransport,
                TransportEnds, ReleaseLock, UnlinkLock, Signal, ShutdownTimeout, Crash, Exit
  <2> QED
    BY <2>1, <2>2, <2>3, WireKeepsFiles, AdminLeavesDaemons DEF Next, Inv, Files, vars
<1>3. Separate => OneBotPerStore
  BY DEF OneBotPerStore
<1> QED
  BY <1>1, <1>2, <1>3, Invariance, PTL DEF Spec
=============================================================================
