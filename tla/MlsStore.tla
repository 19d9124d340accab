------------------------------ MODULE MlsStore ------------------------------
(***************************************************************************)
(* The MLS store of one bot: its files on disk and what daemon startup     *)
(* does with them before the engine may touch the path (mls_reset.rs,      *)
(* mls_key.rs, client_manager.rs construct_mls_bot_state).                 *)
(*                                                                         *)
(* The store is classified (absent, unencrypted legacy, encrypted, not     *)
(* recognised); a legacy store has its admins harvested into agent.db and  *)
(* is archived or deleted; an encrypted store whose key is absent or wrong *)
(* is always archived; anything else fails closed.  A marker row in        *)
(* agent.db is written before the move and completed after it.  Every      *)
(* write to disk is a step of its own and the process may end between any  *)
(* two of them.                                                            *)
(*                                                                         *)
(* Stores are numbered: 0 is the legacy store, 1, 2, ... the encrypted     *)
(* ones in the order the engine creates them; key k was minted for store   *)
(* k or later.  held[i] is the set of groups whose state is in store i.    *)
(* The engine runs in WAL mode, so a store may be two files: what its -wal *)
(* has is not in the main file until an opening folds it in.               *)
(***************************************************************************)
EXTENDS Naturals, FiniteSets

CONSTANTS
    Wires,          \* wire ids of the groups that may exist
    OldWires,       \* the groups of the store found at the first startup
    Retention,      \* mls_archive_retention_days
    MaxStores,      \* bound: encrypted stores ever created
    MaxCrashes,     \* bound: ends of the process
    MaxFaults,      \* bound: changes made to the key file from outside
    MaxDays         \* bound: the clock, in days

ASSUME StoreAssumption ==
    /\ OldWires \subseteq Wires
    /\ Retention \in Nat /\ MaxStores \in Nat \ {0} /\ MaxCrashes \in Nat
    /\ MaxFaults \in Nat /\ MaxDays \in Nat

VARIABLES
    main,       \* the file at the live path: [kind, id, key]
    wal,        \* the store whose -wal is at the live path, or NoStore
    split,      \* history: stores whose -wal has what their main file lacks
    severed,    \* history: stores whose reset was cut short between its two moves
    key,        \* the .key file: NoKey, Unusable or a key
    minted,     \* number of encrypted stores created so far
    held,       \* held[i]: the groups whose state store i has
    archive,    \* directories under mls-archive/: [kind, stamp, store, wal]
    marker,     \* the bot's row of mls_store_resets
    admins,     \* groups with rows in mls_store_reset_admins
    kp,         \* the store whose KeyPackage is on the relays
    reset,      \* reset_occurred of this startup
    phase,      \* where startup is
    today, crashes, faults

logVars == <<wal, split, severed>>
storeVars == <<main, logVars, key, minted, held, archive, marker, admins, kp,
               reset, phase, today, crashes, faults>>

NoKey == 0
Unusable == MaxStores + 1
NoStore == MaxStores + 1      \* no file of that sort

NoFile  == [kind |-> "none",    id |-> NoStore, key |-> NoKey]
Legacy  == [kind |-> "legacy",  id |-> 0,       key |-> NoKey]
Foreign == [kind |-> "foreign", id |-> NoStore, key |-> NoKey]
Encrypted(i, k) == [kind |-> "encrypted", id |-> i, key |-> k]

\* The encrypted stores an earlier run may have left: none, or store 1.
StoreInit ==
    /\ main \in {NoFile, Legacy, Foreign, Encrypted(1, 1)}
    /\ wal \in {NoStore, main.id}
    /\ split = {wal} \ {NoStore} /\ severed = {}
    /\ minted = IF main.kind = "encrypted" THEN 1 ELSE 0
    /\ key = IF main.kind = "encrypted" THEN 1 ELSE NoKey
    /\ held = [i \in 0..MaxStores |->
                 IF i = main.id THEN OldWires ELSE {}]
    /\ archive = {}
    /\ marker = "none"
    /\ admins = {}
    /\ kp = IF main.kind = "encrypted" THEN 1 ELSE 0
    /\ reset = FALSE
    /\ phase = "down"
    /\ today = 0 /\ crashes = 0 /\ faults = 0

-----------------------------------------------------------------------------
\* Classification and reset

\* Mistake: the archives of encrypted stores expire like the others.
ExpiredOfAnyKind(a) == Retention > 0 /\ a.stamp + Retention < today

\* Legacy archives past the retention; never an r26 archive, and nothing at
\* all when the retention is zero.
Expired(a) == Retention > 0 /\ a.kind = "legacy" /\ a.stamp + Retention < today

Pruned(dirs) == {a \in dirs : ~Expired(a)}

Archived(kind) == kind = "r26" \/ Retention > 0

ArchiveDir(kind, i, log) == [kind |-> kind, stamp |-> today, store |-> i, wal |-> log]

\* The -wal stays, or an opening folds it into the main file.
KeepWal == UNCHANGED <<wal, split>>
FoldWal == wal' = NoStore /\ split' = split \ {wal}

Start ==
    /\ phase = "down"
    /\ phase' = "classify"
    /\ reset' = FALSE
    /\ UNCHANGED <<main, logVars, key, minted, held, archive, marker, admins, kp,
                   today, crashes, faults>>

\* No file at the live path: a -wal left by an interrupted reset follows the
\* ordinary retention, whichever store it belongs to, and no reset is reported.
ClassifyMissing ==
    /\ phase = "classify" /\ main.kind = "none"
    /\ archive' = Pruned(IF wal # NoStore /\ Archived("legacy")
                           THEN archive \cup {ArchiveDir("legacy", NoStore, wal)}
                           ELSE archive)
    /\ wal' = NoStore
    /\ phase' = "open"
    /\ UNCHANGED <<main, split, severed, key, minted, held, marker, admins, kp, reset,
                   today, crashes, faults>>

KeyOpensStore == key = main.key

ClassifyUsable ==
    /\ phase = "classify" /\ main.kind = "encrypted"
    /\ KeyOpensStore
    /\ KeepWal \/ FoldWal
    /\ archive' = Pruned(archive)
    /\ phase' = "open"
    /\ UNCHANGED <<main, severed, key, minted, held, marker, admins, kp, reset,
                   today, crashes, faults>>

\* Unreadable, of an unknown schema, or with a key file that cannot be used:
\* the bot runs without an engine and the files stay as they are.
FailsClosed ==
    \/ main.kind = "foreign"
    \/ main.kind = "encrypted" /\ key = Unusable

ClassifyFailClosed ==
    /\ phase = "classify" /\ FailsClosed
    /\ phase' = "unavailable"
    /\ UNCHANGED <<main, logVars, key, minted, held, archive, marker, admins, kp,
                   reset, today, crashes, faults>>

\* Mistake: any unencrypted store is taken for a legacy one.
MarkResetStartUnversioned ==
    /\ phase = "classify"
    /\ \/ main.kind \in {"legacy", "foreign"}
       \/ main.kind = "encrypted" /\ key # Unusable /\ ~KeyOpensStore
    /\ marker' = "started"
    /\ phase' = "marked"
    /\ UNCHANGED <<main, logVars, key, minted, held, archive, admins, kp, reset,
                   today, crashes, faults>>

\* The legacy admins are read and the -wal is folded before the marker; an
\* encrypted store cannot be harvested and goes straight to the marker, opened
\* with the wrong key, if there is one, and not checkpointed.
MarkResetStart ==
    /\ phase = "classify"
    /\ \/ main.kind = "legacy" /\ FoldWal
       \/ /\ main.kind = "encrypted" /\ key # Unusable /\ ~KeyOpensStore
          /\ KeepWal \/ (key # NoKey /\ FoldWal)
    /\ marker' = "started"
    /\ phase' = "marked"
    /\ UNCHANGED <<main, severed, key, minted, held, archive, admins, kp, reset,
                   today, crashes, faults>>

Harvested == IF main.kind = "legacy" THEN held[0] ELSE {}

\* upsert_mls_store_reset_admin, a row at a time.
RecordAdmins(w) ==
    /\ phase = "marked" /\ w \in Harvested \ admins
    /\ admins' = admins \cup {w}
    /\ UNCHANGED <<main, logVars, key, minted, held, archive, marker, kp, reset,
                   phase, today, crashes, faults>>

\* Mistake: the file is moved while its admins are still being recorded.
MoveMainUnharvested ==
    /\ phase = "marked"
    /\ archive' = archive \cup {ArchiveDir("r26", main.id, NoStore)}
    /\ main' = NoFile
    /\ phase' = "moved"
    /\ UNCHANGED <<logVars, key, minted, held, marker, admins, kp, reset,
                   today, crashes, faults>>

\* remove_or_archive: the main file first, without what its -wal has ...
MoveMain ==
    /\ phase = "marked" /\ Harvested \subseteq admins
    /\ LET kind == IF main.kind = "legacy" THEN "legacy" ELSE "r26"
       IN  archive' = IF Archived(kind)
                        THEN archive \cup {ArchiveDir(kind, main.id, NoStore)}
                        ELSE archive
    /\ main' = NoFile
    /\ phase' = "moved"
    /\ UNCHANGED <<logVars, key, minted, held, marker, admins, kp, reset,
                   today, crashes, faults>>

\* ... then the -wal, to the same directory.
MoveSidecars ==
    /\ phase = "moved" /\ wal # NoStore
    /\ archive' = {IF a.store = wal THEN [a EXCEPT !.wal = wal] ELSE a : a \in archive}
    /\ wal' = NoStore
    /\ UNCHANGED <<main, split, severed, key, minted, held, marker, admins, kp, reset,
                   phase, today, crashes, faults>>

CompleteReset ==
    /\ phase = "moved" /\ wal = NoStore
    /\ marker' = "completed"
    /\ reset' = TRUE
    /\ archive' = Pruned(archive)
    /\ phase' = "open"
    /\ UNCHANGED <<main, logVars, key, minted, held, admins, kp,
                   today, crashes, faults>>

-----------------------------------------------------------------------------
\* Opening the engine

\* load_or_create: an existing key is reused, a wrong one included; a key is
\* renamed into place whole, so no torn key file exists.
LoadOrCreateKey ==
    /\ phase = "open" /\ (main.kind # "none" \/ minted < MaxStores)
    /\ IF key = Unusable
         THEN phase' = "unavailable" /\ key' = key
         ELSE /\ key' = IF key = NoKey THEN minted + 1 ELSE key
              /\ phase' = "key"
    /\ UNCHANGED <<main, logVars, minted, held, archive, marker, admins, kp, reset,
                   today, crashes, faults>>

\* new_with_key opens the store at the path, or creates one under the key.
OpenStore ==
    /\ phase = "key"
    /\ IF main.kind = "none"
         THEN main' = Encrypted(minted + 1, key) /\ minted' = minted + 1
         ELSE UNCHANGED <<main, minted>>
    /\ phase' = IF reset THEN "publish" ELSE "reconcile"
    /\ UNCHANGED <<logVars, key, held, archive, marker, admins, kp, reset,
                   today, crashes, faults>>

\* After a reset the KeyPackage of the fresh store is published, as well as
\* the relays allow.
RepublishKeyPackage ==
    /\ phase = "publish"
    /\ kp' \in {kp, main.id}
    /\ phase' = "reconcile"
    /\ UNCHANGED <<main, logVars, key, minted, held, archive, marker, admins, reset,
                   today, crashes, faults>>

EngineOpen == phase \in {"publish", "reconcile", "serving"}

-----------------------------------------------------------------------------
\* What happens around the daemon

\* The process ends.  An open store has or has not its last commits in a -wal.
Crash ==
    /\ phase # "down" /\ crashes < MaxCrashes
    /\ phase' = "down"
    /\ crashes' = crashes + 1
    /\ IF EngineOpen
         THEN \/ FoldWal
              \/ wal' = main.id /\ split' = split \cup {main.id}
         ELSE KeepWal
    /\ severed' = IF phase = "moved" THEN severed \cup ({wal} \ {NoStore}) ELSE severed
    /\ UNCHANGED <<main, key, minted, held, archive, marker, admins, kp, reset,
                   today, faults>>

\* The key file is lost, made readable by others, or replaced by an older one.
KeyFault ==
    /\ phase = "down" /\ faults < MaxFaults
    /\ key' \in (0..minted \cup {Unusable}) \ {key}
    /\ faults' = faults + 1
    /\ UNCHANGED <<main, logVars, minted, held, archive, marker, admins, kp, reset,
                   phase, today, crashes>>

\* Days pass; the date matters to the next startup only.
Tick ==
    /\ phase = "down" /\ today < MaxDays
    /\ today' = today + 1
    /\ UNCHANGED <<main, logVars, key, minted, held, archive, marker, admins, kp,
                   reset, phase, crashes, faults>>

StoreStep ==
    \/ Start
    \/ ClassifyMissing \/ ClassifyUsable \/ ClassifyFailClosed
    \/ MarkResetStart
    \/ \E w \in Wires : RecordAdmins(w)
    \/ MoveMain \/ MoveSidecars \/ CompleteReset
    \/ LoadOrCreateKey
    \/ KeyFault \/ Tick

StoreTypeOK ==
    /\ main \in {NoFile, Legacy, Foreign}
                  \cup {Encrypted(i, k) : i \in 1..minted, k \in 1..MaxStores}
    /\ wal \in 0..NoStore
    /\ split \subseteq 0..MaxStores /\ severed \subseteq 0..MaxStores
    /\ key \in 0..(MaxStores + 1)
    /\ minted \in 0..MaxStores
    /\ held \in [0..MaxStores -> SUBSET Wires]
    /\ archive \subseteq [kind : {"legacy", "r26"}, stamp : 0..MaxDays,
                          store : 0..NoStore, wal : 0..NoStore]
    /\ marker \in {"none", "started", "completed"}
    /\ admins \subseteq OldWires
    /\ kp \in 0..MaxStores
    /\ reset \in BOOLEAN
    /\ phase \in {"down", "classify", "marked", "moved", "open", "key", "publish",
                  "reconcile", "serving", "unavailable"}
    /\ today \in 0..MaxDays /\ crashes \in 0..MaxCrashes /\ faults \in 0..MaxFaults
=============================================================================
