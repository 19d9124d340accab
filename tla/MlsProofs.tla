---------------------------- MODULE MlsProofs ------------------------------
(***************************************************************************)
(* Proofs about a bot's Squads: what is kept of them (MlsGroups, with      *)
(* MlsStore), and the traffic that reaches them and the bots' own inboxes  *)
(* (NostrInbound).                                                         *)
(*                                                                         *)
(* MlsGroups, for any groups, names, peers and retention and any number of *)
(* stores, crashes, key faults and remote steps: the type invariant, what  *)
(* a reset keeps (AdminsSurvive, StateIsKept, FailClosed), and what        *)
(* agent.db says of groups (LostIffReset, InvitedIsMember).  The invariant *)
(* has two halves.  StoreInv is about the files and where startup is;      *)
(* GroupInv is about rows, requests and Welcomes, and needs of the first   *)
(* only that a bot that serves has an encrypted store open.                *)
(*                                                                         *)
(* NostrInbound, for any bots, wraps, messages and proposals: the type     *)
(* invariant, LocalDelivery and NoFork.                                    *)
(***************************************************************************)
EXTENDS MlsGroups, NostrInbound, TLAPS

-----------------------------------------------------------------------------
\* The inductive invariant: the store

\* What startup has found out by each of its phases.
PhaseInv ==
    /\ phase = "marked" =>
          main.kind = "legacy" \/ (main.kind = "encrypted" /\ key # Unusable)
    /\ phase = "moved" => main.kind = "none"
    /\ phase \in {"open", "key"} => main.kind \in {"none", "encrypted"}
    /\ phase = "key" /\ main.kind = "none" => key \in 1..MaxStores /\ minted < MaxStores
    /\ phase \in {"publish", "reconcile", "serving"} => main.kind = "encrypted"

\* The legacy store's groups are the old ones.
LegacyIsOld == held[0] \subseteq OldWires

\* The -wal at the live path is the one of the store there, and what that store
\* lacks is in it; a path that is about to get a new store has none.
WalInv ==
    /\ split \subseteq 0..minted
    /\ main.kind # "none" => wal \in {NoStore, main.id}
    /\ main.id \in split => wal = main.id
    /\ phase \in {"open", "key"} /\ main.kind = "none" => wal = NoStore

StoreInv ==
    StoreTypeOK /\ PhaseInv /\ WalInv /\ LegacyIsOld /\ AdminsSurvive /\ StateIsKept

-----------------------------------------------------------------------------
\* The inductive invariant: the groups

RowRecords == [name : Names, lost : BOOLEAN, invited : SUBSET Peers]

Requests ==
    {Idle} \cup [op : {"create"}, name : Names, peer : Peers]
           \cup [op : {"welcome"}, wire : Wires, name : Names, peer : Peers]
           \cup [op : {"add", "send", "failed", "invited"}, wire : Wires, peer : Peers]
           \cup [op : {"delete"}, wire : Wires]

GroupTyped ==
    /\ rows \in [Wires -> {NoRow} \cup RowRecords]
    /\ names \in [Wires -> Names]
    /\ members \in [Wires -> SUBSET Peers]
    /\ inbox \subseteq Wires /\ pending \subseteq Wires
    /\ left \subseteq Wires /\ torn \subseteq Wires
    /\ departed \subseteq [wire : Wires, peer : Peers]
    /\ rpc \in Requests
    /\ events \subseteq [wire : Wires, first : Wires]

\* Requests and events exist in a bot that serves, an event per Welcome.
WhileServing ==
    /\ phase = "serving" \/ (rpc = Idle /\ events = {})
    /\ \A e \in events : e.wire \in inbox
    /\ \A e, f \in events : e.wire = f.wire => e = f

\* The peer whose invite is under way, or has failed, is no member yet.
InFlight(w) == IF rpc.op \in {"add", "failed"} /\ rpc.wire = w THEN {rpc.peer} ELSE {}

\* Who is a member of a group, or was until it left.
Joined(w) == members[w] \cup {p \in Peers : [wire |-> w, peer |-> p] \in departed}

InvitedInv ==
    /\ \A w \in Rows : w \in torn \/ rows[w].invited \ InFlight(w) \subseteq Joined(w)
    /\ rpc.op = "welcome" => rpc.peer \in Joined(rpc.wire)

\* What a row may be written or unmarked for is in the engine, or was left.
Reachable == Live \cup left

LostInv ==
    /\ LostIffReset
    /\ rpc.op = "welcome" => rpc.wire \in Reachable
    /\ \A e \in events : e.first \in Reachable

GroupInv == GroupTyped /\ WhileServing /\ InvitedInv /\ LostInv

Inv == StoreInv /\ GroupInv

-----------------------------------------------------------------------------
\* The store

\* What is at the live path: no file and a foreign one have no store number,
\* the legacy store is number 0, an encrypted one is one that was created.
LEMMA MainCases ==
    ASSUME StoreTypeOK
    PROVE  /\ main.kind \in {"none", "legacy", "foreign", "encrypted"}
           /\ main.kind \in {"none", "foreign"} => main.id = MaxStores + 1
           /\ main.kind = "legacy" => main.id = 0
           /\ main.kind = "encrypted" => main.id \in 1..minted
BY StoreAssumption DEF StoreTypeOK, NoFile, Legacy, Foreign, Encrypted, NoStore

\* The file system as the first startup finds it.
LEMMA InitStore == StoreInit => StoreInv
<1> SUFFICES ASSUME StoreInit PROVE StoreInv
  OBVIOUS
<1> USE StoreAssumption
<1>1. \/ main = NoFile \/ main = Legacy \/ main = Foreign \/ main = Encrypted(1, 1)
  BY DEF StoreInit
<1>2. /\ main.kind = "encrypted" <=> main = Encrypted(1, 1)
      /\ main.kind # "legacy" => main.id # 0
      /\ main.kind = "encrypted" => main.id = 1
  BY <1>1 DEF NoFile, Legacy, Foreign, Encrypted, NoStore
<1>3. held = [i \in 0..MaxStores |-> IF i = main.id THEN OldWires ELSE {}]
  BY DEF StoreInit
<1>4. minted = (IF main.kind = "encrypted" THEN 1 ELSE 0) /\ minted \in 0..MaxStores
  BY DEF StoreInit
<1>5. StoreTypeOK
  <2>1. main \in {NoFile, Legacy, Foreign}
                   \cup {Encrypted(i, k) : i \in 1..minted, k \in 1..MaxStores}
    BY <1>1, <1>2, <1>4
  <2>2. held \in [0..MaxStores -> SUBSET Wires]
    BY <1>3
  <2>3. kp \in 0..MaxStores /\ key \in 0..(MaxStores + 1)
    BY DEF StoreInit, NoKey
  <2>4. /\ wal \in 0..NoStore /\ split \subseteq 0..MaxStores /\ severed = {}
        /\ reset \in BOOLEAN
    <3>1. main.id \in 0..(MaxStores + 1) /\ NoStore = MaxStores + 1
      BY <1>1 DEF NoStore, NoFile, Legacy, Foreign, Encrypted
    <3>2. wal \in {NoStore, main.id} /\ split = {wal} \ {NoStore} /\ severed = {} /\ reset = FALSE
      BY DEF StoreInit
    <3>3. wal \in 0..NoStore
      BY <3>1, <3>2
    <3>4. \A i \in split : i \in 0..MaxStores
      BY <3>1, <3>2
    <3> QED
      BY <3>2, <3>3, <3>4
  <2>5. /\ archive = {} /\ marker = "none" /\ admins = {} /\ phase = "down"
        /\ today = 0 /\ crashes = 0 /\ faults = 0
    BY DEF StoreInit
  <2> QED
    BY <1>4, <2>1, <2>2, <2>3, <2>4, <2>5 DEF StoreTypeOK
<1>6. PhaseInv
  BY DEF StoreInit, PhaseInv
<1>7. LegacyIsOld /\ AdminsSurvive
  BY <1>2, <1>3 DEF LegacyIsOld, AdminsSurvive
<1>8. WalInv
  BY <1>1, <1>4 DEF StoreInit, WalInv, NoStore, NoFile, Legacy, Foreign, Encrypted
<1>9. StateIsKept
  BY <1>2, <1>4, <1>8 DEF StateIsKept, WithWal, WalInv
<1> QED
  BY <1>5, <1>6, <1>7, <1>8, <1>9 DEF StoreInv

\* prune_expired_archives drops legacy archives only.
LEMMA PruneSparesEncrypted ==
    ASSUME NEW dirs, NEW a \in dirs, a.kind = "r26"
    PROVE  a \in Pruned(dirs)
BY DEF Pruned, Expired

\* A step that leaves the file and the archives of encrypted stores where they
\* are, whatever it does to the marker, the key or the phase: no archived store
\* comes to lack anything, and a reset between its two moves goes on or is severed.
LEMMA InPlaceKeepsStore ==
    ASSUME StoreInv, StoreTypeOK', PhaseInv', WalInv', UNCHANGED <<main, minted, held>>,
           admins \subseteq admins', severed \subseteq severed',
           split' \subseteq split \cup {main.id},
           \A a \in archive : a.kind = "r26" => a \in archive',
           \/ phase # "moved" \/ wal = NoStore
           \/ phase' = "moved" /\ wal' = wal
           \/ wal \in severed'
    PROVE  StoreInv'
<1>1. LegacyIsOld' /\ AdminsSurvive'
  BY DEF StoreInv, LegacyIsOld, AdminsSurvive
<1>2. StateIsKept'
  <2> SUFFICES ASSUME NEW i \in 1..minted,
                      ~(main.id = i /\ WithWal(i, wal)')
               PROVE  \E a \in archive' : /\ a.store = i /\ a.kind = "r26"
                                         /\ \/ WithWal(i, a.wal)'
                                            \/ phase' = "moved" /\ wal' = i
                                            \/ i \in severed'
    BY DEF StateIsKept, WithWal
  <2>1. main.id # i
    BY DEF WalInv, WithWal
  <2>2. PICK a \in archive : /\ a.store = i /\ a.kind = "r26"
                             /\ \/ WithWal(i, a.wal)
                                \/ phase = "moved" /\ wal = i
                                \/ i \in severed
    BY <2>1 DEF StoreInv, StateIsKept
  <2>3. NoStore # i
    BY StoreAssumption DEF StoreInv, StoreTypeOK, NoStore
  <2> QED
    BY <2>1, <2>2, <2>3 DEF WithWal
<1> QED
  BY <1>1, <1>2 DEF StoreInv

\* A step that leaves every file where it is.
LEMMA QuietKeepsStore ==
    ASSUME StoreInv, StoreTypeOK', PhaseInv', UNCHANGED <<main, logVars, minted, held, archive>>,
           admins \subseteq admins', phase # "moved",
           phase' \in {"open", "key"} => phase \in {"open", "key"} \/ main.kind # "none"
    PROVE  StoreInv'
<1>1. WalInv'
  BY DEF StoreInv, WalInv, logVars
<1> QED
  BY <1>1, InPlaceKeepsStore DEF logVars

\* The steps of startup, of the clock and of whoever tampers with the key, except
\* the ones that move the files.
LEMMA StoreStepInPlace ==
    ASSUME StoreInv,
           \/ Start \/ ClassifyMissing \/ ClassifyUsable \/ ClassifyFailClosed
           \/ MarkResetStart \/ (\E w \in Wires : RecordAdmins(w))
           \/ CompleteReset \/ LoadOrCreateKey \/ KeyFault \/ Tick
    PROVE  StoreInv'
<1> USE StoreAssumption
<1>0. StoreTypeOK /\ PhaseInv /\ WalInv
  BY DEF StoreInv
<1>1. CASE Start
  <2>1. /\ phase = "down" /\ phase' = "classify"
        /\ UNCHANGED <<main, logVars, key, minted, held, archive, marker, admins, kp,
                       today, crashes, faults>>
    BY <1>1 DEF Start
  <2>2. reset' \in BOOLEAN
    BY <1>1 DEF Start
  <2>3. StoreTypeOK' /\ PhaseInv'
    BY <1>0, <2>1, <2>2 DEF StoreTypeOK, PhaseInv, logVars
  <2> QED
    BY <2>1, <2>3, QuietKeepsStore
<1>2. CASE ClassifyMissing
  <2>1. /\ archive' \subseteq archive \cup {ArchiveDir("legacy", NoStore, wal)}
        /\ \A a \in archive : a.kind = "r26" => a \in archive'
    BY <1>2, PruneSparesEncrypted DEF ClassifyMissing, Pruned
  <2>2. ArchiveDir("legacy", NoStore, wal) \in
          [kind : {"legacy", "r26"}, stamp : 0..MaxDays, store : 0..NoStore, wal : 0..NoStore]
    BY <1>0 DEF ArchiveDir, NoStore, StoreTypeOK
  <2>3. /\ phase = "classify" /\ main.kind = "none" /\ phase' = "open" /\ wal' = NoStore
        /\ UNCHANGED <<main, split, severed, key, minted, held, marker, admins, kp, reset,
                       today, crashes, faults>>
    BY <1>2 DEF ClassifyMissing
  <2>4. NoStore \in 0..NoStore /\ main.id = NoStore /\ NoStore \notin split
    BY <1>0, <2>3, MainCases DEF NoStore, StoreTypeOK
  <2>5. StoreTypeOK' /\ PhaseInv'
    BY <1>0, <2>1, <2>2, <2>3, <2>4 DEF StoreTypeOK, PhaseInv
  <2>6. WalInv'
    BY <1>0, <2>3, <2>4 DEF WalInv
  <2> QED
    BY <2>1, <2>3, <2>5, <2>6, InPlaceKeepsStore
<1>3. CASE ClassifyUsable
  <2>1. archive' \subseteq archive /\ \A a \in archive : a.kind = "r26" => a \in archive'
    BY <1>3, PruneSparesEncrypted DEF ClassifyUsable, Pruned
  <2>2. /\ phase = "classify" /\ phase' = "open" /\ main.kind = "encrypted"
        /\ UNCHANGED <<main, severed, key, minted, held, marker, admins, kp, reset,
                       today, crashes, faults>>
    BY <1>3 DEF ClassifyUsable
  <2>3. /\ split' \subseteq split /\ wal' \in {wal, NoStore}
        /\ (wal' = wal /\ split' = split) \/ (wal' = NoStore /\ split' = split \ {wal})
    BY <1>3 DEF ClassifyUsable, KeepWal, FoldWal
  <2>4. StoreTypeOK' /\ PhaseInv'
    BY <1>0, <2>1, <2>2, <2>3 DEF StoreTypeOK, PhaseInv, NoStore
  <2>5. WalInv'
    BY <1>0, <2>2, <2>3 DEF WalInv
  <2> QED
    BY <2>1, <2>2, <2>3, <2>4, <2>5, InPlaceKeepsStore
<1>4. CASE ClassifyFailClosed
  <2>1. StoreTypeOK' /\ PhaseInv'
    BY <1>0, <1>4 DEF ClassifyFailClosed, StoreTypeOK, PhaseInv, logVars
  <2> QED
    BY <1>4, <2>1, QuietKeepsStore DEF ClassifyFailClosed
<1>5. CASE MarkResetStart
  <2>1. /\ phase = "classify" /\ phase' = "marked" /\ marker' = "started"
        /\ main.kind = "legacy" \/ (main.kind = "encrypted" /\ key # Unusable)
        /\ UNCHANGED <<main, severed, key, minted, held, archive, admins, kp, reset,
                       today, crashes, faults>>
    BY <1>5 DEF MarkResetStart
  <2>2. /\ split' \subseteq split /\ wal' \in {wal, NoStore}
        /\ (wal' = wal /\ split' = split) \/ (wal' = NoStore /\ split' = split \ {wal})
    BY <1>5 DEF MarkResetStart, KeepWal, FoldWal
  <2>3. StoreTypeOK' /\ PhaseInv'
    BY <1>0, <2>1, <2>2 DEF StoreTypeOK, PhaseInv, Unusable, NoStore
  <2>4. WalInv'
    BY <1>0, <2>1, <2>2 DEF WalInv
  <2> QED
    BY <2>1, <2>2, <2>3, <2>4, InPlaceKeepsStore
<1>6. ASSUME NEW w \in Wires, RecordAdmins(w) PROVE StoreInv'
  <2>1. w \in OldWires
    BY <1>6 DEF RecordAdmins, Harvested, StoreInv, LegacyIsOld
  <2>2. StoreTypeOK' /\ PhaseInv'
    BY <1>0, <1>6, <2>1 DEF RecordAdmins, StoreTypeOK, PhaseInv, Unusable, logVars
  <2> QED
    BY <1>6, <2>2, QuietKeepsStore DEF RecordAdmins
<1>7. CASE CompleteReset
  <2>1. archive' \subseteq archive /\ \A a \in archive : a.kind = "r26" => a \in archive'
    BY <1>7, PruneSparesEncrypted DEF CompleteReset, Pruned
  <2>2. StoreTypeOK' /\ PhaseInv' /\ WalInv'
    BY <1>0, <1>7, <2>1 DEF CompleteReset, StoreTypeOK, PhaseInv, WalInv, logVars
  <2> QED
    BY <1>7, <2>1, <2>2, InPlaceKeepsStore DEF CompleteReset, logVars
<1>8. CASE LoadOrCreateKey
  <2>1. /\ phase = "open" /\ (main.kind # "none" \/ minted < MaxStores)
        /\ UNCHANGED <<main, logVars, minted, held, archive, marker, admins, kp, reset,
                       today, crashes, faults>>
    BY <1>8 DEF LoadOrCreateKey
  <2>2. key \in 0..(MaxStores + 1) /\ minted \in 0..MaxStores /\ MaxStores \in Nat
    BY <1>0 DEF StoreTypeOK
  <2>3. main.kind \in {"none", "encrypted"} /\ (main.kind = "encrypted" => minted \in 1..MaxStores)
    BY <1>0, <2>1, <2>2, MainCases DEF PhaseInv
  <2>4. CASE key = Unusable
    <3>1. phase' = "unavailable" /\ key' = key
      BY <1>8, <2>4 DEF LoadOrCreateKey
    <3>2. StoreTypeOK' /\ PhaseInv'
      BY <1>0, <2>1, <3>1 DEF StoreTypeOK, PhaseInv, logVars
    <3> QED
      BY <2>1, <3>1, <3>2, QuietKeepsStore
  <2>5. CASE key # Unusable
    <3>1. phase' = "key" /\ key' = IF key = 0 THEN minted + 1 ELSE key
      BY <1>8, <2>5 DEF LoadOrCreateKey, NoKey
    <3>2. key' \in 0..(MaxStores + 1) /\ (main.kind = "none" => key' \in 1..MaxStores)
      BY <2>1, <2>2, <2>5, <3>1 DEF Unusable
    <3>3. StoreTypeOK'
      BY <1>0, <2>1, <3>1, <3>2 DEF StoreTypeOK, logVars
    <3>4. PhaseInv'
      BY <2>1, <2>3, <3>1, <3>2 DEF PhaseInv
    <3> QED
      BY <2>1, <3>1, <3>3, <3>4, QuietKeepsStore
  <2> QED
    BY <2>4, <2>5
<1>9. CASE KeyFault
  <2>1. StoreTypeOK' /\ PhaseInv'
    BY <1>0, <1>9 DEF KeyFault, StoreTypeOK, PhaseInv, Unusable, logVars
  <2> QED
    BY <1>9, <2>1, QuietKeepsStore DEF KeyFault
<1>10. CASE Tick
  <2>1. StoreTypeOK' /\ PhaseInv'
    BY <1>0, <1>10 DEF Tick, StoreTypeOK, PhaseInv, logVars
  <2> QED
    BY <1>10, <2>1, QuietKeepsStore DEF Tick
<1> QED
  BY <1>1, <1>2, <1>3, <1>4, <1>5, <1>6, <1>7, <1>8, <1>9, <1>10

\* remove_or_archive: an encrypted store goes to an archive, a legacy one only
\* once its admins are in agent.db.  What the -wal has is still at the live path.
LEMMA MoveMainKeepsStore == StoreInv /\ MoveMain => StoreInv'
<1> SUFFICES ASSUME StoreInv, MoveMain PROVE StoreInv'
  OBVIOUS
<1> USE StoreAssumption
<1>0. /\ StoreTypeOK /\ PhaseInv /\ WalInv /\ phase = "marked" /\ phase' = "moved"
      /\ main' = NoFile
      /\ UNCHANGED <<wal, split, severed, key, minted, held, marker, admins, kp, reset,
                     today, crashes, faults>>
  BY DEF StoreInv, MoveMain, logVars
<1>1. main.kind \in {"legacy", "encrypted"} /\ NoFile.kind = "none" /\ NoFile.id = MaxStores + 1
  BY <1>0 DEF PhaseInv, NoFile, NoStore
<1> DEFINE kind == IF main.kind = "legacy" THEN "legacy" ELSE "r26"
           dir == ArchiveDir(kind, main.id, NoStore)
<1>2. archive' = IF Archived(kind) THEN archive \cup {dir} ELSE archive
  BY DEF MoveMain
<1>3. /\ dir \in [kind : {"legacy", "r26"}, stamp : 0..MaxDays, store : 0..NoStore, wal : 0..NoStore]
      /\ dir.store = main.id /\ dir.kind = kind /\ dir.wal = NoStore
  <2>1. main.id \in 0..(MaxStores + 1) /\ today \in 0..MaxDays
    BY <1>0, MainCases DEF StoreTypeOK
  <2> QED
    BY <2>1 DEF ArchiveDir, NoStore
<1>4. StoreTypeOK'
  BY <1>0, <1>2, <1>3 DEF StoreTypeOK
<1>5. PhaseInv'
  BY <1>0, <1>1 DEF PhaseInv
<1>6. WalInv'
  BY <1>0, <1>1 DEF WalInv, StoreTypeOK
<1>7. LegacyIsOld' /\ AdminsSurvive'
  BY <1>0 DEF StoreInv, LegacyIsOld, AdminsSurvive, MoveMain, Harvested
<1>8. StateIsKept'
  <2> SUFFICES ASSUME NEW i \in 1..minted
               PROVE  \E a \in archive' : /\ a.store = i /\ a.kind = "r26"
                                          /\ \/ WithWal(i, a.wal) \/ wal = i \/ i \in severed
    BY <1>0 DEF StateIsKept, WithWal
  <2>1. CASE main.id = i
    <3>1. kind = "r26" /\ dir \in archive'
      BY <1>0, <1>2, <2>1, MainCases DEF Archived
    <3>2. WithWal(i, NoStore) \/ wal = i
      BY <1>0, <2>1 DEF WalInv, WithWal
    <3> QED
      BY <1>3, <2>1, <3>1, <3>2
  <2>2. CASE main.id # i
    BY <1>0, <1>2, <2>2 DEF StoreInv, StateIsKept
  <2> QED
    BY <2>1, <2>2
<1> QED
  BY <1>4, <1>5, <1>6, <1>7, <1>8 DEF StoreInv

\* remove_or_archive, the second half: the -wal joins the main file it belongs to.
LEMMA MoveSidecarsKeepsStore == StoreInv /\ MoveSidecars => StoreInv'
<1> SUFFICES ASSUME StoreInv, MoveSidecars PROVE StoreInv'
  OBVIOUS
<1> USE StoreAssumption
<1>0. /\ StoreTypeOK /\ PhaseInv /\ WalInv /\ phase = "moved" /\ main.kind = "none"
      /\ wal # NoStore /\ wal' = NoStore
      /\ UNCHANGED <<main, split, severed, key, minted, held, marker, admins, kp, reset,
                     phase, today, crashes, faults>>
  BY DEF StoreInv, MoveSidecars, PhaseInv
<1> DEFINE Whole(a) == IF a.store = wal THEN [a EXCEPT !.wal = wal] ELSE a
           Dirs == [kind : {"legacy", "r26"}, stamp : 0..MaxDays, store : 0..NoStore, wal : 0..NoStore]
<1>1. archive' = {Whole(a) : a \in archive} /\ archive \subseteq Dirs
  BY <1>0 DEF MoveSidecars, StoreTypeOK
<1>2. main.id = NoStore /\ NoStore = MaxStores + 1 /\ NoStore \notin split
  BY <1>0, MainCases DEF StoreTypeOK, NoStore
<1>3. \A a \in archive : /\ Whole(a) \in Dirs
                         /\ Whole(a).store = a.store /\ Whole(a).kind = a.kind
                         /\ Whole(a).wal = IF a.store = wal THEN wal ELSE a.wal
  BY <1>0, <1>1 DEF StoreTypeOK
<1>4. StoreTypeOK'
  <2>1. archive' \subseteq Dirs /\ wal' \in 0..NoStore
    BY <1>0, <1>1, <1>2, <1>3
  <2> QED
    BY <1>0, <2>1 DEF StoreTypeOK
<1>5. PhaseInv' /\ WalInv'
  BY <1>0, <1>2 DEF PhaseInv, WalInv, StoreTypeOK
<1>6. LegacyIsOld' /\ AdminsSurvive'
  BY <1>0 DEF StoreInv, LegacyIsOld, AdminsSurvive
<1>7. StateIsKept'
  <2> SUFFICES ASSUME NEW i \in 1..minted
               PROVE  \E d \in archive' : /\ d.store = i /\ d.kind = "r26"
                                          /\ WithWal(i, d.wal) \/ i \in severed
    BY <1>0 DEF StateIsKept, WithWal
  <2>1. main.id # i
    BY <1>0, <1>2 DEF StoreTypeOK
  <2>2. PICK a \in archive : /\ a.store = i /\ a.kind = "r26"
                             /\ WithWal(i, a.wal) \/ wal = i \/ i \in severed
    BY <2>1 DEF StoreInv, StateIsKept
  <2>3. Whole(a) \in archive' /\ (WithWal(i, Whole(a).wal) \/ i \in severed)
    BY <1>1, <1>3, <2>2 DEF WithWal
  <2> QED
    BY <1>3, <2>2, <2>3
<1> QED
  BY <1>4, <1>5, <1>6, <1>7 DEF StoreInv

\* new_with_key opens the store at the path or creates the next one; the store
\* before it, if any, is in an archive by then.
LEMMA OpenKeepsStore == StoreInv /\ OpenStore => StoreInv'
<1> SUFFICES ASSUME StoreInv, OpenStore PROVE StoreInv'
  OBVIOUS
<1> USE StoreAssumption
<1>0. /\ StoreTypeOK /\ PhaseInv /\ WalInv /\ phase = "key"
      /\ phase' \in {"publish", "reconcile"}
      /\ UNCHANGED <<wal, split, severed, key, held, archive, marker, admins, kp, reset,
                     today, crashes, faults>>
  BY DEF StoreInv, OpenStore, logVars
<1>1. CASE main.kind = "none"
  <2>1. /\ minted \in 0..MaxStores /\ minted < MaxStores /\ key \in 1..MaxStores
        /\ main' = Encrypted(minted + 1, key) /\ minted' = minted + 1
    BY <1>0, <1>1 DEF OpenStore, PhaseInv, StoreTypeOK
  <2>2. main'.kind = "encrypted" /\ main'.id = minted + 1
    BY <2>1 DEF Encrypted
  <2>3. StoreTypeOK'
    <3>1. main' \in {Encrypted(i, k) : i \in 1..minted', k \in 1..MaxStores}
      BY <2>1
    <3>2. minted' \in 0..MaxStores
      BY <2>1
    <3> QED
      BY <1>0, <3>1, <3>2 DEF StoreTypeOK
  <2>4. PhaseInv'
    BY <1>0, <2>2 DEF PhaseInv
  <2>5. LegacyIsOld' /\ AdminsSurvive'
    BY <1>0, <1>1 DEF StoreInv, LegacyIsOld, AdminsSurvive
  <2>6. WalInv' /\ minted + 1 \notin split
    BY <1>0, <1>1, <2>1, <2>2 DEF WalInv
  <2>7. StateIsKept'
    <3> SUFFICES ASSUME NEW i \in 1..(minted + 1), i # minted + 1
                 PROVE  \E a \in archive : /\ a.store = i /\ a.kind = "r26"
                                           /\ WithWal(i, a.wal) \/ i \in severed
      BY <1>0, <2>1, <2>2, <2>6 DEF StateIsKept, WithWal
    <3>1. i \in 1..minted /\ main.id # i
      BY <1>0, <1>1, <2>1, MainCases
    <3> QED
      BY <1>0, <3>1 DEF StoreInv, StateIsKept
  <2> QED
    BY <2>3, <2>4, <2>5, <2>6, <2>7 DEF StoreInv
<1>2. CASE main.kind # "none"
  <2>1. UNCHANGED <<main, minted>>
    BY <1>2 DEF OpenStore
  <2>2. StoreTypeOK' /\ PhaseInv'
    BY <1>0, <1>2, <2>1 DEF StoreTypeOK, PhaseInv
  <2> QED
    BY <1>0, <2>1, <2>2, QuietKeepsStore DEF logVars
<1> QED
  BY <1>1, <1>2

\* A KeyPackage on the relays and the end of the process change no store; one that
\* was open may have its last commits in its -wal, and a reset that is cut between
\* its two moves has severed its store.
LEMMA RepublishOrCrashKeepsStore == StoreInv /\ (RepublishKeyPackage \/ Crash) => StoreInv'
<1> SUFFICES ASSUME StoreInv, RepublishKeyPackage \/ Crash PROVE StoreInv'
  OBVIOUS
<1> USE StoreAssumption
<1>0. StoreTypeOK /\ PhaseInv /\ WalInv
  BY DEF StoreInv
<1>1. CASE RepublishKeyPackage
  <2>1. main.id \in 0..MaxStores
    BY <1>0, <1>1, MainCases DEF RepublishKeyPackage, PhaseInv, StoreTypeOK
  <2>2. StoreTypeOK' /\ PhaseInv'
    BY <1>0, <1>1, <2>1 DEF RepublishKeyPackage, StoreTypeOK, PhaseInv, logVars
  <2> QED
    BY <1>1, <2>2, QuietKeepsStore DEF RepublishKeyPackage
<1>2. CASE Crash
  <2>1. /\ phase' = "down" /\ crashes < MaxCrashes /\ crashes' = crashes + 1
        /\ severed' = IF phase = "moved" THEN severed \cup ({wal} \ {NoStore}) ELSE severed
        /\ UNCHANGED <<main, key, minted, held, archive, marker, admins, kp, reset, today, faults>>
    BY <1>2 DEF Crash
  <2>2. severed' \subseteq 0..MaxStores
    BY <1>0, <2>1 DEF StoreTypeOK, NoStore
  <2>3. EngineOpen => main.kind = "encrypted" /\ main.id \in 1..minted
    BY <1>0, MainCases DEF EngineOpen, PhaseInv
  <2>4. \/ wal' = wal /\ split' = split
        \/ main.kind = "encrypted" /\ wal' = NoStore /\ split' = split \ {wal}
        \/ main.id \in 1..minted /\ wal' = main.id /\ split' = split \cup {main.id}
    BY <1>2, <2>3 DEF Crash, KeepWal, FoldWal
  <2>5. StoreTypeOK'
    <3>1. /\ wal \in 0..(MaxStores + 1) /\ split \subseteq 0..MaxStores
          /\ minted \in 0..MaxStores /\ NoStore = MaxStores + 1
      BY <1>0 DEF StoreTypeOK, NoStore
    <3>2. wal' \in 0..(MaxStores + 1)
      BY <2>4, <3>1
    <3>3. \A i \in split' : i \in split \/ i \in 1..minted
      BY <2>4
    <3>4. ASSUME NEW i \in split' PROVE i \in 0..MaxStores
      <4>1. CASE i \in split
        BY <3>1, <4>1
      <4>2. CASE i \in 1..minted
        BY <3>1, <4>2
      <4> QED
        BY <3>3, <4>1, <4>2
    <3> QED
      BY <1>0, <2>1, <2>2, <3>1, <3>2, <3>4 DEF StoreTypeOK
  <2>6. PhaseInv'
    BY <1>0, <2>1 DEF PhaseInv
  <2>7. WalInv'
    <3>1. minted \in Nat /\ main' = main /\ minted' = minted /\ phase' = "down"
      BY <1>0, <2>1 DEF StoreTypeOK
    <3>2. CASE wal' = wal /\ split' = split
      BY <1>0, <3>1, <3>2 DEF WalInv
    <3>3. CASE main.kind = "encrypted" /\ wal' = NoStore /\ split' = split \ {wal}
      BY <1>0, <3>1, <3>3 DEF WalInv
    <3>4. CASE main.id \in 1..minted /\ wal' = main.id /\ split' = split \cup {main.id}
      <4>1. \A i \in split' : i \in 0..minted
        BY <1>0, <3>1, <3>4 DEF WalInv
      <4> QED
        BY <3>1, <3>4, <4>1 DEF WalInv
    <3> QED
      BY <2>4, <3>2, <3>3, <3>4
  <2>8. split' \subseteq split \cup {main.id}
    BY <2>4
  <2> QED
    BY <2>1, <2>5, <2>6, <2>7, <2>8, InPlaceKeepsStore
<1> QED
  BY <1>1, <1>2

\* What a bot that serves writes to its engine goes to the encrypted store it
\* has open, never to the legacy one.
LEMMA EngineKeepsStore ==
    ASSUME StoreInv, phase = "serving", NEW ws \in SUBSET Wires, SetLive(ws),
           UNCHANGED storeButHeld
    PROVE  StoreInv'
<1>1. main.id \in 1..MaxStores
  BY MainCases, StoreAssumption DEF StoreInv, PhaseInv, StoreTypeOK
<1>2. held' \in [0..MaxStores -> SUBSET Wires] /\ held'[0] = held[0]
  BY <1>1, StoreAssumption DEF SetLive, StoreInv, StoreTypeOK
<1>3. StoreTypeOK' /\ PhaseInv' /\ WalInv' /\ StateIsKept'
  BY <1>2 DEF storeButHeld, logVars, StoreInv, StoreTypeOK, PhaseInv, WalInv, StateIsKept, WithWal
<1>4. LegacyIsOld' /\ AdminsSurvive'
  BY <1>2 DEF storeButHeld, StoreInv, LegacyIsOld, AdminsSurvive
<1> QED
  BY <1>3, <1>4 DEF StoreInv

\* The end of reconciliation, either way.
LEMMA PhaseKeepsStore ==
    ASSUME StoreInv, phase = "reconcile", phase' \in {"serving", "unavailable"},
           UNCHANGED <<main, logVars, key, minted, held, archive, marker, admins, kp,
                       reset, today, crashes, faults>>
    PROVE  StoreInv'
<1>1. StoreTypeOK' /\ PhaseInv'
  BY DEF StoreInv, StoreTypeOK, PhaseInv, logVars
<1> QED
  BY <1>1, QuietKeepsStore

-----------------------------------------------------------------------------
\* Rows, requests and the open engine

\* A row is a record of agent.db, and writing one makes one.
LEMMA RowFacts ==
    ASSUME GroupTyped
    PROVE  /\ Rows \subseteq Wires
           /\ \A w \in Rows : rows[w] \in RowRecords
           /\ \A w \in Wires : w \in Rows \/ rows[w] = NoRow
           /\ NoRow \notin RowRecords
<1>1. NoRow \notin RowRecords
  BY GroupAssumption DEF NoRow, RowRecords
<1> QED
  BY <1>1 DEF Rows, GroupTyped

\* What a request carries, by the step it is at.
LEMMA RequestFacts ==
    ASSUME GroupTyped
    PROVE  /\ rpc.op \in {"idle", "create", "welcome", "add", "send", "failed", "invited", "delete"}
           /\ rpc.op = "idle" <=> rpc = Idle
           /\ rpc.op \in {"create", "welcome"} => rpc.name \in Names /\ rpc.peer \in Peers
           /\ rpc.op \in {"welcome", "add", "send", "failed", "invited", "delete"} => rpc.wire \in Wires
           /\ rpc.op \in {"add", "send", "failed", "invited"} =>
                 rpc.peer \in Peers
                 /\ rpc \in [op : {"add", "send", "failed", "invited"}, wire : Wires, peer : Peers]
<1>1. CASE rpc = Idle
  BY <1>1 DEF Idle
<1>2. CASE rpc \in [op : {"create"}, name : Names, peer : Peers]
  BY <1>2 DEF Idle
<1>3. CASE rpc \in [op : {"welcome"}, wire : Wires, name : Names, peer : Peers]
  BY <1>3 DEF Idle
<1>4. CASE rpc \in [op : {"add", "send", "failed", "invited"}, wire : Wires, peer : Peers]
  BY <1>4 DEF Idle
<1>5. CASE rpc \in [op : {"delete"}, wire : Wires]
  BY <1>5 DEF Idle
<1> QED
  BY <1>1, <1>2, <1>3, <1>4, <1>5 DEF GroupTyped, Requests

\* A bot that serves has an engine, and its groups are groups.
LEMMA LiveFacts ==
    ASSUME StoreInv, phase = "serving"
    PROVE  /\ main.id \in 1..MaxStores /\ Live \subseteq Wires
           /\ \A ws : SetLive(ws) /\ main' = main => Live' = ws
<1>1. main.id \in 1..MaxStores
  BY MainCases, StoreAssumption DEF StoreInv, PhaseInv, StoreTypeOK
<1> QED
  BY <1>1, StoreAssumption DEF StoreInv, StoreTypeOK, Live, SetLive

\* The rows of agent.db as the first startup finds them: of the groups in the
\* store, with the members they have.
LEMMA InitGroups == Init => GroupInv
<1> SUFFICES ASSUME Init PROVE GroupInv
  OBVIOUS
<1> USE GroupAssumption, StoreAssumption
<1>1. /\ names = [w \in Wires |-> CHOOSE n \in Names : TRUE]
      /\ members = [w \in Wires |-> IF w \in OldWires THEN Peers ELSE {}]
      /\ rows = [w \in Wires |-> IF w \in OldWires /\ main.kind \in {"legacy", "encrypted"}
                                   THEN Row(names[w], Peers) ELSE NoRow]
      /\ rpc = Idle /\ inbox = {} /\ events = {} /\ pending = {} /\ left = {} /\ torn = {}
      /\ departed = {} /\ phase = "down"
  BY DEF Init, StoreInit, GroupInit
<1>2. names \in [Wires -> Names] /\ members \in [Wires -> SUBSET Peers]
  BY <1>1
<1>3. rows \in [Wires -> {NoRow} \cup RowRecords]
  <2>1. \A w \in Wires : Row(names[w], Peers) \in RowRecords
    BY <1>2 DEF Row, RowRecords
  <2> QED
    BY <1>1, <2>1
<1>4. GroupTyped
  BY <1>1, <1>2, <1>3 DEF GroupTyped, Requests
<1>5. WhileServing
  BY <1>1 DEF WhileServing
<1>6. \A w \in Rows : rows[w].invited = Peers /\ rows[w].lost = FALSE /\ members[w] = Peers
  BY <1>1 DEF Rows, Row
<1>7. rpc.op = "idle"
  BY <1>1 DEF Idle
<1>8. InvitedInv
  BY <1>6, <1>7 DEF InvitedInv, Joined, InFlight
<1>9. LostInv
  BY <1>1, <1>6, <1>7 DEF LostInv, LostIffReset
<1> QED
  BY <1>4, <1>5, <1>8, <1>9 DEF GroupInv

\* A step outside of serving that leaves rows, requests and Welcomes alone.
LEMMA OffstageKeepsGroups ==
    ASSUME GroupInv, phase # "serving", phase' # "serving",
           marker # "none" => marker' # "none", pending' \subseteq Wires,
           UNCHANGED <<rows, names, members, rpc, inbox, events, left, torn, departed>>
    PROVE  GroupInv'
<1>1. GroupTyped' /\ WhileServing'
  BY DEF GroupInv, GroupTyped, WhileServing
<1>2. Rows' = Rows /\ \A w : InFlight(w)' = InFlight(w)
  BY DEF Rows, InFlight
<1>3. InvitedInv'
  BY <1>2 DEF GroupInv, InvitedInv, Joined
<1>4. rpc.op = "idle" /\ events = {}
  BY RequestFacts DEF GroupInv, WhileServing
<1>5. LostInv'
  BY <1>2, <1>4 DEF GroupInv, LostInv, LostIffReset
<1> QED
  BY <1>1, <1>3, <1>5 DEF GroupInv

\* Startup is no service, and no step of it forgets a reset.
LEMMA StoreStepOffstage ==
    ASSUME StoreStep \/ OpenStore \/ RepublishKeyPackage
    PROVE  phase # "serving" /\ phase' # "serving" /\ (marker # "none" => marker' # "none")
BY DEF StoreStep, Start, ClassifyMissing, ClassifyUsable, ClassifyFailClosed, MarkResetStart,
       RecordAdmins, MoveMain, MoveSidecars, CompleteReset, LoadOrCreateKey, KeyFault, Tick,
       OpenStore, RepublishKeyPackage

\* Startup up to the end of the open, seen from the groups.
LEMMA StartupKeepsGroups ==
    ASSUME StoreInv', GroupInv,
           \/ StoreStep /\ UNCHANGED groupVars
           \/ Open
           \/ RepublishKeyPackage /\ UNCHANGED groupVars
    PROVE  GroupInv'
<1>1. pending' \subseteq Wires
  <2>1. CASE Open
    <3>1. main'.kind = "encrypted" => main'.id \in 1..MaxStores
      BY StoreAssumption DEF StoreInv, StoreTypeOK, NoFile, Legacy, Foreign, Encrypted
    <3>2. held' = held /\ held' \in [0..MaxStores -> SUBSET Wires]
      BY <2>1 DEF Open, OpenStore, StoreInv, StoreTypeOK
    <3> QED
      BY <2>1, <3>1, <3>2, StoreAssumption DEF Open
  <2>2. CASE UNCHANGED groupVars
    BY <2>2 DEF groupVars, GroupInv, GroupTyped
  <2> QED
    BY <2>1, <2>2
<1>2. UNCHANGED <<rows, names, members, rpc, inbox, events, left, torn, departed>>
  BY DEF Open, groupVars
<1>3. phase # "serving" /\ phase' # "serving" /\ (marker # "none" => marker' # "none")
  BY StoreStepOffstage DEF Open
<1> QED
  BY <1>1, <1>2, <1>3, OffstageKeepsGroups

-----------------------------------------------------------------------------
\* Reconciliation

\* A write of one row of agent.db.
LEMMA RowUpdate ==
    ASSUME GroupTyped, NEW w \in Wires, NEW r \in RowRecords, rows' = [rows EXCEPT ![w] = r]
    PROVE  /\ rows' \in [Wires -> {NoRow} \cup RowRecords]
           /\ Rows' = Rows \cup {w} /\ rows'[w] = r
           /\ \A u \in Wires \ {w} : rows'[u] = rows[u]
<1>1. /\ rows' \in [Wires -> {NoRow} \cup RowRecords] /\ rows'[w] = r
      /\ \A u \in Wires \ {w} : rows'[u] = rows[u]
  BY DEF GroupTyped
<1>2. Rows' = Rows \cup {w}
  BY <1>1, RowFacts DEF Rows
<1> QED
  BY <1>1, <1>2

\* reconcile_mls_groups, one group of the engine: its row keeps its members and
\* its mark, a new row has the members the engine lists.
LEMMA ReconcileKeepsGroups ==
    ASSUME GroupInv, NEW w \in Wires, ReconcileGroup(w)
    PROVE  GroupInv'
<1> DEFINE r == IF w \in Rows THEN [rows[w] EXCEPT !.name = names[w]]
                              ELSE Row(names[w], members[w])
<1>0. /\ phase = "reconcile" /\ rows' = [rows EXCEPT ![w] = r] /\ pending' = pending \ {w}
      /\ UNCHANGED <<storeVars, names, members, rpc, inbox, events, left, torn, departed>>
  BY DEF ReconcileGroup, UpsertFromReconciliation, GroupInv, GroupTyped
<1>1. GroupTyped /\ names[w] \in Names /\ members[w] \in SUBSET Peers
  BY DEF GroupInv, GroupTyped
<1>2. r \in RowRecords /\ \/ w \in Rows /\ r.invited = rows[w].invited /\ r.lost = rows[w].lost
                          \/ r.invited = members[w] /\ r.lost = FALSE
  <2>1. CASE w \in Rows
    BY <1>1, <2>1, RowFacts DEF RowRecords
  <2>2. CASE w \notin Rows
    BY <1>1, <2>2 DEF Row, RowRecords
  <2> QED
    BY <2>1, <2>2
<1> HIDE DEF r
<1>3. /\ rows' \in [Wires -> {NoRow} \cup RowRecords] /\ Rows' = Rows \cup {w}
      /\ rows'[w] = r /\ \A u \in Wires \ {w} : rows'[u] = rows[u]
  BY <1>0, <1>1, <1>2, RowUpdate
<1>4. rpc = Idle /\ rpc.op = "idle" /\ events = {} /\ phase' = phase /\ marker' = marker
  BY <1>0, <1>1, RequestFacts DEF GroupInv, WhileServing, storeVars
<1>5. GroupTyped'
  BY <1>0, <1>1, <1>3 DEF GroupTyped
<1>6. WhileServing'
  BY <1>0, <1>4 DEF WhileServing
<1>7. InvitedInv'
  BY <1>0, <1>1, <1>2, <1>3, <1>4, RowFacts DEF GroupInv, InvitedInv, Joined, InFlight
<1>8. LostInv'
  BY <1>0, <1>1, <1>2, <1>3, <1>4, RowFacts DEF GroupInv, LostInv, LostIffReset
<1> QED
  BY <1>5, <1>6, <1>7, <1>8 DEF GroupInv

\* mark_state_lost, of a bot whose store was reset.
LEMMA MarkKeepsGroups ==
    ASSUME GroupInv, NEW w \in Wires, MarkStateLost(w)
    PROVE  GroupInv'
<1> DEFINE r == [rows[w] EXCEPT !.lost = TRUE]
<1>0. /\ phase = "reconcile" /\ rows' = [rows EXCEPT ![w] = r] /\ w \in Rows
      /\ marker = "completed"
      /\ UNCHANGED <<storeVars, names, members, rpc, inbox, events, pending, left, torn, departed>>
  BY DEF MarkStateLost, Missing, HasCompletedReset, GroupInv, GroupTyped
<1>1. GroupTyped
  BY DEF GroupInv
<1>2. r \in RowRecords /\ r.invited = rows[w].invited
  BY <1>0, <1>1, RowFacts DEF RowRecords
<1> HIDE DEF r
<1>3. /\ rows' \in [Wires -> {NoRow} \cup RowRecords] /\ Rows' = Rows \cup {w}
      /\ rows'[w] = r /\ \A u \in Wires \ {w} : rows'[u] = rows[u]
  BY <1>0, <1>1, <1>2, RowUpdate
<1>4. rpc = Idle /\ rpc.op = "idle" /\ events = {} /\ phase' = phase /\ marker' = marker
  BY <1>0, <1>1, RequestFacts DEF GroupInv, WhileServing, storeVars
<1>5. GroupTyped' /\ WhileServing'
  BY <1>0, <1>1, <1>3, <1>4 DEF GroupTyped, WhileServing
<1>6. InvitedInv'
  BY <1>0, <1>1, <1>2, <1>3, <1>4, RowFacts DEF GroupInv, InvitedInv, Joined, InFlight
<1>7. LostInv'
  BY <1>0, <1>4 DEF LostInv, LostIffReset
<1> QED
  BY <1>5, <1>6, <1>7 DEF GroupInv

\* The bot goes into service when no row is left to mark.
LEMMA ServeKeepsGroups == GroupInv /\ Serve => GroupInv'
<1> SUFFICES ASSUME GroupInv, Serve PROVE GroupInv'
  OBVIOUS
<1>0. /\ phase = "reconcile" /\ Missing = {} /\ phase' = "serving"
      /\ UNCHANGED <<main, held, marker, rows, names, members, rpc, inbox, events, pending, left,
                     torn, departed>>
  BY DEF Serve, groupVars
<1>1. GroupTyped' /\ WhileServing'
  BY <1>0 DEF GroupInv, GroupTyped, WhileServing
<1>2. /\ Rows' = Rows /\ Live' = Live /\ Reachable' = Reachable
      /\ \A w : InFlight(w)' = InFlight(w)
  BY <1>0 DEF Rows, Live, Reachable, InFlight
<1>3. InvitedInv'
  BY <1>0, <1>2 DEF GroupInv, InvitedInv, Joined
<1>4. LostInv'
  BY <1>0, <1>2 DEF GroupInv, LostInv, LostIffReset, Missing, HasCompletedReset
<1> QED
  BY <1>1, <1>3, <1>4 DEF GroupInv

-----------------------------------------------------------------------------
\* Requests

\* A request is under way only in a bot that serves.
LEMMA RequestServes == ASSUME GroupInv, rpc.op # "idle" PROVE phase = "serving"
BY RequestFacts DEF GroupInv, WhileServing

\* A step of a request that touches neither rows nor engine: the request goes on
\* to a step at which no member is half invited and no row is due.
LEMMA RequestMovesOn ==
    ASSUME GroupInv, phase = "serving", rpc' \in Requests,
           rpc'.op \notin {"welcome", "add", "failed"},
           \A w \in Rows : InFlight(w) = {},
           UNCHANGED <<storeVars, rows, names, members, inbox, events, pending, left, torn,
                       departed>>
    PROVE  GroupInv'
<1>1. GroupTyped' /\ WhileServing'
  BY DEF GroupInv, GroupTyped, WhileServing, storeVars
<1>2. Rows' = Rows /\ Live' = Live /\ Reachable' = Reachable
  BY DEF Rows, Live, Reachable, storeVars
<1>3. InvitedInv'
  BY <1>2 DEF GroupInv, InvitedInv, Joined, InFlight
<1>4. LostInv'
  BY <1>2 DEF GroupInv, LostInv, LostIffReset, storeVars
<1> QED
  BY <1>1, <1>3, <1>4 DEF GroupInv

\* do_create_group begins.
LEMMA CreateKeepsGroups ==
    ASSUME GroupInv, NEW n \in Names, NEW p \in Peers, Create(n, p)
    PROVE  GroupInv'
<1>1. rpc' \in Requests /\ rpc'.op = "create"
  BY DEF Create, Requests
<1>2. \A w \in Rows : InFlight(w) = {}
  BY DEF Create, InFlight, Idle
<1> QED
  BY <1>1, <1>2, RequestMovesOn DEF Create

\* The engine has the new group, whose wire id nobody has seen before.
LEMMA CreateInEngineKeepsGroups ==
    ASSUME StoreInv, GroupInv, NEW w \in Wires, CreateInEngine(w)
    PROVE  GroupInv'
<1>0. /\ rpc.op = "create" /\ w \notin Rows /\ w \notin left
      /\ SetLive(Live \cup {w}) /\ names' = [names EXCEPT ![w] = rpc.name]
      /\ members' = [members EXCEPT ![w] = {rpc.peer}]
      /\ rpc' = [op |-> "welcome", wire |-> w, name |-> rpc.name, peer |-> rpc.peer]
      /\ UNCHANGED <<main, marker, phase, rows, inbox, events, pending, left, torn, departed>>
  BY DEF CreateInEngine, Known, storeButHeld
<1>1. GroupTyped /\ phase = "serving" /\ rpc.name \in Names /\ rpc.peer \in Peers
  BY <1>0, RequestServes, RequestFacts DEF GroupInv
<1>2. Live' = Live \cup {w} /\ Rows' = Rows
  BY <1>0, <1>1, LiveFacts DEF Rows
<1>3. rpc' \in Requests /\ rpc'.op = "welcome" /\ rpc'.wire = w /\ rpc'.peer = rpc.peer
  BY <1>0, <1>1 DEF Requests
<1>4. members' \in [Wires -> SUBSET Peers] /\ names' \in [Wires -> Names]
      /\ members'[w] = {rpc.peer} /\ \A u \in Rows : members'[u] = members[u]
  BY <1>0, <1>1, RowFacts DEF GroupTyped
<1>5. GroupTyped' /\ WhileServing'
  BY <1>0, <1>1, <1>3, <1>4 DEF GroupInv, GroupTyped, WhileServing
<1>6. InvitedInv'
  BY <1>0, <1>2, <1>3, <1>4 DEF GroupInv, InvitedInv, Joined, InFlight
<1>7. LostInv'
  BY <1>0, <1>2, <1>3 DEF GroupInv, LostInv, LostIffReset, Reachable
<1> QED
  BY <1>5, <1>6, <1>7 DEF GroupInv

\* insert_mls_group, or the error that the name is taken.
LEMMA CreateRowKeepsGroups ==
    ASSUME GroupInv, CreateRow
    PROVE  GroupInv'
<1> DEFINE w == rpc.wire
           r == Row(rpc.name, {rpc.peer})
<1>0. /\ rpc.op = "welcome" /\ rpc' = Idle
      /\ rows' = rows \/ rows' = [rows EXCEPT ![w] = r]
      /\ UNCHANGED <<storeVars, names, members, inbox, events, pending, left, torn, departed>>
  BY DEF CreateRow, InsertMlsGroup
<1>1. /\ GroupTyped /\ phase = "serving" /\ w \in Wires
      /\ rpc.name \in Names /\ rpc.peer \in Peers
  BY <1>0, RequestServes, RequestFacts DEF GroupInv
<1>2. r \in RowRecords /\ r.invited = {rpc.peer} /\ r.lost = FALSE
  BY <1>1 DEF Row, RowRecords
<1>3. \A u \in Rows : InFlight(u) = {}
  BY <1>0 DEF InFlight
<1>4. rpc' \in Requests /\ rpc'.op = "idle"
  BY <1>0 DEF Requests, Idle
<1>5. w \in Reachable /\ rpc.peer \in Joined(w)
  BY <1>0 DEF GroupInv, LostInv, InvitedInv
<1> HIDE DEF r, w
<1>6. CASE rows' = rows
  BY <1>0, <1>1, <1>3, <1>4, <1>6, RequestMovesOn
<1>7. CASE rows' = [rows EXCEPT ![w] = r]
  <2>1. /\ rows' \in [Wires -> {NoRow} \cup RowRecords] /\ Rows' = Rows \cup {w}
        /\ rows'[w] = r /\ \A u \in Wires \ {w} : rows'[u] = rows[u]
    BY <1>1, <1>2, <1>7, RowUpdate
  <2>2. Live' = Live /\ Reachable' = Reachable /\ phase' = phase /\ marker' = marker
    BY <1>0 DEF Live, Reachable, storeVars
  <2>3. GroupTyped' /\ WhileServing'
    BY <1>0, <1>1, <1>4, <2>1, <2>2 DEF GroupInv, GroupTyped, WhileServing
  <2>4. InvitedInv'
    BY <1>0, <1>1, <1>2, <1>3, <1>4, <1>5, <2>1, RowFacts DEF GroupInv, InvitedInv, Joined, InFlight
  <2>5. LostInv'
    BY <1>0, <1>1, <1>2, <1>4, <1>5, <2>1, <2>2, RowFacts
       DEF GroupInv, LostInv, LostIffReset, Reachable
  <2> QED
    BY <2>3, <2>4, <2>5 DEF GroupInv
<1> QED
  BY <1>0, <1>6, <1>7

\* A request writes the members of a row that exists, and goes on: what it has
\* written is covered by the members, by the invite under way, or was torn before.
LEMMA RowMembersKeepGroups ==
    ASSUME GroupInv, phase = "serving", NEW w \in Rows, NEW ms \in SUBSET Peers,
           rows' = [rows EXCEPT ![w].invited = ms],
           rpc' \in Requests, rpc'.op # "welcome",
           w \in torn \/ ms \ InFlight(w)' \subseteq Joined(w),
           \A u \in Rows \ {w} : InFlight(u) = {},
           UNCHANGED <<storeVars, names, members, inbox, events, pending, left, torn, departed>>
    PROVE  GroupInv'
<1> DEFINE r == [rows[w] EXCEPT !.invited = ms]
<1>0. GroupTyped /\ w \in Wires /\ rows[w] \in RowRecords
  BY RowFacts DEF GroupInv
<1>1. rows' = [rows EXCEPT ![w] = r]
  BY <1>0 DEF GroupTyped
<1>2. r \in RowRecords /\ r.invited = ms /\ r.lost = rows[w].lost
  BY <1>0 DEF RowRecords
<1> HIDE DEF r
<1>3. /\ rows' \in [Wires -> {NoRow} \cup RowRecords] /\ Rows' = Rows \cup {w}
      /\ rows'[w] = r /\ \A u \in Wires \ {w} : rows'[u] = rows[u]
  BY <1>0, <1>1, <1>2, RowUpdate
<1>4. Live' = Live /\ Reachable' = Reachable /\ phase' = phase /\ marker' = marker
  BY DEF Live, Reachable, storeVars
<1>5. GroupTyped' /\ WhileServing'
  BY <1>0, <1>3, <1>4 DEF GroupInv, GroupTyped, WhileServing
<1>6. InvitedInv'
  <2> SUFFICES ASSUME NEW u \in Rows'
               PROVE  u \in torn' \/ rows'[u].invited \ InFlight(u)' \subseteq Joined(u)
    BY DEF InvitedInv, Joined
  <2>1. CASE u = w
    BY <1>2, <1>3, <2>1
  <2>2. CASE u # w
    <3>1. u \in Rows /\ u \in Wires /\ rows'[u] = rows[u] /\ InFlight(u) = {}
      BY <1>0, <1>3, <2>2, RowFacts
    <3>2. u \in torn \/ rows[u].invited \subseteq Joined(u)
      BY <3>1 DEF GroupInv, InvitedInv
    <3> QED
      BY <3>1, <3>2
  <2> QED
    BY <2>1, <2>2
<1>7. LostInv'
  BY <1>0, <1>2, <1>3, <1>4, RowFacts DEF GroupInv, LostInv, LostIffReset
<1> QED
  BY <1>5, <1>6, <1>7 DEF GroupInv

\* do_invite_to_mls_group writes the member's row before it asks the engine.
LEMMA InviteKeepsGroups ==
    ASSUME GroupInv, NEW w \in Wires, NEW p \in Peers, Invite(w, p)
    PROVE  GroupInv'
<1>0. /\ phase = "serving" /\ rpc = Idle /\ w \in Rows /\ rpc.op = "idle"
      /\ UNCHANGED <<storeVars, names, members, inbox, events, pending, left, torn, departed>>
  BY DEF Invite, Idle
<1>1. \A u \in Rows : InFlight(u) = {}
  BY <1>0 DEF InFlight
<1>2. CASE p \in rows[w].invited
  <2>1. rpc' = [op |-> "invited", wire |-> w, peer |-> p] /\ rows' = rows
    BY <1>2 DEF Invite
  <2>2. rpc' \in Requests /\ rpc'.op = "invited"
    BY <2>1 DEF Requests
  <2> QED
    BY <1>0, <1>1, <2>1, <2>2, RequestMovesOn
<1>3. CASE p \notin rows[w].invited
  <2>1. /\ rpc' = [op |-> "add", wire |-> w, peer |-> p]
        /\ rows' = [rows EXCEPT ![w].invited = rows[w].invited \cup {p}]
    BY <1>0, <1>3, RowFacts DEF Invite, GroupInv, GroupTyped
  <2>2. rpc' \in Requests /\ rpc'.op = "add" /\ InFlight(w)' = {p}
    BY <2>1 DEF Requests, InFlight
  <2>3. rows[w].invited \cup {p} \in SUBSET Peers
    BY <1>0, RowFacts DEF RowRecords, GroupInv
  <2>4. w \in torn \/ (rows[w].invited \cup {p}) \ InFlight(w)' \subseteq Joined(w)
    BY <1>0, <1>1, <2>2 DEF GroupInv, InvitedInv
  <2> QED
    BY <1>0, <1>1, <2>1, <2>2, <2>3, <2>4, RowMembersKeepGroups
<1> QED
  BY <1>2, <1>3

\* add_member, done or half done: the peer is a member, or its invite has failed.
LEMMA AddMemberKeepsGroups ==
    ASSUME GroupInv, InviteInEngine \/ RestorationIncomplete
    PROVE  GroupInv'
<1>0. /\ rpc.op = "add"
      /\ UNCHANGED <<storeVars, rows, names, inbox, events, pending, left, torn>>
  BY DEF InviteInEngine, RestorationIncomplete
<1> PICK w \in Wires, p \in Peers : w = rpc.wire /\ p = rpc.peer
  BY <1>0, RequestFacts DEF GroupInv
<1>1. /\ GroupTyped /\ phase = "serving"
      /\ rpc \in [op : {"add", "send", "failed", "invited"}, wire : Wires, peer : Peers]
  BY <1>0, RequestServes, RequestFacts DEF GroupInv
<1>2. \/ /\ members' = [members EXCEPT ![w] = members[w] \cup {p}]
         /\ rpc' = [rpc EXCEPT !.op = "send"]
         /\ departed' = departed \ {[wire |-> w, peer |-> p]}
      \/ /\ members' = [members EXCEPT ![w] = members[w] \ {p}]
         /\ rpc' = [rpc EXCEPT !.op = "failed"]
         /\ departed' = departed
  BY <1>1 DEF InviteInEngine, RestorationIncomplete, GroupTyped
<1>3. /\ rpc' \in [op : {"add", "send", "failed", "invited"}, wire : Wires, peer : Peers]
      /\ rpc'.op \in {"send", "failed"} /\ rpc'.wire = w /\ rpc'.peer = p
      /\ rpc'.op = "send" => members' = [members EXCEPT ![w] = members[w] \cup {p}]
      /\ rpc'.op = "failed" => members' = [members EXCEPT ![w] = members[w] \ {p}]
      /\ departed \ {[wire |-> w, peer |-> p]} \subseteq departed' /\ departed' \subseteq departed
  BY <1>1, <1>2
<1>4. InFlight(w) = {p} /\ \A u : u # w => InFlight(u) = {} /\ InFlight(u)' = {}
  BY <1>0, <1>3 DEF InFlight
<1>5. InFlight(w)' = IF rpc'.op = "failed" THEN {p} ELSE {}
  BY <1>3 DEF InFlight
<1>6. /\ members' \in [Wires -> SUBSET Peers] /\ \A u \in Wires \ {w} : members'[u] = members[u]
      /\ members'[w] = IF rpc'.op = "send" THEN members[w] \cup {p} ELSE members[w] \ {p}
  <2>1. members \in [Wires -> SUBSET Peers]
    BY <1>1 DEF GroupTyped
  <2>2. CASE rpc'.op = "send"
    BY <1>3, <2>1, <2>2
  <2>3. CASE rpc'.op = "failed"
    BY <1>3, <2>1, <2>3
  <2> QED
    BY <1>3, <2>2, <2>3
<1>7. Rows' = Rows /\ Live' = Live /\ Reachable' = Reachable
  BY <1>0 DEF Rows, Live, Reachable, storeVars
<1>8. rpc' \in Requests
  BY <1>3 DEF Requests
<1>9. GroupTyped' /\ WhileServing'
  BY <1>0, <1>1, <1>3, <1>6, <1>8 DEF GroupInv, GroupTyped, WhileServing, storeVars
<1>10. InvitedInv'
  <2> SUFFICES ASSUME NEW u \in Rows
               PROVE  u \in torn \/ rows[u].invited \ InFlight(u)' \subseteq Joined(u)'
    BY <1>0, <1>3, <1>7 DEF InvitedInv
  <2>1. u \in Wires /\ (u \in torn \/ rows[u].invited \ InFlight(u) \subseteq Joined(u))
    BY <1>1, RowFacts DEF GroupInv, InvitedInv
  <2>2. \A q \in Peers : q # p \/ u # w => (q \in Joined(u) => q \in Joined(u)')
    BY <1>3, <1>6, <2>1 DEF Joined
  <2>3. rows[u].invited \subseteq Peers
    BY <1>1, RowFacts DEF RowRecords
  <2>4. CASE u = w
    <3>1. p \in InFlight(u)' \/ p \in Joined(u)'
      BY <1>3, <1>5, <1>6, <2>4 DEF Joined
    <3> QED
      BY <1>4, <2>1, <2>2, <2>3, <2>4, <3>1
  <2>5. CASE u # w
    BY <1>4, <2>1, <2>2, <2>3, <2>5
  <2> QED
    BY <2>4, <2>5
<1>11. LostInv'
  BY <1>0, <1>3, <1>7 DEF GroupInv, LostInv, LostIffReset, storeVars
<1> QED
  BY <1>9, <1>10, <1>11 DEF GroupInv

\* The invite is published, or answered.
LEMMA InviteEndsKeepsGroups ==
    ASSUME GroupInv, InvitePublished \/ InviteAnswered
    PROVE  GroupInv'
<1>0. /\ rpc.op \in {"send", "invited"} /\ departed' = departed
      /\ rpc' = Idle \/ rpc' = [op |-> "invited", wire |-> rpc.wire, peer |-> rpc.peer]
      /\ UNCHANGED <<storeVars, rows, names, members, inbox, events, pending, left, torn>>
  BY DEF InvitePublished, InviteAnswered
<1>1. phase = "serving" /\ rpc.wire \in Wires /\ rpc.peer \in Peers
  BY <1>0, RequestServes, RequestFacts DEF GroupInv
<1>2. rpc' \in Requests /\ rpc'.op \in {"idle", "invited"}
  BY <1>0, <1>1 DEF Requests, Idle
<1>3. \A u \in Rows : InFlight(u) = {}
  BY <1>0 DEF InFlight
<1> QED
  BY <1>0, <1>1, <1>2, <1>3, RequestMovesOn

\* A request that fails takes the member row of its invite back.
LEMMA FailureKeepsGroups ==
    ASSUME GroupInv, RequestFails
    PROVE  GroupInv'
<1>0. /\ rpc.op \in {"create", "welcome", "add", "send", "failed"} /\ rpc' = Idle
      /\ UNCHANGED <<storeVars, names, members, inbox, events, pending, left, torn, departed>>
  BY DEF RequestFails
<1>1. GroupTyped /\ phase = "serving" /\ rpc' \in Requests /\ rpc'.op = "idle"
  BY <1>0, RequestServes DEF GroupInv, Requests, Idle
<1>2. CASE rpc.op \in {"create", "welcome"}
  <2>1. rows' = rows /\ \A u \in Rows : InFlight(u) = {}
    BY <1>2 DEF RequestFails, InFlight
  <2> QED
    BY <1>0, <1>1, <2>1, RequestMovesOn
<1>3. CASE rpc.op \in {"add", "send", "failed"}
  <2>0. PICK w \in Wires, p \in Peers : w = rpc.wire /\ p = rpc.peer
    BY <1>1, <1>3, RequestFacts
  <2>1. rows' = [rows EXCEPT ![w].invited = rows[w].invited \ {p}]
    BY <1>1, <1>3, <2>0 DEF RequestFails, GroupTyped
  <2>2. InFlight(w) \subseteq {p} /\ (\A u \in Rows \ {w} : InFlight(u) = {}) /\ InFlight(w)' = {}
    BY <1>1, <2>0 DEF InFlight
  <2>3. CASE w \in Rows
    <3>1. rows[w].invited \ {p} \in SUBSET Peers
      BY <1>1, <2>3, RowFacts DEF RowRecords
    <3>2. w \in torn \/ (rows[w].invited \ {p}) \ InFlight(w)' \subseteq Joined(w)
      BY <2>2, <2>3 DEF GroupInv, InvitedInv
    <3> QED
      BY <1>0, <1>1, <2>1, <2>2, <2>3, <3>1, <3>2, RowMembersKeepGroups, ZenonT(30)
  <2>4. CASE w \notin Rows
    <3>1. rows[w] = NoRow
      BY <1>1, <2>1, <2>4, RowFacts
    <3>2. [NoRow EXCEPT !.invited = NoRow.invited \ {p}] = NoRow
      <4>1. NoRow.invited \ {p} = NoRow.invited
        BY DEF NoRow
      <4> QED
        BY <4>1 DEF NoRow
    <3>3. rows' = rows
      BY <1>1, <2>1, <3>1, <3>2 DEF GroupTyped
    <3> QED
      BY <1>0, <1>1, <2>2, <2>4, <3>3, RequestMovesOn
  <2> QED
    BY <2>3, <2>4
<1> QED
  BY <1>0, <1>2, <1>3

\* A step that takes a group out of the engine or puts one in, and keeps account
\* of it in left; rows and members are as they were.
LEMMA EngineKeepsGroups ==
    ASSUME StoreInv, GroupInv, phase = "serving", NEW ws \in SUBSET Wires, SetLive(ws),
           left' \subseteq Wires, Reachable \subseteq ws \cup left',
           rpc' \in Requests, events' \subseteq [wire : Wires, first : Wires],
           \A e \in events' : e.wire \in inbox /\ e.first \in ws \cup left',
           \A e, f \in events' : e.wire = f.wire => e = f,
           rpc' = rpc \/ (rpc = Idle /\ rpc'.op = "delete"),
           UNCHANGED <<main, marker, phase, rows, names, members, inbox, pending, torn, departed>>
    PROVE  GroupInv'
<1>1. Live' = ws /\ Rows' = Rows /\ Reachable' = ws \cup left'
  BY LiveFacts DEF Rows, Reachable
<1>2. GroupTyped' /\ WhileServing'
  BY DEF GroupInv, GroupTyped, WhileServing
<1>3. rpc'.op = "welcome" => rpc' = rpc
  OBVIOUS
<1>4. \A u : InFlight(u)' = InFlight(u)
  BY DEF InFlight, Idle
<1>5. InvitedInv'
  BY <1>1, <1>3, <1>4 DEF GroupInv, InvitedInv, Joined
<1>6. LostInv'
  BY <1>1, <1>3 DEF GroupInv, LostInv, LostIffReset, Reachable
<1> QED
  BY <1>2, <1>5, <1>6 DEF GroupInv

\* delete: the engine's copy goes first, and the bot has left the group.
LEMMA DeleteInEngineKeepsGroups ==
    ASSUME StoreInv, GroupInv, NEW w \in Wires, DeleteInEngine(w)
    PROVE  GroupInv'
<1>0. /\ phase = "serving" /\ rpc = Idle /\ SetLive(Live \ {w}) /\ left' = left \cup {w}
      /\ rpc' = [op |-> "delete", wire |-> w] /\ events' = events
      /\ UNCHANGED <<main, marker, phase, rows, names, members, inbox, pending, torn, departed>>
  BY DEF DeleteInEngine, EngineDeleteGroup, storeButHeld
<1>1. rpc' \in Requests /\ rpc'.op = "delete"
  BY <1>0 DEF Requests
<1>2. Live \ {w} \in SUBSET Wires /\ left' \subseteq Wires
  BY <1>0, LiveFacts DEF GroupInv, GroupTyped
<1>3. Reachable \subseteq (Live \ {w}) \cup left'
  BY <1>0 DEF Reachable
<1>4. /\ events' \subseteq [wire : Wires, first : Wires]
      /\ \A e \in events' : e.wire \in inbox /\ e.first \in (Live \ {w}) \cup left'
      /\ \A e, f \in events' : e.wire = f.wire => e = f
  BY <1>0, <1>3 DEF GroupInv, GroupTyped, WhileServing, LostInv
<1> QED
  BY <1>0, <1>1, <1>2, <1>3, <1>4, EngineKeepsGroups

\* delete: then the row.
LEMMA DeleteRowKeepsGroups == GroupInv /\ DeleteRow => GroupInv'
<1> SUFFICES ASSUME GroupInv, DeleteRow PROVE GroupInv'
  OBVIOUS
<1>0. /\ rpc.op = "delete" /\ rpc' = Idle
      /\ UNCHANGED <<storeVars, names, members, inbox, events, pending, left, torn, departed>>
  BY DEF DeleteRow
<1>1. GroupTyped /\ phase = "serving" /\ rpc' \in Requests /\ rpc'.op = "idle"
  BY <1>0, RequestServes DEF GroupInv, Requests, Idle
<1> PICK w \in Wires : w = rpc.wire
  BY <1>0, <1>1, RequestFacts
<1>2. rows' = [rows EXCEPT ![w] = NoRow]
  BY DEF DeleteRow
<1>3. /\ rows' \in [Wires -> {NoRow} \cup RowRecords]
      /\ \A u \in Rows' : u \in Rows /\ rows'[u] = rows[u]
  BY <1>1, <1>2 DEF GroupTyped, Rows
<1>4. Live' = Live /\ Reachable' = Reachable /\ phase' = phase /\ marker' = marker
  BY <1>0 DEF Live, Reachable, storeVars
<1>5. \A u : InFlight(u) = {}
  BY <1>0 DEF InFlight
<1>6. GroupTyped' /\ WhileServing'
  BY <1>0, <1>1, <1>3, <1>4 DEF GroupInv, GroupTyped, WhileServing
<1>7. InvitedInv'
  BY <1>0, <1>1, <1>3, <1>5 DEF GroupInv, InvitedInv, Joined
<1>8. LostInv'
  BY <1>0, <1>1, <1>3, <1>4 DEF GroupInv, LostInv, LostIffReset
<1> QED
  BY <1>6, <1>7, <1>8 DEF GroupInv

\* Every step of a request.
LEMMA RequestKeepsGroups == StoreInv /\ GroupInv /\ RequestStep => GroupInv'
BY CreateKeepsGroups, CreateInEngineKeepsGroups, DeleteInEngineKeepsGroups, InviteKeepsGroups,
   CreateRowKeepsGroups, AddMemberKeepsGroups, InviteEndsKeepsGroups, FailureKeepsGroups,
   DeleteRowKeepsGroups
   DEF RequestStep

-----------------------------------------------------------------------------
\* Welcomes and the other members

\* The engine accepts a Welcome and names the first of its groups: whichever
\* that is, it is in the engine.
LEMMA AcceptKeepsGroups ==
    ASSUME StoreInv, GroupInv, NEW w \in Wires, NEW first \in Wires, AcceptWelcome(w, first)
    PROVE  GroupInv'
<1>0. /\ phase = "serving" /\ w \in inbox /\ first \in Live \cup {w}
      /\ ~ \E e \in events : e.wire = w
      /\ SetLive(Live \cup {w}) /\ left' = left \ {w} /\ rpc' = rpc
      /\ events' = events \cup {[wire |-> w, first |-> first]}
      /\ UNCHANGED <<main, marker, phase, rows, names, members, inbox, pending, torn, departed>>
  BY DEF AcceptWelcome, storeButHeld
<1>1. rpc' \in Requests /\ events \subseteq [wire : Wires, first : Wires] /\ left \subseteq Wires
  BY <1>0 DEF GroupInv, GroupTyped
<1>2. Live \cup {w} \in SUBSET Wires /\ left' \subseteq Wires
  BY <1>0, <1>1, LiveFacts
<1>3. Reachable \subseteq (Live \cup {w}) \cup left'
  BY <1>0 DEF Reachable
<1>4. /\ events' \subseteq [wire : Wires, first : Wires]
      /\ \A e \in events' : e.wire \in inbox /\ e.first \in (Live \cup {w}) \cup left'
      /\ \A e, f \in events' : e.wire = f.wire => e = f
  BY <1>0, <1>1, <1>3 DEF GroupInv, WhileServing, LostInv
<1> QED
  BY <1>0, <1>1, <1>2, <1>3, <1>4, EngineKeepsGroups

\* Dispatch clears a mark only of a group that is in the engine or was left.
LEMMA DispatchKeepsGroups ==
    ASSUME GroupInv, NEW e \in events, DispatchWelcome(e)
    PROVE  GroupInv'
<1>0. /\ phase = "serving" /\ events' = events \ {e} /\ inbox' = inbox \ {e.wire}
      /\ UNCHANGED <<storeVars, names, members, rpc, pending, left, torn, departed>>
  BY DEF DispatchWelcome
<1>1. GroupTyped /\ e.first \in Reachable
  BY DEF GroupInv, LostInv
<1>2. Live' = Live /\ Reachable' = Reachable /\ phase' = phase /\ marker' = marker
      /\ \A u : InFlight(u)' = InFlight(u)
  BY <1>0 DEF Live, Reachable, InFlight, storeVars
<1>3. /\ rows' \in [Wires -> {NoRow} \cup RowRecords] /\ Rows' = Rows
      /\ \A u \in Rows : /\ rows'[u].invited = rows[u].invited
                         /\ rows'[u].lost = rows[u].lost \/ (u = e.first /\ rows'[u].lost = FALSE)
  <2>1. CASE e.first \notin Rows
    BY <1>1, <2>1 DEF DispatchWelcome, GroupTyped, Rows
  <2>2. CASE e.first \in Rows
    <3> DEFINE w == e.first
               r == [rows[w] EXCEPT !.lost = FALSE]
    <3>1. w \in Wires /\ rows' = [rows EXCEPT ![w] = r] /\ rows[w] \in RowRecords
      BY <1>1, <2>2, RowFacts DEF DispatchWelcome, GroupTyped
    <3>2. r \in RowRecords /\ r.invited = rows[w].invited /\ r.lost = FALSE
      BY <3>1 DEF RowRecords
    <3> HIDE DEF r
    <3>3. /\ rows' \in [Wires -> {NoRow} \cup RowRecords] /\ Rows' = Rows \cup {w}
          /\ rows'[w] = r /\ \A u \in Wires \ {w} : rows'[u] = rows[u]
      BY <1>1, <3>1, <3>2, RowUpdate
    <3>4. Rows' = Rows
      BY <2>2, <3>3
    <3> QED
      BY <1>1, <3>2, <3>3, <3>4, RowFacts
  <2> QED
    BY <2>1, <2>2
<1>4. GroupTyped'
  BY <1>0, <1>1, <1>3 DEF GroupTyped
<1>5. WhileServing'
  BY <1>0, <1>2 DEF GroupInv, WhileServing
<1>6. InvitedInv'
  BY <1>0, <1>2, <1>3 DEF GroupInv, InvitedInv, Joined
<1>7. LostInv'
  <2>1. ASSUME NEW u \in Rows, marker = "completed"
        PROVE  u \in Live \/ rows'[u].lost \/ u \in left
    BY <1>0, <1>1, <1>3, <2>1 DEF GroupInv, LostInv, LostIffReset, Reachable
  <2>2. (\E u \in Rows : rows'[u].lost) => marker # "none"
    BY <1>3 DEF GroupInv, LostInv, LostIffReset
  <2>3. LostIffReset'
    BY <1>0, <1>2, <1>3, <2>1, <2>2 DEF LostIffReset
  <2> QED
    BY <1>0, <1>2, <2>3 DEF GroupInv, LostInv
<1> QED
  BY <1>4, <1>5, <1>6, <1>7 DEF GroupInv

\* Other members invite the bot, rename a group, or leave it: rows, engine and
\* request are as they were, and who left is accounted for.
LEMMA OthersKeepGroups ==
    ASSUME GroupInv,
           \/ \E w \in Wires : RemoteInvite(w)
           \/ \E w \in Wires, n \in Names : RemoteRename(w, n)
           \/ \E w \in Wires, p \in Peers : PeerLeaves(w, p)
    PROVE  GroupInv'
<1>0. /\ UNCHANGED <<storeVars, rows, rpc, events, pending, left, torn>>
      /\ inbox \subseteq inbox'
  BY DEF RemoteInvite, RemoteRename, PeerLeaves
<1> DEFINE Kept == /\ names' \in [Wires -> Names] /\ inbox' \subseteq Wires
                   /\ members' \in [Wires -> SUBSET Peers]
                   /\ departed' \subseteq [wire : Wires, peer : Peers]
                   /\ \A u \in Wires : Joined(u) \subseteq Joined(u)'
<1>1. Kept
  <2>1. ASSUME UNCHANGED <<members, departed>> PROVE Kept
    BY <2>1 DEF RemoteInvite, RemoteRename, PeerLeaves, GroupInv, GroupTyped, Joined
  <2>2. ASSUME NEW w \in Wires, NEW p \in Peers, PeerLeaves(w, p) PROVE Kept
    <3>1. /\ members' = [members EXCEPT ![w] = members[w] \ {p}] /\ UNCHANGED <<names, inbox>>
          /\ departed' = departed \cup {[wire |-> w, peer |-> p]}
          /\ members \in [Wires -> SUBSET Peers]
      BY <2>2 DEF PeerLeaves, GroupInv, GroupTyped
    <3> QED
      BY <2>2, <3>1 DEF GroupInv, GroupTyped, Joined
  <2> QED
    BY <2>1, <2>2 DEF RemoteInvite, RemoteRename
<1>2. GroupTyped' /\ WhileServing'
  BY <1>0, <1>1 DEF GroupInv, GroupTyped, WhileServing, storeVars
<1>3. Rows' = Rows /\ Live' = Live /\ Reachable' = Reachable /\ \A u : InFlight(u)' = InFlight(u)
  BY <1>0 DEF Rows, Live, Reachable, InFlight, storeVars
<1>4. InvitedInv'
  <2>1. Rows \subseteq Wires /\ (rpc.op = "welcome" => rpc.wire \in Wires)
    BY RowFacts, RequestFacts DEF GroupInv
  <2> QED
    BY <1>0, <1>1, <1>3, <2>1 DEF GroupInv, InvitedInv
<1>5. LostInv'
  BY <1>0, <1>3 DEF GroupInv, LostInv, LostIffReset, storeVars
<1> QED
  BY <1>2, <1>4, <1>5 DEF GroupInv

\* An admin removes the bot: the group is left.
LEMMA EvictKeepsGroups ==
    ASSUME StoreInv, GroupInv, NEW w \in Wires, RemoteEvict(w)
    PROVE  GroupInv'
<1>0. /\ phase = "serving" /\ SetLive(Live \ {w}) /\ left' = left \cup {w}
      /\ UNCHANGED <<main, marker, phase, rows, names, members, rpc, inbox, events, pending, torn,
                     departed>>
  BY DEF RemoteEvict, storeButHeld
<1>1. rpc' \in Requests /\ Live \ {w} \in SUBSET Wires /\ left' \subseteq Wires
  BY <1>0, LiveFacts DEF GroupInv, GroupTyped
<1>2. Reachable \subseteq (Live \ {w}) \cup left'
  BY <1>0 DEF Reachable
<1>3. /\ events' \subseteq [wire : Wires, first : Wires]
      /\ \A e \in events' : e.wire \in inbox /\ e.first \in (Live \ {w}) \cup left'
      /\ \A e, f \in events' : e.wire = f.wire => e = f
  BY <1>0, <1>2 DEF GroupInv, GroupTyped, WhileServing, LostInv
<1> QED
  BY <1>0, <1>1, <1>2, <1>3, EngineKeepsGroups

\* The process ends: an invite that was under way is torn.
LEMMA EndKeepsGroups == GroupInv /\ End => GroupInv'
<1> SUFFICES ASSUME GroupInv, End PROVE GroupInv'
  OBVIOUS
<1>0. /\ phase' = "down" /\ rpc' = Idle /\ events' = {} /\ pending' = {} /\ marker' = marker
      /\ torn' = IF rpc.op \in {"add", "failed"} THEN torn \cup {rpc.wire} ELSE torn
      /\ UNCHANGED <<rows, names, members, inbox, left, departed>>
  BY DEF End, Crash
<1>1. GroupTyped /\ rpc' \in Requests /\ rpc'.op = "idle" /\ Rows' = Rows
  BY <1>0 DEF GroupInv, Requests, Idle, Rows
<1>2. GroupTyped' /\ WhileServing'
  BY <1>0, <1>1, RequestFacts DEF GroupTyped, WhileServing
<1>3. InvitedInv'
  BY <1>0, <1>1 DEF GroupInv, InvitedInv, Joined, InFlight
<1>4. LostInv'
  BY <1>0, <1>1 DEF GroupInv, LostInv, LostIffReset
<1> QED
  BY <1>2, <1>3, <1>4 DEF GroupInv

-----------------------------------------------------------------------------
\* Every step

\* Reconciliation, the other members and Welcomes, seen from the store.
LEMMA NextKeepsStore == Inv /\ [Next]_vars => StoreInv'
<1> SUFFICES ASSUME StoreInv, GroupInv, [Next]_vars PROVE StoreInv'
  BY DEF Inv
<1>1. CASE UNCHANGED storeVars
  <2>1. StoreTypeOK' /\ PhaseInv' /\ WalInv'
    BY <1>1 DEF storeVars, logVars, StoreInv, StoreTypeOK, PhaseInv, WalInv
  <2> QED
    BY <1>1, <2>1, InPlaceKeepsStore DEF storeVars, logVars
<1>2. CASE StoreStep
  BY <1>2, StoreStepInPlace, MoveMainKeepsStore, MoveSidecarsKeepsStore DEF StoreStep
<1>3. CASE Open \/ RepublishKeyPackage \/ End
  BY <1>3, OpenKeepsStore, RepublishOrCrashKeepsStore DEF Open, End
<1>4. ASSUME NEW w \in Wires, ReconcileFails(w) PROVE StoreInv'
  BY <1>4, PhaseKeepsStore DEF ReconcileFails
<1>5. CASE Serve
  BY <1>5, PhaseKeepsStore DEF Serve
<1>6. ASSUME NEW w \in Wires, CreateInEngine(w) PROVE StoreInv'
  <2>1. phase = "serving"
    BY <1>6, RequestServes DEF CreateInEngine
  <2>2. Live \cup {w} \in SUBSET Wires
    BY <2>1, LiveFacts
  <2> QED
    BY <1>6, <2>1, <2>2, EngineKeepsStore DEF CreateInEngine
<1>7. ASSUME NEW w \in Wires, DeleteInEngine(w) \/ RemoteEvict(w) PROVE StoreInv'
  <2>1. phase = "serving" /\ SetLive(Live \ {w}) /\ UNCHANGED storeButHeld
    BY <1>7 DEF DeleteInEngine, EngineDeleteGroup, RemoteEvict
  <2>2. Live \ {w} \in SUBSET Wires
    BY <2>1, LiveFacts
  <2> QED
    BY <2>1, <2>2, EngineKeepsStore
<1>8. ASSUME NEW w \in Wires, NEW first \in Wires, AcceptWelcome(w, first) PROVE StoreInv'
  <2>1. phase = "serving" /\ SetLive(Live \cup {w}) /\ UNCHANGED storeButHeld
    BY <1>8 DEF AcceptWelcome
  <2>2. Live \cup {w} \in SUBSET Wires
    BY <2>1, LiveFacts
  <2> QED
    BY <2>1, <2>2, EngineKeepsStore
<1>9. ASSUME NEW w \in Wires, ReconcileGroup(w) \/ MarkStateLost(w) \/ RemoteInvite(w)
      PROVE  UNCHANGED storeVars
  BY <1>9 DEF ReconcileGroup, MarkStateLost, RemoteInvite
<1>10. ASSUME NEW w \in Wires, NEW n \in Names, RemoteRename(w, n) PROVE UNCHANGED storeVars
  BY <1>10 DEF RemoteRename
<1>11. ASSUME NEW w \in Wires, NEW p \in Peers, PeerLeaves(w, p) \/ Invite(w, p)
       PROVE  UNCHANGED storeVars
  BY <1>11 DEF PeerLeaves, Invite
<1>12. ASSUME NEW e \in events, DispatchWelcome(e) PROVE UNCHANGED storeVars
  BY <1>12 DEF DispatchWelcome
<1>13. ASSUME NEW n \in Names, NEW p \in Peers, Create(n, p) PROVE UNCHANGED storeVars
  BY <1>13 DEF Create
<1>14. CASE \/ CreateRow \/ InviteInEngine \/ RestorationIncomplete \/ InvitePublished
            \/ InviteAnswered \/ RequestFails \/ DeleteRow
  <2>1. UNCHANGED storeVars
    BY <1>14 DEF CreateRow, InviteInEngine, RestorationIncomplete, InvitePublished,
                 InviteAnswered, RequestFails, DeleteRow
  <2> QED
    BY <1>1, <2>1
<1> QED
  BY <1>1, <1>2, <1>3, <1>4, <1>5, <1>6, <1>7, <1>8, <1>9, <1>10, <1>11, <1>12, <1>13, <1>14
     DEF Next, RequestStep, vars

\* The same, seen from the groups.
LEMMA NextKeepsGroups == Inv /\ [Next]_vars => GroupInv'
<1> SUFFICES ASSUME StoreInv, GroupInv, [Next]_vars, StoreInv' PROVE GroupInv'
  BY NextKeepsStore DEF Inv
<1>1. ASSUME NEW w \in Wires, ReconcileFails(w) PROVE GroupInv'
  <2>1. pending' \subseteq Wires
    BY <1>1 DEF ReconcileFails
  <2> QED
    BY <1>1, <2>1, OffstageKeepsGroups DEF ReconcileFails
<1>2. CASE UNCHANGED vars
  <2>1. Rows' = Rows /\ Live' = Live /\ Reachable' = Reachable /\ \A u : InFlight(u)' = InFlight(u)
    BY <1>2 DEF Rows, Live, Reachable, InFlight, vars, storeVars, groupVars
  <2>2. GroupTyped' /\ WhileServing'
    BY <1>2 DEF GroupInv, GroupTyped, WhileServing, vars, storeVars, groupVars
  <2>3. InvitedInv' /\ LostInv'
    BY <1>2, <2>1 DEF GroupInv, InvitedInv, Joined, LostInv, LostIffReset, vars, storeVars, groupVars
  <2> QED
    BY <2>2, <2>3 DEF GroupInv
<1>3. CASE \/ StoreStep /\ UNCHANGED groupVars
           \/ Open
           \/ RepublishKeyPackage /\ UNCHANGED groupVars
  BY <1>3, StartupKeepsGroups
<1> QED
  BY <1>1, <1>2, <1>3, ReconcileKeepsGroups, MarkKeepsGroups, ServeKeepsGroups,
     RequestKeepsGroups, AcceptKeepsGroups, DispatchKeepsGroups, OthersKeepGroups,
     EvictKeepsGroups, EndKeepsGroups
     DEF Next

-----------------------------------------------------------------------------
\* The theorems

\* The inductive invariant holds in every state.
THEOREM Invariance == Spec => []Inv
<1>1. Init => Inv
  BY InitStore, InitGroups DEF Init, Inv
<1>2. Inv /\ [Next]_vars => Inv'
  BY NextKeepsStore, NextKeepsGroups DEF Inv
<1> QED
  BY <1>1, <1>2, PTL DEF Spec

\* Files, rows, requests and Welcomes keep their types through resets and crashes.
THEOREM TypeCorrect == Spec => []TypeOK
<1>1. Inv => TypeOK
  BY DEF Inv, StoreInv, GroupInv, GroupTyped, WhileServing, RowRecords, TypeOK
<1> QED
  BY <1>1, Invariance, PTL

\* reset_legacy_store: wherever the process ended, a legacy store that is gone
\* has left all its admins in agent.db.
THEOREM AdminsAlwaysSurvive == Spec => []AdminsSurvive
<1>1. Inv => AdminsSurvive
  BY DEF Inv, StoreInv
<1> QED
  BY <1>1, Invariance, PTL

\* R26: every encrypted store is at the live path or in an archive that pruning
\* spares, and what its -wal has is beside it unless its reset was cut between the
\* two moves, for any number of stores, key faults, crashes and days.
THEOREM StateAlwaysKept == Spec => []StateIsKept
<1>1. Inv => StateIsKept
  BY DEF Inv, StoreInv
<1> QED
  BY <1>1, Invariance, PTL

\* R28: after a reset a row promises no group the bot cannot use, and only a bot
\* whose store was reset has marked rows, for any groups and any order of
\* requests, Welcomes, removals and restarts.
THEOREM MarksAreRight == Spec => []LostIffReset
<1>1. Inv => LostIffReset
  BY DEF Inv, GroupInv, LostInv
<1> QED
  BY <1>1, Invariance, PTL

\* Between requests a recorded member is one, or has left or was removed by another
\* admin, unless an invite was torn by the end of the process.
THEOREM MembersAreRight == Spec => []InvitedIsMember
<1>1. Inv => InvitedIsMember
  <2> SUFFICES ASSUME Inv, rpc = Idle, NEW w \in Rows
               PROVE  w \in torn \/ rows[w].invited \subseteq Joined(w)
    BY DEF InvitedIsMember, Joined
  <2>1. InFlight(w) = {}
    BY DEF InFlight, Idle
  <2> QED
    BY <2>1 DEF Inv, GroupInv, InvitedInv
<1> QED
  BY <1>1, Invariance, PTL

\* Only the reset moves the file at the live path, and startup reaches it with a
\* store it recognises and a key it can use; only where there is no file is one
\* created.
LEMMA StepFailsClosed ==
    Inv /\ [Next]_vars =>
        [(main.kind = "foreign" \/ (main.kind = "encrypted" /\ key = Unusable))
            => main' = main]_vars
<1> SUFFICES ASSUME StoreInv, Next,
                    main.kind = "foreign" \/ (main.kind = "encrypted" /\ key = Unusable)
             PROVE  main' = main
  BY DEF Inv
<1>1. CASE StoreStep
  <2>1. ~MoveMain
    BY DEF MoveMain, StoreInv, PhaseInv
  <2> QED
    BY <1>1, <2>1 DEF StoreStep, Start, ClassifyMissing, ClassifyUsable, ClassifyFailClosed,
         MarkResetStart, RecordAdmins, MoveSidecars, CompleteReset, LoadOrCreateKey, KeyFault, Tick
<1>2. CASE Open \/ RepublishKeyPackage \/ Serve \/ End
  BY <1>2 DEF Open, OpenStore, RepublishKeyPackage, Serve, End, Crash
<1>3. CASE \E w \in Wires : ReconcileGroup(w) \/ ReconcileFails(w) \/ MarkStateLost(w)
  BY <1>3 DEF ReconcileGroup, ReconcileFails, MarkStateLost, storeVars
<1>4. CASE RequestStep
  BY <1>4 DEF RequestStep, Create, CreateInEngine, DeleteInEngine, Invite, CreateRow,
              InviteInEngine, RestorationIncomplete, InvitePublished, InviteAnswered,
              RequestFails, DeleteRow, storeVars, storeButHeld
<1>5. CASE \/ \E w, first \in Wires : AcceptWelcome(w, first)
           \/ \E e \in events : DispatchWelcome(e)
           \/ \E w \in Wires : RemoteInvite(w) \/ RemoteEvict(w)
           \/ \E w \in Wires, n \in Names : RemoteRename(w, n)
           \/ \E w \in Wires, p \in Peers : PeerLeaves(w, p)
  BY <1>5 DEF AcceptWelcome, DispatchWelcome, RemoteInvite, RemoteEvict, RemoteRename,
              PeerLeaves, storeVars, storeButHeld
<1> QED
  BY <1>1, <1>2, <1>3, <1>4, <1>5 DEF Next

\* A store the daemon does not recognise, or whose key file it cannot use, is
\* neither moved nor replaced, whatever the daemon does next.
THEOREM AlwaysFailsClosed == Spec => FailClosed
BY Invariance, StepFailsClosed, PTL DEF Spec, FailClosed

-----------------------------------------------------------------------------
(* The traffic: types.                                                     *)

States == {"none", "decrypting", "finishing", "group", "done", "dropped"}

\* Wraps, messages, proposals and commits are told apart by their ids.
LEMMA Kinds ==
    /\ Wraps \subseteq Events /\ GroupEvents \subseteq Events
    /\ Messages \subseteq GroupEvents /\ Proposals \subseteq GroupEvents
    /\ Commits \subseteq GroupEvents
    /\ \A e \in Events : e \in Wraps \/ e \in GroupEvents
    /\ \A w \in Wraps : w \notin GroupEvents /\ w \notin Messages
                        /\ w \notin Commits /\ w \notin Proposals
    /\ \A m \in Messages : m \notin Commits /\ m \notin Proposals
    /\ \A p \in Proposals : p \notin Commits
    /\ \A b \in Bots : CommitOf[b] \in Commits
    /\ None \notin Commits
  BY InboundAssumption DEF Events, GroupEvents, Commits

\* Taking up an event, by the loop or by its sender.
LEMMA BeginTyped ==
    ASSUME InboundTypeOK, NEW e \in Events, NEW s \in States,
           NEW by \in SUBSET (Wraps \cup Messages), Begin(e, s, by)
    PROVE  /\ task' \in [Events -> States] /\ runs' \in [Events -> Nat]
           /\ inline' \subseteq Wraps \cup Messages
           /\ todo' \in [GroupEvents -> SUBSET Bots]
           /\ decoded' \in [GroupEvents -> SUBSET Bots]
<1>1. task \in [Events -> States] /\ runs \in [Events -> Nat]
  BY DEF InboundTypeOK, States
<1>2. task' \in [Events -> States]
  BY <1>1 DEF Begin
<1>3. runs' \in [Events -> Nat]
  BY <1>1 DEF Begin
<1>4. todo' \in [GroupEvents -> SUBSET Bots] /\ decoded' \in [GroupEvents -> SUBSET Bots]
  BY DEF Begin, InboundTypeOK
<1> QED
  BY <1>2, <1>3, <1>4 DEF Begin

\* What client.send_event leaves behind.
LEMMA SendTyped ==
    ASSUME InboundTypeOK, NEW e \in Events, NEW o, SendEvent(e, o)
    PROVE  /\ relay' \subseteq Events /\ saved' \subseteq Events
           /\ failures' \in 0..MaxFailures
<1>1. failures' \in 0..MaxFailures
  BY InboundAssumption DEF SendEvent, InboundTypeOK
<1> QED
  BY <1>1 DEF SendEvent, InboundTypeOK

\* The first notification of the loop's queue.
LEMMA HeadTyped ==
    ASSUME InboundTypeOK, notif # <<>>
    PROVE  Head(notif) \in Events /\ Tail(notif) \in Seq(Events)
  BY DEF InboundTypeOK

\* Every state of the pipeline starts well formed.
LEMMA InboundTypedInit == InboundInit => InboundTypeOK
<1> SUFFICES ASSUME InboundInit PROVE InboundTypeOK
  OBVIOUS
<1>1. /\ relay \subseteq Events /\ made \subseteq Wraps \cup Messages
      /\ saved \subseteq Events /\ inline \subseteq Wraps \cup Messages
  BY DEF InboundInit, Events, GroupEvents
<1>2. /\ task \in [Events -> States] /\ todo \in [GroupEvents -> SUBSET Bots]
      /\ decoded \in [GroupEvents -> SUBSET Bots] /\ runs \in [Events -> Nat]
      /\ sub \in [GroupEvents -> Commits \cup {None}]
  BY DEF InboundInit, States
<1>3. /\ hist \in [Bots -> Seq(Commits)] /\ based \in [Messages \cup Commits -> Seq(Commits)]
      /\ notif \in Seq(Events)
  BY DEF InboundInit
<1>4. restarts \in 0..MaxRestarts /\ failures \in 0..MaxFailures /\ stream = {}
  BY InboundAssumption DEF InboundInit
<1>5. answers \in [Commits -> Proposals \cup {None}]
  BY DEF InboundInit
<1> QED
  BY <1>1, <1>2, <1>3, <1>4, <1>5 DEF InboundTypeOK, States

\* What a step does not write keeps its type.
LEMMA InboundTypedNext == InboundTypeOK /\ [InboundNext]_inboundVars => InboundTypeOK'
<1> SUFFICES ASSUME InboundTypeOK, [InboundNext]_inboundVars PROVE InboundTypeOK'
  OBVIOUS
<1> USE DEF netVars, taskVars
<1>0. task \in [Events -> States] /\ States \subseteq States
  BY DEF InboundTypeOK, States
<1>1. ASSUME NEW e \in Events, Notify(e) PROVE InboundTypeOK'
  <2>1. notif' \in Seq(Events) /\ saved' \subseteq Events
    BY <1>1 DEF Notify, InboundTypeOK
  <2> QED
    BY <1>1, <2>1 DEF Notify, InboundTypeOK
<1>2. CASE TakeWrap \/ TakeGroupEvent
  <2>1. PICK s \in {"decrypting", "group"} :
           /\ notif # <<>> /\ notif' = Tail(notif)
           /\ Begin(Head(notif), s, inline)
           /\ UNCHANGED <<relay, made, saved, sub, hist, based, answers, stream, restarts, failures>>
    BY <1>2 DEF TakeWrap, TakeGroupEvent
  <2>2. Head(notif) \in Events /\ notif' \in Seq(Events)
    BY <2>1, HeadTyped
  <2>3. /\ task' \in [Events -> States] /\ runs' \in [Events -> Nat]
        /\ inline' \subseteq Wraps \cup Messages
        /\ todo' \in [GroupEvents -> SUBSET Bots] /\ decoded' \in [GroupEvents -> SUBSET Bots]
    <3>1. s \in States /\ inline \in SUBSET (Wraps \cup Messages)
      BY DEF States, InboundTypeOK
    <3> QED
      BY <2>1, <2>2, <3>1, BeginTyped
  <2> QED
    BY <2>1, <2>2, <2>3 DEF InboundTypeOK, States
<1>3. ASSUME NEW w \in Wraps, Decrypted(w) \/ DecryptTimeout(w) \/ DecryptFails(w) PROVE InboundTypeOK'
  <2>1. task' \in [Events -> States]
    <3>1. \E s \in States : task' = [task EXCEPT ![w] = s]
      BY <1>3 DEF Decrypted, DecryptTimeout, DecryptFails, States
    <3> QED
      BY <1>0, <3>1
  <2>2. /\ inline' \subseteq inline
        /\ UNCHANGED <<relay, made, saved, notif, todo, decoded, sub, hist, based, answers, runs, stream,
                       restarts, failures>>
    BY <1>3 DEF Decrypted, DecryptTimeout, DecryptFails
  <2> QED
    BY <2>1, <2>2 DEF InboundTypeOK, States
<1>4. ASSUME NEW w \in Wraps, FinishWrap(w) PROVE InboundTypeOK'
  <2>1. task' \in [Events -> States]
    <3>1. \E s \in States : task' = [task EXCEPT ![w] = s]
      BY <1>4 DEF FinishWrap, States
    <3> QED
      BY <1>0, <3>1
  <2>2. /\ inline' \subseteq inline
        /\ UNCHANGED <<relay, made, saved, notif, todo, decoded, sub, hist, based, answers, runs,
                       restarts, failures>>
        /\ stream' = stream \/ stream' = stream \cup {[event |-> w, bot |-> Recipient[w]]}
    BY <1>4 DEF FinishWrap
  <2>3. \A d \in stream' : d.event \in Wraps => d.bot = Recipient[d.event]
    BY <2>2 DEF InboundTypeOK
  <2> QED
    BY <2>1, <2>2, <2>3 DEF InboundTypeOK, States
<1>5. ASSUME NEW e \in GroupEvents, NEW b \in Bots, ProcessFor(e, b) PROVE InboundTypeOK'
  <2>1. todo' \in [GroupEvents -> SUBSET Bots]
    BY <1>5 DEF ProcessFor, Turn, InboundTypeOK
  <2>2. decoded' \in [GroupEvents -> SUBSET Bots]
    BY <1>5 DEF ProcessFor, InboundTypeOK
  <2>3. hist' \in [Bots -> Seq(Commits)]
    <3>1. CASE hist' = hist
      BY <3>1 DEF InboundTypeOK
    <3>2. CASE e \in Commits /\ hist' = [hist EXCEPT ![b] = Append(@, e)]
      BY <3>2 DEF InboundTypeOK
    <3> QED
      BY <1>5, <3>1, <3>2 DEF ProcessFor, Applies
  <2> QED
    BY <1>5, <2>1, <2>2, <2>3 DEF ProcessFor, InboundTypeOK
<1>6. ASSUME NEW e \in GroupEvents, NEW b \in Bots, AutoCommit(e, b) PROVE InboundTypeOK'
  <2>1. CommitOf[b] \in Commits
    BY Kinds
  <2>2. todo' \in [GroupEvents -> SUBSET Bots]
    BY <1>6 DEF AutoCommit, Turn, InboundTypeOK
  <2>3. hist' \in [Bots -> Seq(Commits)] /\ based' \in [Messages \cup Commits -> Seq(Commits)]
    BY <1>6, <2>1 DEF AutoCommit, InboundTypeOK
  <2>4. /\ sub' \in [GroupEvents -> Commits \cup {None}]
        /\ answers' \in [Commits -> Proposals \cup {None}]
    BY <1>6, <2>1 DEF AutoCommit, AutoCommits, InboundTypeOK
  <2> QED
    BY <1>6, <2>2, <2>3, <2>4 DEF AutoCommit, InboundTypeOK
<1>7. ASSUME NEW e \in GroupEvents, NEW o \in Outcomes, PublishCommit(e, o) PROVE InboundTypeOK'
  <2>1. sub[e] \in Commits /\ sub[e] \in Events
    BY <1>7, Kinds DEF PublishCommit, InboundTypeOK
  <2>2. relay' \subseteq Events /\ saved' \subseteq Events /\ failures' \in 0..MaxFailures
    BY <1>7, <2>1, SendTyped DEF PublishCommit
  <2>3. UNCHANGED <<made, notif, hist, based, answers, stream, restarts>>
    BY <1>7 DEF PublishCommit
  <2>4. CASE o = "error"
    <3>1. sub' = [sub EXCEPT ![e] = None] /\ UNCHANGED <<task, todo, decoded, inline, runs>>
      BY <1>7, <2>4 DEF PublishCommit
    <3>2. sub' \in [GroupEvents -> Commits \cup {None}]
      BY <3>1 DEF InboundTypeOK
    <3> QED
      BY <2>2, <2>3, <3>1, <3>2 DEF InboundTypeOK
  <2>5. CASE o # "error"
    <3>1. Begin(sub[e], "group", inline) /\ sub' = sub
      BY <1>7, <2>5 DEF PublishCommit
    <3>2. "group" \in States /\ inline \in SUBSET (Wraps \cup Messages)
      BY DEF States, InboundTypeOK
    <3>3. /\ task' \in [Events -> States] /\ runs' \in [Events -> Nat]
          /\ inline' \subseteq Wraps \cup Messages
          /\ todo' \in [GroupEvents -> SUBSET Bots] /\ decoded' \in [GroupEvents -> SUBSET Bots]
      BY <2>1, <3>1, <3>2, BeginTyped
    <3> QED
      BY <2>2, <2>3, <3>1, <3>3 DEF InboundTypeOK, States
  <2> QED
    BY <2>4, <2>5
<1>8. ASSUME NEW e \in GroupEvents, EndGroupEvent(e) PROVE InboundTypeOK'
  <2>1. task' \in [Events -> States]
    <3>1. \E s \in States : task' = [task EXCEPT ![e] = s]
      BY <1>8 DEF EndGroupEvent, States
    <3> QED
      BY <1>0, <3>1
  <2>2. /\ inline' \subseteq inline
        /\ UNCHANGED <<relay, made, saved, notif, todo, hist, based, answers, runs, restarts, failures>>
    BY <1>8 DEF EndGroupEvent
  <2>3. /\ decoded' \in [GroupEvents -> SUBSET Bots]
        /\ sub' \in [GroupEvents -> Commits \cup {None}]
    BY <1>8 DEF EndGroupEvent, InboundTypeOK
  <2>4. \A d \in stream' : d.event \in Wraps => d.bot = Recipient[d.event]
    <3>1. e \notin Wraps
      BY Kinds
    <3> QED
      BY <1>8, <3>1 DEF EndGroupEvent, InboundTypeOK
  <2> QED
    BY <2>1, <2>2, <2>3, <2>4 DEF InboundTypeOK, States
<1>9. ASSUME NEW e \in Wraps \cup Messages, NEW o, made' = made \cup {e}, SendEvent(e, o),
             \/ UNCHANGED <<runs, task, todo, decoded, inline>>
             \/ DeliverLocally(e),
             UNCHANGED <<notif, sub, hist, answers, stream, restarts>>,
             based' \in [Messages \cup Commits -> Seq(Commits)]
      PROVE  InboundTypeOK'
  <2>1. e \in Events
    BY Kinds
  <2>2. relay' \subseteq Events /\ saved' \subseteq Events /\ failures' \in 0..MaxFailures
    BY <1>9, <2>1, SendTyped
  <2>3. /\ task' \in [Events -> States] /\ runs' \in [Events -> Nat]
        /\ inline' \subseteq Wraps \cup Messages
        /\ todo' \in [GroupEvents -> SUBSET Bots] /\ decoded' \in [GroupEvents -> SUBSET Bots]
    <3>1. CASE UNCHANGED <<runs, task, todo, decoded, inline>>
      BY <1>0, <3>1 DEF InboundTypeOK
    <3>2. CASE DeliverLocally(e)
      <4>1. PICK s \in States : Begin(e, s, {e})
        BY <3>2 DEF DeliverLocally, States
      <4> QED
        BY <2>1, <4>1, BeginTyped
    <3> QED
      BY <1>9, <3>1, <3>2
  <2> QED
    BY <1>9, <2>2, <2>3 DEF InboundTypeOK, States
<1>10. ASSUME NEW w \in Wraps, NEW o \in Outcomes, SendWrap(w, o) PROVE InboundTypeOK'
  BY <1>9, <1>10 DEF SendWrap, RecipientOffline, InboundTypeOK
<1>11. ASSUME NEW m \in Messages, NEW o \in Outcomes, SendMessage(m, o) PROVE InboundTypeOK'
  <2>1. based' \in [Messages \cup Commits -> Seq(Commits)]
    BY <1>11, InboundAssumption DEF SendMessage, InboundTypeOK
  <2> QED
    BY <1>9, <1>11, <2>1 DEF SendMessage
<1>12. CASE Restart
  <2>1. restarts' \in 0..MaxRestarts
    BY <1>12, InboundAssumption DEF Restart, InboundTypeOK
  <2> QED
    BY <1>12, <2>1 DEF Restart, InboundTypeOK
<1>13. CASE UNCHANGED inboundVars
  BY <1>13 DEF inboundVars, InboundTypeOK
<1> QED
  BY <1>1, <1>2, <1>3, <1>4, <1>5, <1>6, <1>7, <1>8, <1>10, <1>11, <1>12, <1>13
     DEF InboundNext, GroupStep

-----------------------------------------------------------------------------
(* The traffic: an event enters the pipeline once.                         *)

\* Wraps and messages that only a bot of this daemon sends.
OwnEvents == {w \in Wraps : Sender[w] # Outside} \cup Messages

\* What waits in the queue was reported once and not processed; what was
\* processed is in the client's record; what a bot has not sent is nowhere.
Intake ==
    /\ \A i, j \in 1..Len(notif) : notif[i] = notif[j] => i = j
    /\ \A i \in 1..Len(notif) : notif[i] \in saved /\ runs[notif[i]] = 0
    /\ \A e \in Events : runs[e] <= 1 /\ (runs[e] = 1 => e \in saved)
    /\ \A e \in Events : task[e] # "none" => runs[e] = 1
    /\ \A e \in OwnEvents : e \in relay \cup saved => e \in made

\* The commit that a task has in hand is known to nobody until its task has
\* published it, and its author does not commit again: so it is fresh.
CommitsInv ==
    /\ \A b \in Bots : CommitOf[b] \in relay \cup saved => hist[b] # <<>>
    /\ \A e \in GroupEvents : sub[e] # None =>
          /\ e \in Proposals
          /\ \A b \in Bots : CommitOf[b] = sub[e] => hist[b] # <<>>
          /\ task[sub[e]] # "group" => sub[e] \notin relay \cup saved
    /\ \A e, f \in GroupEvents : sub[e] = sub[f] /\ sub[e] # None => e = f

\* The counters of the pipeline are numbers.
LEMMA InboundFields ==
    ASSUME InboundTypeOK
    PROVE  /\ Len(notif) \in Nat /\ \A i \in 1..Len(notif) : notif[i] \in Events
           /\ \A e \in Events : runs[e] \in Nat /\ task[e] \in States
           /\ \A b \in Bots : hist[b] \in Seq(Commits)
           /\ \A e \in GroupEvents : sub[e] \in Commits \cup {None}
  BY DEF InboundTypeOK, States

\* An event the client has not seen is not queued and was not processed.
LEMMA UnseenIsFresh ==
    ASSUME InboundTypeOK, Intake, NEW e \in Events, e \notin saved
    PROVE  runs[e] = 0 /\ task[e] = "none" /\ \A i \in 1..Len(notif) : notif[i] # e
<1>1. runs[e] \in Nat /\ runs[e] <= 1 /\ runs[e] # 1
  BY InboundFields DEF Intake
<1> QED
  BY <1>1 DEF Intake

\* Publishing an event nobody has seen, and pushing it through the pipeline
\* oneself, as send_gift_wrap, send_group_message and the automatic commit do.
LEMMA PublishKeepsIntake ==
    ASSUME InboundTypeOK, Intake, NEW e \in Events, e \notin saved, NEW o, SendEvent(e, o),
           notif' = notif, made \subseteq made', e \in OwnEvents => e \in made',
           \/ UNCHANGED <<runs, task>>
           \/ \E s \in States : \E by : Begin(e, s, by)
    PROVE  Intake'
<1>1. /\ saved' = saved \cup {e} /\ relay' \subseteq relay \cup {e}
  BY DEF SendEvent
<1>2. runs[e] = 0 /\ task[e] = "none" /\ \A i \in 1..Len(notif) : notif[i] # e
  BY UnseenIsFresh
<1>3. \/ runs' = runs /\ task' = task
      \/ /\ runs' = [runs EXCEPT ![e] = 1]
         /\ \E s \in States : task' = [task EXCEPT ![e] = s]
  <2>1. runs \in [Events -> Nat]
    BY DEF InboundTypeOK
  <2>2. CASE \E s \in States : \E by : Begin(e, s, by)
    <3>1. runs' = [runs EXCEPT ![e] = 1]
      BY <1>2, <2>1, <2>2 DEF Begin
    <3> QED
      BY <2>2, <3>1 DEF Begin
  <2> QED
    BY <2>2
<1>4. \A x \in Events : x # e => runs'[x] = runs[x] /\ task'[x] = task[x]
  BY <1>3 DEF InboundTypeOK
<1>5. runs'[e] \in {0, 1} /\ (task'[e] # "none" => runs'[e] = 1)
  <2>1. runs \in [Events -> Nat]
    BY DEF InboundTypeOK
  <2> QED
    BY <1>2, <1>3, <2>1
<1>6. \A i \in 1..Len(notif) : notif[i] \in saved' /\ runs'[notif[i]] = 0
  BY <1>1, <1>2, <1>4, InboundFields DEF Intake
<1>7. \A x \in Events : runs'[x] <= 1 /\ (runs'[x] = 1 => x \in saved')
  BY <1>1, <1>4, <1>5 DEF Intake
<1>8. \A x \in Events : task'[x] # "none" => runs'[x] = 1
  BY <1>4, <1>5 DEF Intake
<1>9. \A x \in OwnEvents : x \in relay' \cup saved' => x \in made'
  BY <1>1 DEF Intake
<1> QED
  BY <1>6, <1>7, <1>8, <1>9 DEF Intake

\* An event enters the pipeline from the queue, once, or from its sender, who
\* has just published it.
LEMMA IntakeNext == InboundTypeOK /\ Intake /\ CommitsInv /\ [InboundNext]_inboundVars => Intake'
<1> SUFFICES ASSUME InboundTypeOK, Intake, CommitsInv, [InboundNext]_inboundVars PROVE Intake'
  OBVIOUS
<1> USE DEF netVars, taskVars
<1>1. ASSUME NEW e \in Events, Notify(e) PROVE Intake'
  <2>1. /\ e \in relay /\ e \notin saved /\ saved' = saved \cup {e} /\ notif' = Append(notif, e)
        /\ UNCHANGED <<relay, made, runs, task>>
    BY <1>1 DEF Notify
  <2>2. runs[e] = 0 /\ \A i \in 1..Len(notif) : notif[i] # e
    BY <2>1, UnseenIsFresh
  <2>3. /\ Len(notif) \in Nat /\ Len(notif') = Len(notif) + 1
        /\ \A i \in 1..Len(notif) : notif'[i] = notif[i]
        /\ notif'[Len(notif) + 1] = e
    BY <2>1 DEF InboundTypeOK
  <2>4. \A i \in 1..Len(notif') : i \in 1..Len(notif) \/ i = Len(notif) + 1
    BY <2>3
  <2>5. \A i, j \in 1..Len(notif') : notif'[i] = notif'[j] => i = j
    BY <2>2, <2>3, <2>4 DEF Intake
  <2>6. \A i \in 1..Len(notif') : notif'[i] \in saved' /\ runs[notif'[i]] = 0
    BY <2>1, <2>2, <2>3, <2>4 DEF Intake
  <2> QED
    BY <2>1, <2>5, <2>6 DEF Intake
<1>2. CASE TakeWrap \/ TakeGroupEvent
  <2>1. PICK s \in {"decrypting", "group"} :
           /\ notif # <<>> /\ notif' = Tail(notif)
           /\ Begin(Head(notif), s, inline)
           /\ UNCHANGED <<relay, made, saved>>
    BY <1>2 DEF TakeWrap, TakeGroupEvent
  <2>2. PICK e \in Events : e = Head(notif)
    BY <2>1, HeadTyped
  <2>3. /\ Len(notif) \in Nat /\ Len(notif) > 0 /\ Len(notif') = Len(notif) - 1
        /\ e = notif[1] /\ \A i \in 1..Len(notif') : notif'[i] = notif[i + 1]
    BY <2>1, <2>2 DEF InboundTypeOK
  <2>4. 1 \in 1..Len(notif) /\ \A i \in 1..Len(notif') : i + 1 \in 1..Len(notif) /\ i + 1 # 1
    BY <2>3
  <2>5. /\ runs[e] = 0 /\ e \in saved
        /\ \A i \in 1..Len(notif') : notif'[i] # e
    BY <2>3, <2>4 DEF Intake
  <2>6. /\ runs' = [runs EXCEPT ![e] = 1] /\ task' = [task EXCEPT ![e] = s]
    <3>1. runs' = [runs EXCEPT ![e] = @ + 1] /\ runs \in [Events -> Nat]
      BY <2>1, <2>2 DEF Begin, InboundTypeOK
    <3>2. runs' = [runs EXCEPT ![e] = 1]
      BY <2>5, <3>1
    <3> QED
      BY <2>1, <2>2, <3>2 DEF Begin
  <2>7. /\ runs'[e] = 1
        /\ \A x \in Events : x # e => runs'[x] = runs[x] /\ task'[x] = task[x]
    BY <2>6 DEF InboundTypeOK
  <2>8. \A i, j \in 1..Len(notif') : notif'[i] = notif'[j] => i = j
    <3> SUFFICES ASSUME NEW i \in 1..Len(notif'), NEW j \in 1..Len(notif'), notif'[i] = notif'[j]
                 PROVE  i = j
      OBVIOUS
    <3>1. notif[i + 1] = notif[j + 1]
      BY <2>3
    <3>2. i + 1 = j + 1
      BY <2>4, <3>1 DEF Intake
    <3>3. i \in Nat /\ j \in Nat
      BY <2>3
    <3> QED
      BY <3>2, <3>3
  <2>9. \A i \in 1..Len(notif') : notif'[i] \in saved /\ runs'[notif'[i]] = 0
    <3> SUFFICES ASSUME NEW i \in 1..Len(notif')
                 PROVE  notif'[i] \in saved /\ runs'[notif'[i]] = 0
      OBVIOUS
    <3>1. notif'[i] = notif[i + 1] /\ i + 1 \in 1..Len(notif) /\ notif'[i] # e
      BY <2>3, <2>4, <2>5
    <3>2. notif[i + 1] \in Events /\ notif[i + 1] \in saved /\ runs[notif[i + 1]] = 0
      BY <3>1, InboundFields DEF Intake
    <3> QED
      BY <2>7, <3>1, <3>2
  <2>10. \A x \in Events : /\ runs'[x] <= 1 /\ (runs'[x] = 1 => x \in saved)
                           /\ task'[x] # "none" => runs'[x] = 1
    BY <2>5, <2>7 DEF Intake
  <2> QED
    BY <2>1, <2>8, <2>9, <2>10 DEF Intake
<1>3. ASSUME NEW e \in Events, task[e] # "none",
             \/ task' = task
             \/ \E s \in States : task' = [task EXCEPT ![e] = s],
             UNCHANGED <<relay, made, saved, notif, runs>>
      PROVE  Intake'
  <2>1. \A x \in Events : task'[x] # "none" => runs[x] = 1
    BY <1>3 DEF Intake, InboundTypeOK
  <2> QED
    BY <1>3, <2>1 DEF Intake
<1>4. ASSUME NEW w \in Wraps,
             Decrypted(w) \/ DecryptTimeout(w) \/ DecryptFails(w) \/ FinishWrap(w)
      PROVE  Intake'
  <2>1. /\ w \in Events /\ task[w] # "none" /\ \E s \in States : task' = [task EXCEPT ![w] = s]
        /\ UNCHANGED <<relay, made, saved, notif, runs>>
    BY <1>4, Kinds DEF Decrypted, DecryptTimeout, DecryptFails, FinishWrap, States
  <2> QED
    BY <1>3, <2>1
<1>5. ASSUME UNCHANGED <<relay, made, saved, notif, runs, task>> PROVE Intake'
  BY <1>5 DEF Intake
<1>6. ASSUME NEW e \in GroupEvents, NEW b \in Bots, ProcessFor(e, b) \/ AutoCommit(e, b)
      PROVE  Intake'
  BY <1>5, <1>6 DEF ProcessFor, AutoCommit
<1>7. ASSUME NEW e \in GroupEvents, NEW o \in Outcomes, PublishCommit(e, o) PROVE Intake'
  <2>1. /\ sub[e] \in Commits /\ sub[e] \in Events /\ sub[e] \notin saved
        /\ sub[e] \notin OwnEvents
    BY <1>7, Kinds, InboundFields DEF PublishCommit, CommitsInv, OwnEvents
  <2>2. /\ SendEvent(sub[e], o) /\ notif' = notif /\ made' = made
        /\ \/ UNCHANGED <<runs, task>>
           \/ Begin(sub[e], "group", inline)
    BY <1>7 DEF PublishCommit
  <2>3. "group" \in States
    BY DEF States
  <2> QED
    BY <2>1, <2>2, <2>3, PublishKeepsIntake
<1>8. ASSUME NEW e \in GroupEvents, EndGroupEvent(e) PROVE Intake'
  <2>1. /\ e \in Events /\ task[e] # "none" /\ \E s \in States : task' = [task EXCEPT ![e] = s]
        /\ UNCHANGED <<relay, made, saved, notif, runs>>
    BY <1>8, Kinds DEF EndGroupEvent, States
  <2> QED
    BY <1>3, <2>1
<1>9. ASSUME NEW e \in OwnEvents, NEW o, e \notin made, made' = made \cup {e}, SendEvent(e, o),
             notif' = notif,
             UNCHANGED <<runs, task, todo, decoded, inline>> \/ DeliverLocally(e)
      PROVE  Intake'
  <2>1. e \in Events /\ e \notin saved
    BY <1>9, Kinds DEF OwnEvents, Intake
  <2>2. \/ UNCHANGED <<runs, task>>
        \/ \E s \in States : \E by : Begin(e, s, by)
    BY <1>9 DEF DeliverLocally, States
  <2> QED
    BY <1>9, <2>1, <2>2, PublishKeepsIntake
<1>10. ASSUME NEW w \in Wraps, NEW o \in Outcomes, SendWrap(w, o) PROVE Intake'
  BY <1>9, <1>10 DEF SendWrap, RecipientOffline, OwnEvents
<1>11. ASSUME NEW m \in Messages, NEW o \in Outcomes, SendMessage(m, o) PROVE Intake'
  BY <1>9, <1>11 DEF SendMessage, OwnEvents
<1>12. CASE Restart
  <2>1. /\ saved' = {} /\ notif' = <<>> /\ task' = [e \in Events |-> "none"]
        /\ runs' = [e \in Events |-> 0] /\ UNCHANGED <<relay, made>>
    BY <1>12 DEF Restart
  <2>2. 1..Len(notif') = {}
    BY <2>1
  <2> QED
    BY <2>1, <2>2 DEF Intake
<1>13. CASE UNCHANGED inboundVars
  BY <1>5, <1>13 DEF inboundVars
<1> QED
  BY <1>1, <1>2, <1>4, <1>6, <1>7, <1>8, <1>10, <1>11, <1>12, <1>13
     DEF InboundNext, GroupStep

-----------------------------------------------------------------------------
(* The traffic: commits are fresh when they are published.                 *)

\* An engine forgets no commit: its history stays, or grows by one at its end.
LEMMA HistoryGrows ==
    ASSUME InboundTypeOK, [InboundNext]_inboundVars
    PROVE  \/ hist' = hist
           \/ \E b \in Bots, c \in Commits : hist' = [hist EXCEPT ![b] = Append(@, c)]
<1> USE DEF netVars, taskVars
<1>1. ASSUME NEW e \in GroupEvents, NEW b \in Bots, ProcessFor(e, b)
      PROVE  \/ hist' = hist
             \/ \E a \in Bots, c \in Commits : hist' = [hist EXCEPT ![a] = Append(@, c)]
  BY <1>1 DEF ProcessFor, Applies
<1>2. ASSUME NEW e \in GroupEvents, NEW b \in Bots, AutoCommit(e, b)
      PROVE  \E a \in Bots, c \in Commits : hist' = [hist EXCEPT ![a] = Append(@, c)]
  BY <1>2, Kinds DEF AutoCommit
<1>3. CASE TakeWrap \/ TakeGroupEvent \/ Restart \/ UNCHANGED inboundVars
  BY <1>3 DEF TakeWrap, TakeGroupEvent, Restart, inboundVars
<1>4. ASSUME NEW e \in Events, Notify(e) PROVE hist' = hist
  BY <1>4 DEF Notify
<1>5. ASSUME NEW w \in Wraps, Decrypted(w) \/ DecryptTimeout(w) \/ DecryptFails(w) \/ FinishWrap(w)
      PROVE  hist' = hist
  BY <1>5 DEF Decrypted, DecryptTimeout, DecryptFails, FinishWrap
<1>6. ASSUME NEW e \in GroupEvents, NEW o \in Outcomes, PublishCommit(e, o) \/ EndGroupEvent(e)
      PROVE  hist' = hist
  BY <1>6 DEF PublishCommit, EndGroupEvent
<1>7. ASSUME NEW e \in GroupEvents, EndGroupEvent(e) PROVE hist' = hist
  BY <1>7 DEF EndGroupEvent
<1>8. ASSUME NEW w \in Wraps, NEW o \in Outcomes, SendWrap(w, o) PROVE hist' = hist
  BY <1>8 DEF SendWrap
<1>9. ASSUME NEW m \in Messages, NEW o \in Outcomes, SendMessage(m, o) PROVE hist' = hist
  BY <1>9 DEF SendMessage
<1> QED
  BY <1>1, <1>2, <1>3, <1>4, <1>5, <1>6, <1>7, <1>8, <1>9 DEF InboundNext, GroupStep

\* So an engine that has committed has committed for good.
LEMMA MergedStays ==
    ASSUME InboundTypeOK, [InboundNext]_inboundVars, NEW b \in Bots
    PROVE  hist[b] # <<>> => hist'[b] # <<>>
<1>1. CASE hist' = hist
  BY <1>1
<1>2. ASSUME NEW a \in Bots, NEW c \in Commits, hist' = [hist EXCEPT ![a] = Append(@, c)]
      PROVE  hist[b] # <<>> => hist'[b] # <<>>
  <2>1. hist[a] \in Seq(Commits) /\ hist \in [Bots -> Seq(Commits)]
    BY DEF InboundTypeOK
  <2>2. Append(hist[a], c) # <<>>
    BY <2>1
  <2>3. hist'[b] = IF a = b THEN Append(hist[a], c) ELSE hist[b]
    BY <1>2, <2>1
  <2> QED
    BY <2>2, <2>3
<1> QED
  BY <1>1, <1>2, HistoryGrows

\* A step that hands no commit to a task.
LEMMA NoNewCommit ==
    ASSUME CommitsInv,
           \A b \in Bots : hist[b] # <<>> => hist'[b] # <<>>,
           \A b \in Bots : CommitOf[b] \in relay' \cup saved'
                              => CommitOf[b] \in relay \cup saved \/ hist'[b] # <<>>,
           \A e \in GroupEvents : sub'[e] \in {sub[e], None},
           \A e \in GroupEvents : sub'[e] # None =>
              task'[sub'[e]] = "group" \/ sub'[e] \notin relay' \cup saved'
    PROVE  CommitsInv'
  BY DEF CommitsInv

\* A bot makes its commit when its engine has none, so it is one nobody has;
\* its task hands it on once.
LEMMA CommitsNext ==
    InboundTypeOK /\ Intake /\ CommitsInv /\ [InboundNext]_inboundVars => CommitsInv'
<1> SUFFICES ASSUME InboundTypeOK, Intake, CommitsInv, [InboundNext]_inboundVars
             PROVE  CommitsInv'
  OBVIOUS
<1> USE DEF netVars, taskVars
<1>0. \A b \in Bots : hist[b] # <<>> => hist'[b] # <<>>
  BY MergedStays
<1>1. ASSUME UNCHANGED sub, relay' \cup saved' \subseteq relay \cup saved,
             \A e \in GroupEvents : sub[e] # None => task'[sub[e]] = task[sub[e]]
      PROVE  CommitsInv'
  <2>1. \A e \in GroupEvents : sub'[e] # None =>
              task'[sub'[e]] = "group" \/ sub'[e] \notin relay' \cup saved'
    BY <1>1 DEF CommitsInv
  <2> QED
    BY <1>0, <1>1, <2>1, NoNewCommit
<1>2. ASSUME NEW e \in Events, Notify(e) PROVE CommitsInv'
  BY <1>1, <1>2 DEF Notify
<1>3. CASE TakeWrap \/ TakeGroupEvent
  <2>1. PICK s \in {"decrypting", "group"} :
           /\ notif # <<>> /\ Begin(Head(notif), s, inline)
           /\ UNCHANGED <<relay, saved, sub>>
    BY <1>3 DEF TakeWrap, TakeGroupEvent
  <2>2. PICK x \in Events : x = Head(notif)
    BY <2>1, HeadTyped
  <2>3. Len(notif) \in Nat /\ 1 \in 1..Len(notif) /\ x = notif[1]
    BY <2>1, <2>2 DEF InboundTypeOK
  <2>4. x \in saved /\ task[x] # "group"
    BY <2>3 DEF Intake
  <2>5. \A e \in GroupEvents : sub[e] # None => sub[e] # x
    BY <2>4 DEF CommitsInv
  <2>6. task' = [task EXCEPT ![x] = s]
    BY <2>1, <2>2 DEF Begin
  <2>7. \A e \in GroupEvents : sub[e] # None => task'[sub[e]] = task[sub[e]]
    BY <2>5, <2>6, Kinds, InboundFields DEF InboundTypeOK
  <2> QED
    BY <1>1, <2>1, <2>7
<1>4. ASSUME NEW w \in Wraps,
             Decrypted(w) \/ DecryptTimeout(w) \/ DecryptFails(w) \/ FinishWrap(w)
      PROVE  CommitsInv'
  <2>1. /\ \E s \in States : task' = [task EXCEPT ![w] = s]
        /\ UNCHANGED <<relay, saved, sub>>
    BY <1>4 DEF Decrypted, DecryptTimeout, DecryptFails, FinishWrap, States
  <2>2. \A e \in GroupEvents : sub[e] # None => sub[e] # w /\ sub[e] \in Events
    BY Kinds, InboundFields
  <2>3. \A e \in GroupEvents : sub[e] # None => task'[sub[e]] = task[sub[e]]
    BY <2>1, <2>2 DEF InboundTypeOK
  <2> QED
    BY <1>1, <2>1, <2>3
<1>5. ASSUME NEW e \in GroupEvents, NEW b \in Bots, ProcessFor(e, b) PROVE CommitsInv'
  BY <1>1, <1>5 DEF ProcessFor
<1>6. ASSUME NEW e \in GroupEvents, NEW b \in Bots, AutoCommit(e, b) PROVE CommitsInv'
  <2>1. PICK c \in Commits : c = CommitOf[b]
    BY Kinds
  <2>2. /\ e \in Proposals /\ hist[b] = <<>> /\ sub' = [sub EXCEPT ![e] = c]
        /\ UNCHANGED <<relay, saved, task>>
    BY <1>6, <2>1 DEF AutoCommit, AutoCommits
  <2>3. c \notin relay \cup saved
    BY <2>1, <2>2 DEF CommitsInv
  <2>4. hist'[b] # <<>>
    <3>1. hist[b] \in Seq(Commits) /\ hist \in [Bots -> Seq(Commits)]
      BY DEF InboundTypeOK
    <3>2. hist'[b] = Append(hist[b], c)
      BY <1>6, <2>1, <3>1 DEF AutoCommit
    <3> QED
      BY <3>1, <3>2
  <2>5. \A a \in Bots : CommitOf[a] = c => a = b
    BY <2>1, InboundAssumption
  <2>6. \A f \in GroupEvents : sub[f] # c
    BY <2>1, <2>2, Kinds DEF CommitsInv
  <2>7. \A f \in GroupEvents : sub'[f] = IF f = e THEN c ELSE sub[f]
    BY <2>2 DEF InboundTypeOK
  <2>8. \A f \in GroupEvents : sub'[f] # None =>
          /\ f \in Proposals
          /\ \A a \in Bots : CommitOf[a] = sub'[f] => hist'[a] # <<>>
          /\ task[sub'[f]] # "group" => sub'[f] \notin relay \cup saved
    BY <1>0, <2>2, <2>3, <2>4, <2>5, <2>7 DEF CommitsInv
  <2>9. \A f, g \in GroupEvents : sub'[f] = sub'[g] /\ sub'[f] # None => f = g
    BY <2>6, <2>7 DEF CommitsInv
  <2> QED
    BY <1>0, <2>2, <2>8, <2>9 DEF CommitsInv
<1>7. ASSUME NEW e \in GroupEvents, NEW o \in Outcomes, PublishCommit(e, o) PROVE CommitsInv'
  <2>1. PICK c \in Commits : c = sub[e]
    BY <1>7, InboundFields DEF PublishCommit
  <2>2. /\ c # None /\ task[c] # "group"
        /\ saved' = saved \cup {c} /\ relay' \subseteq relay \cup {c}
    BY <1>7, <2>1 DEF PublishCommit, SendEvent
  <2>3. \A b \in Bots : CommitOf[b] \in relay' \cup saved'
                           => CommitOf[b] \in relay \cup saved \/ hist'[b] # <<>>
    BY <1>0, <2>1, <2>2 DEF CommitsInv
  <2>4. \A f \in GroupEvents : f # e => sub[f] # c
    BY <2>1, <2>2 DEF CommitsInv
  <2>5. CASE o = "error"
    <3>1. sub' = [sub EXCEPT ![e] = None] /\ task' = task
      BY <1>7, <2>5 DEF PublishCommit
    <3>2. \A f \in GroupEvents : sub'[f] = IF f = e THEN None ELSE sub[f]
      BY <3>1 DEF InboundTypeOK
    <3>3. \A f \in GroupEvents : sub'[f] # None =>
              task'[sub'[f]] = "group" \/ sub'[f] \notin relay' \cup saved'
      BY <2>2, <2>4, <3>1, <3>2 DEF CommitsInv
    <3>4. \A f \in GroupEvents : sub'[f] \in {sub[f], None}
      BY <3>2
    <3> QED
      BY <1>0, <2>3, <3>3, <3>4, NoNewCommit
  <2>6. CASE o # "error"
    <3>1. sub' = sub /\ task' = [task EXCEPT ![c] = "group"]
      BY <1>7, <2>1, <2>6 DEF PublishCommit, Begin
    <3>2. /\ task'[c] = "group" /\ \A x \in Events : x # c => task'[x] = task[x]
      BY <3>1, Kinds DEF InboundTypeOK
    <3>3. \A f \in GroupEvents : sub[f] # None => sub[f] \in Events
      BY Kinds, InboundFields
    <3>4. \A f \in GroupEvents : sub'[f] # None =>
              task'[sub'[f]] = "group" \/ sub'[f] \notin relay' \cup saved'
      BY <2>1, <2>2, <2>4, <3>1, <3>2, <3>3 DEF CommitsInv
    <3>5. \A f \in GroupEvents : sub'[f] \in {sub[f], None}
      BY <3>1
    <3> QED
      BY <1>0, <2>3, <3>4, <3>5, NoNewCommit
  <2> QED
    BY <2>5, <2>6
<1>8. ASSUME NEW e \in GroupEvents, EndGroupEvent(e) PROVE CommitsInv'
  <2>1. /\ \E s \in States : task' = [task EXCEPT ![e] = s]
        /\ sub' = [x \in GroupEvents |-> IF sub[x] = e THEN None ELSE sub[x]]
        /\ UNCHANGED <<relay, saved>>
    BY <1>8 DEF EndGroupEvent, States
  <2>2. \A f \in GroupEvents : sub'[f] \in {sub[f], None} /\ (sub'[f] # None => sub'[f] # e)
    BY <2>1
  <2>3. \A x \in Events : x # e => task'[x] = task[x]
    BY <2>1 DEF InboundTypeOK
  <2>4. \A f \in GroupEvents : sub'[f] # None =>
              task'[sub'[f]] = "group" \/ sub'[f] \notin relay' \cup saved'
    BY <2>1, <2>2, <2>3, Kinds, InboundFields DEF CommitsInv
  <2> QED
    BY <1>0, <2>1, <2>2, <2>4, NoNewCommit
<1>9. ASSUME NEW e \in Wraps \cup Messages, NEW o, SendEvent(e, o), sub' = sub,
             UNCHANGED <<runs, task, todo, decoded, inline>> \/ DeliverLocally(e)
      PROVE  CommitsInv'
  <2>1. saved' = saved \cup {e} /\ relay' \subseteq relay \cup {e}
    BY <1>9 DEF SendEvent
  <2>2. \A x \in Events : x # e => task'[x] = task[x]
    BY <1>9 DEF DeliverLocally, Begin, InboundTypeOK
  <2>3. e \notin Commits
    BY Kinds
  <2>4. \A f \in GroupEvents : sub'[f] # None =>
              task'[sub'[f]] = "group" \/ sub'[f] \notin relay' \cup saved'
    BY <1>9, <2>1, <2>2, <2>3, Kinds, InboundFields DEF CommitsInv
  <2>5. \A b \in Bots : CommitOf[b] \in relay' \cup saved' => CommitOf[b] \in relay \cup saved
    BY <2>1, <2>3, Kinds
  <2>6. \A f \in GroupEvents : sub'[f] \in {sub[f], None}
    BY <1>9
  <2> QED
    BY <1>0, <2>4, <2>5, <2>6, NoNewCommit
<1>10. ASSUME NEW w \in Wraps, NEW o \in Outcomes, SendWrap(w, o) PROVE CommitsInv'
  BY <1>9, <1>10 DEF SendWrap, RecipientOffline
<1>11. ASSUME NEW m \in Messages, NEW o \in Outcomes, SendMessage(m, o) PROVE CommitsInv'
  BY <1>9, <1>11 DEF SendMessage
<1>12. CASE Restart
  <2>1. saved' = {} /\ relay' = relay /\ sub' = [e \in GroupEvents |-> None]
    BY <1>12 DEF Restart
  <2>2. \A b \in Bots : CommitOf[b] \in relay' \cup saved' => CommitOf[b] \in relay \cup saved
    BY <2>1
  <2>3. \A e \in GroupEvents : sub'[e] = None
    BY <2>1
  <2> QED
    BY <1>0, <2>2, <2>3, NoNewCommit
<1>13. CASE UNCHANGED inboundVars
  BY <1>1, <1>13 DEF inboundVars
<1> QED
  BY <1>2, <1>3, <1>4, <1>5, <1>6, <1>7, <1>8, <1>10, <1>11, <1>12, <1>13
     DEF InboundNext, GroupStep

-----------------------------------------------------------------------------
(* The traffic: what a message's members get.                              *)

\* The empty history is the beginning of every history.
LEMMA EmptyPrefix == ASSUME NEW t \in Seq(Commits) PROVE IsPrefix(<<>>, t)
<1>1. Len(t) \in Nat /\ Len(<<>>) = 0
  OBVIOUS
<1>2. SubSeq(<<>>, 1, 0) = <<>> /\ SubSeq(t, 1, 0) = <<>>
  OBVIOUS
<1> QED
  BY <1>1, <1>2 DEF IsPrefix

\* An engine that has reached an epoch stays past it.
LEMMA PrefixGrows ==
    ASSUME NEW s \in Seq(Commits), NEW t \in Seq(Commits), NEW c \in Commits, IsPrefix(s, t)
    PROVE  IsPrefix(s, Append(t, c))
<1>1. Len(s) \in Nat /\ Len(t) \in Nat /\ Len(s) <= Len(t)
  BY DEF IsPrefix
<1>2. SubSeq(s, 1, Len(s)) = SubSeq(t, 1, Len(s))
  BY DEF IsPrefix
<1>3. Append(t, c) \in Seq(Commits) /\ Len(Append(t, c)) = Len(t) + 1
  OBVIOUS
<1>4. SubSeq(t, 1, Len(s)) = SubSeq(Append(t, c), 1, Len(s))
  BY <1>1, <1>3
<1> QED
  BY <1>1, <1>2, <1>3, <1>4 DEF IsPrefix

\* An engine that has reached an epoch never goes back.
LEMMA PrefixStays ==
    ASSUME InboundTypeOK, [InboundNext]_inboundVars, NEW s \in Seq(Commits), NEW b \in Bots,
           IsPrefix(s, hist[b])
    PROVE  IsPrefix(s, hist'[b])
<1>1. hist \in [Bots -> Seq(Commits)]
  BY DEF InboundTypeOK
<1>2. ASSUME NEW a \in Bots, NEW c \in Commits, hist' = [hist EXCEPT ![a] = Append(@, c)]
      PROVE  IsPrefix(s, hist'[b])
  <2>1. CASE a = b
    <3>1. hist'[b] = Append(hist[b], c)
      BY <1>1, <1>2, <2>1
    <3> QED
      BY <1>1, <3>1, PrefixGrows
  <2>2. CASE a # b
    BY <1>1, <1>2, <2>2
  <2> QED
    BY <2>1, <2>2
<1> QED
  BY <1>2, HistoryGrows

\* The bots a message was reported to in this run of the daemon.
Got(m) == {b \in Bots : [event |-> m, bot |-> b] \in stream}

\* A message in hand has been decoded for every member whose turn has passed
\* but its author, if all of them are in the epoch it was sent in; when its task
\* is done, what was decoded was reported.
MessageInv(m) ==
    /\ decoded[m] # {} => task[m] = "group"
    /\ Got(m) # {} => runs[m] = 1
    /\ \A b \in decoded[m] \cup Got(m) : b # Author[m] /\ IsPrefix(based[m], hist[b])
    /\ restarts = 0 /\ based[m] = <<>> /\ task[m] = "group"
         => Bots \ ({Author[m]} \cup todo[m]) \subseteq decoded[m]
    /\ restarts = 0 /\ based[m] = <<>> /\ task[m] = "done"
         => Bots \ {Author[m]} \subseteq Got(m)

Decoding == \A m \in Messages : MessageInv(m)

\* A step that is not about a message.
LEMMA QuietMessage ==
    ASSUME InboundTypeOK, [InboundNext]_inboundVars, NEW m \in Messages, MessageInv(m),
           task'[m] = task[m], runs'[m] = runs[m], decoded'[m] = decoded[m],
           todo'[m] = todo[m], based'[m] = based[m], restarts' = restarts, Got(m)' = Got(m)
    PROVE  MessageInv(m)'
<1>1. based[m] \in Seq(Commits) /\ decoded[m] \subseteq Bots /\ Got(m) \subseteq Bots
  BY Kinds DEF InboundTypeOK, Got
<1>2. \A b \in decoded[m] \cup Got(m) : b # Author[m] /\ IsPrefix(based[m], hist'[b])
  BY <1>1, PrefixStays DEF MessageInv
<1> QED
  BY <1>2 DEF MessageInv

\* A message that has just been taken up, or not yet.
LEMMA FreshMessage ==
    ASSUME NEW m \in Messages, decoded'[m] = {}, Got(m)' = {},
           task'[m] = "none" \/ (task'[m] = "group" /\ todo'[m] = Bots)
    PROVE  MessageInv(m)'
  BY DEF MessageInv

\* Taking up a message nobody has processed.
LEMMA BeginMessage ==
    ASSUME InboundTypeOK, NEW m \in Messages, MessageInv(m), runs[m] = 0, NEW by,
           Begin(m, "group", by), UNCHANGED stream
    PROVE  MessageInv(m)'
<1>1. Got(m)' = {}
  BY DEF MessageInv, Got
<1>2. decoded'[m] = {} /\ todo'[m] = Bots
  BY Kinds DEF Begin, InboundTypeOK
<1>3. task'[m] = "group"
  BY Kinds DEF Begin, InboundTypeOK
<1> QED
  BY <1>1, <1>2, <1>3, FreshMessage

\* Taking up an event leaves every other event alone.
LEMMA BeginElsewhere ==
    ASSUME InboundTypeOK, NEW e \in Events, NEW s, NEW by, Begin(e, s, by),
           NEW m \in Messages, m # e
    PROVE  /\ task'[m] = task[m] /\ runs'[m] = runs[m]
           /\ decoded'[m] = decoded[m] /\ todo'[m] = todo[m]
  BY Kinds DEF Begin, InboundTypeOK

\* The members take their turns at a message.
LEMMA TurnKeepsMessage ==
    ASSUME InboundTypeOK, [InboundNext]_inboundVars, NEW m \in Messages, MessageInv(m),
           NEW b \in Bots, ProcessFor(m, b)
    PROVE  MessageInv(m)'
<1> USE DEF netVars, taskVars
<1>1. /\ task[m] = "group" /\ task' = task /\ runs' = runs /\ based' = based
      /\ restarts' = restarts /\ stream' = stream
      /\ todo' = [todo EXCEPT ![m] = @ \ {b}]
  BY DEF ProcessFor, Turn
<1>2. Got(m)' = Got(m)
  BY <1>1 DEF Got
<1>3. /\ m \in GroupEvents /\ m \notin Commits /\ based[m] \in Seq(Commits)
      /\ todo'[m] = todo[m] \ {b} /\ decoded[m] \subseteq Bots /\ Got(m) \subseteq Bots
  BY <1>1, Kinds DEF InboundTypeOK, Got
<1>4. hist' = hist /\ hist[b] \in Seq(Commits)
  BY <1>3 DEF ProcessFor, Applies, InboundTypeOK
<1>5. CASE CanDecode(m, b) /\ decoded'[m] = decoded[m] \cup {b}
  <2>1. b # Author[m] /\ IsPrefix(based[m], hist[b])
    BY <1>5 DEF CanDecode, OwnEvent
  <2> QED
    BY <1>1, <1>2, <1>3, <1>4, <1>5, <2>1 DEF MessageInv
<1>6. CASE decoded'[m] = decoded[m] /\ (~CanDecode(m, b) \/ restarts > 0)
  <2>1. restarts = 0 /\ based[m] = <<>> => b = Author[m]
    <3>1. ASSUME restarts = 0, based[m] = <<>>, b # Author[m] PROVE FALSE
      <4>1. IsPrefix(based[m], hist[b])
        BY <1>4, <3>1, EmptyPrefix
      <4>2. ~CanDecode(m, b)
        BY <1>6, <3>1
      <4> QED
        BY <3>1, <4>1, <4>2 DEF CanDecode, OwnEvent
    <3> QED
      BY <3>1
  <2> QED
    BY <1>1, <1>2, <1>3, <1>4, <1>6, <2>1 DEF MessageInv
<1>7. \/ CanDecode(m, b) /\ decoded'[m] = decoded[m] \cup {b}
      \/ decoded'[m] = decoded[m] /\ (~CanDecode(m, b) \/ restarts > 0)
  BY <1>3 DEF ProcessFor, InboundTypeOK
<1> QED
  BY <1>5, <1>6, <1>7

\* The members have had their turns: what was decoded is reported, or nothing
\* is.
LEMMA EndKeepsMessage ==
    ASSUME InboundTypeOK, Intake, NEW m \in Messages, MessageInv(m), EndGroupEvent(m)
    PROVE  MessageInv(m)'
<1> USE DEF netVars, taskVars
<1>1. /\ m \in GroupEvents /\ m \in Events /\ decoded[m] \subseteq Bots
      /\ task[m] = "group" /\ todo[m] = {} /\ runs[m] = 1
  BY Kinds DEF EndGroupEvent, InboundTypeOK, Intake
<1>2. /\ hist' = hist /\ based' = based /\ runs' = runs /\ restarts' = restarts
      /\ decoded'[m] = {}
  BY <1>1 DEF EndGroupEvent, InboundTypeOK
<1>3. CASE /\ task' = [task EXCEPT ![m] = "done"]
           /\ stream' = stream \cup {[event |-> m, bot |-> b] : b \in decoded[m]}
  <2>1. task'[m] = "done"
    BY <1>1, <1>3 DEF InboundTypeOK
  <2>2. Got(m)' = Got(m) \cup decoded[m]
    <3>1. \A b \in Bots : [event |-> m, bot |-> b] \in stream'
             <=> [event |-> m, bot |-> b] \in stream \/ b \in decoded[m]
      <4>1. \A a, b : [event |-> m, bot |-> a] = [event |-> m, bot |-> b] => a = b
        OBVIOUS
      <4> QED
        BY <1>3, <4>1
    <3> QED
      BY <1>1, <3>1 DEF Got
  <2> QED
    BY <1>1, <1>2, <2>1, <2>2 DEF MessageInv
<1>4. CASE task' = [task EXCEPT ![m] = "dropped"] /\ stream' = stream
  <2>1. task'[m] = "dropped"
    BY <1>1, <1>4 DEF InboundTypeOK
  <2>2. Got(m)' = Got(m)
    BY <1>4 DEF Got
  <2> QED
    BY <1>1, <1>2, <2>1, <2>2 DEF MessageInv
<1> QED
  BY <1>3, <1>4 DEF EndGroupEvent

\* Members are served one after another from the copy of the event, and the
\* epoch an engine has reached is never lost, so what is reported is right.
LEMMA DecodingNext ==
    InboundTypeOK /\ Intake /\ CommitsInv /\ Decoding /\ [InboundNext]_inboundVars => Decoding'
<1> SUFFICES ASSUME InboundTypeOK, Intake, CommitsInv, Decoding, [InboundNext]_inboundVars,
                    NEW m \in Messages
             PROVE  MessageInv(m)'
  BY DEF Decoding
<1> USE DEF netVars, taskVars
<1>0. /\ MessageInv(m) /\ m \in GroupEvents /\ m \in Events /\ m \notin Wraps
      /\ m \notin Commits /\ m \notin Proposals /\ m \in OwnEvents
  BY Kinds DEF Decoding, OwnEvents
<1>1. ASSUME task'[m] = task[m], runs'[m] = runs[m], decoded'[m] = decoded[m],
             todo'[m] = todo[m], based'[m] = based[m], restarts' = restarts, stream' = stream
      PROVE  MessageInv(m)'
  <2>1. Got(m)' = Got(m)
    BY <1>1 DEF Got
  <2> QED
    BY <1>0, <1>1, <2>1, QuietMessage
<1>2. ASSUME NEW e \in Events, Notify(e) PROVE MessageInv(m)'
  BY <1>1, <1>2 DEF Notify
<1>3. CASE TakeWrap \/ TakeGroupEvent
  <2>1. PICK s \in {"decrypting", "group"} :
           /\ notif # <<>> /\ Begin(Head(notif), s, inline)
           /\ s # "group" => Head(notif) \in Wraps
           /\ UNCHANGED <<based, answers, stream, restarts>>
    BY <1>3 DEF TakeWrap, TakeGroupEvent
  <2>2. PICK x \in Events : x = Head(notif)
    BY <2>1, HeadTyped
  <2>3. Len(notif) \in Nat /\ 1 \in 1..Len(notif) /\ x = notif[1]
    BY <2>1, <2>2 DEF InboundTypeOK
  <2>4. runs[x] = 0
    BY <2>3 DEF Intake
  <2>5. CASE m = x
    BY <1>0, <2>1, <2>2, <2>4, <2>5, BeginMessage
  <2>6. CASE m # x
    BY <1>1, <2>1, <2>2, <2>6, BeginElsewhere
  <2> QED
    BY <2>5, <2>6
<1>4. ASSUME NEW w \in Wraps,
             Decrypted(w) \/ DecryptTimeout(w) \/ DecryptFails(w) \/ FinishWrap(w)
      PROVE  MessageInv(m)'
  <2>1. /\ \E s \in States : task' = [task EXCEPT ![w] = s]
        /\ UNCHANGED <<runs, decoded, todo, based, answers, restarts>>
        /\ stream' = stream \/ stream' = stream \cup {[event |-> w, bot |-> Recipient[w]]}
    BY <1>4 DEF Decrypted, DecryptTimeout, DecryptFails, FinishWrap, States
  <2>2. task'[m] = task[m]
    BY <1>0, <2>1 DEF InboundTypeOK
  <2>3. Got(m)' = Got(m)
    <3>1. \A b : [event |-> m, bot |-> b] # [event |-> w, bot |-> Recipient[w]]
      BY <1>0
    <3> QED
      BY <2>1, <3>1 DEF Got
  <2> QED
    BY <1>0, <2>1, <2>2, <2>3, QuietMessage
<1>5. ASSUME NEW e \in GroupEvents, NEW b \in Bots, ProcessFor(e, b) PROVE MessageInv(m)'
  <2>1. CASE m = e
    BY <1>0, <1>5, <2>1, TurnKeepsMessage
  <2>2. CASE m # e
    <3>1. UNCHANGED <<task, runs, based, answers, restarts, stream>>
      BY <1>5 DEF ProcessFor
    <3>2. todo'[m] = todo[m] /\ decoded'[m] = decoded[m]
      BY <1>0, <1>5, <2>2 DEF ProcessFor, Turn, InboundTypeOK
    <3> QED
      BY <1>1, <3>1, <3>2
  <2> QED
    BY <2>1, <2>2
<1>6. ASSUME NEW e \in GroupEvents, NEW b \in Bots, AutoCommit(e, b) PROVE MessageInv(m)'
  <2>1. /\ e \in Proposals /\ CommitOf[b] \in Commits
        /\ UNCHANGED <<task, runs, decoded, restarts, stream>>
    BY <1>6, Kinds DEF AutoCommit, AutoCommits
  <2>2. todo'[m] = todo[m] /\ based'[m] = based[m]
    BY <1>0, <1>6, <2>1 DEF AutoCommit, Turn, InboundTypeOK
  <2> QED
    BY <1>1, <2>1, <2>2
<1>7. ASSUME NEW e \in GroupEvents, NEW o \in Outcomes, PublishCommit(e, o) PROVE MessageInv(m)'
  <2>1. PICK c \in Commits : c = sub[e]
    BY <1>7, InboundFields DEF PublishCommit
  <2>2. /\ UNCHANGED <<based, answers, stream, restarts>>
        /\ Begin(c, "group", inline) \/ UNCHANGED <<task, todo, decoded, inline, runs>>
    BY <1>7, <2>1 DEF PublishCommit
  <2>3. c \in Events /\ c # m
    BY <1>0, Kinds
  <2> QED
    BY <1>1, <2>2, <2>3, BeginElsewhere
<1>8. ASSUME NEW e \in GroupEvents, EndGroupEvent(e) PROVE MessageInv(m)'
  <2>1. CASE m = e
    BY <1>0, <1>8, <2>1, EndKeepsMessage
  <2>2. CASE m # e
    <3>1. UNCHANGED <<todo, runs, based, answers, restarts>>
      BY <1>8 DEF EndGroupEvent
    <3>2. task'[m] = task[m] /\ decoded'[m] = decoded[m]
      BY <1>0, <1>8, <2>2 DEF EndGroupEvent, InboundTypeOK
    <3>3. Got(m)' = Got(m)
      <4>1. \A a, b : [event |-> m, bot |-> a] # [event |-> e, bot |-> b]
        BY <2>2
      <4>2. \A b \in Bots : [event |-> m, bot |-> b] \in stream' <=> [event |-> m, bot |-> b] \in stream
        BY <1>8, <4>1 DEF EndGroupEvent
      <4> QED
        BY <4>2 DEF Got
    <3> QED
      BY <1>0, <3>1, <3>2, <3>3, QuietMessage
  <2> QED
    BY <2>1, <2>2
<1>9. ASSUME NEW w \in Wraps, NEW o \in Outcomes, SendWrap(w, o) PROVE MessageInv(m)'
  <2>1. /\ UNCHANGED <<based, answers, stream, restarts>> /\ w \in Events
        /\ UNCHANGED <<runs, task, todo, decoded, inline>> \/ \E s : Begin(w, s, {w})
    BY <1>9, Kinds DEF SendWrap, RecipientOffline, DeliverLocally
  <2> QED
    BY <1>0, <1>1, <2>1, BeginElsewhere
<1>10. ASSUME NEW x \in Messages, NEW o \in Outcomes, SendMessage(x, o) PROVE MessageInv(m)'
  <2>1. /\ x \in Events /\ x \notin Wraps /\ x \notin made
        /\ based' = [based EXCEPT ![x] = hist[Author[x]]] /\ UNCHANGED <<stream, restarts>>
        /\ UNCHANGED <<runs, task, todo, decoded, inline>> \/ Begin(x, "group", {x})
    BY <1>10, Kinds DEF SendMessage, DeliverLocally
  <2>2. CASE m # x
    <3>1. based'[m] = based[m]
      BY <2>1, <2>2 DEF InboundTypeOK
    <3> QED
      BY <1>1, <2>1, <2>2, <3>1, BeginElsewhere
  <2>3. CASE m = x
    <3>1. runs[m] = 0 /\ task[m] = "none"
      <4>1. m \notin saved
        BY <1>0, <2>1, <2>3 DEF Intake
      <4> QED
        BY <1>0, <4>1, UnseenIsFresh
    <3>2. CASE Begin(x, "group", {x})
      BY <1>0, <2>1, <2>3, <3>1, <3>2, BeginMessage
    <3>3. CASE UNCHANGED <<runs, task, todo, decoded, inline>>
      <4>1. decoded'[m] = {} /\ task'[m] = "none"
        BY <1>0, <3>1, <3>3 DEF MessageInv
      <4>2. Got(m)' = {}
        BY <1>0, <2>1, <3>1 DEF MessageInv, Got
      <4> QED
        BY <4>1, <4>2, FreshMessage
    <3> QED
      BY <2>1, <3>2, <3>3
  <2> QED
    BY <2>2, <2>3
<1>11. CASE Restart
  <2>1. /\ stream' = {} /\ task' = [e \in Events |-> "none"]
        /\ decoded' = [e \in GroupEvents |-> {}]
    BY <1>11 DEF Restart
  <2>2. Got(m)' = {} /\ decoded'[m] = {} /\ task'[m] = "none"
    BY <1>0, <2>1 DEF Got
  <2> QED
    BY <2>2, FreshMessage
<1>12. CASE UNCHANGED inboundVars
  BY <1>1, <1>12 DEF inboundVars
<1> QED
  BY <1>2, <1>3, <1>4, <1>5, <1>6, <1>7, <1>8, <1>9, <1>10, <1>11, <1>12
     DEF InboundNext, GroupStep

TrafficInv == InboundTypeOK /\ Intake /\ CommitsInv /\ Decoding

\* Nothing is known, queued or committed when the daemon starts.
LEMMA TrafficInit == InboundInit => TrafficInv
<1> SUFFICES ASSUME InboundInit PROVE TrafficInv
  OBVIOUS
<1>1. InboundTypeOK
  BY InboundTypedInit
<1>2. Intake
  <2>1. /\ saved = {} /\ notif = <<>> /\ runs = [e \in Events |-> 0]
        /\ task = [e \in Events |-> "none"]
    BY DEF InboundInit
  <2>2. \A e \in OwnEvents : e \notin relay
    BY Kinds DEF InboundInit, OwnEvents
  <2>3. 1..Len(notif) = {}
    BY <2>1
  <2> QED
    BY <2>1, <2>2, <2>3 DEF Intake
<1>3. CommitsInv
  <2>1. saved = {} /\ \A b \in Bots : CommitOf[b] \notin relay
    BY Kinds DEF InboundInit
  <2>2. \A e \in GroupEvents : sub[e] = None
    BY DEF InboundInit
  <2> QED
    BY <2>1, <2>2 DEF CommitsInv
<1>4. Decoding
  <2> SUFFICES ASSUME NEW m \in Messages PROVE MessageInv(m)
    BY DEF Decoding
  <2>1. stream = {} /\ task[m] = "none" /\ decoded[m] = {}
    BY Kinds DEF InboundInit
  <2>2. Got(m) = {}
    BY <2>1 DEF Got
  <2> QED
    BY <2>1, <2>2 DEF MessageInv
<1> QED
  BY <1>1, <1>2, <1>3, <1>4 DEF TrafficInv

\* The state of the client, the pipeline and the engines stays consistent.
THEOREM TrafficInvariance == InboundSpec => []TrafficInv
<1>1. TrafficInv /\ [InboundNext]_inboundVars => TrafficInv'
  BY InboundTypedNext, IntakeNext, CommitsNext, DecodingNext DEF TrafficInv
<1> QED
  BY TrafficInit, <1>1, PTL DEF InboundSpec

\* The pipeline is well typed, and a gift wrap is reported to its recipient
\* only (finish_gift_wrap).
THEOREM InboundTypeCorrect == InboundSpec => []InboundTypeOK
<1>1. TrafficInv => InboundTypeOK
  BY DEF TrafficInv
<1> QED
  BY <1>1, TrafficInvariance, PTL

\* deliver_locally and the notification loop between them: in one run of the
\* daemon an event enters the pipeline at most once, whatever relays report and
\* however publishes end; a message is never reported to its author or to a bot
\* whose engine could not decode it, and one of the first epoch is reported to
\* every other member.
THEOREM EventsDeliveredOnce == InboundSpec => []LocalDelivery
<1>1. TrafficInv => LocalDelivery
  <2> SUFFICES ASSUME TrafficInv PROVE LocalDelivery
    OBVIOUS
  <2>1. \A e \in Events : runs[e] <= 1
    BY DEF TrafficInv, Intake
  <2>2. ASSUME NEW m \in Messages
        PROVE  /\ Author[m] \notin Got(m)
               /\ \A b \in Got(m) : IsPrefix(based[m], hist[b])
               /\ restarts = 0 /\ task[m] = "done" /\ based[m] = <<>>
                    => Bots \ {Author[m]} \subseteq Got(m)
    <3>1. MessageInv(m)
      BY DEF TrafficInv, Decoding
    <3> QED
      BY <3>1 DEF MessageInv
  <2> QED
    BY <2>1, <2>2 DEF LocalDelivery, Got
<1> QED
  BY <1>1, TrafficInvariance, PTL

-----------------------------------------------------------------------------
(* The traffic: a proposal is committed by one admin.                      *)

\* A commit that some task is publishing or applying to the other members; a
\* commit that others have or will have.
Publishing(c) == \E e \in Proposals : sub[e] = c
Alive(c) == c \in relay \/ Publishing(c)

\* The group leaves its first epoch once.
OneCommit ==
    /\ \A b \in Bots : hist[b] = <<>> \/ \E c \in Commits : hist[b] = <<c>>
    /\ \A c \in Commits : based[c] = <<>>

\* No commit comes back through the relays: the client published it itself.
NotReported ==
    /\ \A c \in Commits : c \in relay => c \in saved
    /\ \A i \in 1..Len(notif) : notif[i] \notin Commits

\* A commit in hand answers the proposal of its task and was merged by its author;
\* when it has left the task's hands and a relay has it, every local member has
\* merged a commit.
Spread ==
    /\ \A e \in GroupEvents : sub[e] # None =>
          answers[sub[e]] = e /\ \E b \in Bots : hist[b] = <<sub[e]>>
    /\ \A c \in Commits : task[c] = "group" =>
          Publishing(c) /\ \A b \in Bots \ todo[c] : hist[b] # <<>>
    /\ \A c \in Commits : c \in relay => Publishing(c) \/ \A b \in Bots : hist[b] # <<>>

\* Of the commits of one proposal, one lives.
OneAlive ==
    \A a, b \in Bots, c, d \in Commits :
       /\ hist[a] = <<c>> /\ hist[b] = <<d>> /\ Alive(c) /\ Alive(d)
       /\ answers[c] = answers[d]
       => c = d

ForkInv == restarts = 0 => OneCommit /\ NotReported /\ Spread /\ OneAlive

\* A step that is not about a commit.
LEMMA NoCommitStep ==
    ASSUME InboundTypeOK, ForkInv, restarts' = restarts, hist' = hist,
           \A e \in GroupEvents : sub'[e] = sub[e],
           \A c \in Commits : /\ based'[c] = based[c] /\ answers'[c] = answers[c]
                              /\ (c \in relay' => c \in relay)
                              /\ (c \in saved => c \in saved')
                              /\ task'[c] = task[c] /\ todo'[c] = todo[c],
           restarts = 0 => \A i \in 1..Len(notif') : notif'[i] \notin Commits
    PROVE  ForkInv'
<1> SUFFICES ASSUME restarts = 0 PROVE (OneCommit /\ NotReported /\ Spread /\ OneAlive)'
  BY DEF ForkInv
<1>0. OneCommit /\ NotReported /\ Spread /\ OneAlive
  BY DEF ForkInv
<1>1. \A c : Publishing(c)' <=> Publishing(c)
  BY Kinds DEF Publishing
<1>2. OneCommit'
  BY <1>0 DEF OneCommit
<1>3. NotReported'
  BY <1>0 DEF NotReported
<1>4. Spread'
  <2>1. \A e \in GroupEvents : sub[e] # None => sub[e] \in Commits
    BY InboundFields
  <2>2. \A e \in GroupEvents : sub'[e] # None =>
            answers'[sub'[e]] = e /\ \E b \in Bots : hist'[b] = <<sub'[e]>>
    <3> SUFFICES ASSUME NEW e \in GroupEvents, sub'[e] # None
                 PROVE  answers'[sub'[e]] = e /\ \E b \in Bots : hist'[b] = <<sub'[e]>>
      OBVIOUS
    <3>1. sub'[e] = sub[e] /\ sub[e] \in Commits
      BY <2>1
    <3>2. answers[sub[e]] = e /\ \E b \in Bots : hist[b] = <<sub[e]>>
      BY <1>0, <3>1 DEF Spread
    <3>3. answers'[sub[e]] = answers[sub[e]]
      BY <3>1
    <3> QED
      BY <3>1, <3>2, <3>3
  <2> QED
    BY <1>0, <1>1, <2>2 DEF Spread
<1>5. OneAlive'
  BY <1>0, <1>1 DEF OneAlive, Alive
<1> QED
  BY <1>2, <1>3, <1>4, <1>5

\* A local member takes its turn at a commit in hand: afterwards it has left
\* the first epoch.
LEMMA ApplyKeepsOneCommit ==
    ASSUME InboundTypeOK, CommitsInv, ForkInv, NEW c \in Commits, NEW b \in Bots,
           ProcessFor(c, b)
    PROVE  ForkInv'
<1> USE DEF netVars, taskVars
<1>1. /\ task[c] = "group" /\ UNCHANGED <<relay, saved, notif, task, sub, based, answers, restarts>>
      /\ todo' = [todo EXCEPT ![c] = @ \ {b}]
      /\ hist' = IF Applies(c, b) THEN [hist EXCEPT ![b] = Append(@, c)] ELSE hist
  BY DEF ProcessFor, Turn
<1> SUFFICES ASSUME restarts = 0 PROVE (OneCommit /\ NotReported /\ Spread /\ OneAlive)'
  BY <1>1 DEF ForkInv
<1>0. OneCommit /\ NotReported /\ Spread /\ OneAlive
  BY DEF ForkInv
<1>2. hist \in [Bots -> Seq(Commits)] /\ todo \in [GroupEvents -> SUBSET Bots] /\ c \in GroupEvents
  BY Kinds DEF InboundTypeOK
<1>3. PICK p \in Proposals : sub[p] = c /\ p \in GroupEvents
  BY <1>0, <1>1, Kinds DEF Spread, Publishing
<1>4. c # None
  BY Kinds
<1>5. PICK a \in Bots : hist[a] = <<c>>
  BY <1>0, <1>3, <1>4 DEF Spread
<1>6. hist[b] = <<>> => c # CommitOf[b]
  BY <1>3, <1>4 DEF CommitsInv
<1>7. \A x \in Bots : hist'[x] = IF x = b /\ hist[b] = <<>> THEN <<c>> ELSE hist[x]
  <2>1. based[c] = <<>>
    BY <1>0 DEF OneCommit
  <2>2. Applies(c, b) <=> hist[b] = <<>>
    BY <1>6, <2>1 DEF Applies
  <2>3. Append(<<>>, c) = <<c>>
    OBVIOUS
  <2> QED
    BY <1>1, <1>2, <2>2, <2>3
<1>8. \A x : Publishing(x)' <=> Publishing(x)
  BY <1>1 DEF Publishing
<1>9. <<c>> # <<>> /\ \A x, y : <<x>> = <<y>> => x = y
  OBVIOUS
<1>10. OneCommit'
  BY <1>0, <1>1, <1>7 DEF OneCommit
<1>11. NotReported'
  BY <1>0, <1>1 DEF NotReported
<1>12. Spread'
  <2>1. \A e \in GroupEvents : sub[e] # None =>
            answers[sub[e]] = e /\ \E x \in Bots : hist'[x] = <<sub[e]>>
    <3>1. \A e \in GroupEvents : sub[e] # None =>
              answers[sub[e]] = e /\ \E x \in Bots : hist[x] = <<sub[e]>>
      BY <1>0 DEF Spread
    <3>2. \A e : <<sub[e]>> # <<>>
      OBVIOUS
    <3> QED
      BY <1>7, <3>1, <3>2
  <2>2. \A d \in Commits : task[d] = "group" => \A x \in Bots \ todo'[d] : hist'[x] # <<>>
    <3>1. \A d \in Commits, x \in Bots : x \notin todo'[d] => x \notin todo[d] \/ x = b
      BY <1>1, <1>2, Kinds
    <3> QED
      BY <1>0, <1>7, <1>9, <3>1 DEF Spread
  <2>3. \A x \in Bots : hist[x] # <<>> => hist'[x] # <<>>
    BY <1>7
  <2>4. \A d \in Commits : task[d] = "group" => Publishing(d)'
    BY <1>0, <1>8 DEF Spread
  <2>5. \A d \in Commits : d \in relay => Publishing(d)' \/ \A x \in Bots : hist'[x] # <<>>
    BY <1>0, <1>8, <2>3 DEF Spread
  <2> QED
    BY <1>1, <2>1, <2>2, <2>4, <2>5 DEF Spread
<1>13. OneAlive'
  <2>1. \A x \in Commits : Alive(x)' <=> Alive(x)
    BY <1>1, <1>8 DEF Alive
  <2>2. Alive(c)
    BY <1>3 DEF Alive, Publishing
  <2>3. \A x \in Bots, d \in Commits : hist'[x] = <<d>> => hist[x] = <<d>> \/ d = c
    BY <1>7, <1>9
  <2>4. \A d \in Commits : (\E x \in Bots : hist'[x] = <<d>>) => \E x \in Bots : hist[x] = <<d>>
    BY <1>5, <2>3
  <2>5. ASSUME NEW x \in Bots, NEW y \in Bots, NEW k \in Commits, NEW d \in Commits,
               hist'[x] = <<k>>, hist'[y] = <<d>>, Alive(k)', Alive(d)',
               answers'[k] = answers'[d]
        PROVE  k = d
    <3>1. PICK v \in Bots : hist[v] = <<k>>
      BY <2>4, <2>5
    <3>2. PICK w \in Bots : hist[w] = <<d>>
      BY <2>4, <2>5
    <3>3. Alive(k) /\ Alive(d) /\ answers[k] = answers[d]
      BY <1>1, <2>1, <2>5
    <3> QED
      BY <1>0, <3>1, <3>2, <3>3 DEF OneAlive
  <2> QED
    BY <2>5 DEF OneAlive
<1> QED
  BY <1>10, <1>11, <1>12, <1>13

\* An admin commits: nobody else has a commit that others have or will have.
LEMMA CommitKeepsOneCommit ==
    ASSUME InboundTypeOK, CommitsInv, ForkInv, NEW p \in GroupEvents, NEW b \in Bots,
           AutoCommit(p, b)
    PROVE  ForkInv'
<1> USE DEF netVars, taskVars
<1>a. PICK c \in Commits : c = CommitOf[b]
  BY Kinds
<1>1. /\ p \in Proposals /\ hist[b] = <<>> /\ sub[p] = None
      /\ UNCHANGED <<relay, saved, notif, task, restarts>>
      /\ todo' = [todo EXCEPT ![p] = @ \ {b}]
      /\ sub' = [sub EXCEPT ![p] = c]
      /\ based' = [based EXCEPT ![c] = <<>>] /\ answers' = [answers EXCEPT ![c] = p]
      /\ hist' = [hist EXCEPT ![b] = Append(@, c)]
  BY <1>a DEF AutoCommit, AutoCommits, Turn
<1> SUFFICES ASSUME restarts = 0 PROVE (OneCommit /\ NotReported /\ Spread /\ OneAlive)'
  BY <1>1 DEF ForkInv
<1>0. OneCommit /\ NotReported /\ Spread /\ OneAlive
  BY DEF ForkInv
<1>2. /\ hist \in [Bots -> Seq(Commits)] /\ todo \in [GroupEvents -> SUBSET Bots]
      /\ sub \in [GroupEvents -> Commits \cup {None}]
      /\ based \in [Messages \cup Commits -> Seq(Commits)]
      /\ answers \in [Commits -> Proposals \cup {None}]
  BY DEF InboundTypeOK
<1>3. \A x \in Bots : hist'[x] = IF x = b THEN <<c>> ELSE hist[x]
  <2>1. Append(<<>>, c) = <<c>>
    OBVIOUS
  <2> QED
    BY <1>1, <1>2, <2>1
<1>4. \A e \in GroupEvents : sub'[e] = IF e = p THEN c ELSE sub[e]
  BY <1>1, <1>2
<1>5. \A d \in Commits : todo'[d] = todo[d] /\ d # p
  BY <1>1, <1>2, Kinds
<1>6. /\ c \notin relay /\ \A e \in GroupEvents : sub[e] # c
      /\ \A d \in Commits : answers'[d] = IF d = c THEN p ELSE answers[d]
  BY <1>a, <1>1, <1>2, Kinds DEF CommitsInv
<1>7. \A d \in Commits : /\ Publishing(d)' <=> (Publishing(d) \/ d = c)
                         /\ d \in relay => Publishing(d)
                         /\ Publishing(d) => answers[d] # p /\ d # c
  <2>1. \A d \in Commits : Publishing(d)' <=> (Publishing(d) \/ d = c)
    BY <1>1, <1>4, Kinds DEF Publishing
  <2>2. \A d \in Commits : d \in relay => Publishing(d)
    BY <1>0, <1>1 DEF Spread
  <2>3. \A d \in Commits : Publishing(d) => answers[d] # p /\ d # c
    <3> SUFFICES ASSUME NEW d \in Commits, NEW e \in Proposals, sub[e] = d
                 PROVE  answers[d] # p /\ d # c
      BY DEF Publishing
    <3>1. e \in GroupEvents /\ d # None
      BY Kinds
    <3> QED
      BY <1>0, <1>1, <1>6, <3>1 DEF Spread
  <2> QED
    BY <2>1, <2>2, <2>3
<1>8. <<c>> # <<>> /\ \A x, y : <<x>> = <<y>> => x = y
  OBVIOUS
<1>9. OneCommit'
  BY <1>0, <1>1, <1>2, <1>3 DEF OneCommit
<1>10. NotReported'
  BY <1>0, <1>1 DEF NotReported
<1>11. \A x \in Bots : hist[x] # <<>> => hist'[x] = hist[x]
  BY <1>1, <1>3
<1>12. Spread'
  <2>1. ASSUME NEW e \in GroupEvents, sub'[e] # None
        PROVE  answers'[sub'[e]] = e /\ \E x \in Bots : hist'[x] = <<sub'[e]>>
    <3>1. CASE e = p
      BY <1>3, <1>4, <1>6, <3>1
    <3>2. CASE e # p
      <4>1. sub'[e] = sub[e] /\ sub[e] \in Commits /\ sub[e] # c
        BY <1>2, <1>4, <1>6, <2>1, <3>2
      <4>2. answers[sub[e]] = e /\ \E x \in Bots : hist[x] = <<sub[e]>>
        BY <1>0, <2>1, <4>1 DEF Spread
      <4>3. <<sub[e]>> # <<>>
        OBVIOUS
      <4> QED
        BY <1>6, <1>11, <4>1, <4>2, <4>3
    <3> QED
      BY <3>1, <3>2
  <2>2. \A d \in Commits : task'[d] = "group" =>
            Publishing(d)' /\ \A x \in Bots \ todo'[d] : hist'[x] # <<>>
    BY <1>0, <1>1, <1>5, <1>7, <1>11 DEF Spread
  <2>3. \A d \in Commits : d \in relay' => Publishing(d)'
    BY <1>1, <1>7
  <2> QED
    BY <2>1, <2>2, <2>3 DEF Spread
<1>13. OneAlive'
  <2>1. \A d \in Commits : Alive(d)' => d = c \/ (Publishing(d) /\ d # c /\ answers'[d] = answers[d]
                                                 /\ answers'[d] # p)
    BY <1>1, <1>6, <1>7 DEF Alive
  <2>2. \A x \in Bots, d \in Commits : hist'[x] = <<d>> /\ d # c => hist[x] = <<d>>
    BY <1>3, <1>8
  <2>3. answers'[c] = p
    BY <1>6
  <2>4. \A d \in Commits : Publishing(d) => Alive(d)
    BY DEF Alive
  <2> QED
    BY <1>0, <2>1, <2>2, <2>3, <2>4 DEF OneAlive
<1> QED
  BY <1>9, <1>10, <1>12, <1>13

\* Publishing the commit gives it to others or, on an error, to nobody.
LEMMA PublishKeepsOneCommit ==
    ASSUME InboundTypeOK, CommitsInv, ForkInv, NEW p \in GroupEvents, NEW o \in Outcomes,
           PublishCommit(p, o)
    PROVE  ForkInv'
<1>a. PICK c \in Commits : c = sub[p]
  BY InboundFields DEF PublishCommit
<1>1. /\ c # None /\ task[c] # "group" /\ saved' = saved \cup {c}
      /\ UNCHANGED <<notif, hist, based, answers, restarts>>
      /\ \/ /\ o = "error" /\ relay' = relay /\ task' = task /\ todo' = todo
            /\ sub' = [sub EXCEPT ![p] = None]
         \/ o # "error" /\ sub' = sub /\ Begin(c, "group", inline) /\ relay' \subseteq relay \cup {c}
  BY <1>a DEF PublishCommit, SendEvent
<1> SUFFICES ASSUME restarts = 0 PROVE (OneCommit /\ NotReported /\ Spread /\ OneAlive)'
  BY <1>1 DEF ForkInv
<1>0. OneCommit /\ NotReported /\ Spread /\ OneAlive
  BY DEF ForkInv
<1>2. p \in Proposals /\ c \notin relay \cup saved
  BY <1>a, <1>1 DEF CommitsInv
<1>3. \A e \in GroupEvents : sub[e] = c => e = p
  BY <1>a, <1>1 DEF CommitsInv
<1>4. Publishing(c)
  BY <1>a, <1>2 DEF Publishing
<1>5. OneCommit'
  BY <1>0, <1>1 DEF OneCommit
<1>6. NotReported'
  BY <1>0, <1>1 DEF NotReported
<1>7. CASE o = "error"
  <2>1. /\ relay' = relay /\ task' = task /\ todo' = todo
        /\ \A e \in GroupEvents : sub'[e] = IF e = p THEN None ELSE sub[e]
    BY <1>1, <1>7 DEF InboundTypeOK
  <2>2. \A d \in Commits : Publishing(d)' <=> Publishing(d) /\ d # c
    BY <1>a, <1>3, <2>1, Kinds DEF Publishing
  <2>3. Spread'
    BY <1>0, <1>1, <1>2, <2>1, <2>2 DEF Spread
  <2>4. \A d \in Commits : Alive(d)' => Alive(d)
    BY <2>1, <2>2 DEF Alive
  <2>5. OneAlive'
    BY <1>0, <1>1, <2>4 DEF OneAlive
  <2> QED
    BY <1>5, <1>6, <2>3, <2>5
<1>8. CASE o # "error"
  <2>1. sub' = sub /\ relay' \subseteq relay \cup {c} /\ Begin(c, "group", inline)
    BY <1>1, <1>8
  <2>2. \A d \in Commits : /\ task'[d] = IF d = c THEN "group" ELSE task[d]
                           /\ todo'[d] = IF d = c THEN Bots ELSE todo[d]
    BY <2>1, Kinds DEF Begin, InboundTypeOK
  <2>3. \A d \in Commits : Publishing(d)' <=> Publishing(d)
    BY <2>1 DEF Publishing
  <2>4. Spread'
    BY <1>0, <1>1, <1>4, <2>1, <2>2, <2>3 DEF Spread
  <2>5. \A d \in Commits : Alive(d)' => Alive(d)
    BY <1>4, <2>1, <2>3 DEF Alive
  <2>6. OneAlive'
    BY <1>0, <1>1, <2>5 DEF OneAlive
  <2> QED
    BY <1>5, <1>6, <2>4, <2>6
<1> QED
  BY <1>7, <1>8

\* A commit leaves the task's hands when every local member has had its turn.
LEMMA EndKeepsOneCommit ==
    ASSUME InboundTypeOK, ForkInv, NEW c \in Commits, EndGroupEvent(c)
    PROVE  ForkInv'
<1> USE DEF netVars, taskVars
<1>1. /\ task[c] = "group" /\ todo[c] = {}
      /\ UNCHANGED <<relay, saved, notif, todo, hist, based, answers, restarts>>
      /\ task' = [task EXCEPT ![c] = "done"]
      /\ sub' = [x \in GroupEvents |-> IF sub[x] = c THEN None ELSE sub[x]]
  BY Kinds DEF EndGroupEvent
<1> SUFFICES ASSUME restarts = 0 PROVE (OneCommit /\ NotReported /\ Spread /\ OneAlive)'
  BY <1>1 DEF ForkInv
<1>0. OneCommit /\ NotReported /\ Spread /\ OneAlive
  BY DEF ForkInv
<1>2. \A b \in Bots : hist[b] # <<>>
  BY <1>0, <1>1 DEF Spread
<1>3. \A d \in Commits : task'[d] = "group" => task[d] = "group" /\ d # c
  <2>1. task'[c] = "done" /\ \A d \in Commits : d # c => task'[d] = task[d]
    BY <1>1, Kinds DEF InboundTypeOK
  <2> QED
    BY <2>1
<1>4. \A d \in Commits : Publishing(d)' <=> Publishing(d) /\ d # c
  BY <1>1, Kinds DEF Publishing
<1>5. OneCommit'
  BY <1>0, <1>1 DEF OneCommit
<1>6. NotReported'
  BY <1>0, <1>1 DEF NotReported
<1>7. Spread'
  <2>1. \A e \in GroupEvents : sub'[e] # None => sub[e] # None /\ sub'[e] = sub[e]
    BY <1>1
  <2>2. \A e \in GroupEvents : sub'[e] # None =>
            answers[sub'[e]] = e /\ \E b \in Bots : hist[b] = <<sub'[e]>>
    BY <1>0, <2>1 DEF Spread
  <2>3. \A d \in Commits : task'[d] = "group" => Publishing(d)'
    BY <1>0, <1>3, <1>4 DEF Spread
  <2> QED
    BY <1>1, <1>2, <2>2, <2>3 DEF Spread
<1>8. OneAlive'
  <2>1. \A d \in Commits : Alive(d)' => Alive(d)
    BY <1>1, <1>4 DEF Alive
  <2> QED
    BY <1>0, <1>1, <2>1 DEF OneAlive
<1> QED
  BY <1>5, <1>6, <1>7, <1>8

\* The steps of the client, the tasks and the senders.
LEMMA ForkNext == TrafficInv /\ ForkInv /\ [InboundNext]_inboundVars => ForkInv'
<1> SUFFICES ASSUME InboundTypeOK, Intake, CommitsInv, ForkInv, [InboundNext]_inboundVars
             PROVE  ForkInv'
  BY DEF TrafficInv
<1> USE DEF netVars, taskVars
<1>0. /\ restarts = 0 => /\ \A c \in Commits : c \in relay => c \in saved
                         /\ \A i \in 1..Len(notif) : notif[i] \notin Commits
      /\ Len(notif) \in Nat
  BY InboundFields DEF ForkInv, NotReported
<1>1. ASSUME UNCHANGED <<notif, relay, saved, restarts, hist, todo>>,
             \A e \in GroupEvents : sub'[e] = sub[e],
             \A c \in Commits : /\ based'[c] = based[c] /\ answers'[c] = answers[c]
                                /\ task'[c] = task[c]
      PROVE  ForkInv'
  BY <1>0, <1>1, NoCommitStep
<1>2. ASSUME NEW e \in Events, Notify(e) PROVE ForkInv'
  <2>1. /\ e \in relay \ saved /\ notif' = Append(notif, e) /\ saved' = saved \cup {e}
        /\ UNCHANGED <<relay, restarts, hist, sub, based, answers, task, todo>>
    BY <1>2 DEF Notify
  <2>2. restarts = 0 => \A i \in 1..Len(notif') : notif'[i] \notin Commits
    <3>1. restarts = 0 => e \notin Commits
      BY <1>0, <2>1
    <3>2. /\ Len(notif') = Len(notif) + 1 /\ notif'[Len(notif) + 1] = e
          /\ \A i \in 1..Len(notif) : notif'[i] = notif[i]
      BY <2>1 DEF InboundTypeOK
    <3>3. \A i \in 1..Len(notif') : i \in 1..Len(notif) \/ i = Len(notif) + 1
      BY <1>0, <3>2
    <3> QED
      BY <1>0, <3>1, <3>2, <3>3
  <2> QED
    BY <2>1, <2>2, NoCommitStep
<1>3. CASE TakeWrap \/ TakeGroupEvent
  <2>1. PICK s \in {"decrypting", "group"} :
           /\ notif # <<>> /\ notif' = Tail(notif) /\ Begin(Head(notif), s, inline)
           /\ UNCHANGED <<relay, saved, sub, hist, based, answers, restarts>>
    BY <1>3 DEF TakeWrap, TakeGroupEvent
  <2>2. PICK x \in Events : x = Head(notif)
    BY <2>1, HeadTyped
  <2>3. 1 \in 1..Len(notif) /\ x = notif[1]
    BY <1>0, <2>1, <2>2 DEF InboundTypeOK
  <2>4. CASE restarts # 0
    BY <2>1, <2>4 DEF ForkInv
  <2>5. CASE restarts = 0
    <3>1. x \notin Commits
      BY <1>0, <2>3, <2>5
    <3>2. \A c \in Commits : task'[c] = task[c] /\ todo'[c] = todo[c]
      BY <2>1, <2>2, <3>1, Kinds DEF Begin, InboundTypeOK
    <3>3. \A i \in 1..Len(notif') : notif'[i] \notin Commits
      BY <1>0, <2>1, <2>5 DEF InboundTypeOK
    <3> QED
      BY <2>1, <3>2, <3>3, NoCommitStep
  <2> QED
    BY <2>4, <2>5
<1>4. ASSUME NEW w \in Wraps,
             Decrypted(w) \/ DecryptTimeout(w) \/ DecryptFails(w) \/ FinishWrap(w)
      PROVE  ForkInv'
  <2>1. /\ \E s \in States : task' = [task EXCEPT ![w] = s]
        /\ UNCHANGED <<notif, relay, saved, restarts, hist, todo, sub, based, answers>>
    BY <1>4 DEF Decrypted, DecryptTimeout, DecryptFails, FinishWrap, States
  <2>2. \A c \in Commits : task'[c] = task[c]
    BY <2>1, Kinds DEF InboundTypeOK
  <2> QED
    BY <1>1, <2>1, <2>2
<1>5. ASSUME NEW e \in GroupEvents, NEW b \in Bots, ProcessFor(e, b) PROVE ForkInv'
  <2>1. CASE e \in Commits
    BY <1>5, <2>1, ApplyKeepsOneCommit
  <2>2. CASE e \notin Commits
    <3>1. UNCHANGED <<notif, relay, saved, restarts, hist, sub, based, answers, task>>
      BY <1>5, <2>2 DEF ProcessFor, Applies
    <3>2. \A c \in Commits : todo'[c] = todo[c]
      BY <1>5, <2>2, Kinds DEF ProcessFor, Turn, InboundTypeOK
    <3> QED
      BY <1>0, <3>1, <3>2, NoCommitStep
  <2> QED
    BY <2>1, <2>2
<1>6. ASSUME NEW e \in GroupEvents, NEW b \in Bots, AutoCommit(e, b) PROVE ForkInv'
  BY <1>6, CommitKeepsOneCommit
<1>7. ASSUME NEW e \in GroupEvents, NEW o \in Outcomes, PublishCommit(e, o) PROVE ForkInv'
  BY <1>7, PublishKeepsOneCommit
<1>8. ASSUME NEW e \in GroupEvents, EndGroupEvent(e) PROVE ForkInv'
  <2>1. CASE e \in Commits
    BY <1>8, <2>1, EndKeepsOneCommit
  <2>2. CASE e \notin Commits
    <3>1. /\ \E s \in States : task' = [task EXCEPT ![e] = s]
          /\ sub' = [x \in GroupEvents |-> IF sub[x] = e THEN None ELSE sub[x]]
          /\ UNCHANGED <<notif, relay, saved, restarts, hist, todo, based, answers>>
      BY <1>8 DEF EndGroupEvent, States
    <3>2. \A x \in GroupEvents : sub'[x] = sub[x]
      BY <2>2, <3>1, InboundFields
    <3>3. \A c \in Commits : task'[c] = task[c]
      BY <2>2, <3>1, Kinds DEF InboundTypeOK
    <3> QED
      BY <1>1, <3>1, <3>2, <3>3
  <2> QED
    BY <2>1, <2>2
<1>9. ASSUME NEW e \in Wraps \cup Messages, NEW o, SendEvent(e, o),
             UNCHANGED <<notif, sub, hist, answers, restarts>>,
             \A c \in Commits : based'[c] = based[c],
             UNCHANGED <<runs, task, todo, decoded, inline>> \/ \E s : Begin(e, s, {e})
      PROVE  ForkInv'
  <2>1. e \notin Commits /\ saved' = saved \cup {e} /\ relay' \subseteq relay \cup {e}
    BY <1>9, Kinds DEF SendEvent
  <2>2. \A c \in Commits : task'[c] = task[c] /\ todo'[c] = todo[c]
    BY <1>9, <2>1, Kinds DEF Begin, InboundTypeOK
  <2> QED
    BY <1>0, <1>9, <2>1, <2>2, NoCommitStep
<1>10. ASSUME NEW w \in Wraps, NEW o \in Outcomes, SendWrap(w, o) PROVE ForkInv'
  BY <1>9, <1>10 DEF SendWrap, RecipientOffline, DeliverLocally
<1>11. ASSUME NEW m \in Messages, NEW o \in Outcomes, SendMessage(m, o) PROVE ForkInv'
  <2>1. \A c \in Commits : based'[c] = based[c]
    BY <1>11, Kinds DEF SendMessage, InboundTypeOK
  <2> QED
    BY <1>9, <1>11, <2>1 DEF SendMessage, DeliverLocally
<1>12. CASE Restart
  <2>1. restarts' # 0
    BY <1>12 DEF Restart, InboundTypeOK
  <2> QED
    BY <2>1 DEF ForkInv
<1>13. CASE UNCHANGED inboundVars
  BY <1>1, <1>13 DEF inboundVars
<1> QED
  BY <1>2, <1>3, <1>4, <1>5, <1>6, <1>7, <1>8, <1>10, <1>11, <1>12, <1>13
     DEF InboundNext, GroupStep

\* The engines start in one epoch.
LEMMA ForkInit == InboundInit => ForkInv
<1> SUFFICES ASSUME InboundInit PROVE OneCommit /\ NotReported /\ Spread /\ OneAlive
  BY DEF ForkInv
<1>1. /\ \A b \in Bots : hist[b] = <<>>
      /\ \A c \in Commits : based[c] = <<>> /\ c \notin relay /\ task[c] = "none"
      /\ \A e \in GroupEvents : sub[e] = None
  BY Kinds DEF InboundInit
<1>2. \A c : <<c>> # <<>>
  OBVIOUS
<1>3. 1..Len(notif) = {}
  BY DEF InboundInit
<1> QED
  BY <1>1, <1>2, <1>3 DEF OneCommit, NotReported, Spread, OneAlive

\* Engines that have merged a living commit of one proposal, or none, agree.
LEMMA OneLineOfHistory == TrafficInv /\ ForkInv => NoFork
<1> SUFFICES ASSUME TrafficInv, ForkInv, restarts = 0, Orphans = {},
                    NEW a \in Bots, NEW b \in Bots,
                    answers[Head(hist[a])] = answers[Head(hist[b])]
             PROVE  Comparable(hist[a], hist[b])
  BY DEF NoFork
<1>1. hist[a] \in Seq(Commits) /\ hist[b] \in Seq(Commits)
  BY DEF TrafficInv, InboundTypeOK
<1>2. CASE hist[a] = <<>> \/ hist[b] = <<>>
  BY <1>1, <1>2, EmptyPrefix DEF Comparable
<1>3. ASSUME NEW c \in Commits, NEW d \in Commits, hist[a] = <<c>>, hist[b] = <<d>>
      PROVE  Comparable(hist[a], hist[b])
  <2>1. ASSUME NEW x \in Bots, NEW z \in Commits, hist[x] = <<z>> PROVE Alive(z)
    <3>1. z \in ToSet(hist[x])
      BY <2>1 DEF ToSet
    <3>2. z \in relay \/ \E e \in GroupEvents : sub[e] = z
      BY <3>1 DEF Orphans
    <3>3. z # None
      BY Kinds
    <3> QED
      BY <3>2, <3>3 DEF Alive, Publishing, TrafficInv, CommitsInv
  <2>2. Head(hist[a]) = c /\ Head(hist[b]) = d
    BY <1>3
  <2>3. c = d
    BY <1>3, <2>1, <2>2 DEF ForkInv, OneAlive
  <2>4. Len(hist[a]) \in Nat
    BY <1>1
  <2> QED
    BY <1>3, <2>3, <2>4 DEF IsPrefix, Comparable
<1> QED
  BY <1>2, <1>3 DEF ForkInv, OneCommit

\* process_group_message hands an automatic commit to every other local member
\* before any of them sees the proposal: whatever the number of bots, admins,
\* proposals, messages and failed publishes, two engines of one daemon never follow
\* different commits of one proposal that both live.  (Commits of two proposals,
\* made in two tasks, may both live: where engines part, they are of two.)
THEOREM OneProposalOneCommit == InboundSpec => []NoFork
<1>1. TrafficInv /\ ForkInv /\ [InboundNext]_inboundVars => ForkInv'
  BY ForkNext
<1>2. TrafficInv /\ ForkInv => NoFork
  BY OneLineOfHistory
<1> QED
  BY <1>1, <1>2, ForkInit, TrafficInvariance, PTL DEF InboundSpec

=============================================================================
