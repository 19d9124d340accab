------------------------------ MODULE MlsGroups ------------------------------
(***************************************************************************)
(* The groups of one bot: the state the MLS engine holds and the rows of   *)
(* agent.db that mirror it (db.rs, client_manager.rs reconcile_mls_groups, *)
(* dispatch.rs create, invite, delete and the inbound Welcome).            *)
(*                                                                         *)
(* Engine and database are written by separate steps.  Requests are served *)
(* one at a time and end early when a publish fails or their 30 seconds    *)
(* are over; a command handed to the engine's worker runs all the same, so *)
(* a timeout before it and one after it are the two cases.  Welcomes are   *)
(* handled by the event loop, beside the requests.                         *)
(***************************************************************************)
EXTENDS MlsStore

CONSTANTS
    Names,          \* group names
    Peers,          \* the members the bot may invite
    MaxRemote       \* bound: what other members do to the bot's groups

\* The empty name stands for a group without a row.
ASSUME GroupAssumption == Names # {} /\ "" \notin Names /\ MaxRemote \in Nat

VARIABLES
    rows,       \* agent.db: the row of a group, by wire id
    names,      \* the name each group has
    members,    \* the peers that are members of each group
    rpc,        \* the request being served
    inbox,      \* Welcomes on the relays, by the group they are for
    events,     \* Welcomes accepted and not dispatched yet
    pending,    \* engine groups reconciliation has still to compare
    left,       \* groups the bot was removed from, or dropped itself
    torn,       \* groups with an invite cut short by the end of the process
    departed,   \* peers that left or were removed by another admin: [wire, peer]
    remote      \* number of remote steps so far

groupVars == <<rows, names, members, rpc, inbox, events, pending, left, torn,
               departed, remote>>
vars == <<storeVars, groupVars>>

NoRow == [name |-> "", lost |-> FALSE, invited |-> {}]
Row(n, ms) == [name |-> n, lost |-> FALSE, invited |-> ms]

Idle == [op |-> "idle"]

Rows == {w \in Wires : rows[w] # NoRow}
RowNamed(n) == {w \in Rows : rows[w].name = n}
Live == held[main.id]                     \* what the open engine lists
Known == Rows \cup UNION {held[i] : i \in 0..MaxStores} \cup inbox

GroupInit ==
    /\ names = [w \in Wires |-> CHOOSE n \in Names : TRUE]
    /\ members = [w \in Wires |-> IF w \in OldWires THEN Peers ELSE {}]
    /\ rows = [w \in Wires |-> IF w \in OldWires /\ main.kind \in {"legacy", "encrypted"}
                                 THEN Row(names[w], Peers) ELSE NoRow]
    /\ rpc = Idle
    /\ inbox = {} /\ events = {} /\ pending = {}
    /\ left = {} /\ torn = {} /\ departed = {}
    /\ remote = 0

Init == StoreInit /\ GroupInit

-----------------------------------------------------------------------------
\* Reconciliation of the engine with agent.db, at the end of startup

Open ==
    /\ OpenStore
    /\ pending' = IF main'.kind = "encrypted" THEN held[main'.id] ELSE {}
    /\ UNCHANGED <<rows, names, members, rpc, inbox, events, left, torn, departed, remote>>

\* A row is found by wire id and takes the engine's name; a group without one
\* gets a row.  Either way the name may be in use by another group's row.
NameIsFree(w) == RowNamed(names[w]) \subseteq {w}

UpsertFromReconciliation(w) ==
    [rows EXCEPT ![w] = IF w \in Rows THEN [@ EXCEPT !.name = names[w]]
                                      ELSE Row(names[w], members[w])]

ReconcileGroup(w) ==
    /\ phase = "reconcile" /\ w \in pending /\ NameIsFree(w)
    /\ rows' = UpsertFromReconciliation(w)
    /\ pending' = pending \ {w}
    /\ UNCHANGED <<storeVars, names, members, rpc, inbox, events, left, torn, departed,
                   remote>>

\* A collision fails the reconciliation and leaves the bot without engine.
ReconcileFails(w) ==
    /\ phase = "reconcile" /\ w \in pending /\ ~NameIsFree(w)
    /\ phase' = "unavailable"
    /\ pending' = {}
    /\ UNCHANGED <<main, logVars, key, minted, held, archive, marker, admins, kp,
                   reset, today, crashes, faults>>
    /\ UNCHANGED <<rows, names, members, rpc, inbox, events, left, torn, departed, remote>>

\* Mistake: every row without engine group is marked.
AnyBotIsMarked == TRUE

HasCompletedReset == marker = "completed"

Missing == IF HasCompletedReset THEN {w \in Rows : ~rows[w].lost /\ w \notin Live}
                                ELSE {}

MarkStateLost(w) ==
    /\ phase = "reconcile" /\ pending = {} /\ w \in Missing
    /\ rows' = [rows EXCEPT ![w].lost = TRUE]
    /\ UNCHANGED <<storeVars, names, members, rpc, inbox, events, pending, left, torn,
                   departed, remote>>

Serve ==
    /\ phase = "reconcile" /\ pending = {} /\ Missing = {}
    /\ phase' = "serving"
    /\ UNCHANGED <<main, logVars, key, minted, held, archive, marker, admins, kp,
                   reset, today, crashes, faults, groupVars>>

-----------------------------------------------------------------------------
\* Requests

SetLive(ws) == held' = [held EXCEPT ![main.id] = ws]

storeButHeld == <<main, logVars, key, minted, archive, marker, admins, kp, reset,
                  phase, today, crashes, faults>>

\* create: the name has no row; the rest runs without the group's lock.
Create(n, p) ==
    /\ phase = "serving" /\ rpc = Idle /\ RowNamed(n) = {}
    /\ rpc' = [op |-> "create", name |-> n, peer |-> p]
    /\ UNCHANGED <<storeVars, rows, names, members, inbox, events, pending, left, torn,
                   departed, remote>>

CreateInEngine(w) ==
    /\ rpc.op = "create" /\ w \notin Known \cup left
    /\ SetLive(Live \cup {w})
    /\ names' = [names EXCEPT ![w] = rpc.name]
    /\ members' = [members EXCEPT ![w] = {rpc.peer}]
    /\ rpc' = [op |-> "welcome", wire |-> w, name |-> rpc.name, peer |-> rpc.peer]
    /\ UNCHANGED <<storeButHeld, rows, inbox, events, pending, left, torn, departed,
                   remote>>

\* The row of a group and its members, in one transaction; a name that has been
\* taken is an error and changes nothing.
InsertMlsGroup(w, n, ms) ==
    IF RowNamed(n) = {} THEN [rows EXCEPT ![w] = Row(n, ms)] ELSE rows

\* The Welcome is out: the row is inserted.
CreateRow ==
    /\ rpc.op = "welcome"
    /\ rows' = InsertMlsGroup(rpc.wire, rpc.name, {rpc.peer})
    /\ rpc' = Idle
    /\ UNCHANGED <<storeVars, names, members, inbox, events, pending, left, torn, departed,
                   remote>>

\* invite: a recorded member is answered with success at once; otherwise the
\* member row is written before the engine is asked.
Invite(w, p) ==
    /\ phase = "serving" /\ rpc = Idle /\ w \in Rows
    /\ IF p \in rows[w].invited
         THEN /\ rpc' = [op |-> "invited", wire |-> w, peer |-> p]
              /\ UNCHANGED rows
         ELSE /\ rpc' = [op |-> "add", wire |-> w, peer |-> p]
              /\ rows' = [rows EXCEPT ![w].invited = @ \cup {p}]
    /\ UNCHANGED <<storeVars, names, members, inbox, events, pending, left, torn, departed,
                   remote>>

\* add_member: a member that still has a leaf is removed and added again; the
\* removal stays when only the addition fails.
InviteInEngine ==
    /\ rpc.op = "add" /\ rpc.wire \in Live
    /\ members' = [members EXCEPT ![rpc.wire] = @ \cup {rpc.peer}]
    /\ departed' = departed \ {[wire |-> rpc.wire, peer |-> rpc.peer]}
    /\ rpc' = [rpc EXCEPT !.op = "send"]
    /\ UNCHANGED <<storeVars, rows, names, inbox, events, pending, left, torn, remote>>

RestorationIncomplete ==
    /\ rpc.op = "add" /\ rpc.wire \in Live /\ rpc.peer \in members[rpc.wire]
    /\ members' = [members EXCEPT ![rpc.wire] = @ \ {rpc.peer}]
    /\ rpc' = [rpc EXCEPT !.op = "failed"]
    /\ UNCHANGED <<storeVars, rows, names, inbox, events, pending, left, torn, departed,
                   remote>>

\* The removal, the Welcome and the addition are published.
InvitePublished ==
    /\ rpc.op = "send"
    /\ rpc' = [op |-> "invited", wire |-> rpc.wire, peer |-> rpc.peer]
    /\ UNCHANGED <<storeVars, rows, names, members, inbox, events, pending, left, torn,
                   departed, remote>>

InviteAnswered ==
    /\ rpc.op = "invited"
    /\ rpc' = Idle
    /\ UNCHANGED <<storeVars, rows, names, members, inbox, events, pending, left, torn,
                   departed, remote>>

\* Mistake: the member row is not rolled back.
RequestFailsKeepingRow ==
    /\ rpc.op \in {"create", "welcome", "add", "send", "failed"}
    /\ rpc' = Idle
    /\ UNCHANGED <<storeVars, rows, names, members, inbox, events, pending, left, torn,
                   departed, remote>>

\* No KeyPackage, an engine error, a publish that fails, or the timeout: the
\* member row of an invite is taken back, what the engine did stays.
RequestFails ==
    /\ rpc.op \in {"create", "welcome", "add", "send", "failed"}
    /\ rows' = IF rpc.op \in {"add", "send", "failed"}
                 THEN [rows EXCEPT ![rpc.wire].invited = @ \ {rpc.peer}]
                 ELSE rows
    /\ rpc' = Idle
    /\ UNCHANGED <<storeVars, names, members, inbox, events, pending, left, torn, departed,
                   remote>>

\* The engine forgets the group; one it does not have is no error.
EngineDeleteGroup(w) == SetLive(Live \ {w})

\* delete: the engine's copy first, then the row.
DeleteInEngine(w) ==
    /\ phase = "serving" /\ rpc = Idle /\ w \in Rows \cup Live
    /\ EngineDeleteGroup(w)
    /\ left' = left \cup {w}
    /\ rpc' = [op |-> "delete", wire |-> w]
    /\ UNCHANGED <<storeButHeld, rows, names, members, inbox, events, pending, torn,
                   departed, remote>>

DeleteRow ==
    /\ rpc.op = "delete"
    /\ rows' = [rows EXCEPT ![rpc.wire] = NoRow]
    /\ rpc' = Idle
    /\ UNCHANGED <<storeVars, names, members, inbox, events, pending, left, torn, departed,
                   remote>>

-----------------------------------------------------------------------------
\* Inbound Welcomes

\* The engine accepts the Welcome; the wire id it returns is the first of
\* the engine's groups, whichever that is.
AcceptWelcome(w, first) ==
    /\ phase = "serving" /\ w \in inbox /\ first \in Live \cup {w}
    /\ ~ \E e \in events : e.wire = w
    /\ SetLive(Live \cup {w})
    /\ left' = left \ {w}
    /\ events' = events \cup {[wire |-> w, first |-> first]}
    /\ UNCHANGED <<storeButHeld, rows, names, members, rpc, inbox, pending, torn, departed,
                   remote>>

\* Dispatch clears the mark of the group that wire id names.  The event is
\* concluded; one that never got here is fetched again after a restart.
DispatchWelcome(e) ==
    /\ phase = "serving" /\ e \in events
    /\ rows' = IF e.first \in Rows THEN [rows EXCEPT ![e.first].lost = FALSE] ELSE rows
    /\ events' = events \ {e}
    /\ inbox' = inbox \ {e.wire}
    /\ UNCHANGED <<storeVars, names, members, rpc, pending, left, torn, departed, remote>>

-----------------------------------------------------------------------------
\* The other members

Remotely == remote < MaxRemote /\ remote' = remote + 1

\* An admin adds the bot, with the KeyPackage of its present store.
RemoteInvite(w) ==
    /\ Remotely
    /\ phase = "serving" /\ kp = main.id /\ w \notin Live \cup inbox
    /\ inbox' = inbox \cup {w}
    /\ UNCHANGED <<storeVars, rows, names, members, rpc, events, pending, left, torn,
                   departed>>

\* An admin removes the bot; a commit that renames the group reaches it.
RemoteEvict(w) ==
    /\ Remotely
    /\ phase = "serving" /\ w \in Live
    /\ SetLive(Live \ {w})
    /\ left' = left \cup {w}
    /\ UNCHANGED <<storeButHeld, rows, names, members, rpc, inbox, events, pending, torn,
                   departed>>

RemoteRename(w, n) ==
    /\ Remotely
    /\ phase \in {"serving", "down"} /\ n # names[w] /\ w \in Known
    /\ names' = [names EXCEPT ![w] = n]
    /\ UNCHANGED <<storeVars, rows, members, rpc, inbox, events, pending, left, torn,
                   departed>>

\* A peer leaves, with a proposal the bot or another admin commits, or another
\* admin removes it.  The engine applies the commit; nothing changes the row.
PeerLeaves(w, p) ==
    /\ Remotely
    /\ phase = "serving" /\ w \in Live /\ p \in members[w]
    /\ members' = [members EXCEPT ![w] = @ \ {p}]
    /\ departed' = departed \cup {[wire |-> w, peer |-> p]}
    /\ UNCHANGED <<storeVars, rows, names, rpc, inbox, events, pending, left, torn>>

\* The process ends: the request and the accepted events are gone.
End ==
    /\ Crash
    /\ rpc' = Idle /\ events' = {} /\ pending' = {}
    /\ torn' = IF rpc.op \in {"add", "failed"} THEN torn \cup {rpc.wire} ELSE torn
    /\ UNCHANGED <<rows, names, members, inbox, left, departed, remote>>

RequestStep ==
    \/ \E n \in Names, p \in Peers : Create(n, p)
    \/ \E w \in Wires : CreateInEngine(w) \/ DeleteInEngine(w)
    \/ \E w \in Wires, p \in Peers : Invite(w, p)
    \/ CreateRow
    \/ InviteInEngine \/ RestorationIncomplete \/ InvitePublished \/ InviteAnswered
    \/ RequestFails
    \/ DeleteRow

Next ==
    \/ StoreStep /\ UNCHANGED groupVars
    \/ Open
    \/ RepublishKeyPackage /\ UNCHANGED groupVars
    \/ \E w \in Wires : ReconcileGroup(w) \/ ReconcileFails(w) \/ MarkStateLost(w)
    \/ Serve
    \/ RequestStep
    \/ \E w, first \in Wires : AcceptWelcome(w, first)
    \/ \E e \in events : DispatchWelcome(e)
    \/ \E w \in Wires : RemoteInvite(w) \/ RemoteEvict(w)
    \/ \E w \in Wires, n \in Names : RemoteRename(w, n)
    \/ \E w \in Wires, p \in Peers : PeerLeaves(w, p)
    \/ End

Spec == Init /\ [][Next]_vars

-----------------------------------------------------------------------------
\* Properties

\* Every variable keeps its type through resets, requests and restarts.
TypeOK ==
    /\ StoreTypeOK
    /\ rows \in [Wires -> {NoRow} \cup [name : Names, lost : BOOLEAN, invited : SUBSET Peers]]
    /\ names \in [Wires -> Names]
    /\ members \in [Wires -> SUBSET Peers]
    /\ inbox \subseteq Wires /\ pending \subseteq Wires
    /\ left \subseteq Wires /\ torn \subseteq Wires
    /\ \A e \in events : e.wire \in inbox /\ e.first \in Wires
    /\ departed \subseteq [wire : Wires, peer : Peers]

\* reset_legacy_store, "Harvest before any destructive step": wherever the
\* process ended, a legacy store that is gone from the live path has left the
\* admins of all its groups in agent.db.
AdminsSurvive == held[0] # {} /\ main.kind # "legacy" => held[0] \subseteq admins

\* R26: no encrypted store is ever destroyed.  Each one the engine created is
\* at the live path or in an archive that pruning leaves alone, with its -wal
\* beside it if that has what the main file lacks, whatever happened to its key.
\* The -wal may be elsewhere only if a reset of that store was cut short between
\* its two moves: finish_sidecar_cleanup takes the -wal for a legacy store's.
WithWal(i, log) == i \in split => log = i

StateIsKept ==
    \A i \in 1..minted :
        \/ main.id = i /\ WithWal(i, wal)
        \/ \E a \in archive : /\ a.store = i /\ a.kind = "r26"
                             /\ \/ WithWal(i, a.wal)
                                \/ phase = "moved" /\ wal = i
                                \/ i \in severed

\* Fail closed: a store the daemon does not recognise, or whose key file it
\* cannot use, is neither moved nor replaced by any step of the daemon.
FailClosed ==
    [][(main.kind = "foreign" \/ (main.kind = "encrypted" /\ key = Unusable))
         => main' = main]_vars

\* R28: once a reset has completed, a served bot has no row that promises a
\* group it cannot use: the engine has the group, or the row says the state
\* is lost, or the bot was removed from the group since.  A row is marked only
\* in a bot whose store was reset: one that was merely removed from a group by
\* a remote admin has no marked rows.
LostIffReset ==
    /\ phase = "serving" /\ marker = "completed"
         => \A w \in Rows : w \in Live \/ rows[w].lost \/ w \in left
    /\ (\E w \in Rows : rows[w].lost) => marker # "none"

\* do_invite_to_mls_group rolls its member row back: between requests, a peer
\* recorded as a member of a group the engine has is one, or was until it left or
\* another admin removed it (nothing takes its row), unless the process ended in
\* the middle of an invite.
InvitedIsMember ==
    phase = "serving" /\ rpc = Idle
        => \A w \in Rows \cap Live :
              w \in torn
              \/ \A p \in rows[w].invited : p \in members[w] \/ [wire |-> w, peer |-> p] \in departed

=============================================================================
