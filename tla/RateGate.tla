------------------------------ MODULE RateGate ------------------------------
(***************************************************************************)
(* The gates in front of the handlers and the relays (src/dispatch.rs):    *)
(* RateLimiter with its three maps of token buckets, swept opportunisti-   *)
(* cally, and the DedupCache of group messages.                            *)
(*                                                                         *)
(* A request of a handler is charged to its bot and then to the handler; a *)
(* group message is looked up in the cache and then charged to the Squad,  *)
(* the bot in its group.  A new bucket is full, so that to forget a bucket *)
(* is to fill it.                                                          *)
(***************************************************************************)
EXTENDS Naturals, Sequences, FiniteSets, Functions

CONSTANTS
    Handlers, Bots,
    Groups,
    Messages,    \* group messages, by wrapper id
    GroupOf,     \* GroupOf[g]: the group the message is for
    Burst,       \* units a bucket of each map holds
    Fill,        \* units that flow into it in a tick
    Price,       \* units an operation takes
    StaleAfter,  \* BUCKET_STALE_TIMEOUT
    MaxBuckets,  \* MAX_BUCKETS
    Window,      \* Window[b]: dedup_window of the bot's configuration
    MaxSeen,     \* MLS_DEDUP_MAX_SIZE and MLS_DEDUP_CLEANUP_THRESHOLD
    MaxTime,     \* bound: ticks of the clock
    MaxCalls     \* bound: group messages looked up

SquadOf(b, g) == <<b, GroupOf[g]>>
Squads == Bots \X Groups
Maps == {"handlers", "bots", "groups"}
KeysOf == [handlers |-> Handlers, bots |-> Bots, groups |-> Squads]
Keys == Handlers \cup Bots \cup Squads
MapOf(k) == CHOOSE m \in Maps : k \in KeysOf[m]

\* The ids of handlers, bots and groups are told apart by the map they are
\* looked up in.
ASSUME GateAssumption ==
    /\ Burst \in [Maps -> Nat] /\ Fill \in [Maps -> Nat] /\ Price \in [Maps -> Nat \ {0}]
    /\ StaleAfter \in Nat /\ MaxBuckets \in Nat /\ MaxSeen \in Nat
    /\ GroupOf \in [Messages -> Groups]
    /\ Window \in [Bots -> Nat] /\ MaxTime \in Nat /\ MaxCalls \in Nat
    /\ Handlers \cap Bots = {} /\ Handlers \cap Squads = {} /\ Bots \cap Squads = {}

VARIABLES
    now,
    bucket,     \* bucket[m]: key -> [tokens, last], for the keys in the map
    lastSweep,
    seen,       \* the cache: [key, at, nth], where nth tells apart instants
                \* the clock of the model does not
    calls,      \* history: is_duplicate calls, [bot, msg, at, dup]
    granted,    \* history: operations each key was charged for, and
    forgotten,  \* how often its bucket was dropped before it was full, since
    since       \* history: when the observation began

limiter == <<bucket, lastSweep, granted, forgotten>>
vars == <<now, bucket, lastSweep, seen, calls, granted, forgotten, since>>

Nothing == [k \in Keys |-> 0]

Init ==
    /\ now = 0
    /\ bucket = [m \in Maps |-> <<>>]
    /\ lastSweep = [m \in Maps |-> 0]
    /\ seen = {} /\ calls = <<>>
    /\ granted = Nothing /\ forgotten = Nothing /\ since = 0

-----------------------------------------------------------------------------
\* Buckets

AtMost(cap, n) == IF n > cap THEN cap ELSE n

Tokens(m, f, k) ==
    IF k \in DOMAIN f THEN AtMost(Burst[m], f[k].tokens + (now - f[k].last) * Fill[m])
                      ELSE Burst[m]

NeedsSweep(m) ==
    Cardinality(DOMAIN bucket[m]) > MaxBuckets \/ now - lastSweep[m] >= StaleAfter

\* Mutant: the comparison is the other way round.
FreshKeysTurned(m) == {k \in DOMAIN bucket[m] : now - bucket[m][k].last > StaleAfter}

FreshKeys(m) == {k \in DOMAIN bucket[m] : now - bucket[m][k].last <= StaleAfter}

\* Stale buckets go, then the oldest until the map is small enough.
Sweeps(m) ==
    IF ~NeedsSweep(m) THEN {DOMAIN bucket[m]}
    ELSE {K \in SUBSET FreshKeys(m) :
            /\ Cardinality(K) = AtMost(MaxBuckets, Cardinality(FreshKeys(m)))
            /\ \A k \in K, x \in FreshKeys(m) \ K : bucket[m][x].last <= bucket[m][k].last}

\* Bucket::check on the bucket of k, made first if there is none.
Passes(m, K, k) == Tokens(m, Restrict(bucket[m], K), k) >= Price[m]

Checked(m, K, k) ==
    LET have == Tokens(m, Restrict(bucket[m], K), k)
        left == IF have >= Price[m] THEN have - Price[m] ELSE have
    IN  [x \in K \cup {k} |-> IF x = k THEN [tokens |-> left, last |-> now] ELSE bucket[m][x]]

SweptAt(m) == IF NeedsSweep(m) THEN now ELSE lastSweep[m]

\* The buckets that go with all but the keys K although they are not full.
Lost(m, K) == {k \in DOMAIN bucket[m] \ K : Tokens(m, bucket[m], k) < Burst[m]}

Plus(count, S) == [k \in Keys |-> IF k \in S THEN count[k] + 1 ELSE count[k]]

-----------------------------------------------------------------------------
\* Requests

\* RateLimiter::check, for a direct message, reaction or attachment, or one
\* to a group: the bot is charged first, and stays charged when the handler
\* is refused.
Request(h, b) ==
    /\ \E kb \in Sweeps("bots"), kh \in Sweeps("handlers") :
          IF Passes("bots", kb, b)
            THEN /\ bucket' = [bucket EXCEPT !["bots"] = Checked("bots", kb, b),
                                             !["handlers"] = Checked("handlers", kh, h)]
                 /\ lastSweep' = [lastSweep EXCEPT !["bots"] = SweptAt("bots"),
                                                   !["handlers"] = SweptAt("handlers")]
                 /\ granted' = Plus(granted, {b} \cup {k \in {h} : Passes("handlers", kh, k)})
                 /\ forgotten' = Plus(forgotten, Lost("bots", kb) \cup Lost("handlers", kh))
            ELSE /\ bucket' = [bucket EXCEPT !["bots"] = Checked("bots", kb, b)]
                 /\ lastSweep' = [lastSweep EXCEPT !["bots"] = SweptAt("bots")]
                 /\ forgotten' = Plus(forgotten, Lost("bots", kb))
                 /\ UNCHANGED granted
    /\ UNCHANGED <<now, seen, calls, since>>

\* remove_handler, when a handler unregisters.
Unregister(h) ==
    /\ h \in DOMAIN bucket["handlers"]
    /\ bucket' = [bucket EXCEPT
                    !["handlers"] = Restrict(@, DOMAIN @ \ {h})]
    /\ forgotten' = Plus(forgotten, Lost("handlers", DOMAIN bucket["handlers"] \ {h}))
    /\ UNCHANGED <<now, lastSweep, seen, calls, granted, since>>

-----------------------------------------------------------------------------
\* Group messages

Young(w) == {e \in seen : now - e.at < w}

\* Mutant: the youngest entries go first.
CleanupYoungest(w) ==
    {e \in Young(w) : Cardinality({x \in Young(w) : x.nth < e.nth}) < MaxSeen}

\* cleanup: entries older than the caller's window go, then the oldest until
\* the cache is small enough.
Cleanup(w) ==
    {e \in Young(w) : Cardinality({x \in Young(w) : x.nth > e.nth}) < MaxSeen}

Cleaned(w) == IF Cardinality(seen) >= MaxSeen THEN Cleanup(w) ELSE seen

KeyOf(b, g) == <<b, g>>

Duplicate(cache, key, w) == \E e \in cache : e.key = key /\ now - e.at < w

\* insert replaces the expired entry of the same key, if there is one.
Remember(cache, key) ==
    {e \in cache : e.key # key} \cup {[key |-> key, at |-> now, nth |-> Len(calls) + 1]}

\* process_mls_group_message: an id within its window is dropped; any other
\* is remembered, and then the Squad is charged.  The cache stays locked
\* throughout.
GroupMessage(b, g) ==
    LET cache == Cleaned(Window[b])
        dup == Duplicate(cache, KeyOf(b, g), Window[b])
        q == SquadOf(b, g)
    IN  /\ Len(calls) < MaxCalls
        /\ calls' = Append(calls, [bot |-> b, msg |-> g, at |-> now, dup |-> dup])
        /\ IF dup
             THEN seen' = cache /\ UNCHANGED limiter
             ELSE /\ seen' = Remember(cache, KeyOf(b, g))
                  /\ \E K \in Sweeps("groups") :
                       /\ bucket' = [bucket EXCEPT !["groups"] = Checked("groups", K, q)]
                       /\ granted' = Plus(granted, {k \in {q} : Passes("groups", K, k)})
                       /\ forgotten' = Plus(forgotten, Lost("groups", K))
                  /\ lastSweep' = [lastSweep EXCEPT !["groups"] = SweptAt("groups")]
        /\ UNCHANGED <<now, since>>

-----------------------------------------------------------------------------
Tick ==
    /\ now < MaxTime /\ now' = now + 1
    /\ UNCHANGED <<limiter, seen, calls, since>>

\* Counting begins.
Observe ==
    /\ since = 0 /\ now > 0
    /\ since' = now /\ granted' = Nothing /\ forgotten' = Nothing
    /\ UNCHANGED <<now, bucket, lastSweep, seen, calls>>

HandlerStep ==
    \/ \E h \in Handlers, b \in Bots : Request(h, b)
    \/ \E h \in Handlers : Unregister(h)
MessageStep == \E b \in Bots, g \in Messages : GroupMessage(b, g)

Next == HandlerStep \/ MessageStep \/ Tick \/ Observe

Spec == Init /\ [][Next]_vars

-----------------------------------------------------------------------------
\* Properties

\* Every variable has its type; the cache holds at most one entry more than
\* its maximum, and one entry for a key.
TypeOK ==
    /\ now \in 0..MaxTime /\ since \in 0..now
    /\ \A m \in Maps :
          /\ DOMAIN bucket[m] \subseteq KeysOf[m]
          /\ Cardinality(DOMAIN bucket[m]) <= MaxBuckets + 1
          /\ \A k \in DOMAIN bucket[m] :
                bucket[m][k].tokens \in 0..Burst[m] /\ bucket[m][k].last \in 0..now
    /\ lastSweep \in [Maps -> 0..now]
    /\ Cardinality(seen) <= MaxSeen + 1
    /\ \A e, f \in seen : e.key = f.key => e = f
    /\ granted \in [Keys -> Nat] /\ forgotten \in [Keys -> Nat]

\* The keys whose bucket may be dropped before it is full: handlers, when they
\* unregister; and any key of a map that may have to evict, or whose buckets
\* take longer to fill than to become stale, as with a large
\* group_message_burst.
Roomy(m) ==
    /\ IsFiniteSet(KeysOf[m]) /\ Cardinality(KeysOf[m]) <= MaxBuckets
    /\ StaleAfter * Fill[m] >= Burst[m]
Forgettable == Handlers \cup {k \in Keys : ~Roomy(MapOf(k))}

\* BucketMap::sweep is invisible in a roomy map: the buckets of bots and Squads
\* are never forgotten there.  Where a bucket is forgotten, its key gains one
\* full bucket and no more.
Limit == INSTANCE TokenBuckets WITH
    Resettable <- Forgettable,
    Cap <- [k \in Keys |-> Burst[MapOf(k)]],
    Rate <- [k \in Keys |-> Fill[MapOf(k)]],
    Cost <- [k \in Keys |-> Price[MapOf(k)]],
    level <- [k \in Keys |-> Tokens(MapOf(k), bucket[MapOf(k)], k)],
    elapsed <- now - since
LimiterRefines == Limit!Spec

\* A group message is dispatched again within its window only if the cache
\* was full: as many others were remembered since, or a bot with a shorter
\* window cleaned it up.
RepeatedOnlyWhenFull ==
    \A i, j \in 1..Len(calls) :
        (/\ i < j /\ calls[i].bot = calls[j].bot /\ calls[i].msg = calls[j].msg
         /\ ~calls[i].dup /\ ~calls[j].dup
         /\ calls[j].at - calls[i].at < Window[calls[j].bot])
        => \/ Cardinality({n \in (i + 1)..(j - 1) : ~calls[n].dup}) >= MaxSeen
           \/ \E n \in (i + 1)..(j - 1) : Window[calls[n].bot] <= calls[n].at - calls[i].at

=============================================================================
