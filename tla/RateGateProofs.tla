--------------------------- MODULE RateGateProofs ---------------------------
(***************************************************************************)
(* Proofs about RateGate's limiter: it implements TokenBuckets, and so      *)
(* bounds what passes in any period, for any handlers, bots and groups,    *)
(* any bursts, rates and prices, and maps of any size.                     *)
(*                                                                         *)
(* What is in the maps is not what TokenBuckets has: a bucket that was     *)
(* swept or never made stands for a full one (Tokens).  The refinement     *)
(* rests on LostIsFound: a bucket that a sweep drops is found full, and    *)
(* where the map has room for all its keys and time enough to fill their   *)
(* buckets (Roomy) it was full already, whichever keys the sweep keeps.    *)
(*                                                                         *)
(* The deduplication cache needs an invariant of its own (CacheInv): a     *)
(* message whose entry is gone was followed by as many others as the cache *)
(* holds, or by a call with a shorter window (RepeatsExplained). GateTypes *)
(* bounds the maps and the cache.                                          *)
(***************************************************************************)
EXTENDS RateGate, FiniteSetTheorems, TLAPS

-----------------------------------------------------------------------------
(* The inductive invariant.                                                *)

\* A map of buckets at time t.
BucketMap(m, f, t) ==
    /\ f = [k \in DOMAIN f |-> f[k]]
    /\ DOMAIN f \subseteq KeysOf[m]
    /\ \A k \in DOMAIN f : f[k] \in [tokens : 0..Burst[m], last : 0..t]

LimiterTyped ==
    /\ now \in Nat /\ since \in Nat /\ since <= now
    /\ bucket = [m \in Maps |-> bucket[m]]
    /\ \A m \in Maps : BucketMap(m, bucket[m], now)
    /\ lastSweep \in [Maps -> Nat]
    /\ granted \in [Keys -> Nat] /\ forgotten \in [Keys -> Nat]

-----------------------------------------------------------------------------
(* Keys and arithmetic.                                                    *)

\* A key is looked up in one map.
LEMMA OneMap ==
    /\ \A h \in Handlers : MapOf(h) = "handlers"
    /\ \A b \in Bots : MapOf(b) = "bots"
    /\ \A q \in Squads : MapOf(q) = "groups"
    /\ \A k \in Keys : MapOf(k) \in Maps /\ k \in KeysOf[MapOf(k)]
    /\ \A m \in Maps : \A k \in KeysOf[m] : k \in Keys /\ MapOf(k) = m
<1>1. ASSUME NEW k \in Keys PROVE MapOf(k) \in Maps /\ k \in KeysOf[MapOf(k)]
  <2>1. \E m \in Maps : k \in KeysOf[m]
    BY DEF Keys, Maps, KeysOf
  <2> QED
    BY <2>1 DEF MapOf
<1>2. \A m \in Maps : m \in {"handlers", "bots", "groups"}
  BY DEF Maps
<1>3. KeysOf["handlers"] = Handlers /\ KeysOf["bots"] = Bots /\ KeysOf["groups"] = Squads
  BY DEF KeysOf
<1>4. \A h \in Handlers : MapOf(h) = "handlers"
  BY <1>1, <1>2, <1>3, GateAssumption DEF Keys
<1>5. \A b \in Bots : MapOf(b) = "bots"
  BY <1>1, <1>2, <1>3, GateAssumption DEF Keys
<1>6. \A q \in Squads : MapOf(q) = "groups"
  BY <1>1, <1>2, <1>3, GateAssumption DEF Keys
<1>7. ASSUME NEW m \in Maps, NEW k \in KeysOf[m] PROVE k \in Keys /\ MapOf(k) = m
  BY <1>2, <1>3, <1>4, <1>5, <1>6 DEF Keys
<1> QED
  BY <1>1, <1>4, <1>5, <1>6, <1>7

\* Products, as far as the limiter needs them.
LEMMA Products ==
    ASSUME NEW n \in Nat, NEW c \in Nat
    PROVE  /\ n * c \in Nat /\ c * n \in Nat /\ 0 * c = 0
           /\ (n + 1) * c = n * c + c /\ c * (n + 1) = c * n + c
  OBVIOUS

\* What flows in over a longer time is more.
LEMMA Monotone ==
    ASSUME NEW a \in Nat, NEW b \in Nat, NEW c \in Nat, a <= b
    PROVE  a * c <= b * c
<1>1. PICK d \in Nat : b = a + d
  <2>1. b - a \in Nat /\ b = a + (b - a)
    OBVIOUS
  <2> QED
    BY <2>1
<1>2. b * c = a * c + d * c
  BY <1>1
<1>3. a * c \in Nat /\ d * c \in Nat
  BY <1>1, Products
<1> QED
  BY <1>2, <1>3

\* The parameters of the maps.
LEMMA Parameters ==
    ASSUME NEW m \in Maps
    PROVE  /\ Burst[m] \in Nat /\ Fill[m] \in Nat /\ Price[m] \in Nat \ {0}
           /\ StaleAfter \in Nat /\ MaxBuckets \in Nat
  BY GateAssumption

\* What a bucket of a well-formed map holds when it is asked.
LEMMA TokensTyped ==
    ASSUME NEW m \in Maps, NEW f, now \in Nat, BucketMap(m, f, now), NEW k
    PROVE  /\ Tokens(m, f, k) \in Nat /\ Tokens(m, f, k) <= Burst[m]
           /\ k \in DOMAIN f =>
                /\ f[k].tokens \in Nat /\ f[k].tokens <= Burst[m]
                /\ f[k].last \in Nat /\ f[k].last <= now
                /\ (now - f[k].last) * Fill[m] \in Nat
<1>1. CASE k \notin DOMAIN f
  BY <1>1, Parameters DEF Tokens
<1>2. CASE k \in DOMAIN f
  <2>1. /\ f[k].tokens \in Nat /\ f[k].tokens <= Burst[m]
        /\ f[k].last \in Nat /\ f[k].last <= now
    BY <1>2, Parameters DEF BucketMap
  <2>2. now - f[k].last \in Nat
    BY <2>1
  <2>3. (now - f[k].last) * Fill[m] \in Nat
    BY <2>2, Parameters, Products
  <2> QED
    BY <1>2, <2>1, <2>3, Parameters DEF Tokens, AtMost
<1> QED
  BY <1>1, <1>2

\* A sweep takes buckets out and adds none.
LEMMA SweepTakes ==
    ASSUME NEW m \in Maps, NEW K \in Sweeps(m)
    PROVE  /\ K \subseteq DOMAIN bucket[m]
           /\ ~NeedsSweep(m) => K = DOMAIN bucket[m]
           /\ NeedsSweep(m) =>
                /\ K \subseteq FreshKeys(m)
                /\ Cardinality(K) = AtMost(MaxBuckets, Cardinality(FreshKeys(m)))
<1>1. FreshKeys(m) \subseteq DOMAIN bucket[m]
  BY DEF FreshKeys
<1>2. CASE ~NeedsSweep(m)
  BY <1>2 DEF Sweeps
<1>3. CASE NeedsSweep(m)
  BY <1>1, <1>3 DEF Sweeps
<1> QED
  BY <1>2, <1>3

\* What is asked after a sweep is a bucket of the map, or a full one.
LEMMA SweepFound ==
    ASSUME NEW m \in Maps, NEW K \in Sweeps(m), NEW k
    PROVE  /\ k \in K => Tokens(m, Restrict(bucket[m], K), k) = Tokens(m, bucket[m], k)
           /\ k \notin K => Tokens(m, Restrict(bucket[m], K), k) = Burst[m]
  BY SweepTakes DEF Tokens, Restrict

\* BucketMap::sweep cannot be noticed in a roomy map.
LEMMA SweepInvisible ==
    ASSUME LimiterTyped, NEW m \in Maps, Roomy(m), NEW K \in Sweeps(m), NEW k
    PROVE  Tokens(m, Restrict(bucket[m], K), k) = Tokens(m, bucket[m], k)
<1>0. /\ IsFiniteSet(KeysOf[m]) /\ Cardinality(KeysOf[m]) <= MaxBuckets
      /\ StaleAfter * Fill[m] >= Burst[m]
  BY DEF Roomy
<1>1. CASE k \in K
  BY <1>1, SweepFound
<1>2. CASE k \notin K /\ k \notin DOMAIN bucket[m]
  BY <1>2, SweepFound DEF Tokens
<1>3. CASE k \notin K /\ k \in DOMAIN bucket[m]
  <2>1. NeedsSweep(m)
    BY <1>3, SweepTakes
  <2>2. K \subseteq FreshKeys(m) /\ FreshKeys(m) \subseteq KeysOf[m]
    BY <2>1, SweepTakes DEF FreshKeys, LimiterTyped, BucketMap
  <2>3. /\ IsFiniteSet(FreshKeys(m)) /\ Cardinality(FreshKeys(m)) \in Nat
        /\ Cardinality(FreshKeys(m)) <= MaxBuckets
    <3>1. /\ IsFiniteSet(FreshKeys(m))
          /\ Cardinality(FreshKeys(m)) <= Cardinality(KeysOf[m])
      BY <1>0, <2>2, FS_Subset
    <3>2. Cardinality(FreshKeys(m)) \in Nat /\ Cardinality(KeysOf[m]) \in Nat
      BY <1>0, <3>1, FS_CardinalityType
    <3> QED
      BY <1>0, <3>1, <3>2, Parameters
  <2>4. Cardinality(K) = Cardinality(FreshKeys(m))
    BY <2>1, <2>3, SweepTakes, Parameters DEF AtMost
  <2>5. K = FreshKeys(m)
    BY <2>2, <2>3, <2>4, FS_Subset
  <2>6. ~(now - bucket[m][k].last <= StaleAfter)
    BY <1>3, <2>5 DEF FreshKeys
  <2> DEFINE past == now - bucket[m][k].last
  <2>7. /\ bucket[m][k].tokens \in Nat /\ past \in Nat /\ past * Fill[m] \in Nat
        /\ StaleAfter <= past
    <3>1. BucketMap(m, bucket[m], now) /\ now \in Nat
      BY DEF LimiterTyped
    <3> QED
      BY <1>3, <2>6, <3>1, TokensTyped, Parameters
  <2>8. StaleAfter * Fill[m] <= past * Fill[m]
    BY <2>7, Monotone, Parameters
  <2>9. Tokens(m, bucket[m], k) = Burst[m]
    <3>1. StaleAfter * Fill[m] \in Nat
      BY Parameters, Products
    <3>2. PICK n \in Nat : n = past * Fill[m]
      BY <2>7
    <3>3. Burst[m] \in Nat /\ n >= Burst[m]
      BY <1>0, <2>8, <3>1, <3>2, Parameters
    <3>4. Tokens(m, bucket[m], k) = AtMost(Burst[m], bucket[m][k].tokens + n)
      BY <1>3, <3>2 DEF Tokens
    <3>5. bucket[m][k].tokens \in Nat
      BY <2>7
    <3>6. PICK t \in Nat, B \in Nat : t = bucket[m][k].tokens /\ B = Burst[m]
      BY <3>3, <3>5
    <3>7. AtMost(B, t + n) = B
      BY <3>3, <3>6 DEF AtMost
    <3> QED
      BY <3>4, <3>6, <3>7
  <2> QED
    BY <1>3, <2>9, SweepFound
<1> QED
  BY <1>1, <1>2, <1>3

\* A bucket that a sweep drops before it is full is found full, any other as
\* it was; and in a roomy map there is none.
LEMMA LostIsFound ==
    ASSUME LimiterTyped, NEW m \in Maps, NEW K \in Sweeps(m), NEW k
    PROVE  /\ k \in Lost(m, K) => /\ Tokens(m, Restrict(bucket[m], K), k) = Burst[m]
                                  /\ ~Roomy(m)
           /\ k \notin Lost(m, K) =>
                Tokens(m, Restrict(bucket[m], K), k) = Tokens(m, bucket[m], k)
<1>1. Tokens(m, bucket[m], k) \in Nat /\ Tokens(m, bucket[m], k) <= Burst[m] /\ Burst[m] \in Nat
  BY TokensTyped, Parameters DEF LimiterTyped
<1>2. CASE k \in Lost(m, K)
  <2>1. k \notin K /\ Tokens(m, bucket[m], k) < Burst[m]
    BY <1>2 DEF Lost
  <2>2. Tokens(m, Restrict(bucket[m], K), k) = Burst[m]
    BY <2>1, SweepFound
  <2>3. Tokens(m, Restrict(bucket[m], K), k) # Tokens(m, bucket[m], k)
    BY <1>1, <2>1, <2>2
  <2> QED
    BY <1>2, <2>2, <2>3, SweepInvisible
<1>3. CASE k \notin Lost(m, K)
  <2>1. CASE k \in K
    BY <1>3, <2>1, SweepFound
  <2>2. CASE k \notin K /\ k \in DOMAIN bucket[m]
    <3>1. ~(Tokens(m, bucket[m], k) < Burst[m])
      BY <1>3, <2>2 DEF Lost
    <3> QED
      BY <1>1, <1>3, <2>2, <3>1, SweepFound
  <2>3. CASE k \notin K /\ k \notin DOMAIN bucket[m]
    BY <1>3, <2>3, SweepFound DEF Tokens
  <2> QED
    BY <2>1, <2>2, <2>3
<1> QED
  BY <1>2, <1>3

-----------------------------------------------------------------------------
(* A charge.                                                               *)

\* What the bucket of k holds after Bucket::check.
Left(m, K, k) ==
    LET have == Tokens(m, Restrict(bucket[m], K), k)
    IN  IF have >= Price[m] THEN have - Price[m] ELSE have

\* A swept map is a map.
LEMMA SweptTyped ==
    ASSUME LimiterTyped, NEW m \in Maps, NEW K \in Sweeps(m)
    PROVE  BucketMap(m, Restrict(bucket[m], K), now)
<1>1. BucketMap(m, bucket[m], now) /\ K \subseteq DOMAIN bucket[m]
  BY SweepTakes DEF LimiterTyped
<1> QED
  BY <1>1 DEF BucketMap, Restrict

\* A check changes the bucket it charges and, but for the sweep before it,
\* no other.
LEMMA CheckedTokens ==
    ASSUME LimiterTyped, NEW m \in Maps, NEW K \in Sweeps(m), NEW k \in KeysOf[m]
    PROVE  /\ BucketMap(m, Checked(m, K, k), now)
           /\ Left(m, K, k) \in Nat /\ Left(m, K, k) <= Burst[m]
           /\ Tokens(m, Checked(m, K, k), k) = Left(m, K, k)
           /\ \A x : x # k => Tokens(m, Checked(m, K, k), x)
                                = Tokens(m, Restrict(bucket[m], K), x)
<1>1. now \in Nat /\ BucketMap(m, bucket[m], now) /\ K \subseteq DOMAIN bucket[m]
  BY SweepTakes DEF LimiterTyped
<1>2. /\ Tokens(m, Restrict(bucket[m], K), k) \in Nat
      /\ Tokens(m, Restrict(bucket[m], K), k) <= Burst[m]
  BY <1>1, SweptTyped, TokensTyped
<1>3. Left(m, K, k) \in Nat /\ Left(m, K, k) <= Burst[m]
  BY <1>2, Parameters DEF Left
<1>4. Checked(m, K, k) = [x \in K \cup {k} |-> IF x = k THEN [tokens |-> Left(m, K, k), last |-> now]
                                                        ELSE bucket[m][x]]
  BY DEF Checked, Left
<1>5. /\ DOMAIN Checked(m, K, k) = K \cup {k}
      /\ Checked(m, K, k)[k] = [tokens |-> Left(m, K, k), last |-> now]
      /\ \A x \in K : x # k => Checked(m, K, k)[x] = bucket[m][x]
  BY <1>4
<1>6. BucketMap(m, Checked(m, K, k), now)
  <2>1. [tokens |-> Left(m, K, k), last |-> now] \in [tokens : 0..Burst[m], last : 0..now]
    BY <1>1, <1>3, Parameters
  <2>2. \A x \in DOMAIN Checked(m, K, k) :
            Checked(m, K, k)[x] \in [tokens : 0..Burst[m], last : 0..now]
    BY <1>1, <1>5, <2>1 DEF BucketMap
  <2>3. DOMAIN Checked(m, K, k) \subseteq KeysOf[m]
    BY <1>1, <1>5 DEF BucketMap
  <2>4. Checked(m, K, k) = [x \in DOMAIN Checked(m, K, k) |-> Checked(m, K, k)[x]]
    BY <1>4, <1>5
  <2> QED
    BY <2>2, <2>3, <2>4 DEF BucketMap
<1>7. Tokens(m, Checked(m, K, k), k) = Left(m, K, k)
  <2>1. Tokens(m, Checked(m, K, k), k) = AtMost(Burst[m], Left(m, K, k) + (now - now) * Fill[m])
    BY <1>5 DEF Tokens
  <2>2. (now - now) * Fill[m] = 0
    BY <1>1, Parameters
  <2> QED
    BY <1>3, <2>1, <2>2, Parameters DEF AtMost
<1>8. ASSUME NEW x, x # k
      PROVE  Tokens(m, Checked(m, K, k), x) = Tokens(m, Restrict(bucket[m], K), x)
  BY <1>5, <1>8 DEF Tokens, Restrict
<1> QED
  BY <1>3, <1>6, <1>7, <1>8

-----------------------------------------------------------------------------
(* The refinement mapping.                                                 *)

\* What TokenBuckets has for k.
Level(k) == Tokens(MapOf(k), bucket[MapOf(k)], k)

\* The level of every key is that of a bucket.
LEMMA LevelTyped ==
    ASSUME LimiterTyped, NEW k \in Keys
    PROVE  Level(k) \in Nat /\ Level(k) <= Burst[MapOf(k)]
<1>1. MapOf(k) \in Maps
  BY OneMap
<1> QED
  BY <1>1, TokensTyped DEF Level, LimiterTyped

\* What TokenBuckets asks of a key in a step that charges, in the limiter's
\* terms.
Charged(x) ==
    \E found \in {Level(x), Burst[MapOf(x)]} :
        /\ \/ found = Level(x) /\ forgotten'[x] = forgotten[x]
           \/ x \in Forgettable /\ forgotten'[x] = forgotten[x] + 1
        /\ \/ Level(x)' = found /\ granted'[x] = granted[x]
           \/ /\ found >= Price[MapOf(x)]
              /\ Level(x)' = found - Price[MapOf(x)] /\ granted'[x] = granted[x] + 1

\* The keys of a map whose bucket is charged: one holds what is left of what
\* was found; the others hold what was found.
LEMMA MapCharged ==
    ASSUME LimiterTyped, now' = now, NEW m \in Maps, NEW K \in Sweeps(m), NEW k \in KeysOf[m],
           bucket'[m] = Checked(m, K, k), NEW x \in KeysOf[m],
           granted'[x] = IF x = k /\ Passes(m, K, k) THEN granted[x] + 1 ELSE granted[x],
           forgotten'[x] = IF x \in Lost(m, K) THEN forgotten[x] + 1 ELSE forgotten[x]
    PROVE  Charged(x) /\ Level(x)' \in Nat
<1>0. x \in Keys /\ MapOf(x) = m
  BY OneMap
<1>1. PICK found : found = Tokens(m, Restrict(bucket[m], K), x)
  OBVIOUS
<1>2. found \in Nat
  BY <1>1, SweptTyped, TokensTyped DEF LimiterTyped
<1>3. Level(x) = Tokens(m, bucket[m], x)
  BY <1>0 DEF Level
<1>4. /\ found \in {Level(x), Burst[MapOf(x)]}
      /\ \/ found = Level(x) /\ forgotten'[x] = forgotten[x]
         \/ x \in Forgettable /\ forgotten'[x] = forgotten[x] + 1
  <2>1. CASE x \in Lost(m, K)
    <3>1. found = Burst[m] /\ ~Roomy(m)
      BY <1>1, <2>1, LostIsFound
    <3> QED
      BY <1>0, <2>1, <3>1 DEF Forgettable
  <2>2. CASE x \notin Lost(m, K)
    BY <1>1, <1>3, <2>2, LostIsFound
  <2> QED
    BY <2>1, <2>2
<1>5. Level(x)' = Tokens(m, Checked(m, K, k), x)
  BY <1>0 DEF Level, Tokens
<1>6. CASE x # k
  <2>1. Level(x)' = found /\ granted'[x] = granted[x]
    BY <1>1, <1>5, <1>6, CheckedTokens
  <2> QED
    BY <1>2, <1>4, <2>1 DEF Charged
<1>7. CASE x = k
  <2>1. Level(x)' = Left(m, K, k) /\ Left(m, K, k) \in Nat
    BY <1>5, <1>7, CheckedTokens
  <2>2. Left(m, K, k) = IF found >= Price[m] THEN found - Price[m] ELSE found
    BY <1>1, <1>7 DEF Left
  <2>3. Passes(m, K, k) <=> found >= Price[m]
    BY <1>1, <1>7 DEF Passes
  <2>4. \/ Level(x)' = found /\ granted'[x] = granted[x]
        \/ /\ found >= Price[MapOf(x)]
           /\ Level(x)' = found - Price[MapOf(x)] /\ granted'[x] = granted[x] + 1
    BY <1>0, <1>7, <2>1, <2>2, <2>3
  <2> QED
    BY <1>4, <2>1, <2>4 DEF Charged
<1> QED
  BY <1>6, <1>7

\* The keys of a map that is left alone.
LEMMA MapKept ==
    ASSUME LimiterTyped, now' = now, NEW x \in Keys, bucket'[MapOf(x)] = bucket[MapOf(x)],
           granted'[x] = granted[x], forgotten'[x] = forgotten[x]
    PROVE  Charged(x) /\ Level(x)' \in Nat
<1>1. Level(x)' = Level(x)
  BY DEF Level, Tokens
<1> QED
  BY <1>1, LevelTyped DEF Charged

-----------------------------------------------------------------------------
(* The invariant.                                                          *)

\* Time passes: a map stays one.
LEMMA Later ==
    ASSUME NEW m, NEW f, NEW t \in Nat, NEW u \in Nat, t <= u, BucketMap(m, f, t)
    PROVE  BucketMap(m, f, u)
<1>1. \A n \in 0..t : n \in 0..u
  OBVIOUS
<1> QED
  BY <1>1 DEF BucketMap

\* check_group, after a sweep that keeps K.
ChargesSquad(b, g, K) ==
    /\ bucket' = [bucket EXCEPT !["groups"] = Checked("groups", K, SquadOf(b, g))]
    /\ granted' = Plus(granted, {k \in {SquadOf(b, g)} : Passes("groups", K, k)})
    /\ forgotten' = Plus(forgotten, Lost("groups", K))

\* Every message is charged to a key of its map.
LEMMA SquadKey ==
    ASSUME NEW b \in Bots, NEW g \in Messages
    PROVE  SquadOf(b, g) \in KeysOf["groups"]
  BY GateAssumption DEF SquadOf, Squads, KeysOf

\* RateLimiter::new: no buckets yet.
LEMMA TypedInit == Init => LimiterTyped
<1> SUFFICES ASSUME Init PROVE LimiterTyped
  OBVIOUS
<1>1. ASSUME NEW m \in Maps PROVE BucketMap(m, bucket[m], now)
  <2>1. bucket[m] = <<>>
    BY DEF Init
  <2>2. DOMAIN <<>> = {}
    OBVIOUS
  <2> QED
    BY <2>1, <2>2 DEF BucketMap
<1> QED
  BY <1>1 DEF Init, LimiterTyped, Nothing

\* A request, a re-registration, a group message, the clock and the observer
\* leave well-formed maps behind.
LEMMA TypedNext == LimiterTyped /\ [Next]_vars => LimiterTyped'
<1> SUFFICES ASSUME LimiterTyped, [Next]_vars PROVE LimiterTyped'
  OBVIOUS
<1> USE DEF LimiterTyped
<1>1. \A m \in Maps : SweptAt(m) \in Nat
  BY DEF SweptAt
<1>2. ASSUME NEW S
      PROVE  Plus(granted, S) \in [Keys -> Nat] /\ Plus(forgotten, S) \in [Keys -> Nat]
  BY DEF Plus
<1>3. "bots" \in Maps /\ "handlers" \in Maps /\ "groups" \in Maps
  BY DEF Maps
<1>4. ASSUME NEW h \in Handlers, NEW b \in Bots, Request(h, b) PROVE LimiterTyped'
  <2>1. PICK kb \in Sweeps("bots"), kh \in Sweeps("handlers") :
          IF Passes("bots", kb, b)
            THEN /\ bucket' = [bucket EXCEPT !["bots"] = Checked("bots", kb, b),
                                             !["handlers"] = Checked("handlers", kh, h)]
                 /\ lastSweep' = [lastSweep EXCEPT !["bots"] = SweptAt("bots"),
                                                   !["handlers"] = SweptAt("handlers")]
                 /\ granted' = Plus(granted, {b} \cup {k \in {h} : Passes("handlers", kh, k)})
                 /\ forgotten' = Plus(forgotten, Lost("bots", kb) \cup Lost("handlers", kh))
            ELSE /\ bucket' = [bucket EXCEPT !["bots"] = Checked("bots", kb, b)]
                 /\ lastSweep' = [lastSweep EXCEPT !["bots"] = SweptAt("bots")]
                 /\ forgotten' = Plus(forgotten, Lost("bots", kb))
                 /\ UNCHANGED granted
    BY <1>4 DEF Request
  <2>2. now' = now /\ since' = since
    BY <1>4 DEF Request
  <2>3. /\ BucketMap("bots", Checked("bots", kb, b), now)
        /\ BucketMap("handlers", Checked("handlers", kh, h), now)
    <3>1. b \in KeysOf["bots"] /\ h \in KeysOf["handlers"]
      BY DEF KeysOf
    <3> QED
      BY <1>3, <3>1, CheckedTokens
  <2>4. granted' \in [Keys -> Nat] /\ forgotten' \in [Keys -> Nat]
    BY <1>2, <2>1
  <2>5. lastSweep' \in [Maps -> Nat]
    BY <1>1, <1>3, <2>1
  <2>6. bucket' = [m \in Maps |-> bucket'[m]]
    BY <2>1
  <2>7. ASSUME NEW m \in Maps PROVE BucketMap(m, bucket'[m], now)
    BY <2>1, <2>3
  <2> QED
    BY <2>2, <2>4, <2>5, <2>6, <2>7
<1>5. ASSUME NEW h \in Handlers, Unregister(h) PROVE LimiterTyped'
  <2>1. /\ bucket' = [bucket EXCEPT !["handlers"] = Restrict(@, DOMAIN @ \ {h})]
        /\ UNCHANGED <<now, lastSweep, granted, since>>
        /\ forgotten' = Plus(forgotten, Lost("handlers", DOMAIN bucket["handlers"] \ {h}))
    BY <1>5 DEF Unregister
  <2>2. BucketMap("handlers", Restrict(bucket["handlers"], DOMAIN bucket["handlers"] \ {h}), now)
    BY <1>3 DEF BucketMap, Restrict
  <2>3. bucket' = [m \in Maps |-> bucket'[m]]
    BY <2>1
  <2>4. ASSUME NEW m \in Maps PROVE BucketMap(m, bucket'[m], now)
    BY <2>1, <2>2
  <2> QED
    BY <1>2, <2>1, <2>3, <2>4
<1>6. ASSUME NEW b \in Bots, NEW g \in Messages, GroupMessage(b, g) PROVE LimiterTyped'
  <2>1. now' = now /\ since' = since
    BY <1>6 DEF GroupMessage
  <2>2. CASE UNCHANGED limiter
    BY <2>1, <2>2 DEF limiter
  <2>3. CASE /\ \E K \in Sweeps("groups") : ChargesSquad(b, g, K)
             /\ lastSweep' = [lastSweep EXCEPT !["groups"] = SweptAt("groups")]
    <3>1. PICK K \in Sweeps("groups") : ChargesSquad(b, g, K)
      BY <2>3
    <3>2. SquadOf(b, g) \in KeysOf["groups"]
      BY SquadKey
    <3>3. BucketMap("groups", Checked("groups", K, SquadOf(b, g)), now)
      BY <1>3, <3>2, CheckedTokens
    <3>4. granted' \in [Keys -> Nat] /\ forgotten' \in [Keys -> Nat]
      BY <1>2, <3>1 DEF ChargesSquad
    <3>5. lastSweep' \in [Maps -> Nat]
      BY <1>1, <1>3, <2>3
    <3>6. bucket' = [m \in Maps |-> bucket'[m]]
      BY <3>1 DEF ChargesSquad
    <3>7. ASSUME NEW m \in Maps PROVE BucketMap(m, bucket'[m], now)
      BY <3>1, <3>3 DEF ChargesSquad
    <3> QED
      BY <2>1, <3>4, <3>5, <3>6, <3>7
  <2> QED
    BY <1>6, <2>2, <2>3 DEF GroupMessage, ChargesSquad
<1>7. CASE Tick
  <2>1. now' = now + 1 /\ UNCHANGED <<bucket, lastSweep, granted, forgotten, since>>
    BY <1>7 DEF Tick, limiter
  <2>2. ASSUME NEW m \in Maps PROVE BucketMap(m, bucket[m], now + 1)
    BY Later
  <2> QED
    BY <2>1, <2>2
<1>8. CASE Observe
  BY <1>8 DEF Observe, Nothing
<1>9. CASE UNCHANGED vars
  BY <1>9 DEF vars
<1> QED
  BY <1>4, <1>5, <1>6, <1>7, <1>8, <1>9 DEF Next, HandlerStep, MessageStep

-----------------------------------------------------------------------------
(* Every step of the limiter is one of TokenBuckets.                       *)

\* The mapping's own names.
levels == [k \in Keys |-> Tokens(MapOf(k), bucket[MapOf(k)], k)]

\* The gate gives TokenBuckets the parameters it asks for (RateLimiter::new).
LEMMA Supplies == Limit!BucketParameters
<1>1. /\ [k \in Keys |-> Burst[MapOf(k)]] \in [Keys -> Nat]
      /\ [k \in Keys |-> Fill[MapOf(k)]] \in [Keys -> Nat]
      /\ [k \in Keys |-> Price[MapOf(k)]] \in [Keys -> Nat \ {0}]
  BY OneMap, Parameters
<1>2. Forgettable \subseteq Keys
  BY DEF Forgettable, Keys
<1> QED
  BY <1>1, <1>2 DEF Limit!BucketParameters

\* A bucket not made yet is a full one (Bucket::new).
LEMMA InitImplements == Init => Limit!Init
<1> SUFFICES ASSUME Init PROVE Limit!Init
  OBVIOUS
<1>1. ASSUME NEW k \in Keys PROVE Tokens(MapOf(k), bucket[MapOf(k)], k) = Burst[MapOf(k)]
  <2>1. bucket[MapOf(k)] = <<>>
    BY OneMap DEF Init
  <2>2. DOMAIN <<>> = {}
    OBVIOUS
  <2> QED
    BY <2>1, <2>2 DEF Tokens
<1>2. now - since = 0
  BY DEF Init
<1>3. granted = [k \in Keys |-> 0] /\ forgotten = [k \in Keys |-> 0]
  BY DEF Init, Nothing
<1> QED
  BY <1>1, <1>2, <1>3 DEF Limit!Init

\* Filling at every tick is filling for all the ticks at once.
LEMMA FillsAtOnce ==
    ASSUME NEW B \in Nat, NEW F \in Nat, NEW t \in Nat, NEW p \in Nat
    PROVE  AtMost(B, t + (p + 1) * F) = AtMost(B, AtMost(B, t + p * F) + F)
<1>1. PICK n \in Nat : n = p * F
  BY Products
<1>2. (p + 1) * F = n + F
  BY <1>1, Products
<1> QED
  BY <1>1, <1>2 DEF AtMost

\* Bucket::check computes, when it is asked, what the ticks brought.
LEMMA TickImplements == LimiterTyped /\ Tick => Limit!Tick
<1> SUFFICES ASSUME LimiterTyped, Tick PROVE Limit!Tick
  OBVIOUS
<1>1. /\ now' = now + 1 /\ bucket' = bucket /\ since' = since
      /\ granted' = granted /\ forgotten' = forgotten
  BY DEF Tick, limiter
<1>2. ASSUME NEW k \in Keys
      PROVE  Level(k)' = AtMost(Burst[MapOf(k)], Level(k) + Fill[MapOf(k)])
  <2>1. PICK m \in Maps : m = MapOf(k)
    BY OneMap
  <2>2. PICK f : f = bucket[m]
    OBVIOUS
  <2>3. BucketMap(m, f, now) /\ now \in Nat
    BY <2>2 DEF LimiterTyped
  <2>4. Level(k) = Tokens(m, f, k)
    BY <2>1, <2>2 DEF Level
  <2>5. CASE k \notin DOMAIN f
    <3>1. Level(k)' = Burst[m]
      BY <1>1, <2>1, <2>2, <2>5 DEF Level, Tokens
    <3>2. Level(k) = Burst[m]
      BY <2>4, <2>5 DEF Tokens
    <3> QED
      BY <2>1, <3>1, <3>2, Parameters DEF AtMost
  <2>6. CASE k \in DOMAIN f
    <3>1. PICK t \in Nat, p \in Nat : t = f[k].tokens /\ p = now - f[k].last
      BY <2>3, <2>6, TokensTyped
    <3>2. Level(k) = AtMost(Burst[m], t + p * Fill[m])
      BY <2>4, <2>6, <3>1 DEF Tokens
    <3>3. (now + 1) - f[k].last = p + 1
      BY <2>3, <2>6, <3>1, TokensTyped
    <3>4. Level(k)' = AtMost(Burst[m], t + (p + 1) * Fill[m])
      <4>1. Level(k)' = AtMost(Burst[m], f[k].tokens + ((now + 1) - f[k].last) * Fill[m])
        BY <1>1, <2>1, <2>2, <2>6 DEF Level, Tokens
      <4> QED
        BY <3>1, <3>3, <4>1
    <3>5. PICK B \in Nat, F \in Nat : B = Burst[m] /\ F = Fill[m]
      BY Parameters
    <3>6. AtMost(B, t + (p + 1) * F) = AtMost(B, AtMost(B, t + p * F) + F)
      BY FillsAtOnce
    <3> QED
      BY <2>1, <3>2, <3>4, <3>5, <3>6
  <2> QED
    BY <2>5, <2>6
<1>3. now' - since' = (now - since) + 1
  BY <1>1 DEF LimiterTyped
<1>4. levels' = [k \in Keys |-> AtMost(Burst[MapOf(k)], levels[k] + Fill[MapOf(k)])]
  BY <1>2 DEF levels, Level
<1> QED
  BY <1>1, <1>3, <1>4 DEF Limit!Tick, Limit!AtMost, AtMost, levels

\* Counting anew touches no bucket.
LEMMA ObserveImplements == LimiterTyped /\ Observe => Limit!Observe
<1> SUFFICES ASSUME LimiterTyped, Observe PROVE Limit!Observe
  OBVIOUS
<1>1. now' = now /\ bucket' = bucket /\ since' = now
  BY DEF Observe
<1>2. levels' = levels
  BY <1>1 DEF levels, Tokens
<1>3. now' - since' = 0
  BY <1>1 DEF LimiterTyped
<1>4. granted' = [k \in Keys |-> 0] /\ forgotten' = [k \in Keys |-> 0]
  BY DEF Observe, Nothing
<1> QED
  BY <1>2, <1>3, <1>4 DEF Limit!Observe, levels

\* A step that charges, in the limiter's terms.
LEMMA GrantImplements ==
    ASSUME LimiterTyped, LimiterTyped', now' = now, since' = since,
           \A x \in Keys : Charged(x) /\ Level(x)' \in Nat
    PROVE  Limit!Grant
<1>1. \A x \in Keys : levels[x] = Level(x) /\ levels'[x] = Level(x)'
  BY DEF levels, Level
<1>2. levels' \in [Keys -> Nat]
  <2>1. levels' = [x \in Keys |-> Level(x)']
    BY DEF levels, Level
  <2> QED
    BY <2>1
<1>3. granted' \in [Keys -> Nat] /\ forgotten' \in [Keys -> Nat]
  BY DEF LimiterTyped
<1>4. \A x \in Keys : \E found \in {levels[x], Burst[MapOf(x)]} :
          /\ \/ found = levels[x] /\ forgotten'[x] = forgotten[x]
             \/ x \in Forgettable /\ forgotten'[x] = forgotten[x] + 1
          /\ \/ levels'[x] = found /\ granted'[x] = granted[x]
             \/ /\ found >= Price[MapOf(x)]
                /\ levels'[x] = found - Price[MapOf(x)] /\ granted'[x] = granted[x] + 1
  BY <1>1 DEF Charged
<1>5. now' - since' = now - since
  OBVIOUS
<1> QED
  BY <1>2, <1>3, <1>4, <1>5 DEF Limit!Grant, levels

\* RateLimiter::check.
LEMMA RequestImplements ==
    ASSUME LimiterTyped, LimiterTyped', NEW h \in Handlers, NEW b \in Bots, Request(h, b)
    PROVE  Limit!Grant
<1>1. PICK kb \in Sweeps("bots"), kh \in Sweeps("handlers") :
        IF Passes("bots", kb, b)
          THEN /\ bucket' = [bucket EXCEPT !["bots"] = Checked("bots", kb, b),
                                           !["handlers"] = Checked("handlers", kh, h)]
               /\ granted' = Plus(granted, {b} \cup {k \in {h} : Passes("handlers", kh, k)})
               /\ forgotten' = Plus(forgotten, Lost("bots", kb) \cup Lost("handlers", kh))
          ELSE /\ bucket' = [bucket EXCEPT !["bots"] = Checked("bots", kb, b)]
               /\ forgotten' = Plus(forgotten, Lost("bots", kb))
               /\ UNCHANGED granted
  BY DEF Request
<1>2. now' = now /\ since' = since
  BY DEF Request
<1>3. /\ "bots" \in Maps /\ "handlers" \in Maps /\ "groups" \in Maps
      /\ b \in KeysOf["bots"] /\ h \in KeysOf["handlers"]
      /\ KeysOf["bots"] = Bots /\ KeysOf["handlers"] = Handlers /\ KeysOf["groups"] = Squads
      /\ Bots \subseteq Keys /\ Handlers \subseteq Keys /\ Squads \subseteq Keys
  BY DEF Maps, KeysOf, Keys
<1>4. /\ bucket'["bots"] = Checked("bots", kb, b) /\ bucket'["groups"] = bucket["groups"]
      /\ \/ Passes("bots", kb, b) /\ bucket'["handlers"] = Checked("handlers", kh, h)
         \/ ~Passes("bots", kb, b) /\ bucket'["handlers"] = bucket["handlers"]
  BY <1>1, <1>3 DEF LimiterTyped
<1>5. Lost("bots", kb) \subseteq Bots /\ Lost("handlers", kh) \subseteq Handlers
  BY <1>3 DEF LimiterTyped, BucketMap, Lost
<1>6. ASSUME NEW x \in Bots PROVE Charged(x) /\ Level(x)' \in Nat
  <2>1. x # h /\ x \notin Lost("handlers", kh)
    BY <1>5, GateAssumption
  <2>2. /\ granted'[x] = IF x = b /\ Passes("bots", kb, b) THEN granted[x] + 1 ELSE granted[x]
        /\ forgotten'[x] = IF x \in Lost("bots", kb) THEN forgotten[x] + 1 ELSE forgotten[x]
    BY <1>1, <1>3, <2>1 DEF Plus
  <2> QED
    BY <1>2, <1>3, <1>4, <2>2, MapCharged
<1>7. ASSUME NEW x \in Squads PROVE Charged(x) /\ Level(x)' \in Nat
  <2>1. /\ x \in Keys /\ MapOf(x) = "groups" /\ x # b /\ x # h
        /\ x \notin Lost("bots", kb) /\ x \notin Lost("handlers", kh)
    BY <1>3, <1>5, OneMap, GateAssumption
  <2>2. granted'[x] = granted[x] /\ forgotten'[x] = forgotten[x]
    BY <1>1, <2>1 DEF Plus
  <2> QED
    BY <1>2, <1>4, <2>1, <2>2, MapKept
<1>8. ASSUME NEW x \in Handlers PROVE Charged(x) /\ Level(x)' \in Nat
  <2>1. /\ MapOf(x) = "handlers" /\ x \in Keys /\ x \in KeysOf["handlers"]
        /\ x # b /\ x \notin Lost("bots", kb)
    BY <1>3, <1>5, OneMap, GateAssumption
  <2>2. CASE ~Passes("bots", kb, b)
    <3>1. granted'[x] = granted[x] /\ forgotten'[x] = forgotten[x]
      BY <1>1, <2>1, <2>2 DEF Plus
    <3> QED
      BY <1>2, <1>4, <2>1, <2>2, <3>1, MapKept
  <2>3. CASE Passes("bots", kb, b)
    <3>1. /\ granted'[x] = IF x = h /\ Passes("handlers", kh, h) THEN granted[x] + 1
                                                                 ELSE granted[x]
          /\ forgotten'[x] = IF x \in Lost("handlers", kh) THEN forgotten[x] + 1
                                                          ELSE forgotten[x]
      BY <1>1, <2>1, <2>3 DEF Plus
    <3> QED
      BY <1>2, <1>3, <1>4, <2>1, <2>3, <3>1, MapCharged
  <2> QED
    BY <2>2, <2>3
<1>9. \A x \in Keys : Charged(x) /\ Level(x)' \in Nat
  BY <1>6, <1>7, <1>8 DEF Keys
<1> QED
  BY <1>2, <1>9, GrantImplements

\* RateLimiter::remove_handler: a handler that registers again starts over.
LEMMA UnregisterImplements ==
    ASSUME LimiterTyped, LimiterTyped', NEW h \in Handlers, Unregister(h)
    PROVE  Limit!Grant
<1>1. /\ bucket' = [bucket EXCEPT !["handlers"] = Restrict(@, DOMAIN @ \ {h})]
      /\ forgotten' = Plus(forgotten, Lost("handlers", DOMAIN bucket["handlers"] \ {h}))
      /\ now' = now /\ since' = since /\ granted' = granted
  BY DEF Unregister
<1>2. /\ "bots" \in Maps /\ "handlers" \in Maps /\ "groups" \in Maps
  BY DEF Maps
<1>3. /\ bucket'["handlers"] = Restrict(bucket["handlers"], DOMAIN bucket["handlers"] \ {h})
      /\ bucket'["bots"] = bucket["bots"] /\ bucket'["groups"] = bucket["groups"]
  BY <1>1, <1>2 DEF LimiterTyped
<1>4. Lost("handlers", DOMAIN bucket["handlers"] \ {h}) \subseteq {h}
  BY DEF Lost
<1>5. ASSUME NEW x \in Keys, x # h PROVE Charged(x) /\ Level(x)' \in Nat
  <2>1. granted'[x] = granted[x] /\ forgotten'[x] = forgotten[x]
    BY <1>1, <1>4, <1>5 DEF Plus
  <2>2. MapOf(x) \in {"handlers", "bots", "groups"}
    BY OneMap DEF Maps
  <2>3. Level(x)' = Level(x)
    BY <1>1, <1>3, <1>5, <2>2 DEF Level, Tokens, Restrict
  <2> QED
    BY <2>1, <2>3, LevelTyped DEF Charged
<1>6. Charged(h) /\ Level(h)' \in Nat
  <2>1. h \in Keys /\ h \in Forgettable /\ MapOf(h) = "handlers"
    BY OneMap DEF Keys, Forgettable
  <2>2. Level(h)' = Burst["handlers"] /\ Burst["handlers"] \in Nat
    BY <1>2, <1>3, <2>1, Parameters DEF Level, Tokens, Restrict
  <2>3. granted'[h] = granted[h]
    BY <1>1
  <2>4. CASE h \in Lost("handlers", DOMAIN bucket["handlers"] \ {h})
    <3>1. forgotten'[h] = forgotten[h] + 1
      BY <1>1, <2>1, <2>4 DEF Plus
    <3> QED
      BY <2>1, <2>2, <2>3, <3>1 DEF Charged
  <2>5. CASE h \notin Lost("handlers", DOMAIN bucket["handlers"] \ {h})
    <3>1. forgotten'[h] = forgotten[h]
      BY <1>1, <2>1, <2>5 DEF Plus
    <3>2. Level(h) \in Nat /\ Level(h) <= Burst["handlers"]
      BY <2>1, LevelTyped
    <3>3. Level(h) = Tokens("handlers", bucket["handlers"], h)
      BY <2>1 DEF Level
    <3>4. ~(Level(h) < Burst["handlers"]) \/ h \notin DOMAIN bucket["handlers"]
      BY <2>5, <3>3 DEF Lost
    <3>5. Level(h) = Burst["handlers"]
      BY <2>2, <3>2, <3>3, <3>4 DEF Tokens
    <3> QED
      BY <2>1, <2>2, <2>3, <3>1, <3>5 DEF Charged
  <2> QED
    BY <2>4, <2>5
<1> QED
  BY <1>1, <1>5, <1>6, GrantImplements

\* process_mls_group_message: a duplicate charges nobody, any other message
\* its Squad.
LEMMA MessageImplements ==
    ASSUME LimiterTyped, LimiterTyped', NEW b \in Bots, NEW g \in Messages, GroupMessage(b, g)
    PROVE  Limit!Grant
<1>1. now' = now /\ since' = since
  BY DEF GroupMessage
<1>2. CASE UNCHANGED limiter
  <2>1. bucket' = bucket /\ granted' = granted /\ forgotten' = forgotten
    BY <1>2 DEF limiter
  <2> QED
    BY <1>1, <2>1, MapKept, GrantImplements
<1>3. CASE \E K \in Sweeps("groups") : ChargesSquad(b, g, K)
  <2>1. PICK K \in Sweeps("groups") : ChargesSquad(b, g, K)
    BY <1>3
  <2>2. PICK q \in Squads : q = SquadOf(b, g)
    BY SquadKey DEF KeysOf
  <2>3. /\ "bots" \in Maps /\ "handlers" \in Maps /\ "groups" \in Maps
        /\ q \in KeysOf["groups"] /\ KeysOf["groups"] = Squads
    BY DEF Maps, KeysOf
  <2>4. /\ bucket'["groups"] = Checked("groups", K, q)
        /\ bucket'["bots"] = bucket["bots"] /\ bucket'["handlers"] = bucket["handlers"]
    BY <2>1, <2>2, <2>3 DEF LimiterTyped, ChargesSquad
  <2>5. \A x \in Keys :
          /\ granted'[x] = IF x = q /\ Passes("groups", K, q) THEN granted[x] + 1 ELSE granted[x]
          /\ forgotten'[x] = IF x \in Lost("groups", K) THEN forgotten[x] + 1 ELSE forgotten[x]
    BY <2>1, <2>2 DEF ChargesSquad, Plus
  <2>6. ASSUME NEW x \in Squads PROVE Charged(x) /\ Level(x)' \in Nat
    <3>1. x \in Keys
      BY DEF Keys
    <3> QED
      BY <1>1, <2>3, <2>4, <2>5, <3>1, MapCharged
  <2>7. ASSUME NEW x \in Bots \cup Handlers PROVE Charged(x) /\ Level(x)' \in Nat
    <3>1. x \in Keys /\ MapOf(x) \in {"bots", "handlers"} /\ x \notin Squads
      BY OneMap, GateAssumption DEF Keys
    <3>2. x # q /\ x \notin Lost("groups", K)
      BY <2>3, <3>1 DEF LimiterTyped, BucketMap, Lost
    <3> QED
      BY <1>1, <2>4, <2>5, <3>1, <3>2, MapKept
  <2>8. \A x \in Keys : Charged(x) /\ Level(x)' \in Nat
    BY <2>6, <2>7 DEF Keys
  <2> QED
    BY <1>1, <2>8, GrantImplements
<1> QED
  BY <1>2, <1>3 DEF GroupMessage, ChargesSquad

\* Every step of the gate is a step of TokenBuckets or leaves its state alone.
LEMMA StepImplements == LimiterTyped /\ [Next]_vars => [Limit!Next]_(Limit!bucketVars)
<1> SUFFICES ASSUME LimiterTyped, [Next]_vars PROVE [Limit!Next]_(Limit!bucketVars)
  OBVIOUS
<1>0. LimiterTyped'
  BY TypedNext
<1>1. CASE HandlerStep
  BY <1>0, <1>1, RequestImplements, UnregisterImplements DEF HandlerStep, Limit!Next
<1>2. CASE MessageStep
  BY <1>0, <1>2, MessageImplements DEF MessageStep, Limit!Next
<1>3. CASE Tick
  BY <1>3, TickImplements DEF Limit!Next
<1>4. CASE Observe
  BY <1>4, ObserveImplements DEF Limit!Next
<1>5. CASE UNCHANGED vars
  <2>1. /\ now' = now /\ bucket' = bucket /\ since' = since
        /\ granted' = granted /\ forgotten' = forgotten
    BY <1>5 DEF vars
  <2>2. levels' = levels
    BY <2>1 DEF levels, Tokens
  <2> QED
    BY <2>1, <2>2 DEF Limit!bucketVars, levels
<1> QED
  BY <1>1, <1>2, <1>3, <1>4, <1>5 DEF Next

\* Every behaviour of the gate is one of TokenBuckets, whatever the sizes of
\* its maps and the times of its sweeps: BucketMap::sweep drops a bucket that
\* is not full only for a handler or in a map that is not roomy, and what that
\* gives away is counted.
THEOREM LimiterImplements == Spec => LimiterRefines
<1>1. Init => LimiterTyped /\ Limit!Init
  BY TypedInit, InitImplements
<1>2. LimiterTyped /\ [Next]_vars => LimiterTyped'
  BY TypedNext
<1>3. LimiterTyped /\ [Next]_vars => [Limit!Next]_(Limit!bucketVars)
  BY StepImplements
<1> QED
  BY <1>1, <1>2, <1>3, PTL DEF Spec, LimiterRefines, Limit!Spec

-----------------------------------------------------------------------------
(* What passes in a period.                                                *)

\* The bound for one key.
Fits(k) ==
    granted[k] * Price[MapOf(k)] + Level(k)
        <= (1 + forgotten[k]) * Burst[MapOf(k)] + Fill[MapOf(k)] * (now - since)

Throttling == \A k \in Keys : Fits(k) /\ (k \notin Forgettable => forgotten[k] = 0)

\* What the bound of a key is made of.
LEMMA Amounts ==
    ASSUME LimiterTyped, NEW k \in Keys
    PROVE  /\ granted[k] \in Nat /\ forgotten[k] \in Nat /\ now - since \in Nat
           /\ Level(k) \in Nat /\ Level(k) <= Burst[MapOf(k)]
           /\ Burst[MapOf(k)] \in Nat /\ Fill[MapOf(k)] \in Nat /\ Price[MapOf(k)] \in Nat
<1>1. MapOf(k) \in Maps
  BY OneMap
<1> QED
  BY <1>1, LevelTyped, Parameters DEF LimiterTyped

\* One more operation, a bucket forgotten, and one more tick, in numbers.
LEMMA Arithmetic ==
    ASSUME NEW g \in Nat, NEW c \in Nat, NEW l \in Nat, NEW f \in Nat, NEW B \in Nat,
           NEW F \in Nat, NEW e \in Nat,
           g * c + l <= (1 + f) * B + F * e
    PROVE  /\ l >= c => (g + 1) * c + (l - c) <= (1 + f) * B + F * e
           /\ g * c + B <= (1 + (f + 1)) * B + F * e
           /\ g * c + AtMost(B, l + F) <= (1 + f) * B + F * (e + 1)
<1>1. PICK x \in Nat, y \in Nat, z \in Nat : x = g * c /\ y = F * e /\ z = (1 + f) * B
  <2>1. 1 + f \in Nat
    OBVIOUS
  <2> QED
    BY <2>1, Products
<1>2. (g + 1) * c = x + c /\ F * (e + 1) = y + F /\ (1 + (f + 1)) * B = z + B
  <2>1. 1 + (f + 1) = (1 + f) + 1 /\ 1 + f \in Nat
    OBVIOUS
  <2> QED
    BY <1>1, <2>1, Products
<1> QED
  BY <1>1, <1>2 DEF AtMost

\* Nothing has passed.
LEMMA ThrottlingInit == Init => Throttling
<1> SUFFICES ASSUME Init, NEW k \in Keys PROVE Fits(k) /\ forgotten[k] = 0
  BY DEF Throttling
<1>1. LimiterTyped
  BY TypedInit
<1>2. granted[k] = 0 /\ forgotten[k] = 0 /\ now - since = 0
  BY DEF Init, Nothing
<1>3. 0 * Price[MapOf(k)] = 0 /\ Fill[MapOf(k)] * 0 = 0 /\ (1 + 0) * Burst[MapOf(k)] = Burst[MapOf(k)]
  BY <1>1, Amounts
<1>4. Level(k) \in Nat /\ Level(k) <= Burst[MapOf(k)] /\ Burst[MapOf(k)] \in Nat
  BY <1>1, Amounts
<1> QED
  BY <1>2, <1>3, <1>4 DEF Fits

\* No charge, tick or new count breaks the bound (Bucket::check).
LEMMA ThrottlingNext ==
    LimiterTyped /\ Throttling /\ [Limit!Next]_(Limit!bucketVars) => Throttling'
<1> SUFFICES ASSUME LimiterTyped, Throttling, [Limit!Next]_(Limit!bucketVars), NEW k \in Keys
             PROVE  Fits(k)' /\ (k \notin Forgettable => forgotten'[k] = 0)
  BY DEF Throttling
<1>1. Fits(k) /\ (k \notin Forgettable => forgotten[k] = 0)
  BY DEF Throttling
<1>2. PICK g \in Nat, c \in Nat, l \in Nat, f \in Nat, B \in Nat, F \in Nat, e \in Nat :
         /\ g = granted[k] /\ c = Price[MapOf(k)] /\ l = Level(k) /\ f = forgotten[k]
         /\ B = Burst[MapOf(k)] /\ F = Fill[MapOf(k)] /\ e = now - since
  BY Amounts
<1>3. g * c + l <= (1 + f) * B + F * e /\ l <= B
  BY <1>1, <1>2, Amounts DEF Fits
<1>4. levels[k] = l /\ levels'[k] = Level(k)'
  BY <1>2 DEF levels, Level
<1>5. Fits(k)' <=> granted'[k] * c + Level(k)' <= (1 + forgotten'[k]) * B + F * (now' - since')
  BY <1>2 DEF Fits
<1>6. CASE Limit!Tick
  <2>1. /\ levels' = [x \in Keys |-> AtMost(Burst[MapOf(x)], levels[x] + Fill[MapOf(x)])]
        /\ now' - since' = (now - since) + 1 /\ granted' = granted /\ forgotten' = forgotten
    BY <1>6 DEF Limit!Tick, Limit!AtMost, AtMost, levels
  <2>2. /\ Level(k)' = AtMost(B, l + F) /\ granted'[k] = g /\ forgotten'[k] = f
        /\ now' - since' = e + 1
    BY <1>2, <1>4, <2>1
  <2>3. g * c + AtMost(B, l + F) <= (1 + f) * B + F * (e + 1)
    BY <1>3, Arithmetic
  <2>4. Fits(k)'
    BY <1>5, <2>2, <2>3
  <2> QED
    BY <1>1, <1>2, <2>2, <2>4
<1>7. CASE Limit!Grant
  <2>1. PICK found \in {levels[k], Burst[MapOf(k)]} :
          /\ \/ found = levels[k] /\ forgotten'[k] = forgotten[k]
             \/ k \in Forgettable /\ forgotten'[k] = forgotten[k] + 1
          /\ \/ levels'[k] = found /\ granted'[k] = granted[k]
             \/ /\ found >= Price[MapOf(k)]
                /\ levels'[k] = found - Price[MapOf(k)] /\ granted'[k] = granted[k] + 1
    BY <1>7 DEF Limit!Grant, levels
  <2>2. now' - since' = e
    BY <1>2, <1>7 DEF Limit!Grant, levels
  <2>3. PICK n \in Nat, d \in Nat :
          /\ n = found /\ d = forgotten'[k]
          /\ \/ n = l /\ d = f
             \/ n \in {l, B} /\ d = f + 1 /\ k \in Forgettable
    BY <1>2, <1>4, <2>1
  <2>4. g * c + n <= (1 + d) * B + F * e
    <3>1. CASE n = l /\ d = f
      BY <1>3, <3>1
    <3>2. CASE n \in {l, B} /\ d = f + 1
      <4>1. g * c + B <= (1 + d) * B + F * e
        BY <1>3, <3>2, Arithmetic
      <4>2. g * c \in Nat /\ (1 + d) * B \in Nat /\ F * e \in Nat
        <5>1. 1 + d \in Nat
          OBVIOUS
        <5> QED
          BY <5>1, Products
      <4>3. n <= B
        BY <1>3, <3>2
      <4> QED
        BY <4>1, <4>2, <4>3
    <3> QED
      BY <2>3, <3>1, <3>2
  <2>5. \/ Level(k)' = n /\ granted'[k] = g
        \/ n >= c /\ Level(k)' = n - c /\ granted'[k] = g + 1
    BY <1>2, <1>4, <2>1, <2>3
  <2>6. Fits(k)'
    BY <1>5, <2>2, <2>3, <2>4, <2>5, Arithmetic
  <2> QED
    BY <1>1, <1>2, <2>3, <2>6
<1>8. CASE Limit!Observe
  <2>1. levels' = levels /\ granted'[k] = 0 /\ forgotten'[k] = 0 /\ now' - since' = 0
    BY <1>8 DEF Limit!Observe, levels
  <2>2. 0 * c = 0 /\ F * 0 = 0 /\ (1 + 0) * B = B /\ Level(k)' = l
    BY <1>4, <2>1
  <2> QED
    BY <1>3, <1>5, <2>1, <2>2
<1>9. CASE UNCHANGED Limit!bucketVars
  <2>1. /\ levels' = levels /\ granted' = granted /\ forgotten' = forgotten
        /\ now' - since' = now - since
    BY <1>9 DEF Limit!bucketVars, levels
  <2> QED
    BY <1>1, <1>2, <1>3, <1>4, <1>5, <2>1
<1> QED
  BY <1>6, <1>7, <1>8, <1>9 DEF Limit!Next

\* In any period the requests of a bot or a handler and the messages of a
\* Squad that pass (RateLimiter::check, check_group) fit into one full bucket,
\* another for every time the bucket was dropped before it was full, and what
\* flowed in; and a bot's or a Squad's is never so dropped while its map is
\* roomy.
THEOREM Throttles == Spec => []Limit!Throttled
<1>1. Init => LimiterTyped /\ Throttling
  BY TypedInit, ThrottlingInit
<1>2. LimiterTyped /\ [Next]_vars => LimiterTyped'
  BY TypedNext
<1>3. LimiterTyped /\ [Next]_vars => [Limit!Next]_(Limit!bucketVars)
  BY StepImplements
<1>4. LimiterTyped /\ Throttling /\ [Limit!Next]_(Limit!bucketVars) => Throttling'
  BY ThrottlingNext
<1>5. LimiterTyped /\ Throttling => Limit!Throttled
  <2> SUFFICES ASSUME LimiterTyped, Throttling, NEW k \in Keys
               PROVE  /\ levels[k] <= Burst[MapOf(k)]
                      /\ granted[k] * Price[MapOf(k)] + levels[k]
                           <= (1 + forgotten[k]) * Burst[MapOf(k)] + Fill[MapOf(k)] * (now - since)
                      /\ k \notin Forgettable => forgotten[k] = 0
    BY DEF Limit!Throttled, levels
  <2>1. Fits(k) /\ (k \notin Forgettable => forgotten[k] = 0)
    BY DEF Throttling
  <2>2. levels[k] = Level(k)
    BY DEF levels, Level
  <2> QED
    BY <2>1, <2>2, Amounts DEF Fits
<1> QED
  BY <1>1, <1>2, <1>3, <1>4, <1>5, PTL DEF Spec

-----------------------------------------------------------------------------
(* The cache of group messages.                                            *)

\* What is_duplicate stored at call i, and the calls up to j that stored one
\* after it.
Entry(i) == [key |-> KeyOf(calls[i].bot, calls[i].msg), at |-> calls[i].at, nth |-> i]
Stored(i, j) == {k \in (i + 1)..j : ~calls[k].dup}

\* The two ways in which an entry is lost before its time.
Crowded(i, j) == Cardinality(Stored(i, j)) >= MaxSeen
CutShort(i, j) == \E k \in (i + 1)..j : Window[calls[k].bot] <= calls[k].at - calls[i].at

CallTyped ==
    /\ now \in Nat
    /\ calls \in Seq([bot : Bots, msg : Messages, at : Nat, dup : BOOLEAN])
    /\ \A i \in 1..Len(calls) : calls[i].at <= now

CacheTyped ==
    /\ \A e \in seen : \E i \in 1..Len(calls) : ~calls[i].dup /\ e = Entry(i)
    /\ \A e, f \in seen : e.key = f.key => e = f
    /\ IsFiniteSet(seen) /\ Cardinality(seen) <= MaxSeen + 1

Kept ==
    \A i \in 1..Len(calls) :
        ~calls[i].dup => \/ Entry(i) \in seen
                         \/ Crowded(i, Len(calls))
                         \/ CutShort(i, Len(calls))

\* No group message is looked up by accident: the cache holds entries of the
\* calls that stored one, and one that is gone was crowded out or cut short.
CacheInv == CallTyped /\ CacheTyped /\ Kept /\ RepeatedOnlyWhenFull

\* What the record of a call holds.
LEMMA CallFields ==
    ASSUME CallTyped, NEW i \in 1..Len(calls)
    PROVE  /\ i \in Nat /\ Len(calls) \in Nat
           /\ calls[i].bot \in Bots /\ calls[i].msg \in Messages
           /\ calls[i].at \in Nat /\ calls[i].at <= now /\ calls[i].dup \in BOOLEAN
           /\ Window[calls[i].bot] \in Nat
<1>1. Len(calls) \in Nat /\ i \in Nat
  BY DEF CallTyped
<1>2. calls[i] \in [bot : Bots, msg : Messages, at : Nat, dup : BOOLEAN]
  <2> DEFINE C == [bot : Bots, msg : Messages, at : Nat, dup : BOOLEAN]
  <2>1. calls \in Seq(C)
    BY DEF CallTyped
  <2> HIDE DEF C
  <2>2. calls[i] \in C
    BY <2>1
  <2> QED
    BY <2>2 DEF C
<1> QED
  BY <1>1, <1>2, GateAssumption DEF CallTyped

\* Stored entries are finitely many, and those of a longer stretch more.
LEMMA StoredFinite ==
    ASSUME CallTyped, NEW i \in Nat, NEW j \in Nat, NEW k \in Nat, j <= k
    PROVE  /\ IsFiniteSet(Stored(i, k)) /\ IsFiniteSet(Stored(i, j))
           /\ Stored(i, j) \subseteq Stored(i, k)
           /\ Cardinality(Stored(i, j)) \in Nat /\ Cardinality(Stored(i, k)) \in Nat
           /\ Cardinality(Stored(i, j)) <= Cardinality(Stored(i, k))
<1>1. Stored(i, k) \in SUBSET ((i + 1)..k) /\ Stored(i, j) \in SUBSET Stored(i, k)
  BY DEF Stored
<1>2. IsFiniteSet((i + 1)..k)
  BY FS_Interval
<1>3. IsFiniteSet(Stored(i, k))
  BY <1>1, <1>2, FS_Subset
<1>4. IsFiniteSet(Stored(i, j)) /\ Cardinality(Stored(i, j)) <= Cardinality(Stored(i, k))
  BY <1>1, <1>3, FS_Subset
<1> QED
  BY <1>1, <1>3, <1>4, FS_CardinalityType

\* Newer entries of the cache were stored by later calls: there are no more
\* of them than there are such calls.
LEMMA NewerWereStored ==
    ASSUME CallTyped, CacheTyped, NEW i \in 1..Len(calls), NEW S \in SUBSET seen,
           \A x \in S : x.nth > i
    PROVE  IsFiniteSet(S) /\ Cardinality(S) \in Nat /\ Cardinality(S) <= Cardinality(Stored(i, Len(calls)))
<1>1. IsFiniteSet(S)
  BY FS_Subset DEF CacheTyped
<1> DEFINE T == Stored(i, Len(calls))
           f == [x \in S |-> x.nth]
<1>2. ASSUME NEW x \in S PROVE x.nth \in T /\ x = Entry(x.nth)
  <2>1. PICK k \in 1..Len(calls) : ~calls[k].dup /\ x = Entry(k)
    BY DEF CacheTyped
  <2>2. x.nth = k /\ k > i /\ k \in Nat /\ i \in Nat /\ Len(calls) \in Nat
    BY <2>1, CallFields DEF Entry
  <2> QED
    BY <2>1, <2>2 DEF Stored
<1>3. f \in Injection(S, T)
  <2>1. f \in [S -> T]
    BY <1>2
  <2>2. \A x, y \in S : f[x] = f[y] => x = y
    BY <1>2, Zenon
  <2> HIDE DEF T, f
  <2> QED
    BY <2>1, <2>2 DEF Injection, IsInjective
<1>4. IsFiniteSet(T)
  <2>1. i \in Nat /\ Len(calls) \in Nat /\ Len(calls) <= Len(calls)
    BY CallFields
  <2> QED
    BY <2>1, StoredFinite
<1>5. Cardinality(S) <= Cardinality(T)
  <2> HIDE DEF T, f
  <2> QED
    BY <1>3, <1>4, FS_Injection
<1> QED
  BY <1>1, <1>5, FS_CardinalityType

\* DedupCache::cleanup takes an entry out for its age or for its place.
LEMMA CleanupTakes ==
    ASSUME CallTyped, CacheTyped, NEW w \in Nat, NEW i \in 1..Len(calls),
           Entry(i) \in seen, Entry(i) \notin Cleaned(w)
    PROVE  w <= now - calls[i].at \/ Crowded(i, Len(calls))
<1>1. Entry(i) \notin Cleanup(w)
  BY DEF Cleaned
<1>2. CASE Entry(i) \notin Young(w)
  <2>1. Entry(i).at = calls[i].at /\ calls[i].at \in Nat /\ now \in Nat
    BY CallFields DEF Entry, CallTyped
  <2> QED
    BY <1>2, <2>1 DEF Young
<1>3. CASE Entry(i) \in Young(w)
  <2> DEFINE S == {x \in Young(w) : x.nth > Entry(i).nth}
  <2>1. ~(Cardinality(S) < MaxSeen)
    BY <1>1, <1>3 DEF Cleanup
  <2>2. S \in SUBSET seen /\ \A x \in S : x.nth > i
    BY DEF Young, Entry
  <2> HIDE DEF S
  <2>3. /\ Cardinality(S) \in Nat /\ Cardinality(S) <= Cardinality(Stored(i, Len(calls)))
    BY <2>2, NewerWereStored
  <2>4. Cardinality(Stored(i, Len(calls))) \in Nat
    BY CallFields, StoredFinite
  <2> QED
    BY <2>1, <2>3, <2>4, GateAssumption DEF Crowded
<1> QED
  BY <1>2, <1>3

\* A cleaned cache is within MLS_DEDUP_MAX_SIZE: each entry has its own number
\* of newer ones, and cleanup keeps the ones for which it is small.
LEMMA CleanupFits ==
    ASSUME CallTyped, CacheTyped, NEW w \in Nat
    PROVE  /\ Cleaned(w) \in SUBSET seen /\ IsFiniteSet(Cleaned(w))
           /\ Cardinality(Cleaned(w)) \in Nat /\ Cardinality(Cleaned(w)) <= MaxSeen
<1>1. Cleanup(w) \in SUBSET seen /\ Cleaned(w) \in SUBSET seen
  BY DEF Cleaned, Cleanup, Young
<1>2. IsFiniteSet(seen) /\ Cardinality(seen) \in Nat /\ MaxSeen \in Nat
  BY FS_CardinalityType, GateAssumption DEF CacheTyped
<1>3. IsFiniteSet(Cleaned(w)) /\ Cardinality(Cleaned(w)) \in Nat
  BY <1>1, <1>2, FS_Subset, FS_CardinalityType
<1>4. CASE ~(Cardinality(seen) >= MaxSeen)
  BY <1>1, <1>2, <1>3, <1>4 DEF Cleaned
<1>5. CASE Cardinality(seen) >= MaxSeen
  <2> DEFINE S == Cleanup(w)
             Newer(e) == {x \in Young(w) : x.nth > e.nth}
             f == [e \in S |-> Cardinality(Newer(e))]
  <2>1. \A e \in seen : e.nth \in Nat /\ e = Entry(e.nth)
    <3> SUFFICES ASSUME NEW e \in seen PROVE e.nth \in Nat /\ e = Entry(e.nth)
      OBVIOUS
    <3>1. PICK k \in 1..Len(calls) : e = Entry(k)
      BY DEF CacheTyped
    <3>2. e.nth = k /\ k \in Nat
      BY <3>1, CallFields DEF Entry
    <3> QED
      BY <3>1, <3>2
  <2>2. ASSUME NEW e \in S
        PROVE  /\ IsFiniteSet(Newer(e)) /\ Cardinality(Newer(e)) \in Nat
               /\ Cardinality(Newer(e)) < MaxSeen
    <3>1. Newer(e) \in SUBSET seen
      BY DEF Young
    <3>2. Cardinality(Newer(e)) < MaxSeen
      BY DEF Cleanup
    <3> HIDE DEF Newer
    <3> QED
      BY <1>2, <3>1, <3>2, FS_Subset, FS_CardinalityType
  <2>3. ASSUME NEW d \in S, NEW e \in S, d.nth < e.nth PROVE f[d] # f[e]
    <3>1. e \in Newer(d) /\ e \notin Newer(e)
      <4>1. e \in Young(w) /\ e \in seen
        BY <1>1 DEF Cleanup
      <4> QED
        BY <2>1, <2>3, <4>1
    <3>2. Newer(e) \in SUBSET Newer(d)
      <4>1. \A x \in Young(w) : x.nth \in Nat
        BY <2>1 DEF Young
      <4>2. d.nth \in Nat /\ e.nth \in Nat
        BY <1>1, <2>1
      <4> QED
        BY <2>3, <4>1, <4>2
    <3>3. IsFiniteSet(Newer(d)) /\ f[d] = Cardinality(Newer(d)) /\ f[e] = Cardinality(Newer(e))
      BY <2>2
    <3> HIDE DEF Newer, f
    <3> QED
      BY <3>1, <3>2, <3>3, FS_Subset
  <2>4. ASSUME NEW d \in S, NEW e \in S, d # e PROVE f[d] # f[e]
    <3>1. d.nth \in Nat /\ e.nth \in Nat /\ d.nth # e.nth
      BY <1>1, <2>1, <2>4
    <3>2. d.nth < e.nth \/ e.nth < d.nth
      BY <3>1
    <3> HIDE DEF f, S
    <3> QED
      BY <2>3, <3>2
  <2>5. f \in [S -> 0..(MaxSeen - 1)]
    <3> HIDE DEF Newer, S
    <3> QED
      BY <1>2, <2>2
  <2>6. f \in Injection(S, 0..(MaxSeen - 1))
    <3> HIDE DEF f, S
    <3> QED
      BY <2>4, <2>5 DEF Injection, IsInjective
  <2>7. IsFiniteSet(0..(MaxSeen - 1)) /\ Cardinality(0..(MaxSeen - 1)) = MaxSeen
    <3>1. 0 \in Int /\ MaxSeen - 1 \in Int
      BY <1>2
    <3>2. /\ IsFiniteSet(0..(MaxSeen - 1))
          /\ Cardinality(0..(MaxSeen - 1)) = IF 0 > MaxSeen - 1 THEN 0 ELSE (MaxSeen - 1) - 0 + 1
      BY <3>1, FS_Interval
    <3> QED
      BY <1>2, <3>2
  <2>8. Cardinality(S) <= MaxSeen
    <3> HIDE DEF f, S
    <3> QED
      BY <2>6, <2>7, FS_Injection
  <2>9. Cleaned(w) = S
    BY <1>5 DEF Cleaned
  <2> QED
    BY <1>1, <1>3, <2>8, <2>9
<1> QED
  BY <1>4, <1>5

\* DedupCache::is_duplicate, in the terms of the proof: the call's number, its
\* outcome, and the cache it leaves.
LEMMA MessageCalls ==
    ASSUME CallTyped, NEW b \in Bots, NEW g \in Messages, GroupMessage(b, g)
    PROVE  /\ Len(calls) \in Nat /\ Len(calls') = Len(calls) + 1 /\ now' = now
           /\ calls' \in Seq([bot : Bots, msg : Messages, at : Nat, dup : BOOLEAN])
           /\ \A k \in 1..Len(calls) : calls'[k] = calls[k]
           /\ LET c == calls'[Len(calls) + 1]
              IN  /\ c.bot = b /\ c.msg = g /\ c.at = now /\ c.dup \in BOOLEAN
                  /\ c.dup <=> Duplicate(Cleaned(Window[b]), KeyOf(b, g), Window[b])
                  /\ c.dup => seen' = Cleaned(Window[b])
                  /\ ~c.dup => seen' = Remember(Cleaned(Window[b]), KeyOf(b, g))
<1> DEFINE C == [bot : Bots, msg : Messages, at : Nat, dup : BOOLEAN]
<1>1. PICK d : d = Duplicate(Cleaned(Window[b]), KeyOf(b, g), Window[b])
  OBVIOUS
<1>2. d \in BOOLEAN
  BY <1>1 DEF Duplicate
<1>3. /\ calls' = Append(calls, [bot |-> b, msg |-> g, at |-> now, dup |-> d])
      /\ now' = now
      /\ d => seen' = Cleaned(Window[b])
      /\ ~d => seen' = Remember(Cleaned(Window[b]), KeyOf(b, g))
  BY <1>1 DEF GroupMessage
<1>4. PICK c : c = [bot |-> b, msg |-> g, at |-> now, dup |-> d]
  OBVIOUS
<1>5. c.bot = b /\ c.msg = g /\ c.at = now /\ c.dup = d /\ c \in C
  BY <1>2, <1>4 DEF CallTyped
<1>6. calls \in Seq(C) /\ calls' = Append(calls, c)
  BY <1>3, <1>4 DEF CallTyped
<1> HIDE DEF C
<1>7. /\ Len(calls) \in Nat /\ Len(calls') = Len(calls) + 1 /\ calls' \in Seq(C)
      /\ \A k \in 1..Len(calls) : calls'[k] = calls[k]
      /\ calls'[Len(calls) + 1] = c
  BY <1>5, <1>6
<1> QED
  BY <1>1, <1>2, <1>3, <1>5, <1>7 DEF C

\* A group message leaves a cache of stored entries, one for a key, that has
\* at most one entry more than cleanup leaves.
LEMMA MessageCache ==
    ASSUME CallTyped, CacheTyped, NEW b \in Bots, NEW g \in Messages, GroupMessage(b, g)
    PROVE  CallTyped' /\ CacheTyped'
<1>0. PICK n : n = Len(calls) + 1
  OBVIOUS
<1> DEFINE cache == Cleaned(Window[b])
           fresh == [key |-> KeyOf(b, g), at |-> now, nth |-> n]
<1>1. Window[b] \in Nat /\ MaxSeen \in Nat
  BY GateAssumption
<1>2. /\ Len(calls) \in Nat /\ n \in Nat /\ Len(calls') = n /\ now' = now
      /\ \A k \in 1..Len(calls) : calls'[k] = calls[k]
  BY <1>0, MessageCalls
<1>3. /\ calls'[n].bot = b /\ calls'[n].msg = g /\ calls'[n].at = now
      /\ calls'[n].dup \in BOOLEAN
  BY <1>0, MessageCalls
<1>4. /\ calls'[n].dup => seen' = cache
      /\ ~calls'[n].dup => seen' = {e \in cache : e.key # KeyOf(b, g)} \cup {fresh}
  BY <1>0, MessageCalls DEF Remember
<1>5. CallTyped'
  <2>1. now \in Nat /\ \A k \in 1..Len(calls) : calls[k].at <= now
    BY DEF CallTyped
  <2>2. ASSUME NEW k \in 1..n PROVE calls'[k].at <= now
    <3>1. k \in 1..Len(calls) \/ k = n
      BY <1>0, <1>2
    <3> QED
      BY <1>2, <1>3, <2>1, <3>1
  <2> QED
    BY <1>2, <2>1, <2>2, MessageCalls DEF CallTyped
<1>6. /\ cache \in SUBSET seen /\ IsFiniteSet(cache)
      /\ Cardinality(cache) \in Nat /\ Cardinality(cache) <= MaxSeen
  BY <1>1, CleanupFits
<1>7. /\ \A k \in 1..Len(calls) : Entry(k)' = Entry(k)
      /\ Entry(n)' = fresh
  BY <1>2, <1>3 DEF Entry
<1>8. \A e \in seen' : \E i \in 1..Len(calls') : ~calls'[i].dup /\ e = Entry(i)'
  <2>1. ASSUME NEW e \in cache PROVE \E i \in 1..Len(calls') : ~calls'[i].dup /\ e = Entry(i)'
    <3>1. PICK i \in 1..Len(calls) : ~calls[i].dup /\ e = Entry(i)
      BY <1>6 DEF CacheTyped
    <3>2. i \in 1..Len(calls')
      BY <1>0, <1>2
    <3>3. ~calls'[i].dup /\ e = Entry(i)'
      BY <1>2, <1>7, <3>1
    <3> QED
      BY <3>2, <3>3
  <2>2. ~calls'[n].dup => \E i \in 1..Len(calls') : ~calls'[i].dup /\ fresh = Entry(i)'
    <3>1. n \in 1..Len(calls')
      BY <1>0, <1>2
    <3> HIDE DEF fresh
    <3> QED
      BY <1>7, <3>1
  <2> HIDE DEF fresh, cache
  <2> QED
    BY <1>3, <1>4, <2>1, <2>2
<1>9. \A e, f \in seen' : e.key = f.key => e = f
  <2>1. \A e, f \in cache : e.key = f.key => e = f
    BY <1>6 DEF CacheTyped
  <2>2. fresh.key = KeyOf(b, g)
    OBVIOUS
  <2> HIDE DEF fresh, cache
  <2> QED
    BY <1>3, <1>4, <2>1, <2>2
<1>10. IsFiniteSet(seen') /\ Cardinality(seen') <= MaxSeen + 1
  <2> HIDE DEF fresh, cache
  <2>1. CASE calls'[n].dup
    BY <1>1, <1>4, <1>6, <2>1
  <2>2. CASE ~calls'[n].dup
    <3> DEFINE rest == {e \in cache : e.key # KeyOf(b, g)}
    <3>1. rest \in SUBSET cache /\ seen' = rest \cup {fresh}
      BY <1>4, <2>2
    <3> HIDE DEF rest
    <3>2. IsFiniteSet(rest) /\ Cardinality(rest) <= Cardinality(cache)
      BY <1>6, <3>1, FS_Subset
    <3>3. Cardinality(rest) \in Nat
      BY <3>2, FS_CardinalityType
    <3>4. /\ IsFiniteSet(rest \cup {fresh})
          /\ Cardinality(rest \cup {fresh}) \in {Cardinality(rest), Cardinality(rest) + 1}
      BY <3>2, FS_AddElement
    <3> QED
      BY <1>1, <1>6, <3>1, <3>2, <3>3, <3>4
  <2> QED
    BY <2>1, <2>2
<1> QED
  BY <1>5, <1>8, <1>9, <1>10 DEF CacheTyped

\* Later calls leave what happened between earlier ones as it was.
LEMMA PastKept ==
    ASSUME CallTyped, NEW b \in Bots, NEW g \in Messages, GroupMessage(b, g),
           NEW i \in 1..Len(calls), NEW n, n = Len(calls) + 1
    PROVE  /\ \A j \in 1..Len(calls) : /\ Stored(i, j)' = Stored(i, j)
                                       /\ Crowded(i, j)' <=> Crowded(i, j)
                                       /\ CutShort(i, j)' <=> CutShort(i, j)
           /\ Crowded(i, Len(calls)) => Crowded(i, n)'
           /\ CutShort(i, Len(calls)) => CutShort(i, n)'
           /\ Window[b] <= now - calls[i].at => CutShort(i, n)'
<1>1. /\ Len(calls) \in Nat /\ n \in Nat /\ Len(calls') = n /\ now' = now
      /\ calls'[n].bot = b /\ calls'[n].at = now
      /\ \A k \in 1..Len(calls) : calls'[k] = calls[k]
  BY MessageCalls
<1>2. i \in Nat /\ calls'[i] = calls[i] /\ i < n
  BY <1>1
<1>3. ASSUME NEW j \in 1..Len(calls)
      PROVE  /\ Stored(i, j)' = Stored(i, j)
             /\ Crowded(i, j)' <=> Crowded(i, j)
             /\ CutShort(i, j)' <=> CutShort(i, j)
  <2>1. \A k \in (i + 1)..j : calls'[k] = calls[k]
    BY <1>1, <1>2
  <2>2. Stored(i, j)' = Stored(i, j)
    BY <2>1 DEF Stored
  <2>3. CutShort(i, j)' <=> CutShort(i, j)
    BY <1>2, <2>1 DEF CutShort
  <2> QED
    BY <2>2, <2>3 DEF Crowded
<1>4. ASSUME Crowded(i, Len(calls)) PROVE Crowded(i, n)'
  <2>1. Stored(i, Len(calls)) \subseteq Stored(i, n)'
    BY <1>1, <1>2 DEF Stored
  <2>2. IsFiniteSet(Stored(i, n)')
    <3>1. Stored(i, n)' \in SUBSET ((i + 1)..n)
      BY DEF Stored
    <3>2. IsFiniteSet((i + 1)..n)
      BY <1>1, <1>2, FS_Interval
    <3> QED
      BY <3>1, <3>2, FS_Subset
  <2>3. Cardinality(Stored(i, Len(calls))) <= Cardinality(Stored(i, n)')
    BY <2>1, <2>2, FS_Subset
  <2>4. Cardinality(Stored(i, Len(calls))) \in Nat /\ Cardinality(Stored(i, n)') \in Nat
    BY <2>1, <2>2, FS_Subset, FS_CardinalityType
  <2> QED
    BY <1>4, <2>3, <2>4, GateAssumption DEF Crowded
<1>5. ASSUME CutShort(i, Len(calls)) PROVE CutShort(i, n)'
  <2>1. PICK k \in (i + 1)..Len(calls) : Window[calls[k].bot] <= calls[k].at - calls[i].at
    BY <1>5 DEF CutShort
  <2>2. k \in (i + 1)..n /\ calls'[k] = calls[k]
    BY <1>1, <1>2
  <2> QED
    BY <1>2, <2>1, <2>2 DEF CutShort
<1>6. ASSUME Window[b] <= now - calls[i].at PROVE CutShort(i, n)'
  <2>1. n \in (i + 1)..n
    BY <1>1, <1>2
  <2> QED
    BY <1>1, <1>2, <1>6, <2>1 DEF CutShort
<1> QED
  BY <1>3, <1>4, <1>5, <1>6

\* An entry that a call finds gone, or takes out, is accounted for.
LEMMA MessageKept ==
    ASSUME CallTyped, CacheTyped, Kept, NEW b \in Bots, NEW g \in Messages, GroupMessage(b, g)
    PROVE  Kept'
<1>0. PICK n : n = Len(calls) + 1
  OBVIOUS
<1> DEFINE cache == Cleaned(Window[b])
<1>1. /\ Len(calls) \in Nat /\ n \in Nat /\ Len(calls') = n /\ now' = now
      /\ \A k \in 1..Len(calls) : calls'[k] = calls[k]
      /\ calls'[n].bot = b /\ calls'[n].msg = g /\ calls'[n].at = now
  BY <1>0, MessageCalls
<1>2. /\ calls'[n].dup => seen' = cache
      /\ ~calls'[n].dup => /\ ~Duplicate(cache, KeyOf(b, g), Window[b])
                           /\ seen' = Remember(cache, KeyOf(b, g))
  BY <1>0, MessageCalls
<1>3. SUFFICES ASSUME NEW i \in 1..n, ~calls'[i].dup
               PROVE  Entry(i)' \in seen' \/ Crowded(i, n)' \/ CutShort(i, n)'
  BY <1>1 DEF Kept
<1>4. CASE i = n
  <2>1. Entry(n)' = [key |-> KeyOf(b, g), at |-> now, nth |-> n]
    BY <1>1 DEF Entry
  <2> QED
    BY <1>0, <1>2, <1>3, <1>4, <2>1 DEF Remember
<1>5. CASE i \in 1..Len(calls)
  <2>1. calls'[i] = calls[i] /\ Entry(i)' = Entry(i)
    BY <1>1, <1>5 DEF Entry
  <2>2. CASE Entry(i) \notin seen
    <3>1. Crowded(i, Len(calls)) \/ CutShort(i, Len(calls))
      BY <1>3, <1>5, <2>1, <2>2 DEF Kept
    <3> QED
      BY <1>0, <1>5, <3>1, PastKept
  <2>3. CASE Entry(i) \in seen /\ Entry(i) \notin cache
    <3>1. Window[b] <= now - calls[i].at \/ Crowded(i, Len(calls))
      BY <1>5, <2>3, CleanupTakes, GateAssumption
    <3> QED
      BY <1>0, <1>5, <3>1, PastKept
  <2>4. CASE Entry(i) \in cache /\ Entry(i) \notin seen'
    <3>1. ~Duplicate(cache, KeyOf(b, g), Window[b]) /\ Entry(i).key = KeyOf(b, g)
      BY <1>2, <2>4 DEF Remember
    <3>2. ~(now - Entry(i).at < Window[b])
      BY <2>4, <3>1 DEF Duplicate
    <3>3. Entry(i).at = calls[i].at /\ calls[i].at \in Nat /\ now \in Nat /\ Window[b] \in Nat
      BY <1>5, CallFields, GateAssumption DEF Entry, CallTyped
    <3>4. Window[b] <= now - calls[i].at
      BY <3>2, <3>3
    <3> QED
      BY <1>0, <1>5, <3>4, PastKept
  <2> QED
    BY <2>1, <2>2, <2>3, <2>4
<1> QED
  BY <1>0, <1>1, <1>3, <1>4, <1>5

\* A message that is dispatched again found its entry gone.
LEMMA MessageRepeated ==
    ASSUME CallTyped, CacheTyped, Kept, RepeatedOnlyWhenFull,
           NEW b \in Bots, NEW g \in Messages, GroupMessage(b, g)
    PROVE  RepeatedOnlyWhenFull'
<1>0. PICK n : n = Len(calls) + 1
  OBVIOUS
<1> DEFINE cache == Cleaned(Window[b])
<1>1. /\ Len(calls) \in Nat /\ n \in Nat /\ Len(calls') = n
      /\ \A k \in 1..Len(calls) : calls'[k] = calls[k]
      /\ calls'[n].bot = b /\ calls'[n].msg = g /\ calls'[n].at = now
      /\ ~calls'[n].dup => ~Duplicate(cache, KeyOf(b, g), Window[b])
  BY <1>0, MessageCalls
<1>2. SUFFICES ASSUME NEW i \in 1..n, NEW j \in 1..n,
                      i < j, calls'[i].bot = calls'[j].bot, calls'[i].msg = calls'[j].msg,
                      ~calls'[i].dup, ~calls'[j].dup,
                      calls'[j].at - calls'[i].at < Window[calls'[j].bot]
               PROVE  Crowded(i, j - 1)' \/ CutShort(i, j - 1)'
  BY <1>1 DEF RepeatedOnlyWhenFull, Crowded, CutShort, Stored
<1>3. i \in 1..Len(calls) /\ calls'[i] = calls[i] /\ j - 1 \in 1..Len(calls)
  BY <1>0, <1>1, <1>2
<1>4. SUFFICES Crowded(i, j - 1) \/ CutShort(i, j - 1)
  BY <1>0, <1>3, PastKept
<1>5. CASE j \in 1..Len(calls)
  <2>1. calls'[j] = calls[j]
    BY <1>1, <1>5
  <2> QED
    BY <1>2, <1>3, <1>5, <2>1 DEF RepeatedOnlyWhenFull, Crowded, CutShort, Stored
<1>6. CASE j = n
  <2>1. /\ calls[i].bot = b /\ calls[i].msg = g /\ now - calls[i].at < Window[b]
        /\ ~Duplicate(cache, KeyOf(b, g), Window[b]) /\ ~calls[i].dup /\ j - 1 = Len(calls)
    BY <1>0, <1>1, <1>2, <1>3, <1>6
  <2>2. Entry(i) \notin cache
    <3>1. Entry(i).key = KeyOf(b, g) /\ Entry(i).at = calls[i].at
      BY <2>1 DEF Entry
    <3> QED
      BY <2>1, <3>1 DEF Duplicate
  <2>3. ~(Window[b] <= now - calls[i].at)
    <3>1. calls[i].at \in Nat /\ now \in Nat /\ Window[b] \in Nat
      BY <1>3, CallFields, GateAssumption DEF CallTyped
    <3> QED
      BY <2>1, <3>1
  <2>4. CASE Entry(i) \in seen
    BY <1>3, <2>1, <2>2, <2>3, <2>4, CleanupTakes, GateAssumption
  <2>5. CASE Entry(i) \notin seen
    BY <1>3, <2>1, <2>5 DEF Kept
  <2> QED
    BY <2>4, <2>5
<1> QED
  BY <1>0, <1>1, <1>5, <1>6

\* DedupCache::new: nothing was looked up yet.
LEMMA CacheInit == Init => CacheInv
<1> SUFFICES ASSUME Init PROVE CacheInv
  OBVIOUS
<1>1. calls = <<>> /\ seen = {} /\ now = 0 /\ Len(calls) = 0 /\ 1..Len(calls) = {}
  BY DEF Init
<1>2. CallTyped /\ Kept /\ RepeatedOnlyWhenFull
  BY <1>1 DEF CallTyped, Kept, RepeatedOnlyWhenFull
<1>3. CacheTyped
  BY <1>1, FS_EmptySet, GateAssumption DEF CacheTyped
<1> QED
  BY <1>2, <1>3 DEF CacheInv

\* A group message is accounted for; what leaves calls and cache alone, and
\* the clock, disturb nothing.
LEMMA CacheNext == CacheInv /\ [Next]_vars => CacheInv'
<1> SUFFICES ASSUME CacheInv, [Next]_vars PROVE CacheInv'
  OBVIOUS
<1> USE DEF CacheInv
<1>1. CASE MessageStep
  BY <1>1, MessageCache, MessageKept, MessageRepeated DEF MessageStep
<1>2. ASSUME calls' = calls, seen' = seen, now' \in {now, now + 1} PROVE CacheInv'
  <2>1. CallTyped'
    <3>1. now \in Nat /\ \A i \in 1..Len(calls) : calls[i].at <= now /\ calls[i].at \in Nat
      BY CallFields DEF CallTyped
    <3>2. now' \in Nat /\ \A i \in 1..Len(calls) : calls[i].at <= now'
      BY <1>2, <3>1
    <3> QED
      BY <1>2, <3>2 DEF CallTyped
  <2>2. CacheTyped'
    BY <1>2 DEF CacheTyped, Entry
  <2>3. Kept'
    BY <1>2 DEF Kept, Entry, Crowded, CutShort, Stored
  <2>4. RepeatedOnlyWhenFull'
    BY <1>2 DEF RepeatedOnlyWhenFull
  <2> QED
    BY <2>1, <2>2, <2>3, <2>4
<1>3. CASE HandlerStep
  BY <1>2, <1>3 DEF HandlerStep, Request, Unregister
<1>4. CASE Tick
  BY <1>2, <1>4 DEF Tick
<1>5. CASE Observe
  BY <1>2, <1>5 DEF Observe
<1>6. CASE UNCHANGED vars
  BY <1>2, <1>6 DEF vars
<1> QED
  BY <1>1, <1>3, <1>4, <1>5, <1>6 DEF Next

\* DedupCache::is_duplicate lets a group message through twice within its
\* window only if as many others were remembered in between as the cache
\* holds, or a bot with a shorter window cleaned it up: for any bots, windows
\* and size of the cache.
THEOREM RepeatsExplained == Spec => []RepeatedOnlyWhenFull
<1>1. CacheInv => RepeatedOnlyWhenFull
  BY DEF CacheInv
<1> QED
  BY <1>1, CacheInit, CacheNext, PTL DEF Spec

-----------------------------------------------------------------------------
(* The sizes of the maps, and the types.                                   *)

\* A map of buckets no larger than a check leaves it.
SmallMap(f) == IsFiniteSet(DOMAIN f) /\ Cardinality(DOMAIN f) <= MaxBuckets + 1

SizesInv ==
    /\ now <= MaxTime
    /\ \A m \in Maps : lastSweep[m] <= now
    /\ \A m \in Maps : SmallMap(bucket[m])

\* BucketMap::check sweeps first, and then adds one bucket at most.
LEMMA CheckedSmall ==
    ASSUME NEW m \in Maps, SmallMap(bucket[m]), NEW K \in Sweeps(m), NEW k
    PROVE  SmallMap(Checked(m, K, k))
<1>1. /\ IsFiniteSet(DOMAIN bucket[m]) /\ Cardinality(DOMAIN bucket[m]) \in Nat
      /\ MaxBuckets \in Nat
  BY FS_CardinalityType, GateAssumption DEF SmallMap
<1>2. K \in SUBSET DOMAIN bucket[m]
  BY SweepTakes
<1>3. IsFiniteSet(K) /\ Cardinality(K) \in Nat
  BY <1>1, <1>2, FS_Subset, FS_CardinalityType
<1>4. Cardinality(K) <= MaxBuckets
  <2>1. CASE ~NeedsSweep(m)
    BY <1>1, <2>1, SweepTakes DEF NeedsSweep
  <2>2. CASE NeedsSweep(m)
    <3>1. Cardinality(K) = AtMost(MaxBuckets, Cardinality(FreshKeys(m)))
      BY <2>2, SweepTakes
    <3>2. FreshKeys(m) \in SUBSET DOMAIN bucket[m]
      BY DEF FreshKeys
    <3>3. Cardinality(FreshKeys(m)) \in Nat
      BY <1>1, <3>2, FS_Subset, FS_CardinalityType
    <3> QED
      BY <1>1, <3>1, <3>3 DEF AtMost
  <2> QED
    BY <2>1, <2>2
<1>5. DOMAIN Checked(m, K, k) = K \cup {k}
  BY DEF Checked
<1>6. /\ IsFiniteSet(K \cup {k})
      /\ Cardinality(K \cup {k}) \in {Cardinality(K), Cardinality(K) + 1}
  BY <1>3, FS_AddElement
<1> QED
  BY <1>1, <1>3, <1>4, <1>5, <1>6 DEF SmallMap

\* No check, re-registration or tick makes a map larger than that.
LEMMA SizesNext == LimiterTyped /\ SizesInv /\ [Next]_vars => SizesInv'
<1> SUFFICES ASSUME LimiterTyped, SizesInv, [Next]_vars PROVE SizesInv'
  OBVIOUS
<1> USE DEF SizesInv
<1>1. /\ "bots" \in Maps /\ "handlers" \in Maps /\ "groups" \in Maps
      /\ now \in Nat /\ lastSweep \in [Maps -> Nat] /\ MaxTime \in Nat
      /\ bucket = [m \in Maps |-> bucket[m]]
  BY GateAssumption DEF Maps, LimiterTyped
<1>2. \A m \in Maps : SweptAt(m) \in Nat /\ SweptAt(m) <= now
  BY <1>1 DEF SweptAt
<1>3. ASSUME NEW h \in Handlers, NEW b \in Bots, Request(h, b) PROVE SizesInv'
  <2>1. PICK kb \in Sweeps("bots"), kh \in Sweeps("handlers") :
          \/ /\ bucket' = [bucket EXCEPT !["bots"] = Checked("bots", kb, b),
                                         !["handlers"] = Checked("handlers", kh, h)]
             /\ lastSweep' = [lastSweep EXCEPT !["bots"] = SweptAt("bots"),
                                               !["handlers"] = SweptAt("handlers")]
          \/ /\ bucket' = [bucket EXCEPT !["bots"] = Checked("bots", kb, b)]
             /\ lastSweep' = [lastSweep EXCEPT !["bots"] = SweptAt("bots")]
    BY <1>3 DEF Request
  <2>2. now' = now
    BY <1>3 DEF Request
  <2>3. SmallMap(Checked("bots", kb, b)) /\ SmallMap(Checked("handlers", kh, h))
    BY <1>1, CheckedSmall
  <2>4. \A m \in Maps : lastSweep'[m] <= now
    BY <1>1, <1>2, <2>1
  <2>5. \A m \in Maps : SmallMap(bucket'[m])
    BY <1>1, <2>1, <2>3
  <2> QED
    BY <2>2, <2>4, <2>5 DEF SmallMap
<1>4. ASSUME NEW h \in Handlers, Unregister(h) PROVE SizesInv'
  <2> DEFINE f == bucket["handlers"]
             r == Restrict(f, DOMAIN f \ {h})
  <2>1. bucket' = [bucket EXCEPT !["handlers"] = r] /\ UNCHANGED <<now, lastSweep>>
    BY <1>1, <1>4 DEF Unregister
  <2>2. SmallMap(r)
    <3>1. DOMAIN r \in SUBSET DOMAIN f
      BY DEF Restrict
    <3>2. IsFiniteSet(DOMAIN f) /\ Cardinality(DOMAIN f) <= MaxBuckets + 1
      BY <1>1 DEF SmallMap
    <3> HIDE DEF r, f
    <3>3. IsFiniteSet(DOMAIN r) /\ Cardinality(DOMAIN r) <= Cardinality(DOMAIN f)
      BY <3>1, <3>2, FS_Subset
    <3>4. Cardinality(DOMAIN r) \in Nat /\ Cardinality(DOMAIN f) \in Nat /\ MaxBuckets \in Nat
      BY <3>2, <3>3, FS_CardinalityType, GateAssumption
    <3> QED
      BY <3>2, <3>3, <3>4 DEF SmallMap
  <2>3. \A m \in Maps : SmallMap(bucket'[m])
    <3> HIDE DEF r
    <3> QED
      BY <1>1, <2>1, <2>2
  <2> QED
    BY <2>1, <2>3 DEF SmallMap
<1>5. ASSUME NEW b \in Bots, NEW g \in Messages, GroupMessage(b, g) PROVE SizesInv'
  <2>1. now' = now
    BY <1>5 DEF GroupMessage
  <2>2. CASE UNCHANGED limiter
    BY <2>1, <2>2 DEF limiter, SmallMap
  <2>3. CASE /\ \E K \in Sweeps("groups") :
                  bucket' = [bucket EXCEPT !["groups"] = Checked("groups", K, SquadOf(b, g))]
             /\ lastSweep' = [lastSweep EXCEPT !["groups"] = SweptAt("groups")]
    <3>1. PICK K \in Sweeps("groups") :
             bucket' = [bucket EXCEPT !["groups"] = Checked("groups", K, SquadOf(b, g))]
      BY <2>3
    <3>2. SmallMap(Checked("groups", K, SquadOf(b, g)))
      BY <1>1, CheckedSmall
    <3>3. \A m \in Maps : lastSweep'[m] <= now
      BY <1>1, <1>2, <2>3
    <3>4. \A m \in Maps : SmallMap(bucket'[m])
      BY <1>1, <3>1, <3>2
    <3> QED
      BY <2>1, <3>3, <3>4 DEF SmallMap
  <2> QED
    BY <1>5, <2>2, <2>3 DEF GroupMessage
<1>6. CASE Tick
  <2>1. now' = now + 1 /\ now' <= MaxTime /\ bucket' = bucket /\ lastSweep' = lastSweep
    BY <1>1, <1>6 DEF Tick, limiter
  <2> QED
    BY <1>1, <2>1 DEF SmallMap
<1>7. CASE Observe \/ UNCHANGED vars
  <2>1. now' = now /\ bucket' = bucket /\ lastSweep' = lastSweep
    BY <1>7 DEF Observe, vars
  <2> QED
    BY <2>1 DEF SmallMap
<1> QED
  BY <1>3, <1>4, <1>5, <1>6, <1>7 DEF Next, HandlerStep, MessageStep

\* Every bucket, map and cache entry of the gate is well formed, and no map
\* and no cache outgrows its maximum by more than the one entry a check or an
\* insert adds (MAX_BUCKETS, MLS_DEDUP_MAX_SIZE).
THEOREM GateTypes == Spec => []TypeOK
<1>1. Init => LimiterTyped /\ CacheInv /\ SizesInv
  <2> SUFFICES ASSUME Init PROVE SizesInv
    BY TypedInit, CacheInit
  <2>1. DOMAIN <<>> = {}
    OBVIOUS
  <2>2. MaxTime \in Nat /\ MaxBuckets \in Nat
    BY GateAssumption
  <2> QED
    BY <2>1, <2>2, FS_EmptySet DEF Init, SizesInv, SmallMap
<1>2. LimiterTyped /\ CacheInv /\ SizesInv /\ [Next]_vars => (LimiterTyped /\ CacheInv /\ SizesInv)'
  BY TypedNext, CacheNext, SizesNext
<1>3. LimiterTyped /\ CacheInv /\ SizesInv => TypeOK
  <2> SUFFICES ASSUME LimiterTyped, CacheInv, SizesInv PROVE TypeOK
    OBVIOUS
  <2>1. now \in 0..MaxTime /\ since \in 0..now
    BY GateAssumption DEF LimiterTyped, SizesInv
  <2>2. ASSUME NEW m \in Maps
        PROVE  /\ DOMAIN bucket[m] \subseteq KeysOf[m]
               /\ Cardinality(DOMAIN bucket[m]) <= MaxBuckets + 1
               /\ \A k \in DOMAIN bucket[m] :
                     bucket[m][k].tokens \in 0..Burst[m] /\ bucket[m][k].last \in 0..now
    BY DEF LimiterTyped, BucketMap, SizesInv, SmallMap
  <2>3. lastSweep \in [Maps -> 0..now]
    BY DEF LimiterTyped, SizesInv
  <2>4. /\ Cardinality(seen) <= MaxSeen + 1
        /\ \A e, f \in seen : e.key = f.key => e = f
    BY DEF CacheInv, CacheTyped
  <2> QED
    BY <2>1, <2>2, <2>3, <2>4 DEF TypeOK, LimiterTyped
<1> QED
  BY <1>1, <1>2, <1>3, PTL DEF Spec

=============================================================================
