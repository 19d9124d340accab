---------------------------- MODULE TokenBuckets ----------------------------
(***************************************************************************)
(* What a rate limiter promises: one bucket of tokens for every key,       *)
(* filled at a constant rate up to its capacity and charged by every       *)
(* operation it lets pass.  A bucket is never forgotten, except for the    *)
(* keys in Resettable, and then it is counted.                             *)
(*                                                                         *)
(* Tokens are counted in units: one operation takes Cost units, one tick   *)
(* of the clock adds Rate.                                                 *)
(***************************************************************************)
EXTENDS Naturals

CONSTANTS Keys, Resettable, Cap, Rate, Cost

\* What an instance supplies.
BucketParameters ==
    /\ Resettable \subseteq Keys
    /\ Cap \in [Keys -> Nat] /\ Rate \in [Keys -> Nat] /\ Cost \in [Keys -> Nat \ {0}]

VARIABLES
    level,      \* units in each bucket
    granted,    \* operations let pass since the observation began
    forgotten,  \* times the bucket was replaced by a full one since then
    elapsed     \* ticks since then

bucketVars == <<level, granted, forgotten, elapsed>>

AtMost(cap, n) == IF n > cap THEN cap ELSE n

Init ==
    /\ level = Cap
    /\ granted = [k \in Keys |-> 0] /\ forgotten = [k \in Keys |-> 0]
    /\ elapsed = 0

Tick ==
    /\ level' = [k \in Keys |-> AtMost(Cap[k], level[k] + Rate[k])]
    /\ elapsed' = elapsed + 1
    /\ UNCHANGED <<granted, forgotten>>

\* Buckets are charged for the operations that pass; one that may start over
\* may be found full.
Grant ==
    /\ level' \in [Keys -> Nat] /\ granted' \in [Keys -> Nat] /\ forgotten' \in [Keys -> Nat]
    /\ \A k \in Keys :
          \E found \in {level[k], Cap[k]} :
             /\ \/ found = level[k] /\ forgotten'[k] = forgotten[k]
                \/ k \in Resettable /\ forgotten'[k] = forgotten[k] + 1
             /\ \/ level'[k] = found /\ granted'[k] = granted[k]
                \/ /\ found >= Cost[k]
                   /\ level'[k] = found - Cost[k] /\ granted'[k] = granted[k] + 1
    /\ UNCHANGED elapsed

\* Counting may begin at any moment.
Observe ==
    /\ granted' = [k \in Keys |-> 0] /\ forgotten' = [k \in Keys |-> 0] /\ elapsed' = 0
    /\ UNCHANGED level

Next == Tick \/ Grant \/ Observe

Spec == Init /\ [][Next]_bucketVars

-----------------------------------------------------------------------------
\* In any period the operations let pass fit into one full bucket, another
\* for every time it was forgotten, and what flowed in during the period;
\* and only the buckets that may start over are forgotten.
Throttled ==
    \A k \in Keys :
        /\ level[k] <= Cap[k]
        /\ granted[k] * Cost[k] + level[k] <= (1 + forgotten[k]) * Cap[k] + Rate[k] * elapsed
        /\ k \notin Resettable => forgotten[k] = 0
=============================================================================
