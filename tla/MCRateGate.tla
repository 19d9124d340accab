---------------------------- MODULE MCRateGate ----------------------------
(***************************************************************************)
(* Instances of RateGate for TLC.  A bot's bucket holds one operation and  *)
(* takes two ticks to fill, as long as it takes to become stale; a Squad's *)
(* holds three and takes three.                                            *)
(***************************************************************************)
EXTENDS RateGate, TLC

CONSTANTS h1, h2, h3, b1, b2, s1, s2, g1, g2

MCHandlers == {h1, h2, h3}
MCBots == {b1, b2}
MCGroups == {s1, s2}
MCMessages == {g1, g2}
MCGroupOf == (g1 :> s1) @@ (g2 :> s2)
MCBurst == [handlers |-> 1, bots |-> 2, groups |-> 3]
MCFill == [handlers |-> 1, bots |-> 1, groups |-> 1]
MCPrice == [handlers |-> 1, bots |-> 2, groups |-> 1]
MCWindow == (b1 :> 2) @@ (b2 :> 1)

Symmetry == Permutations(MCHandlers)

\* Requests and group messages use different buckets: each behaviour has one
\* or the other.
VARIABLE side
MCInit == Init /\ side \in {"requests", "messages"}
MCNext ==
    /\ \/ side = "requests" /\ HandlerStep
       \/ side = "messages" /\ MessageStep
       \/ Tick \/ Observe
    /\ UNCHANGED side
MCSpec == MCInit /\ [][MCNext]_<<vars, side>>
=============================================================================
