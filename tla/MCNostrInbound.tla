--------------------------- MODULE MCNostrInbound ---------------------------
(***************************************************************************)
(* Instances of NostrInbound for TLC.                                      *)
(***************************************************************************)
EXTENDS NostrInbound, TLC

CONSTANTS b1, b2, w1, w2, m1, p1, p2, c1, c2

MCBots == {b1, b2}
MCAdmins == {b1, b2}
MCWraps == {w1, w2}
MCRecipient == (w1 :> b1) @@ (w2 :> b2)
MCSender == (w1 :> Outside) @@ (w2 :> b1)
MCMessages == {m1}
MCAuthor == (m1 :> b1)
MCProposals == {p1, p2}
MCCommitOf == (b1 :> c1) @@ (b2 :> c2)

\* Gift wraps and commits share the loop and the restart, and nothing else:
\* behaviours have either the wraps, or a proposal and the message, or two
\* proposals.
MCInit ==
    /\ InboundInit
    /\ \/ Proposals \cap relay = {}
       \/ Wraps \cap (relay \cup made) = {w2} /\ Proposals \cap relay = {p1}
       \/ made = {w2, m1} /\ relay = Proposals
MCSpec == MCInit /\ [][InboundNext]_inboundVars /\ Fairness
=============================================================================
