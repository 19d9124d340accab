---------------------------- MODULE MCMlsGroups ----------------------------
(***************************************************************************)
(* Instances of MlsGroups for TLC.                                         *)
(***************************************************************************)
EXTENDS MlsGroups, TLC

CONSTANTS w1, w2, n1, n2, p1

MCWires == {w1, w2}
MCOldWires == {w1}
MCNames == {n1, n2}
MCPeers == {p1}
=============================================================================
