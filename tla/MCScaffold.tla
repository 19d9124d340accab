----------------------------- MODULE MCScaffold -----------------------------
(***************************************************************************)
(* Two bots of one project, a template that protects their code.           *)
(***************************************************************************)
EXTENDS Scaffold, TLC

ProtectsCode == {"code"}
Symmetry == Permutations(Bots)

=============================================================================
