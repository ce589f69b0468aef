----------------------------- MODULE NovaAgentMC -----------------------------
(***************************************************************************)
(* NovaAgent for TLC.                                                      *)
(***************************************************************************)
EXTENDS NovaAgent, TLC

\* Background joins are interchangeable.
Alike == Permutations(Joiners)

=============================================================================
