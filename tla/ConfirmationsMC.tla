--------------------------- MODULE ConfirmationsMC ---------------------------
(***************************************************************************)
(* Instances of Confirmations for TLC: one client connection beside the    *)
(* voice stream, a deletion (high risk) and a medium-risk tool.            *)
(***************************************************************************)
EXTENDS Confirmations, TLC

CONSTANTS c1, alice, bob

(* Who is let through: two identities, of whom either may be the host; one *)
(* of them clicks and speaks, or nobody is heard.  A request names an      *)
(* action, says a bare "yes" or "yes to all".                              *)
WhoGates == c1 :> bob
SpokenGates == {<<bob>>, <<>>}
RefsGates == [ids : {{1}}, scope : {"none"}]
             \cup [ids : {{}}, scope : {"bare", "every"}]

(* What is taken: one identity, and calls of the voice that can no longer  *)
(* be attributed to anyone.                                                *)
WhoSweeps == c1 :> alice
SpokenSweeps == {Expired}
RefsSweeps == [ids : {{2}}, scope : {"none"}] \cup [ids : {{}}, scope : {"bare"}]
=============================================================================
