--------------------------- MODULE MeetingAccessMC ---------------------------
(***************************************************************************)
(* Instances of MeetingAccess for TLC: two handlers at a time, up to three *)
(* sessions (the host's and two to join with) and up to two meetings.      *)
(***************************************************************************)
EXTENDS MeetingAccess, TLC

CONSTANTS r1, r2, alice, bob, carol

(* Handlers are alike, and so are names.                                   *)
Alike == Permutations({r1, r2}) \cup Permutations({alice, bob, carol})
=============================================================================
