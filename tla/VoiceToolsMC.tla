---------------------------- MODULE VoiceToolsMC ----------------------------
(***************************************************************************)
(* VoiceTools for TLC.                                                     *)
(***************************************************************************)
EXTENDS VoiceTools, TLC

\* Persons are interchangeable, and so are the ids of calls.
Alike == Permutations(Persons) \cup Permutations(Calls)

=============================================================================
