---------------------------- MODULE BoardStoreMC ----------------------------
(***************************************************************************)
(* BoardStore for TLC.                                                     *)
(***************************************************************************)
EXTENDS BoardStore, TLC

\* Callers and cards are interchangeable.  (Cards are only quantified over
\* and compared.)
Alike == Permutations(Callers) \cup Permutations(Cards)

=============================================================================
