-------------------------- MODULE MeetingRecordMC --------------------------
(***************************************************************************)
(* MeetingRecord for TLC.                                                  *)
(***************************************************************************)
EXTENDS MeetingRecord, TLC

CONSTANTS v, h

ann == [id |-> NoId, name |-> "ann"]
annById == [id |-> "a1", name |-> "ann"]
bob == [id |-> NoId, name |-> "bob"]
cyd == [id |-> NoId, name |-> "cyd"]

\* Two participants, one of them known by an id as well.
Pair == {annById, bob}
PairListed == {<<annById, bob>>}

One == {bob}
NoList == {<<>>}

\* Two people with the same first name.
Namesakes == {ann, cyd}
NamesakesListed == {<<ann, ann, cyd>>}

\* A start_meeting that gives its meeting a name of its own.
Daily == {-1}

=============================================================================
