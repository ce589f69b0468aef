-------------------------- MODULE MeetingRecordProofs --------------------------
(***************************************************************************)
(* Proofs about MeetingRecord, for any callers, persons, lists and bounds. *)
(***************************************************************************)
EXTENDS MeetingRecord, SequenceTheorems, FiniteSetTheorems, WellFoundedInduction, TLAPS

USE BoundsAssumption

-----------------------------------------------------------------------------
(* Lists of participants.                                                  *)

LEMMA FunctionSeq ==
    ASSUME NEW S, NEW n \in Nat, NEW f \in [1 .. n -> S]
    PROVE  f \in Seq(S) /\ Len(f) = n
<1>1. f \in Seq(S)
  BY SeqDef
<1>2. 1 .. Len(f) = 1 .. n /\ Len(f) \in Nat
  BY <1>1, LenProperties
<1> QED
  BY <1>1, <1>2

LEMMA SmallestExists ==
    ASSUME NEW S \in SUBSET Nat, S # {}
    PROVE  \E i \in S : \A j \in S : i <= j
<1>1. \E x \in S : \A y \in S : <<y, x>> \notin OpToRel(<, Nat)
  BY NatLessThanWellFounded, WFMin
<1>2. PICK i \in S : \A y \in S : <<y, i>> \notin OpToRel(<, Nat)
  BY <1>1
<1>3. ASSUME NEW j \in S
      PROVE  i <= j
  <2>1. ~(j < i)
    BY <1>2 DEF OpToRel
  <2> QED
    BY <2>1
<1> QED
  BY <1>3

\* The first entry that is the person, or one past the end.
LEMMA IndexFound ==
    ASSUME NEW list, Len(list) \in Nat, NEW id, NEW name
    PROVE  LET i == IndexOf(list, id, name) IN
           /\ i \in 1 .. Len(list) + 1
           /\ i <= Len(list) => Same(list[i], id, name)
           /\ \A j \in 1 .. i - 1 : ~Same(list[j], id, name)
<1> DEFINE ok(i) == /\ i <= Len(list) => Same(list[i], id, name)
                    /\ \A j \in 1 .. i - 1 : ~Same(list[j], id, name)
           S == {i \in 1 .. Len(list) : Same(list[i], id, name)}
<1>1. \E i \in 1 .. Len(list) + 1 : ok(i)
  <2>1. CASE S = {}
    <3>1. ok(Len(list) + 1) /\ Len(list) + 1 \in 1 .. Len(list) + 1
      BY <2>1
    <3> QED
      BY <3>1
  <2>2. CASE S # {}
    <3>1. S \in SUBSET Nat
      OBVIOUS
    <3>2. PICK i \in S : \A j \in S : i <= j
      BY <2>2, <3>1, SmallestExists
    <3>3. ok(i) /\ i \in 1 .. Len(list) + 1
      BY <3>2
    <3> QED
      BY <3>3
  <2> QED
    BY <2>1, <2>2
<1>2. IndexOf(list, id, name) = CHOOSE i \in 1 .. Len(list) + 1 : ok(i)
  BY DEF IndexOf
<1> HIDE DEF ok
<1>3. IndexOf(list, id, name) \in 1 .. Len(list) + 1 /\ ok(IndexOf(list, id, name))
  BY <1>1, <1>2
<1> QED
  BY <1>3 DEF ok

LEMMA Ring == \A x \in Nat, n \in Nat \ {0} : (x % n) + 1 \in 1 .. n
OBVIOUS

LEMMA PersonTyped == \A p \in Persons : /\ p.id \in Ids /\ p.name \in Names /\ p.name # NoName
                                       /\ Entry(p) \in Participants
                                       /\ [Entry(p) EXCEPT !.spoken = TRUE] \in Participants
BY PersonsAssumption DEF Ids, Names, Entry, Participants

\* What upsert and markSpoken make of a list.
LEMMA Upserts ==
    ASSUME NEW list \in Seq(Participants), NEW p \in Persons, NEW spoken \in BOOLEAN,
           NEW i, i = IndexOf(list, p.id, p.name), NEW l, l = upsert(list, p, spoken)
    PROVE  /\ l \in Seq(Participants) /\ Len(list) \in Nat /\ i \in 1 .. Len(list) + 1
           /\ i = Len(list) + 1 =>
                 /\ Len(l) = Len(list) + 1
                 /\ l[i] = [id |-> p.id, name |-> p.name, spoken |-> spoken]
                 /\ \A j \in 1 .. Len(list) : l[j] = list[j]
           /\ i # Len(list) + 1 =>
                 /\ Len(l) = Len(list)
                 /\ l[i] = [id |-> IF p.id # NoId THEN p.id ELSE list[i].id,
                            name |-> list[i].name, spoken |-> list[i].spoken \/ spoken]
                 /\ \A j \in 1 .. Len(list) : j # i => l[j] = list[j]
<1>1. /\ Len(list) \in Nat /\ DOMAIN list = 1 .. Len(list)
      /\ \A j \in 1 .. Len(list) : list[j] \in Participants
  BY LenProperties, ElementOfSeq
<1>2. i \in 1 .. Len(list) + 1
  BY <1>1, IndexFound
<1>3. CASE i = Len(list) + 1
  <2> DEFINE e == [id |-> p.id, name |-> p.name, spoken |-> spoken]
  <2>1. e = [Entry(p) EXCEPT !.spoken = spoken] /\ e \in Participants
    <3>1. e = [Entry(p) EXCEPT !.spoken = spoken]
      BY DEF Entry
    <3>2. e \in Participants
      BY PersonTyped DEF Participants
    <3> QED
      BY <3>1, <3>2
  <2> HIDE DEF e
  <2>2. i > Len(list)
    BY <1>1, <1>3
  <2>3. l = Append(list, e)
    BY <2>1, <2>2 DEF upsert
  <2>4. /\ l \in Seq(Participants) /\ Len(l) = Len(list) + 1 /\ l[Len(list) + 1] = e
        /\ \A j \in 1 .. Len(list) : l[j] = list[j]
    BY <2>1, <2>3, AppendProperties
  <2> QED
    BY <1>1, <1>3, <2>4 DEF e
<1>4. CASE i # Len(list) + 1
  <2> DEFINE e == [id |-> IF p.id # NoId THEN p.id ELSE list[i].id,
                   name |-> list[i].name, spoken |-> list[i].spoken \/ spoken]
  <2>1. i \in 1 .. Len(list) /\ list[i] \in Participants /\ ~(i > Len(list))
    BY <1>1, <1>2, <1>4
  <2>2. l = [list EXCEPT ![i].id = IF p.id # NoId THEN p.id ELSE @, ![i].spoken = @ \/ spoken]
    BY <2>1 DEF upsert
  <2>3. l[i] = e /\ DOMAIN l = 1 .. Len(list) /\ \A j \in 1 .. Len(list) : j # i => l[j] = list[j]
    BY <1>1, <2>1, <2>2, ZenonT(30) DEF Participants
  <2>4. e \in Participants
    BY <2>1, PersonTyped DEF Participants
  <2>5. l = [j \in 1 .. Len(list) |-> l[j]]
    BY <1>1, <2>2
  <2>6. l \in [1 .. Len(list) -> Participants]
    <3> HIDE DEF e
    <3> QED
      BY <1>1, <2>3, <2>4, <2>5
  <2>7. l \in Seq(Participants) /\ Len(l) = Len(list)
    BY <1>1, <2>6, FunctionSeq
  <2> QED
    BY <1>1, <1>2, <1>4, <2>3, <2>7
<1> QED
  BY <1>1, <1>2, <1>3, <1>4

LEMMA MarksSpoken ==
    ASSUME NEW list \in Seq(Participants), NEW p \in Persons,
           NEW i, i = IndexOf(list, p.id, p.name), NEW l, l = markSpoken(list, p)
    PROVE  /\ l \in Seq(Participants) /\ Len(list) \in Nat /\ i \in 1 .. Len(list) + 1
           /\ i = Len(list) + 1 =>
                 /\ Len(l) = Len(list) + 1
                 /\ l[i] = [id |-> p.id, name |-> p.name, spoken |-> TRUE]
                 /\ \A j \in 1 .. Len(list) : l[j] = list[j]
           /\ i # Len(list) + 1 =>
                 /\ Len(l) = Len(list)
                 /\ l[i] = [id |-> IF p.id # NoId THEN p.id ELSE list[i].id,
                            name |-> p.name, spoken |-> TRUE]
                 /\ \A j \in 1 .. Len(list) : j # i => l[j] = list[j]
<1>1. /\ Len(list) \in Nat /\ DOMAIN list = 1 .. Len(list)
      /\ \A j \in 1 .. Len(list) : list[j] \in Participants
  BY LenProperties, ElementOfSeq
<1>2. i \in 1 .. Len(list) + 1
  BY <1>1, IndexFound
<1>3. CASE i = Len(list) + 1
  <2> DEFINE e == [id |-> p.id, name |-> p.name, spoken |-> TRUE]
  <2>1. e = [Entry(p) EXCEPT !.spoken = TRUE] /\ e \in Participants
    BY PersonTyped DEF Participants, Entry
  <2> HIDE DEF e
  <2>2. i > Len(list)
    BY <1>1, <1>3
  <2>3. l = Append(list, e)
    BY <2>1, <2>2 DEF markSpoken
  <2>4. /\ l \in Seq(Participants) /\ Len(l) = Len(list) + 1 /\ l[Len(list) + 1] = e
        /\ \A j \in 1 .. Len(list) : l[j] = list[j]
    BY <2>1, <2>3, AppendProperties
  <2> QED
    BY <1>1, <1>3, <2>4 DEF e
<1>4. CASE i # Len(list) + 1
  <2> DEFINE e == [id |-> IF p.id # NoId THEN p.id ELSE list[i].id,
                   name |-> p.name, spoken |-> TRUE]
  <2>1. i \in 1 .. Len(list) /\ list[i] \in Participants /\ ~(i > Len(list))
    BY <1>1, <1>2, <1>4
  <2>2. l = [list EXCEPT ![i] = [id |-> IF p.id # NoId THEN p.id ELSE @.id,
                                 name |-> p.name, spoken |-> TRUE]]
    BY <2>1 DEF markSpoken
  <2>3. l[i] = e /\ DOMAIN l = 1 .. Len(list) /\ \A j \in 1 .. Len(list) : j # i => l[j] = list[j]
    BY <1>1, <2>1, <2>2 DEF Participants
  <2>4. e \in Participants
    BY <2>1, PersonTyped DEF Participants
  <2>5. l = [j \in 1 .. Len(list) |-> l[j]]
    BY <1>1, <2>2
  <2>6. l \in [1 .. Len(list) -> Participants]
    <3> HIDE DEF e
    <3> QED
      BY <1>1, <2>3, <2>4, <2>5
  <2>7. l \in Seq(Participants) /\ Len(l) = Len(list)
    BY <1>1, <2>6, FunctionSeq
  <2> QED
    BY <1>1, <1>2, <1>4, <2>3, <2>7
<1> QED
  BY <1>1, <1>2, <1>3, <1>4

-----------------------------------------------------------------------------
(* Types.                                                                  *)

Calls == [pc : Pcs, item : Items \cup {NoItem}, ends : BOOLEAN,
          report : Reports, due : SUBSET Items]

\* The counters bound what they count.
Counters ==
    /\ clock \in 0 .. MaxMeetings /\ items \in 0 .. MaxItems
    /\ faults \in 0 .. MaxFaults
    /\ wrote \in Seq(MeetingIds) /\ Len(wrote) = items
    /\ answered \subseteq 1 .. items
    /\ history \subseteq (1 .. items) \X (0 .. clock)

CallsTyped ==
    /\ call \in [Callers -> Calls]
    /\ \A c \in Callers : call[c].item \in 0 .. items

BoardTyped ==
    /\ meeting \in Meetings /\ saved \in Meetings
    /\ access \in BOOLEAN /\ asked \in Seq(Names)
    /\ reports \in [MeetingIds -> Reports]
    /\ promised \subseteq MeetingIds \X SUBSET Items

TypesOK == Counters /\ CallsTyped /\ BoardTyped

LEMMA FirstTyped ==
    /\ FirstMeeting \in Meetings /\ NoReport \in Reports /\ Idle \in Calls
    /\ Idle.pc = "idle" /\ Idle.item = NoItem
<1>1. NoMeeting \in MeetingIds /\ 0 \in 0 .. MaxMeetings
  BY DEF NoMeeting, MeetingIds
<1>2. <<>> \in Seq(Participants)
  BY EmptySeq
<1>3. FirstMeeting \in Meetings
  BY <1>1, <1>2 DEF FirstMeeting, Meetings
<1>4. NoReport \in Reports
  BY <1>1 DEF NoReport, Reports
<1> QED
  BY <1>3, <1>4 DEF Idle, Calls, Pcs

LEMMA TypesInit == Init => TypesOK
<1> SUFFICES ASSUME Init
             PROVE  TypesOK
  OBVIOUS
<1>1. wrote \in Seq(MeetingIds) /\ Len(wrote) = 0 /\ asked \in Seq(Names)
  BY EmptySeq DEF Init
<1>2. Counters
  BY <1>1 DEF Init, Counters
<1>3. CallsTyped
  BY FirstTyped DEF Init, CallsTyped, NoItem
<1>4. BoardTyped
  BY <1>1, FirstTyped DEF Init, BoardTyped
<1> QED
  BY <1>2, <1>3, <1>4 DEF TypesOK

\* A caller's steps.
CallStep(c) ==
    \/ StartMeeting(c) \/ SwitchMeetingType(c) \/ RegisterParticipant(c)
    \/ RecordParticipantUpdate(c) \/ RecordMeetingMemory(c) \/ NextSpeaker(c)
    \/ EndMeeting(c) \/ RecordMutation(c) \/ BuildReport(c)
    \/ SaveMeetingReport(c) \/ SaveFails(c) \/ Setup(c) \/ HostLeaves(c)

LEMMA NextSteps == Next => Restart \/ \E c \in Callers : CallStep(c)
BY DEF Next, CallStep

\* The record of a call whose change is made.
Recording(item, ends) == [Idle EXCEPT !.pc = "record", !.item = item, !.ends = ends]

LEMMA RecordingTyped ==
    ASSUME NEW item \in Items \cup {NoItem}, NEW ends \in BOOLEAN
    PROVE  /\ Recording(item, ends) \in Calls
           /\ Recording(item, ends).pc = "record" /\ Recording(item, ends).item = item
           /\ Recording(item, ends).ends = ends /\ Recording(item, ends).due = {}
BY FirstTyped DEF Recording, Calls, Pcs, Idle

\* Counting: what a caller's step counts.
LEMMA CountersStep ==
    ASSUME TypesOK, NEW c \in Callers, CallStep(c)
    PROVE  /\ Counters'
           /\ clock' \in {clock, clock + 1}
           /\ \/ items' = items /\ wrote' = wrote
              \/ items' = items + 1 /\ wrote' = Append(wrote, meeting.id) /\ items < MaxItems
<1>1. /\ clock \in 0 .. MaxMeetings /\ items \in 0 .. MaxItems /\ faults \in 0 .. MaxFaults
      /\ wrote \in Seq(MeetingIds) /\ Len(wrote) = items /\ answered \subseteq 1 .. items
      /\ history \subseteq (1 .. items) \X (0 .. clock)
      /\ meeting.id \in MeetingIds /\ call[c].item \in 0 .. items
  BY DEF TypesOK, Counters, BoardTyped, CallsTyped, Meetings
<1>2. Own(c) \subseteq 1 .. items
  BY <1>1 DEF Own, NoItem
<1>3. clock' \in {clock, clock + 1} /\ clock' <= MaxMeetings
  <2>1. CASE SwitchMeetingType(c)
    BY <2>1 DEF SwitchMeetingType
  <2>2. CASE StartMeeting(c) \/ Setup(c)
    <3>1. clock' = clock + 1 /\ clock < MaxMeetings
      BY <2>2 DEF StartMeeting, Setup
    <3> QED
      BY <1>1, <3>1
  <2>3. CASE \/ RegisterParticipant(c) \/ RecordParticipantUpdate(c) \/ RecordMeetingMemory(c)
             \/ NextSpeaker(c) \/ EndMeeting(c) \/ RecordMutation(c) \/ BuildReport(c)
             \/ SaveMeetingReport(c) \/ SaveFails(c) \/ HostLeaves(c)
    <3>1. clock' = clock
      BY <2>3 DEF RegisterParticipant, RecordParticipantUpdate, RecordMeetingMemory,
         NextSpeaker, EndMeeting, RecordMutation, BuildReport, SaveMeetingReport, SaveFails, HostLeaves
    <3> QED
      BY <1>1, <3>1
  <2> QED
    BY <2>1, <2>2, <2>3 DEF CallStep
<1>4. \/ items' = items /\ wrote' = wrote
      \/ items' = items + 1 /\ wrote' = Append(wrote, meeting.id) /\ items < MaxItems
  <2>1. WriteDown(c, TRUE) \/ WriteDown(c, FALSE) => 
          items' = items + 1 /\ wrote' = Append(wrote, meeting.id) /\ items < MaxItems
    BY DEF WriteDown
  <2> QED
    BY <2>1 DEF CallStep, StartMeeting, SwitchMeetingType, RegisterParticipant,
       RecordParticipantUpdate, RecordMeetingMemory, NextSpeaker, EndMeeting, RecordMutation,
       BuildReport, SaveMeetingReport, SaveFails, Setup, HostLeaves
<1>5. items' \in 0 .. MaxItems /\ wrote' \in Seq(MeetingIds) /\ Len(wrote') = items'
      /\ 1 .. items \subseteq 1 .. items'
  <2>1. CASE items' = items /\ wrote' = wrote
    BY <1>1, <2>1
  <2>2. CASE items' = items + 1 /\ wrote' = Append(wrote, meeting.id) /\ items < MaxItems
    BY <1>1, <2>2, AppendProperties
  <2> QED
    BY <1>4, <2>1, <2>2
<1>6. faults' \in 0 .. MaxFaults
  <2>1. CASE SaveFails(c)
    BY <1>1, <2>1 DEF SaveFails
  <2>2. CASE ~SaveFails(c)
    <3>1. faults' = faults
      BY <2>2 DEF CallStep, StartMeeting, SwitchMeetingType, RegisterParticipant,
         RecordParticipantUpdate, RecordMeetingMemory, NextSpeaker, EndMeeting, RecordMutation,
         BuildReport, SaveMeetingReport, Setup, HostLeaves, roundVars
    <3> QED
      BY <1>1, <3>1
  <2> QED
    BY <2>1, <2>2
<1>7. answered' \subseteq answered \cup Own(c) /\ history' \subseteq history \cup (Own(c) \X {clock})
  BY DEF CallStep, StartMeeting, SwitchMeetingType, RegisterParticipant,
     RecordParticipantUpdate, RecordMeetingMemory, NextSpeaker, EndMeeting, RecordMutation,
     BuildReport, SaveMeetingReport, SaveFails, Setup, HostLeaves, storeVars
<1>8. answered' \subseteq 1 .. items'
  BY <1>1, <1>2, <1>5, <1>7
<1>9. history' \subseteq (1 .. items') \X (0 .. clock')
  <2>1. 0 .. clock \subseteq 0 .. clock' /\ clock \in 0 .. clock'
    BY <1>1, <1>3
  <2> QED
    BY <1>1, <1>2, <1>5, <1>7, <2>1
<1>10. clock' \in 0 .. MaxMeetings
  BY <1>1, <1>3
<1> QED
  BY <1>3, <1>4, <1>5, <1>6, <1>8, <1>9, <1>10 DEF Counters

\* What a caller's step makes of its call.
LEMMA CallAfter ==
    ASSUME TypesOK, NEW c \in Callers, CallStep(c)
    PROVE  /\ call' = [call EXCEPT ![c] = call'[c]]
           /\ \A d \in Callers \ {c} : call'[d] = call[d]
           /\ StartMeeting(c) \/ RegisterParticipant(c) \/ NextSpeaker(c)
                => call'[c] = Recording(NoItem, FALSE)
           /\ SwitchMeetingType(c)
                => call'[c] = IF meeting' # meeting THEN Recording(NoItem, FALSE) ELSE Idle
           /\ RecordParticipantUpdate(c) \/ RecordMeetingMemory(c)
                => call'[c] = Recording(items + 1, FALSE) /\ items' = items + 1
           /\ EndMeeting(c)
                => \/ call'[c] = Recording(items + 1, TRUE) /\ items' = items + 1
                   \/ call'[c] = Recording(NoItem, TRUE)
           /\ RecordMutation(c)
                => call'[c] = IF call[c].ends
                              THEN [call[c] EXCEPT !.pc = "board", !.due = Own(c) \cup Due]
                              ELSE Idle
           /\ BuildReport(c)
                => call'[c] = [call[c] EXCEPT !.pc = "save",
                                 !.report = [id |-> meeting.id, active |-> meeting.active,
                                             ended |-> meeting.ended, items |-> meeting.items,
                                             changes |-> ChangesSince]]
           /\ SaveMeetingReport(c) \/ SaveFails(c) => call'[c] = Idle
           /\ Setup(c) => call'[c] = [call[c] EXCEPT !.pc = "tell_switch"]
           /\ HostLeaves(c) => call'[c] = [call[c] EXCEPT !.pc = "tell_end"]
<1>1. call \in [Callers -> Calls]
  BY DEF TypesOK, CallsTyped
<1>2. ASSUME NEW x, call' = [call EXCEPT ![c] = x]
      PROVE  /\ call'[c] = x /\ call' = [call EXCEPT ![c] = call'[c]]
             /\ \A d \in Callers \ {c} : call'[d] = call[d]
  BY <1>1, <1>2
<1>3. \A item, ends : Changed(c, item, ends) => call' = [call EXCEPT ![c] = Recording(item, ends)]
  BY DEF Changed, Recording
<1>4. \A ends : WriteDown(c, ends) =>
          call' = [call EXCEPT ![c] = Recording(items + 1, ends)] /\ items' = items + 1
  BY <1>3 DEF WriteDown
<1>5. StartMeeting(c) \/ RegisterParticipant(c) \/ NextSpeaker(c)
        => call' = [call EXCEPT ![c] = Recording(NoItem, FALSE)]
  BY <1>3 DEF StartMeeting, RegisterParticipant, NextSpeaker
<1>6. SwitchMeetingType(c)
        => call' = [call EXCEPT ![c] = IF meeting' # meeting THEN Recording(NoItem, FALSE) ELSE Idle]
  BY <1>3 DEF SwitchMeetingType
<1>7. RecordParticipantUpdate(c) \/ RecordMeetingMemory(c)
        => call' = [call EXCEPT ![c] = Recording(items + 1, FALSE)] /\ items' = items + 1
  BY <1>4 DEF RecordParticipantUpdate, RecordMeetingMemory
<1>8. EndMeeting(c)
        => \/ call' = [call EXCEPT ![c] = Recording(items + 1, TRUE)] /\ items' = items + 1
           \/ call' = [call EXCEPT ![c] = Recording(NoItem, TRUE)]
  BY <1>3, <1>4 DEF EndMeeting
<1>9. RecordMutation(c)
        => call' = [call EXCEPT ![c] = IF call[c].ends
                                       THEN [call[c] EXCEPT !.pc = "board", !.due = Own(c) \cup Due]
                                       ELSE Idle]
  <2> SUFFICES ASSUME RecordMutation(c)
               PROVE  call' = [call EXCEPT ![c] = IF call[c].ends
                                       THEN [call[c] EXCEPT !.pc = "board", !.due = Own(c) \cup Due]
                                       ELSE Idle]
    OBVIOUS
  <2>1. CASE call[c].ends
    <3>1. call' = [call EXCEPT ![c].pc = "board", ![c].due = Own(c) \cup Due]
      BY <2>1 DEF RecordMutation
    <3> QED
      BY <1>1, <2>1, <3>1
  <2>2. CASE ~call[c].ends
    BY <2>2 DEF RecordMutation
  <2> QED
    BY <2>1, <2>2
<1>10. BuildReport(c)
        => call' = [call EXCEPT ![c] =
                      [call[c] EXCEPT !.pc = "save",
                         !.report = [id |-> meeting.id, active |-> meeting.active,
                                     ended |-> meeting.ended, items |-> meeting.items,
                                     changes |-> ChangesSince]]]
  BY <1>1 DEF BuildReport
<1>11. SaveMeetingReport(c) \/ SaveFails(c) => call' = [call EXCEPT ![c] = Idle]
  BY DEF SaveMeetingReport, SaveFails
<1>12. Setup(c) => call' = [call EXCEPT ![c] = [call[c] EXCEPT !.pc = "tell_switch"]]
  BY <1>1 DEF Setup
<1>13. HostLeaves(c) => call' = [call EXCEPT ![c] = [call[c] EXCEPT !.pc = "tell_end"]]
  BY <1>1 DEF HostLeaves
<1>14. \E x : call' = [call EXCEPT ![c] = x]
  BY <1>5, <1>6, <1>7, <1>8, <1>9, <1>10, <1>11, <1>12, <1>13 DEF CallStep
<1>15. call' = [call EXCEPT ![c] = call'[c]] /\ \A d \in Callers \ {c} : call'[d] = call[d]
  BY <1>2, <1>14
<1> QED
  BY <1>2, <1>5, <1>6, <1>7, <1>8, <1>9, <1>10, <1>11, <1>12, <1>13, <1>15

LEMMA CallsTypedStep ==
    ASSUME TypesOK, NEW c \in Callers, CallStep(c)
    PROVE  CallsTyped'
<1>1. /\ call \in [Callers -> Calls] /\ call[c] \in Calls
      /\ \A d \in Callers : call[d].item \in 0 .. items
      /\ items \in 0 .. MaxItems
      /\ meeting \in Meetings
  BY DEF TypesOK, CallsTyped, Counters, BoardTyped
<1>2. items' \in 0 .. MaxItems /\ 0 .. items \subseteq 0 .. items'
  BY <1>1, CountersStep DEF Counters
<1>3. ASSUME NEW item \in 0 .. items', NEW ends \in BOOLEAN
      PROVE  Recording(item, ends) \in Calls /\ Recording(item, ends).item \in 0 .. items'
  <2>1. item \in Items \cup {NoItem}
    BY <1>2 DEF Items, NoItem
  <2> QED
    BY <2>1, RecordingTyped
<1>4. Idle \in Calls /\ Idle.item \in 0 .. items'
  BY <1>2, FirstTyped DEF NoItem
<1>5. call'[c] \in Calls /\ call'[c].item \in 0 .. items'
  <2>1. CASE StartMeeting(c) \/ RegisterParticipant(c) \/ NextSpeaker(c) \/ SwitchMeetingType(c)
    <3>1. NoItem \in 0 .. items'
      BY <1>2 DEF NoItem
    <3>2. call'[c] = Recording(NoItem, FALSE) \/ call'[c] = Idle
      BY <2>1, CallAfter
    <3> QED
      BY <1>3, <1>4, <3>1, <3>2
  <2>2. CASE RecordParticipantUpdate(c) \/ RecordMeetingMemory(c) \/ EndMeeting(c)
    <3>1. NoItem \in 0 .. items'
      BY <1>2 DEF NoItem
    <3>2. CASE EndMeeting(c) /\ call'[c] = Recording(NoItem, TRUE)
      BY <1>3, <3>1, <3>2
    <3>3. CASE ~(EndMeeting(c) /\ call'[c] = Recording(NoItem, TRUE))
      <4>1. PICK ends \in BOOLEAN : call'[c] = Recording(items + 1, ends) /\ items' = items + 1
        BY <2>2, <3>3, CallAfter DEF CallStep
      <4>2. items + 1 \in 0 .. items'
        BY <1>1, <4>1
      <4> QED
        BY <1>3, <4>1, <4>2
    <3> QED
      BY <3>2, <3>3
  <2>3. CASE RecordMutation(c)
    <3>1. call'[c] = IF call[c].ends THEN [call[c] EXCEPT !.pc = "board", !.due = Own(c) \cup Due]
                     ELSE Idle
      BY <2>3, CallAfter
    <3>2. Own(c) \cup Due \in SUBSET Items
      BY <1>1 DEF Own, Due, NoItem, Items, Meetings
    <3>3. [call[c] EXCEPT !.pc = "board", !.due = Own(c) \cup Due] \in Calls
      BY <1>1, <3>2 DEF Calls, Pcs
    <3>4. [call[c] EXCEPT !.pc = "board", !.due = Own(c) \cup Due].item = call[c].item
      BY <1>1 DEF Calls
    <3> QED
      BY <1>1, <1>2, <1>4, <3>1, <3>3, <3>4
  <2>4. CASE BuildReport(c)
    <3> DEFINE r == [id |-> meeting.id, active |-> meeting.active, ended |-> meeting.ended,
                     items |-> meeting.items, changes |-> ChangesSince]
    <3>1. call'[c] = [call[c] EXCEPT !.pc = "save", !.report = r]
      BY <2>4, CallAfter
    <3>2. r \in Reports
      BY <1>1 DEF Reports, Meetings, ChangesSince
    <3> HIDE DEF r
    <3>3. call'[c] \in Calls /\ call'[c].item = call[c].item
      BY <1>1, <3>1, <3>2 DEF Calls, Pcs
    <3> QED
      BY <1>1, <1>2, <3>3
  <2>5. CASE SaveMeetingReport(c) \/ SaveFails(c)
    BY <1>4, <2>5, CallAfter
  <2>6. CASE Setup(c) \/ HostLeaves(c)
    <3>1. \/ call'[c] = [call[c] EXCEPT !.pc = "tell_switch"]
          \/ call'[c] = [call[c] EXCEPT !.pc = "tell_end"]
      BY <2>6, CallAfter
    <3>2. call'[c] \in Calls /\ call'[c].item = call[c].item
      BY <1>1, <3>1 DEF Calls, Pcs
    <3> QED
      BY <1>1, <1>2, <3>2
  <2> QED
    BY <2>1, <2>2, <2>3, <2>4, <2>5, <2>6 DEF CallStep
<1>6. call' = [call EXCEPT ![c] = call'[c]] /\ \A d \in Callers \ {c} : call'[d] = call[d]
  BY CallAfter
<1>7. call' \in [Callers -> Calls]
  BY <1>1, <1>5, <1>6
<1>8. \A d \in Callers : call'[d].item \in 0 .. items'
  BY <1>1, <1>2, <1>5, <1>6
<1> QED
  BY <1>7, <1>8 DEF CallsTyped

LEMMA EntriesTyped ==
    ASSUME NEW list \in Lists
    PROVE  LET l == [i \in DOMAIN list |-> Entry(list[i])] IN
           /\ l \in Seq(Participants) /\ Len(l) = Len(list)
           /\ Len(list) \in Nat /\ DOMAIN list = 1 .. Len(list)
           /\ \A i \in 1 .. Len(list) : list[i] \in Persons
           /\ (IF list = <<>> THEN NoName ELSE list[1].name) \in Names \cup {NoName}
<1>1. list \in Seq(Persons)
  BY PersonsAssumption
<1>2. /\ Len(list) \in Nat /\ DOMAIN list = 1 .. Len(list)
      /\ \A i \in 1 .. Len(list) : list[i] \in Persons
  BY <1>1, LenProperties, ElementOfSeq
<1> DEFINE l == [i \in DOMAIN list |-> Entry(list[i])]
<1>3. l \in [1 .. Len(list) -> Participants]
  BY <1>2, PersonTyped
<1>4. l \in Seq(Participants) /\ Len(l) = Len(list)
  <2> HIDE DEF l
  <2> QED
    BY <1>2, <1>3, FunctionSeq
<1>5. (IF list = <<>> THEN NoName ELSE list[1].name) \in Names \cup {NoName}
  <2>1. list # <<>> => 1 \in 1 .. Len(list)
    BY <1>1, <1>2, EmptySeq
  <2> QED
    BY <1>2, <2>1, PersonTyped
<1> QED
  BY <1>2, <1>4, <1>5

\* The index next_speaker finds is one of the list.
LEMMA NextIndexIs ==
    ASSUME TypesOK, NEW current, NextIndex(current) # 0
    PROVE  NextIndex(current) \in 1 .. Len(meeting.participants)
<1> DEFINE n == Len(meeting.participants)
           at(k) == ((CurrentIndex(current) + k - 1) % n) + 1
           open == {k \in 1 .. n : ~meeting.participants[at(k)].spoken}
<1>1. n \in Nat
  BY LenProperties DEF TypesOK, BoardTyped, Meetings
<1>2. CurrentIndex(current) \in Nat
  <2> DEFINE hits == {i \in 1 .. n : \/ Same(meeting.participants[i], current, current)
                                     \/ meeting.participants[i].name = meeting.speaker}
  <2>1. CurrentIndex(current) = IF hits = {} THEN 0 ELSE CHOOSE i \in hits : \A j \in hits : i <= j
    BY DEF CurrentIndex
  <2>2. hits \in SUBSET Nat
    BY <1>1
  <2> HIDE DEF hits
  <2>3. CASE hits = {}
    BY <2>1, <2>3
  <2>4. CASE hits # {}
    <3>1. \E i \in hits : \A j \in hits : i <= j
      BY <2>2, <2>4, SmallestExists
    <3>2. (CHOOSE i \in hits : \A j \in hits : i <= j) \in hits
      BY <3>1
    <3>3. CurrentIndex(current) \in hits
      BY <2>1, <2>4, <3>2
    <3> QED
      BY <2>2, <3>3
  <2> QED
    BY <2>3, <2>4
<1>3. open # {} /\ NextIndex(current) = at(CHOOSE k \in open : \A j \in open : k <= j)
  BY DEF NextIndex
<1>4. open \in SUBSET (1 .. n) /\ open \in SUBSET Nat
  BY <1>1
<1> HIDE DEF open
<1>5. \E k \in open : \A j \in open : k <= j
  BY <1>3, <1>4, SmallestExists
<1>6. PICK k \in open : NextIndex(current) = at(k)
  BY <1>3, <1>5
<1>7. k \in 1 .. n /\ n \in Nat \ {0} /\ CurrentIndex(current) + k - 1 \in Nat
  BY <1>1, <1>2, <1>4
<1> HIDE DEF n
<1>8. ((CurrentIndex(current) + k - 1) % n) + 1 \in 1 .. n
  BY <1>7, Ring
<1> QED
  BY <1>6, <1>8 DEF n

\* What a caller's step makes of the meeting.
LEMMA MeetingAfter ==
    ASSUME TypesOK, NEW c \in Callers, CallStep(c)
    PROVE  /\ meeting' \in Meetings
           /\ asked' \in Seq(Names)
           /\ \/ meeting' = meeting
              \/ /\ StartMeeting(c) \/ SwitchMeetingType(c) \/ RegisterParticipant(c)
                    \/ RecordParticipantUpdate(c) \/ RecordMeetingMemory(c) \/ NextSpeaker(c)
                    \/ EndMeeting(c)
                 /\ saved' = saved
<1>1. /\ meeting \in Meetings /\ clock \in 0 .. MaxMeetings /\ clock' \in 0 .. MaxMeetings
      /\ items \in Nat /\ asked \in Seq(Names)
      /\ meeting.participants \in Seq(Participants)
  <2>1. Counters'
    BY CountersStep
  <2>2. clock' \in 0 .. MaxMeetings
    BY <2>1 DEF Counters
  <2>3. clock \in 0 .. MaxMeetings /\ items \in Nat
    BY DEF TypesOK, Counters
  <2> QED
    BY <2>2, <2>3 DEF TypesOK, BoardTyped, Meetings
<1>2. CASE StartMeeting(c)
  <2>1. PICK list \in Lists, m \in {clock + 1} \cup GivenIds :
          meeting' = [FirstMeeting EXCEPT
                        !.id = m, !.active = TRUE, !.started = clock + 1,
                        !.participants = [i \in DOMAIN list |-> Entry(list[i])],
                        !.speaker = IF list = <<>> THEN NoName ELSE list[1].name]
    BY <1>2 DEF StartMeeting
  <2>2. clock + 1 \in 0 .. MaxMeetings /\ m \in MeetingIds
    BY <1>1, <1>2 DEF StartMeeting, MeetingIds
  <2>3. meeting' \in Meetings
    BY <2>1, <2>2, EntriesTyped, FirstTyped DEF Meetings
  <2>4. asked' \in Seq(Names)
    BY <1>2, EmptySeq DEF StartMeeting
  <2> QED
    BY <1>2, <2>3, <2>4 DEF StartMeeting, storeVars
<1>3. CASE SwitchMeetingType(c)
  <2>1. /\ meeting' = [meeting EXCEPT !.id = IF @ = NoMeeting THEN clock' ELSE @,
                                      !.active = TRUE,
                                      !.started = IF @ = 0 THEN clock' ELSE @]
        /\ asked' = asked /\ saved' = saved
    BY <1>3 DEF SwitchMeetingType, roundVars, storeVars
  <2>2. clock' \in MeetingIds
    BY <1>1 DEF MeetingIds
  <2>3. meeting' \in Meetings
    BY <1>1, <2>1, <2>2 DEF Meetings
  <2> QED
    BY <1>1, <1>3, <2>1, <2>3
<1>4. CASE RegisterParticipant(c)
  <2>1. PICK p \in Persons :
          meeting' = [meeting EXCEPT
                        !.participants = upsert(@, p, FALSE),
                        !.speaker = IF meeting.speaker = NoName THEN p.name ELSE meeting.speaker]
    BY <1>4 DEF RegisterParticipant
  <2>2. upsert(meeting.participants, p, FALSE) \in Seq(Participants)
    BY <1>1, Upserts
  <2>3. meeting' \in Meetings
    BY <1>1, <2>1, <2>2, PersonTyped DEF Meetings
  <2>4. asked' \in Seq(Names)
    BY <1>4, EmptySeq DEF RegisterParticipant
  <2> QED
    BY <1>4, <2>3, <2>4 DEF RegisterParticipant, storeVars
<1>5. CASE RecordParticipantUpdate(c)
  <2>1. PICK p \in Persons :
          meeting' = [meeting EXCEPT
                       !.participants = markSpoken(upsert(@, p, TRUE), p),
                       !.updates = @ \cup {p}, !.speaker = p.name,
                       !.items = @ \cup {items + 1}]
    BY <1>5 DEF RecordParticipantUpdate
  <2>2. upsert(meeting.participants, p, TRUE) \in Seq(Participants)
    BY <1>1, Upserts
  <2>3. markSpoken(upsert(meeting.participants, p, TRUE), p) \in Seq(Participants)
    BY <2>2, MarksSpoken
  <2>4. items + 1 \in Items
    BY <1>1, <1>5 DEF RecordParticipantUpdate, WriteDown, Items
  <2>5. meeting' \in Meetings
    BY <1>1, <2>1, <2>3, <2>4, PersonTyped DEF Meetings
  <2>6. asked' \in Seq(Names)
    BY <1>5, EmptySeq DEF RecordParticipantUpdate
  <2> QED
    BY <1>5, <2>5, <2>6 DEF RecordParticipantUpdate, storeVars
<1>6. CASE RecordMeetingMemory(c)
  <2>1. meeting' = [meeting EXCEPT !.items = @ \cup {items + 1}] /\ asked' = asked /\ saved' = saved
    BY <1>6 DEF RecordMeetingMemory, roundVars, storeVars
  <2>2. items + 1 \in Items
    BY <1>1, <1>6 DEF RecordMeetingMemory, WriteDown, Items
  <2>3. meeting' \in Meetings
    BY <1>1, <2>1, <2>2 DEF Meetings
  <2> QED
    BY <1>1, <1>6, <2>1, <2>3
<1>7. CASE NextSpeaker(c)
  <2>1. PICK current \in {meeting.speaker, NoName} :
          /\ NextIndex(current) # 0
          /\ LET next == meeting.participants[NextIndex(current)].name IN
               /\ meeting' = [meeting EXCEPT !.speaker = next]
               /\ asked' = IF Waiting \subseteq Range(asked) THEN <<next>> ELSE Append(asked, next)
    BY <1>7 DEF NextSpeaker
  <2> DEFINE next == meeting.participants[NextIndex(current)].name
  <2>2. next \in Names
    <3>1. meeting.participants[NextIndex(current)] \in Participants
      BY <1>1, <2>1, NextIndexIs, ElementOfSeq
    <3> QED
      BY <3>1 DEF Participants
  <2>3. /\ meeting' = [meeting EXCEPT !.speaker = next]
        /\ asked' = <<next>> \/ asked' = Append(asked, next)
    BY <2>1
  <2> HIDE DEF next
  <2>4. meeting' \in Meetings
    BY <1>1, <2>2, <2>3 DEF Meetings
  <2>5. asked' \in Seq(Names)
    <3>1. Append(asked, next) \in Seq(Names) /\ Append(<<>>, next) \in Seq(Names)
      BY <1>1, <2>2, AppendProperties, EmptySeq
    <3>2. <<next>> \in Seq(Names)
      BY <2>2
    <3> QED
      BY <2>3, <3>1, <3>2
  <2> QED
    BY <1>7, <2>4, <2>5 DEF NextSpeaker, storeVars
<1>8. CASE EndMeeting(c)
  <2>1. \/ /\ meeting' = [meeting EXCEPT !.items = @ \cup {items + 1}, !.active = FALSE, !.ended = TRUE]
           /\ items < MaxItems
        \/ meeting' = [meeting EXCEPT !.active = FALSE, !.ended = TRUE]
    BY <1>8 DEF EndMeeting, WriteDown
  <2>2. items < MaxItems => items + 1 \in Items
    BY <1>1 DEF Items
  <2>3. meeting' \in Meetings
    <3>1. CASE meeting' = [meeting EXCEPT !.active = FALSE, !.ended = TRUE]
      BY <1>1, <3>1 DEF Meetings
    <3>2. CASE /\ meeting' = [meeting EXCEPT !.items = @ \cup {items + 1}, !.active = FALSE, !.ended = TRUE]
               /\ items < MaxItems
      <4>1. meeting.items \cup {items + 1} \in SUBSET Items
        BY <1>1, <2>2, <3>2 DEF Meetings
      <4> QED
        BY <1>1, <3>2, <4>1 DEF Meetings
    <3> QED
      BY <2>1, <3>1, <3>2
  <2>4. asked' = asked /\ saved' = saved
    BY <1>8 DEF EndMeeting, roundVars, storeVars
  <2> QED
    BY <1>1, <1>8, <2>3, <2>4
<1>9. CASE RecordMutation(c) \/ BuildReport(c) \/ SaveMeetingReport(c) \/ SaveFails(c) \/ Setup(c) \/ HostLeaves(c)
  <2>1. meeting' = meeting /\ asked' = asked
    BY <1>9 DEF RecordMutation, BuildReport, SaveMeetingReport, SaveFails, Setup, HostLeaves, roundVars
  <2> QED
    BY <1>1, <2>1
<1> QED
  BY <1>2, <1>3, <1>4, <1>5, <1>6, <1>7, <1>8, <1>9 DEF CallStep

LEMMA BoardTypedStep ==
    ASSUME TypesOK, NEW c \in Callers, CallStep(c)
    PROVE  BoardTyped'
<1>1. /\ meeting \in Meetings /\ saved \in Meetings /\ access \in BOOLEAN
      /\ reports \in [MeetingIds -> Reports] /\ promised \subseteq MeetingIds \X SUBSET Items
      /\ call[c] \in Calls
  BY DEF TypesOK, BoardTyped, CallsTyped
<1>2. meeting' \in Meetings /\ asked' \in Seq(Names)
  BY MeetingAfter
<1>3. saved' = saved \/ saved' = meeting
  BY DEF CallStep, StartMeeting, SwitchMeetingType, RegisterParticipant,
     RecordParticipantUpdate, RecordMeetingMemory, NextSpeaker, EndMeeting, RecordMutation,
     BuildReport, SaveMeetingReport, SaveFails, Setup, HostLeaves, storeVars
<1>4. access' = access \/ access' = TRUE \/ access' = FALSE
  BY DEF CallStep, StartMeeting, SwitchMeetingType, RegisterParticipant,
     RecordParticipantUpdate, RecordMeetingMemory, NextSpeaker, EndMeeting, RecordMutation,
     BuildReport, SaveMeetingReport, SaveFails, Setup, HostLeaves
<1>5. \/ reports' = reports /\ promised' = promised
      \/ SaveMeetingReport(c)
  BY DEF CallStep, StartMeeting, SwitchMeetingType, RegisterParticipant,
     RecordParticipantUpdate, RecordMeetingMemory, NextSpeaker, EndMeeting, RecordMutation,
     BuildReport, SaveFails, Setup, HostLeaves, storeVars
<1>6. reports' \in [MeetingIds -> Reports] /\ promised' \subseteq MeetingIds \X SUBSET Items
  <2>1. CASE SaveMeetingReport(c)
    <3>1. /\ call[c].report \in Reports /\ call[c].report.id \in MeetingIds
          /\ call[c].due \in SUBSET Items
      BY <1>1 DEF Calls, Reports
    <3>2. /\ reports' = [reports EXCEPT ![call[c].report.id] = call[c].report]
          /\ promised' = promised \cup {<<call[c].report.id, call[c].due>>}
      BY <2>1 DEF SaveMeetingReport, Upserted
    <3> QED
      BY <1>1, <3>1, <3>2
  <2>2. CASE ~SaveMeetingReport(c)
    BY <1>1, <1>5, <2>2
  <2> QED
    BY <2>1, <2>2
<1>7. access' \in BOOLEAN
  BY <1>1, <1>4
<1> QED
  BY <1>1, <1>2, <1>3, <1>6, <1>7 DEF BoardTyped

LEMMA TypesNext == TypesOK /\ [Next]_vars => TypesOK'
<1> SUFFICES ASSUME TypesOK, [Next]_vars
             PROVE  TypesOK'
  OBVIOUS
<1>1. ASSUME NEW c \in Callers, CallStep(c)
      PROVE  TypesOK'
  BY <1>1, CountersStep, CallsTypedStep, BoardTypedStep DEF TypesOK
<1>2. CASE Restart
  <2>1. /\ faults < MaxFaults /\ faults' = faults + 1 /\ meeting' = saved /\ access' = FALSE
        /\ call' = [c \in Callers |-> Idle] /\ asked' = <<>>
        /\ UNCHANGED <<clock, items, wrote, history, saved, reports, answered, promised>>
    BY <1>2 DEF Restart, storeVars
  <2>2. Counters'
    BY <2>1 DEF TypesOK, Counters
  <2>3. CallsTyped'
    BY <2>1, FirstTyped DEF TypesOK, Counters, CallsTyped, NoItem
  <2>4. BoardTyped'
    BY <2>1, EmptySeq DEF TypesOK, BoardTyped
  <2> QED
    BY <2>2, <2>3, <2>4 DEF TypesOK
<1>3. CASE UNCHANGED vars
  BY <1>3 DEF vars, TypesOK, Counters, CallsTyped, BoardTyped
<1> QED
  BY <1>1, <1>2, <1>3, NextSteps

LEMMA TypesInvariant == Spec => []TypesOK
BY TypesInit, TypesNext, PTL DEF Spec

\* Whatever is called, by whom and in which order, and after restarts, the
\* lists of a meeting hold participants, the ring of speakers stays inside the
\* list, and what is written down is counted once (scrum_tools.go).
THEOREM RecordTypes == Spec => []TypeOK
<1> SUFFICES ASSUME TypesOK
             PROVE  TypeOK
  BY TypesInvariant, PTL
<1>1. wrote \in [1 .. items -> MeetingIds]
  <2>1. wrote \in [1 .. Len(wrote) -> MeetingIds]
    BY LenProperties DEF TypesOK, Counters
  <2> QED
    BY <2>1 DEF TypesOK, Counters
<1>2. history \subseteq Items \X (0 .. MaxMeetings)
  <2>1. 1 .. items \subseteq Items /\ 0 .. clock \subseteq 0 .. MaxMeetings
    BY DEF TypesOK, Counters, Items
  <2> QED
    BY <2>1 DEF TypesOK, Counters
<1> QED
  BY <1>1, <1>2 DEF TypesOK, Counters, CallsTyped, BoardTyped, TypeOK, Calls


-----------------------------------------------------------------------------
(* The archived report.                                                    *)

OneChair == \A c, d \in Chairs : c = d

\* Item i was recorded at time s or after it.
Logged(log, i, s) == \E t \in Nat : s <= t /\ <<i, t>> \in log

\* These items were written down in this meeting or before there was any.
OfMeeting(w, its, id) == \A i \in its : i \in DOMAIN w /\ w[i] \in {id, NoMeeting}

\* Ids are the times of starts, and nothing is later than the clock.
Stamps ==
    /\ meeting.started = meeting.id /\ saved.started = saved.id
    /\ meeting.id <= clock /\ saved.id <= clock
    /\ \A i \in 1 .. items : wrote[i] <= clock
    /\ \A p \in promised : p[1] <= clock

Belongs ==
    /\ OfMeeting(wrote, meeting.items, meeting.id)
    /\ OfMeeting(wrote, saved.items, saved.id)
    /\ \A m \in MeetingIds : OfMeeting(wrote, reports[m].items, m)

Logs ==
    /\ \A i \in answered : Logged(history, i, wrote[i])
    /\ \A c \in Callers : call[c].pc \in {"board", "save"} =>
         \A i \in Own(c) : Logged(history, i, wrote[i])

\* A promise is recorded in time, kept by the row, and kept by the meeting for
\* as long as it may be ended again.
PromisesKept ==
    \A p \in promised :
        /\ \A i \in p[2] : Logged(history, i, p[1])
        /\ p[2] \subseteq reports[p[1]].items \cap reports[p[1]].changes
        /\ p[1] = meeting.id => p[2] \subseteq meeting.items
        /\ p[1] = saved.id => p[2] \subseteq saved.items

\* What a call that ends the meeting holds on to until its report is saved.
Built(c) ==
    LET r == call[c].report IN
    /\ r.id = meeting.id
    /\ OfMeeting(wrote, r.items, r.id)
    /\ call[c].due \subseteq r.items \cap r.changes
    /\ \A p \in promised : p[1] = r.id => p[2] \subseteq r.items \cap r.changes

Ending(c) ==
    /\ call[c].pc \in {"board", "save", "tell_switch", "tell_end"} => c \in Chairs
    /\ call[c].pc = "record" /\ call[c].ends =>
         /\ c \in Chairs
         /\ Own(c) \subseteq meeting.items
         /\ \A i \in Own(c) : wrote[i] = meeting.id
    /\ call[c].pc = "tell_switch" => \A p \in promised : p[1] < clock
    /\ call[c].pc \in {"board", "save"} =>
         /\ call[c].due \subseteq meeting.items \cap saved.items
         /\ \A i \in call[c].due : Logged(history, i, meeting.id)
    /\ call[c].pc = "save" => Built(c)

KeepInv == Stamps /\ Belongs /\ Logs /\ PromisesKept /\ \A c \in Callers : Ending(c)

\* What is written stays written, under the id it was written under.
LEMMA WrittenStays ==
    ASSUME TypesOK, NEW c \in Callers, CallStep(c)
    PROVE  /\ items \in Nat /\ items' \in Nat /\ items <= items'
           /\ clock \in Nat /\ clock' \in Nat /\ clock <= clock'
           /\ DOMAIN wrote = 1 .. items /\ DOMAIN wrote' = 1 .. items'
           /\ \A i \in 1 .. items : i \in 1 .. items' /\ wrote'[i] = wrote[i]
           /\ \A i \in 1 .. items' : i \in 1 .. items \/ (i = items + 1 /\ wrote'[i] = meeting.id)
           /\ items' = items + 1 => items + 1 \in 1 .. items' /\ wrote'[items + 1] = meeting.id
<1>1. /\ Counters' /\ clock' \in {clock, clock + 1}
      /\ \/ items' = items /\ wrote' = wrote
         \/ items' = items + 1 /\ wrote' = Append(wrote, meeting.id)
  BY CountersStep
<1>2. /\ clock \in Nat /\ clock' \in Nat /\ items \in Nat /\ items' \in Nat
      /\ wrote \in Seq(MeetingIds) /\ Len(wrote) = items
      /\ wrote' \in Seq(MeetingIds) /\ Len(wrote') = items' /\ meeting.id \in MeetingIds
  BY <1>1 DEF TypesOK, Counters, BoardTyped, Meetings
<1>3. DOMAIN wrote = 1 .. items /\ DOMAIN wrote' = 1 .. items'
  BY <1>2, LenProperties
<1>4. CASE items' = items /\ wrote' = wrote
  BY <1>1, <1>2, <1>3, <1>4
<1>5. CASE items' = items + 1 /\ wrote' = Append(wrote, meeting.id)
  <2>1. /\ \A i \in 1 .. items : wrote'[i] = wrote[i]
        /\ wrote'[items + 1] = meeting.id
    BY <1>2, <1>5, AppendProperties
  <2> QED
    BY <1>1, <1>2, <1>3, <1>5, <2>1
<1> QED
  BY <1>1, <1>4, <1>5

LEMMA StaysOfMeeting ==
    ASSUME TypesOK, NEW c \in Callers, CallStep(c), NEW its, NEW id,
           OfMeeting(wrote, its, id)
    PROVE  OfMeeting(wrote', its, id)
BY WrittenStays DEF OfMeeting

\* The log only grows.
LEMMA LogGrows ==
    ASSUME NEW c \in Callers, CallStep(c)
    PROVE  /\ history \subseteq history'
           /\ \A i, s : Logged(history, i, s) => Logged(history', i, s)
<1>1. history \subseteq history'
  BY DEF CallStep, StartMeeting, SwitchMeetingType, RegisterParticipant,
     RecordParticipantUpdate, RecordMeetingMemory, NextSpeaker, EndMeeting, RecordMutation,
     BuildReport, SaveMeetingReport, SaveFails, Setup, HostLeaves, storeVars
<1> QED
  BY <1>1 DEF Logged

\* A call goes on with the meeting there is ...
GoesOn ==
    /\ meeting'.id = meeting.id /\ meeting'.started = meeting.started
    /\ \/ meeting'.items = meeting.items
       \/ meeting'.items = meeting.items \cup {items + 1} /\ items' = items + 1

\* ... or, if a chair's, opens a new one.
Opens(c) ==
    /\ c \in Chairs /\ meeting'.id = clock' /\ meeting'.started = clock'
    /\ call[c].pc = "tell_switch" \/ (call[c].pc = "idle" /\ clock' = clock + 1)
    /\ \/ meeting'.items = {}
       \/ meeting.id = NoMeeting /\ meeting'.items = meeting.items
    /\ call'[c] \in {Recording(NoItem, FALSE), Idle}
    /\ saved' = saved /\ promised' = promised /\ reports' = reports

LEMMA GoesOnOrOpens ==
    ASSUME TypesOK, Stamps, GivenIds = {}, NEW c \in Callers, CallStep(c)
    PROVE  GoesOn \/ Opens(c)
<1>1. meeting \in Meetings /\ meeting.started = meeting.id
  BY DEF TypesOK, BoardTyped, Stamps
<1>2. CASE StartMeeting(c)
  <2>1. /\ meeting'.id = clock' /\ meeting'.started = clock' /\ meeting'.items = {}
        /\ c \in Chairs /\ call[c].pc = "idle" /\ clock' = clock + 1
        /\ saved' = saved /\ promised' = promised /\ reports' = reports
    BY <1>2 DEF StartMeeting, FirstMeeting, storeVars
  <2> QED
    BY <1>2, <2>1, CallAfter DEF Opens
<1>3. CASE SwitchMeetingType(c)
  <2>1. /\ meeting' = [meeting EXCEPT !.id = IF @ = NoMeeting THEN clock' ELSE @,
                                      !.active = TRUE,
                                      !.started = IF @ = 0 THEN clock' ELSE @]
        /\ saved' = saved /\ promised' = promised /\ reports' = reports /\ c \in Chairs
        /\ call[c].pc = "tell_switch" \/ call[c].pc = "idle"
        /\ call[c].pc = "idle" /\ meeting.id = NoMeeting => clock' = clock + 1
    BY <1>3 DEF SwitchMeetingType, storeVars
  <2>2. /\ meeting'.items = meeting.items
        /\ meeting'.id = IF meeting.id = NoMeeting THEN clock' ELSE meeting.id
        /\ meeting'.started = IF meeting.started = 0 THEN clock' ELSE meeting.started
    BY <1>1, <2>1 DEF Meetings
  <2>3. CASE meeting.id = NoMeeting
    <3>1. meeting'.id = clock' /\ meeting'.started = clock'
      BY <1>1, <2>2, <2>3 DEF NoMeeting
    <3>2. call[c].pc = "tell_switch" \/ (call[c].pc = "idle" /\ clock' = clock + 1)
      BY <2>1, <2>3
    <3>3. call'[c] \in {Recording(NoItem, FALSE), Idle}
      BY <1>3, CallAfter
    <3> QED
      BY <2>1, <2>2, <2>3, <3>1, <3>2, <3>3 DEF Opens
  <2>4. CASE meeting.id # NoMeeting
    BY <1>1, <2>2, <2>4 DEF GoesOn, NoMeeting
  <2> QED
    BY <2>3, <2>4
<1>4. CASE RegisterParticipant(c)
  <2>1. PICK participants, speaker :
          meeting' = [meeting EXCEPT !.participants = participants, !.speaker = speaker]
    BY <1>4 DEF RegisterParticipant
  <2> QED
    BY <1>1, <2>1 DEF GoesOn, Meetings
<1>5. CASE RecordParticipantUpdate(c)
  <2>1. PICK participants, updates, speaker :
          meeting' = [meeting EXCEPT !.participants = participants, !.updates = updates,
                                     !.speaker = speaker, !.items = @ \cup {items + 1}]
    BY <1>5 DEF RecordParticipantUpdate
  <2>2. items' = items + 1
    BY <1>5, CallAfter
  <2> QED
    BY <1>1, <2>1, <2>2 DEF GoesOn, Meetings
<1>6. CASE RecordMeetingMemory(c)
  BY <1>1, <1>6, CallAfter DEF GoesOn, Meetings, RecordMeetingMemory
<1>7. CASE NextSpeaker(c)
  <2>1. PICK speaker : meeting' = [meeting EXCEPT !.speaker = speaker]
    BY <1>7 DEF NextSpeaker
  <2> QED
    BY <1>1, <2>1 DEF GoesOn, Meetings
<1>8. CASE EndMeeting(c)
  <2>1. \/ /\ meeting' = [meeting EXCEPT !.items = @ \cup {items + 1}, !.active = FALSE, !.ended = TRUE]
           /\ items' = items + 1
        \/ meeting' = [meeting EXCEPT !.active = FALSE, !.ended = TRUE]
    BY <1>8 DEF EndMeeting, WriteDown
  <2> QED
    BY <1>1, <2>1 DEF GoesOn, Meetings
<1>9. CASE RecordMutation(c) \/ BuildReport(c) \/ SaveMeetingReport(c) \/ SaveFails(c) \/ Setup(c) \/ HostLeaves(c)
  <2>1. meeting' = meeting
    BY <1>9 DEF RecordMutation, BuildReport, SaveMeetingReport, SaveFails, Setup, HostLeaves
  <2> QED
    BY <2>1 DEF GoesOn
<1> QED
  BY <1>2, <1>3, <1>4, <1>5, <1>6, <1>7, <1>8, <1>9 DEF CallStep

\* What is saved, and what is archived.
LEMMA SavesAfter ==
    ASSUME TypesOK, NEW c \in Callers, CallStep(c)
    PROVE  /\ saved' = saved \/ (saved' = meeting /\ meeting' = meeting)
           /\ \/ reports' = reports /\ promised' = promised
              \/ /\ SaveMeetingReport(c) /\ meeting' = meeting /\ saved' = saved
                 /\ call[c].report.id \in MeetingIds /\ call[c].pc = "save"
                 /\ reports'[call[c].report.id] = call[c].report
                 /\ \A m \in MeetingIds : m # call[c].report.id => reports'[m] = reports[m]
                 /\ promised' = promised \cup {<<call[c].report.id, call[c].due>>}
<1>1. saved' = saved \/ (saved' = meeting /\ meeting' = meeting)
  BY DEF CallStep, StartMeeting, SwitchMeetingType, RegisterParticipant,
     RecordParticipantUpdate, RecordMeetingMemory, NextSpeaker, EndMeeting, RecordMutation,
     BuildReport, SaveMeetingReport, SaveFails, Setup, HostLeaves, storeVars
<1>2. CASE SaveMeetingReport(c)
  <2>1. /\ reports \in [MeetingIds -> Reports] /\ call[c].report \in Reports
        /\ call[c].report.id \in MeetingIds
    BY DEF TypesOK, BoardTyped, CallsTyped, Calls, Reports
  <2>2. /\ reports' = [reports EXCEPT ![call[c].report.id] = call[c].report]
        /\ promised' = promised \cup {<<call[c].report.id, call[c].due>>}
        /\ meeting' = meeting /\ saved' = saved /\ call[c].pc = "save"
    BY <1>2 DEF SaveMeetingReport, Upserted
  <2>3. /\ reports'[call[c].report.id] = call[c].report
        /\ \A m \in MeetingIds : m # call[c].report.id => reports'[m] = reports[m]
    BY <2>1, <2>2
  <2> QED
    BY <1>1, <1>2, <2>1, <2>2, <2>3
<1>3. CASE ~SaveMeetingReport(c)
  <2>1. reports' = reports /\ promised' = promised
    BY <1>3 DEF CallStep, StartMeeting, SwitchMeetingType, RegisterParticipant,
       RecordParticipantUpdate, RecordMeetingMemory, NextSpeaker, EndMeeting, RecordMutation,
       BuildReport, SaveFails, Setup, HostLeaves, storeVars
  <2> QED
    BY <1>1, <2>1
<1> QED
  BY <1>2, <1>3

LEMMA StampsStep ==
    ASSUME TypesOK, KeepInv, GivenIds = {}, NEW c \in Callers, CallStep(c)
    PROVE  Stamps'
<1>1. /\ meeting.started = meeting.id /\ saved.started = saved.id
      /\ meeting.id <= clock /\ saved.id <= clock
      /\ \A i \in 1 .. items : wrote[i] <= clock
      /\ \A p \in promised : p[1] <= clock
  BY DEF KeepInv, Stamps
<1>2. /\ clock \in Nat /\ clock' \in Nat /\ clock <= clock'
      /\ meeting.id \in Nat /\ saved.id \in Nat
      /\ \A i \in 1 .. items : wrote[i] \in Nat
      /\ promised \subseteq Nat \X SUBSET Items
      /\ MeetingIds \subseteq Nat
  <2>1. MeetingIds \subseteq Nat
    BY DEF MeetingIds
  <2>2. DOMAIN wrote = 1 .. items /\ wrote \in Seq(MeetingIds)
    BY WrittenStays DEF TypesOK, Counters
  <2> QED
    BY <2>1, <2>2, WrittenStays, ElementOfSeq, LenProperties DEF TypesOK, BoardTyped, Meetings, Counters
<1>3. meeting'.started = meeting'.id /\ meeting'.id <= clock'
  <2>1. CASE GoesOn
    <3>1. meeting'.started = meeting'.id /\ meeting'.id = meeting.id
      BY <1>1, <2>1 DEF GoesOn
    <3> QED
      BY <1>1, <1>2, <3>1
  <2>2. CASE Opens(c)
    <3>1. meeting'.started = meeting'.id /\ meeting'.id = clock'
      BY <2>2 DEF Opens
    <3> QED
      BY <1>2, <3>1
  <2> QED
    BY <2>1, <2>2, GoesOnOrOpens DEF KeepInv
<1>4. saved'.started = saved'.id /\ saved'.id <= clock'
  <2>1. saved' = saved \/ saved' = meeting
    BY SavesAfter
  <2>2. \/ saved'.started = saved'.id /\ saved'.id = saved.id
        \/ saved'.started = saved'.id /\ saved'.id = meeting.id
    BY <1>1, <2>1
  <2> QED
    BY <1>1, <1>2, <2>2
<1>5. \A i \in 1 .. items' : wrote'[i] <= clock'
  <2>1. ASSUME NEW i \in 1 .. items'
        PROVE  wrote'[i] <= clock'
    <3>1. CASE i \in 1 .. items
      <4>1. wrote'[i] = wrote[i]
        BY <3>1, WrittenStays
      <4> QED
        BY <1>1, <1>2, <3>1, <4>1
    <3>2. CASE wrote'[i] = meeting.id
      BY <1>1, <1>2, <3>2
    <3> QED
      BY <3>1, <3>2, WrittenStays
  <2> QED
    BY <2>1
<1>6. \A p \in promised' : p[1] <= clock'
  <2>1. ASSUME NEW p \in promised'
        PROVE  p[1] <= clock'
    <3>1. CASE p \in promised
      BY <1>1, <1>2, <3>1
    <3>2. CASE p \notin promised
      <4>1. p = <<call[c].report.id, call[c].due>> /\ call[c].pc = "save"
        BY <3>2, SavesAfter
      <4>2. p[1] = meeting.id
        BY <4>1 DEF KeepInv, Ending, Built
      <4> QED
        BY <1>1, <1>2, <4>2
    <3> QED
      BY <3>1, <3>2
  <2> QED
    BY <2>1
<1> QED
  BY <1>3, <1>4, <1>5, <1>6 DEF Stamps

LEMMA BelongsStep ==
    ASSUME TypesOK, KeepInv, GivenIds = {}, NEW c \in Callers, CallStep(c)
    PROVE  Belongs'
<1>1. \A its, id : OfMeeting(wrote, its, id) => OfMeeting(wrote', its, id)
  BY StaysOfMeeting
<1>2. /\ OfMeeting(wrote', meeting.items, meeting.id)
      /\ OfMeeting(wrote', saved.items, saved.id)
      /\ \A m \in MeetingIds : OfMeeting(wrote', reports[m].items, m)
  BY <1>1 DEF KeepInv, Belongs
<1>3. OfMeeting(wrote', meeting'.items, meeting'.id)
  <2>1. CASE GoesOn
    <3>1. items' = items + 1 => items + 1 \in DOMAIN wrote' /\ wrote'[items + 1] = meeting.id
      BY WrittenStays
    <3> QED
      BY <1>2, <2>1, <3>1 DEF GoesOn, OfMeeting
  <2>2. CASE Opens(c)
    BY <1>2, <2>2 DEF Opens, OfMeeting
  <2> QED
    BY <2>1, <2>2, GoesOnOrOpens DEF KeepInv
<1>4. OfMeeting(wrote', saved'.items, saved'.id)
  BY <1>2, SavesAfter
<1>5. \A m \in MeetingIds : OfMeeting(wrote', reports'[m].items, m)
  <2>1. CASE reports' = reports
    BY <1>2, <2>1
  <2>2. CASE reports' # reports
    <3>1. /\ reports'[call[c].report.id] = call[c].report /\ call[c].pc = "save"
          /\ \A m \in MeetingIds : m # call[c].report.id => reports'[m] = reports[m]
      BY <2>2, SavesAfter
    <3>2. OfMeeting(wrote', call[c].report.items, call[c].report.id)
      BY <1>1, <3>1 DEF KeepInv, Ending, Built
    <3> QED
      BY <1>2, <3>1, <3>2
  <2> QED
    BY <2>1, <2>2
<1> QED
  BY <1>3, <1>4, <1>5 DEF Belongs

\* Where a caller's step leaves its call, and what it still holds.
LEMMA PcAfter ==
    ASSUME TypesOK, NEW c \in Callers, CallStep(c)
    PROVE  /\ call'[c].pc = "tell_switch" => Setup(c)
           /\ call'[c].pc = "tell_end" => HostLeaves(c)
           /\ call'[c].pc = "record" /\ call'[c].ends =>
                /\ EndMeeting(c)
                /\ \/ call'[c].item = items + 1 /\ items' = items + 1
                   \/ call'[c].item = NoItem
           /\ call'[c].pc = "board" =>
                /\ RecordMutation(c) /\ call[c].ends
                /\ call'[c].item = call[c].item /\ call'[c].due = Own(c) \cup Due
           /\ call'[c].pc = "save" =>
                /\ BuildReport(c)
                /\ call'[c].item = call[c].item /\ call'[c].due = call[c].due
                /\ call'[c].report.id = meeting.id /\ call'[c].report.items = meeting.items
                /\ call'[c].report.changes = ChangesSince
<1>1. call[c] \in Calls
  BY DEF TypesOK, CallsTyped
<1>2. /\ Idle.pc = "idle" /\ Recording(NoItem, FALSE).pc = "record" /\ ~Recording(NoItem, FALSE).ends
      /\ \A item \in Items \cup {NoItem}, ends \in BOOLEAN :
           LET r == Recording(item, ends) IN r.pc = "record" /\ r.item = item
      /\ \A item \in Items \cup {NoItem} : ~Recording(item, FALSE).ends
  BY FirstTyped, RecordingTyped
<1>3. CASE StartMeeting(c) \/ RegisterParticipant(c) \/ NextSpeaker(c) \/ SwitchMeetingType(c)
  <2>1. call'[c] = Idle \/ call'[c] = Recording(NoItem, FALSE)
    BY <1>3, CallAfter
  <2> QED
    BY <1>2, <2>1
<1>4. CASE RecordParticipantUpdate(c) \/ RecordMeetingMemory(c)
  <2>1. call'[c] = Recording(items + 1, FALSE) /\ items' = items + 1
    BY <1>4, CallAfter
  <2>2. items + 1 \in Items
    BY <2>1, CountersStep DEF Counters, Items, TypesOK
  <2>3. call'[c].pc = "record" /\ ~call'[c].ends
    BY <1>2, <2>1, <2>2
  <2> QED
    BY <2>3
<1>5. CASE EndMeeting(c)
  <2>1. CASE call'[c] = Recording(items + 1, TRUE) /\ items' = items + 1
    <3>1. items + 1 \in Items
      BY <2>1, CountersStep DEF Counters, Items, TypesOK
    <3>2. call'[c].pc = "record" /\ call'[c].item = items + 1
      BY <1>2, <2>1, <3>1
    <3> QED
      BY <1>5, <2>1, <3>2
  <2>2. CASE call'[c] = Recording(NoItem, TRUE)
    <3>1. call'[c].pc = "record" /\ call'[c].item = NoItem
      BY <1>2, <2>2
    <3> QED
      BY <1>5, <3>1
  <2> QED
    BY <1>5, <2>1, <2>2, CallAfter
<1>6. CASE RecordMutation(c)
  <2>1. CASE call[c].ends
    <3>1. call'[c] = [call[c] EXCEPT !.pc = "board", !.due = Own(c) \cup Due]
      BY <1>6, <2>1, CallAfter
    <3>2. /\ call'[c].pc = "board" /\ call'[c].item = call[c].item
          /\ call'[c].due = Own(c) \cup Due
      BY <1>1, <3>1 DEF Calls
    <3> QED
      BY <1>6, <2>1, <3>2
  <2>2. CASE ~call[c].ends
    <3>1. call'[c] = Idle
      BY <1>6, <2>2, CallAfter
    <3> QED
      BY <1>2, <3>1
  <2> QED
    BY <2>1, <2>2
<1>7. CASE BuildReport(c)
  <2>1. call'[c] = [call[c] EXCEPT !.pc = "save",
                      !.report = [id |-> meeting.id, active |-> meeting.active,
                                  ended |-> meeting.ended, items |-> meeting.items,
                                  changes |-> ChangesSince]]
    BY <1>7, CallAfter
  <2>2. /\ call'[c].pc = "save" /\ call'[c].item = call[c].item /\ call'[c].due = call[c].due
        /\ call'[c].report.id = meeting.id /\ call'[c].report.items = meeting.items
        /\ call'[c].report.changes = ChangesSince
    BY <1>1, <2>1 DEF Calls
  <2> QED
    BY <1>7, <2>2
<1>8. CASE SaveMeetingReport(c) \/ SaveFails(c)
  <2>1. call'[c] = Idle
    BY <1>8, CallAfter
  <2> QED
    BY <1>2, <2>1
<1>9. CASE Setup(c)
  <2>1. call'[c] = [call[c] EXCEPT !.pc = "tell_switch"]
    BY <1>9, CallAfter
  <2>2. call'[c].pc = "tell_switch"
    BY <1>1, <2>1 DEF Calls
  <2> QED
    BY <1>9, <2>2
<1>10. CASE HostLeaves(c)
  <2>1. call'[c] = [call[c] EXCEPT !.pc = "tell_end"]
    BY <1>10, CallAfter
  <2>2. call'[c].pc = "tell_end"
    BY <1>1, <2>1 DEF Calls
  <2> QED
    BY <1>10, <2>2
<1> QED
  BY <1>3, <1>4, <1>5, <1>6, <1>7, <1>8, <1>9, <1>10 DEF CallStep

LEMMA LogsStep ==
    ASSUME TypesOK, KeepInv, GivenIds = {}, NEW c \in Callers, CallStep(c)
    PROVE  Logs'
<1>1. /\ \A i, s : Logged(history, i, s) => Logged(history', i, s)
      /\ \A i \in 1 .. items : wrote'[i] = wrote[i]
      /\ answered \subseteq 1 .. items
      /\ \A d \in Callers : Own(d) \subseteq 1 .. items
  BY LogGrows, WrittenStays DEF TypesOK, Counters, CallsTyped, Own, NoItem
<1>2. /\ \A i \in answered : Logged(history', i, wrote'[i])
      /\ \A d \in Callers : call[d].pc \in {"board", "save"} =>
           \A i \in Own(d) : Logged(history', i, wrote'[i])
  BY <1>1 DEF KeepInv, Logs
<1>3. RecordMutation(c) => \A i \in Own(c) : Logged(history', i, wrote'[i])
  <2>1. ASSUME RecordMutation(c), NEW i \in Own(c)
        PROVE  Logged(history', i, wrote'[i])
    <3>1. <<i, clock>> \in history'
      BY <2>1 DEF RecordMutation
    <3>2. wrote'[i] <= clock /\ clock \in Nat
      BY <1>1, WrittenStays DEF KeepInv, Stamps
    <3> QED
      BY <3>1, <3>2 DEF Logged
  <2> QED
    BY <2>1
<1>4. answered' \subseteq answered \/ (/\ answered' \subseteq answered \cup Own(c)
                                       /\ RecordMutation(c) \/ call[c].pc = "save")
  BY DEF CallStep, StartMeeting, SwitchMeetingType, RegisterParticipant,
     RecordParticipantUpdate, RecordMeetingMemory, NextSpeaker, EndMeeting, RecordMutation,
     BuildReport, SaveMeetingReport, SaveFails, Setup, HostLeaves, storeVars
<1>5. \A i \in answered' : Logged(history', i, wrote'[i])
  BY <1>2, <1>3, <1>4
<1>6. ASSUME NEW d \in Callers, call'[d].pc \in {"board", "save"}, NEW i \in Own(d)'
      PROVE  Logged(history', i, wrote'[i])
  <2>1. CASE d # c
    <3>1. call'[d] = call[d]
      BY <2>1, CallAfter
    <3>2. i \in Own(d) /\ call[d].pc \in {"board", "save"}
      BY <1>6, <3>1 DEF Own
    <3> QED
      BY <1>2, <3>2
  <2>2. CASE d = c
    <3>1. \/ RecordMutation(c) /\ call'[c].item = call[c].item
          \/ call[c].pc = "board" /\ call'[c].item = call[c].item
      <4>1. BuildReport(c) => call[c].pc = "board"
        BY DEF BuildReport
      <4> QED
        BY <1>6, <2>2, <4>1, PcAfter
    <3>2. i \in Own(c)
      BY <1>6, <2>2, <3>1 DEF Own
    <3> QED
      BY <1>2, <1>3, <3>1, <3>2
  <2> QED
    BY <2>1, <2>2
<1> QED
  BY <1>5, <1>6 DEF Logs

LEMMA PromisesStep ==
    ASSUME TypesOK, KeepInv, GivenIds = {}, NEW c \in Callers, CallStep(c)
    PROVE  PromisesKept'
<1>1. /\ \A p \in promised :
           /\ \A i \in p[2] : Logged(history', i, p[1])
           /\ p[2] \subseteq reports[p[1]].items \cap reports[p[1]].changes
           /\ p[1] = meeting.id => p[2] \subseteq meeting.items
           /\ p[1] = saved.id => p[2] \subseteq saved.items
           /\ p[1] \in MeetingIds /\ p[1] <= clock
      /\ call[c].pc = "tell_switch" => \A p \in promised : p[1] < clock
  BY LogGrows DEF KeepInv, PromisesKept, Stamps, Ending, TypesOK, BoardTyped
<1>2. /\ clock \in Nat /\ clock' \in Nat /\ clock <= clock' /\ MeetingIds \subseteq Int
  BY WrittenStays, GivenAssumption DEF MeetingIds
<1>3. CASE reports' = reports /\ promised' = promised
  <2>1. ASSUME NEW p \in promised, p[1] = meeting'.id
        PROVE  p[2] \subseteq meeting'.items
    <3>1. CASE GoesOn
      BY <1>1, <2>1, <3>1 DEF GoesOn
    <3>2. CASE Opens(c)
      <4>1. /\ p[1] = clock' /\ p[1] \in Int
            /\ call[c].pc = "tell_switch" \/ clock' = clock + 1
        BY <1>1, <1>2, <2>1, <3>2 DEF Opens
      <4>2. p[1] < clock \/ (p[1] <= clock /\ clock' = clock + 1)
        BY <1>1, <4>1
      <4>3. FALSE
        BY <1>2, <4>1, <4>2
      <4> QED
        BY <4>3
    <3> QED
      BY <3>1, <3>2, GoesOnOrOpens DEF KeepInv
  <2>2. ASSUME NEW p \in promised, p[1] = saved'.id
        PROVE  p[2] \subseteq saved'.items
    BY <1>1, <2>2, SavesAfter
  <2> QED
    BY <1>1, <1>3, <2>1, <2>2 DEF PromisesKept
<1>4. CASE ~(reports' = reports /\ promised' = promised)
  <2> DEFINE r == call[c].report
  <2>1. /\ meeting' = meeting /\ saved' = saved
        /\ r.id \in MeetingIds /\ call[c].pc = "save"
        /\ reports'[r.id] = r
        /\ \A m \in MeetingIds : m # r.id => reports'[m] = reports[m]
        /\ promised' = promised \cup {<<r.id, call[c].due>>}
    BY <1>4, SavesAfter
  <2>2. /\ r.id = meeting.id
        /\ call[c].due \subseteq r.items \cap r.changes
        /\ \A p \in promised : p[1] = r.id => p[2] \subseteq r.items \cap r.changes
        /\ call[c].due \subseteq meeting.items \cap saved.items
        /\ \A i \in call[c].due : Logged(history', i, meeting.id)
    BY <2>1, LogGrows DEF KeepInv, Ending, Built
  <2> HIDE DEF r
  <2>3. ASSUME NEW p \in promised
        PROVE  p[2] \subseteq reports'[p[1]].items \cap reports'[p[1]].changes
    BY <1>1, <2>1, <2>2
  <2>4. ASSUME NEW p \in promised', p \notin promised
        PROVE  /\ p[1] = r.id /\ p[2] = call[c].due
               /\ p[2] \subseteq reports'[p[1]].items \cap reports'[p[1]].changes
    BY <2>1, <2>2, <2>4
  <2> QED
    BY <1>1, <2>1, <2>2, <2>3, <2>4 DEF PromisesKept
<1> QED
  BY <1>3, <1>4

\* The call of another caller is not disturbed.
LEMMA EndingOthers ==
    ASSUME TypesOK, KeepInv, GivenIds = {}, OneChair, NEW c \in Callers, CallStep(c),
           NEW d \in Callers, d # c
    PROVE  Ending(d)'
<1>1. call'[d] = call[d] /\ Own(d)' = Own(d) /\ Ending(d)
  BY CallAfter DEF Own, KeepInv
<1>2. /\ \A i \in 1 .. items : wrote'[i] = wrote[i]
      /\ clock \in Nat /\ clock' \in Nat /\ clock <= clock'
      /\ \A i, s : Logged(history, i, s) => Logged(history', i, s)
      /\ Own(d) \subseteq 1 .. items
      /\ OfMeeting(wrote, call[d].report.items, call[d].report.id)
           => OfMeeting(wrote', call[d].report.items, call[d].report.id)
  BY LogGrows, WrittenStays, StaysOfMeeting DEF TypesOK, CallsTyped, Own, NoItem
<1>3. call[d].pc \in {"board", "save", "tell_switch", "tell_end"} => d \in Chairs
  BY <1>1 DEF Ending
<1>4. ASSUME d \in Chairs
      PROVE  /\ meeting'.id = meeting.id /\ meeting.items \subseteq meeting'.items
             /\ promised' = promised
             /\ saved' = saved \/ saved' = meeting
  <2>1. c \notin Chairs
    BY <1>4 DEF OneChair
  <2>2. ~Opens(c)
    BY <2>1 DEF Opens
  <2>3. meeting'.id = meeting.id /\ meeting.items \subseteq meeting'.items
    BY <2>2, GoesOnOrOpens DEF GoesOn, KeepInv
  <2>4. ~SaveMeetingReport(c)
    BY <2>1 DEF SaveMeetingReport, KeepInv, Ending
  <2> QED
    BY <2>3, <2>4, SavesAfter
<1>5. ASSUME call[d].pc = "record", call[d].ends
      PROVE  /\ d \in Chairs
             /\ Own(d) \subseteq meeting'.items
             /\ \A i \in Own(d) : wrote'[i] = meeting'.id
  <2>1. d \in Chairs /\ Own(d) \subseteq meeting.items /\ \A i \in Own(d) : wrote[i] = meeting.id
    BY <1>1, <1>5 DEF Ending
  <2> QED
    BY <1>2, <1>4, <2>1
<1>6. ASSUME call[d].pc = "tell_switch"
      PROVE  \A p \in promised' : p[1] < clock'
  <2>1. promised' = promised /\ \A p \in promised : p[1] < clock
    BY <1>1, <1>3, <1>4, <1>6 DEF Ending
  <2>2. \A p \in promised : p[1] \in Int
    BY GivenAssumption DEF TypesOK, BoardTyped, MeetingIds
  <2> QED
    BY <1>2, <2>1, <2>2
<1>7. ASSUME call[d].pc \in {"board", "save"}
      PROVE  /\ call[d].due \subseteq meeting'.items \cap saved'.items
             /\ \A i \in call[d].due : Logged(history', i, meeting'.id)
  BY <1>1, <1>2, <1>3, <1>4, <1>7 DEF Ending
<1>8. ASSUME call[d].pc = "save"
      PROVE  Built(d)'
  BY <1>1, <1>2, <1>3, <1>4, <1>8 DEF Ending, Built
<1> QED
  BY <1>1, <1>3, <1>5, <1>6, <1>7, <1>8 DEF Ending

\* The call of the caller that takes the step.
LEMMA EndingOwn ==
    ASSUME TypesOK, KeepInv, GivenIds = {}, NEW c \in Callers, CallStep(c)
    PROVE  Ending(c)'
<1>1. Ending(c)
  BY DEF KeepInv
<1>2. ASSUME call'[c].pc = "tell_switch"
      PROVE  c \in Chairs /\ \A p \in promised' : p[1] < clock'
  <2>1. c \in Chairs /\ clock' = clock + 1 /\ promised' = promised
    BY <1>2, PcAfter DEF Setup, storeVars
  <2>2. \A p \in promised : p[1] \in Int /\ p[1] <= clock
    BY GivenAssumption DEF TypesOK, BoardTyped, MeetingIds, KeepInv, Stamps
  <2>3. clock \in Nat
    BY WrittenStays
  <2> QED
    BY <2>1, <2>2, <2>3
<1>3. ASSUME call'[c].pc = "tell_end"
      PROVE  c \in Chairs
  BY <1>3, PcAfter DEF HostLeaves
<1>4. ASSUME call'[c].pc = "record", call'[c].ends
      PROVE  /\ c \in Chairs
             /\ Own(c)' \subseteq meeting'.items
             /\ \A i \in Own(c)' : wrote'[i] = meeting'.id
  <2>1. /\ EndMeeting(c)
        /\ \/ call'[c].item = items + 1 /\ items' = items + 1
           \/ call'[c].item = NoItem
    BY <1>4, PcAfter
  <2>2. c \in Chairs /\ meeting \in Meetings
    BY <2>1 DEF EndMeeting, TypesOK, BoardTyped
  <2>3. items \in Nat /\ (items' = items + 1 => wrote'[items + 1] = meeting.id)
    BY WrittenStays
  <2>4. items' = items + 1 => meeting'.id = meeting.id /\ items + 1 \in meeting'.items
    <3>1. \/ meeting' = [meeting EXCEPT !.items = @ \cup {items + 1}, !.active = FALSE, !.ended = TRUE]
          \/ items' = items
      BY <2>1 DEF EndMeeting
    <3>2. items' = items + 1 => items' # items
      BY <2>3
    <3>3. CASE meeting' = [meeting EXCEPT !.items = @ \cup {items + 1}, !.active = FALSE, !.ended = TRUE]
      <4>1. meeting'.id = meeting.id /\ meeting'.items = meeting.items \cup {items + 1}
        BY <2>2, <3>3 DEF Meetings
      <4> QED
        BY <4>1
    <3> QED
      BY <3>1, <3>2, <3>3
  <2> QED
    BY <2>1, <2>2, <2>3, <2>4 DEF Own
<1>5. ASSUME call'[c].pc = "board"
      PROVE  /\ c \in Chairs
             /\ call'[c].due \subseteq meeting'.items \cap saved'.items
             /\ \A i \in call'[c].due : Logged(history', i, meeting'.id)
  <2>1. /\ RecordMutation(c) /\ call[c].pc = "record" /\ call[c].ends
        /\ call'[c].due = Own(c) \cup Due /\ meeting' = meeting /\ saved' = meeting
        /\ history' = history \cup (Own(c) \X {clock})
    BY <1>5, PcAfter DEF RecordMutation
  <2>2. c \in Chairs /\ Own(c) \subseteq meeting.items
    BY <1>1, <2>1 DEF Ending
  <2>3. Due \subseteq meeting.items /\ \A i \in Due : Logged(history', i, meeting.id)
    BY LogGrows DEF Due, KeepInv, Logs
  <2>4. \A i \in Own(c) : Logged(history', i, meeting.id)
    <3>1. clock \in Nat /\ meeting.id <= clock
      BY WrittenStays DEF KeepInv, Stamps
    <3> QED
      BY <2>1, <3>1 DEF Logged
  <2> QED
    BY <2>1, <2>2, <2>3, <2>4
<1>6. ASSUME call'[c].pc = "save"
      PROVE  /\ c \in Chairs
             /\ call'[c].due \subseteq meeting'.items \cap saved'.items
             /\ \A i \in call'[c].due : Logged(history', i, meeting'.id)
             /\ Built(c)'
  <2>1. /\ call[c].pc = "board" /\ call'[c].due = call[c].due
        /\ call'[c].report.id = meeting.id /\ call'[c].report.items = meeting.items
        /\ call'[c].report.changes = ChangesSince
        /\ meeting' = meeting /\ saved' = saved /\ history' = history
        /\ wrote' = wrote /\ promised' = promised
    BY <1>6, PcAfter DEF BuildReport, storeVars
  <2>2. /\ c \in Chairs
        /\ call[c].due \subseteq meeting.items \cap saved.items
        /\ \A i \in call[c].due : Logged(history, i, meeting.id)
    BY <1>1, <2>1 DEF Ending
  <2>3. ASSUME NEW i \in meeting.items, Logged(history, i, meeting.id)
        PROVE  i \in ChangesSince
    <3>1. PICK t \in Nat : meeting.id <= t /\ <<i, t>> \in history
      BY <2>3 DEF Logged
    <3>2. t \in 0 .. clock /\ i \in Items
      BY <2>3, <3>1 DEF TypesOK, Counters, BoardTyped, Meetings
    <3>3. meeting.started = meeting.id /\ clock \in Nat /\ meeting.started \in Nat
      BY WrittenStays DEF KeepInv, Stamps, TypesOK, BoardTyped, Meetings
    <3>4. t \in meeting.started .. clock
      BY <3>1, <3>2, <3>3
    <3> QED
      BY <3>1, <3>2, <3>4 DEF ChangesSince
  <2>4. \A p \in promised : p[1] = meeting.id => p[2] \subseteq meeting.items \cap ChangesSince
    BY <2>3 DEF KeepInv, PromisesKept
  <2>5. call[c].due \subseteq meeting.items \cap ChangesSince
    BY <2>2, <2>3
  <2>6. OfMeeting(wrote, meeting.items, meeting.id)
    BY DEF KeepInv, Belongs
  <2>7. Built(c)'
    BY <2>1, <2>4, <2>5, <2>6 DEF Built
  <2> QED
    BY <2>1, <2>2, <2>7
<1> QED
  BY <1>2, <1>3, <1>4, <1>5, <1>6 DEF Ending

LEMMA KeepInit == Init => KeepInv
<1> SUFFICES ASSUME Init
             PROVE  KeepInv
  OBVIOUS
<1>1. /\ meeting = FirstMeeting /\ saved = FirstMeeting /\ clock = 0 /\ items = 0
      /\ answered = {} /\ promised = {}
      /\ \A m \in MeetingIds : reports[m] = NoReport
      /\ \A c \in Callers : call[c] = Idle
  BY DEF Init
<1>2. /\ FirstMeeting.id = NoMeeting /\ FirstMeeting.started = NoMeeting /\ NoMeeting = 0
      /\ FirstMeeting.items = {} /\ NoReport.items = {} /\ Idle.pc = "idle"
  BY DEF FirstMeeting, NoReport, Idle, NoMeeting
<1>3. Stamps
  BY <1>1, <1>2 DEF Stamps
<1>4. Belongs
  BY <1>1, <1>2 DEF Belongs, OfMeeting
<1>5. Logs /\ PromisesKept /\ \A c \in Callers : Ending(c)
  BY <1>1, <1>2 DEF Logs, PromisesKept, Ending
<1> QED
  BY <1>3, <1>4, <1>5 DEF KeepInv

\* A restart goes on from the saved board, with no call under way.
LEMMA KeepRestart ==
    ASSUME KeepInv, Restart
    PROVE  KeepInv'
<1>1. /\ meeting' = saved /\ saved' = saved /\ clock' = clock /\ items' = items
      /\ wrote' = wrote /\ history' = history /\ answered' = answered
      /\ promised' = promised /\ reports' = reports
      /\ \A c \in Callers : call'[c] = Idle
  BY DEF Restart, storeVars
<1>2. \A c \in Callers : call'[c].pc = "idle"
  BY <1>1 DEF Idle
<1>3. Stamps'
  BY <1>1 DEF KeepInv, Stamps
<1>4. Belongs'
  BY <1>1 DEF KeepInv, Belongs
<1>5. Logs'
  BY <1>1, <1>2 DEF KeepInv, Logs
<1>6. PromisesKept'
  BY <1>1 DEF KeepInv, PromisesKept
<1>7. \A c \in Callers : Ending(c)'
  BY <1>2 DEF Ending
<1> QED
  BY <1>3, <1>4, <1>5, <1>6, <1>7 DEF KeepInv

LEMMA KeepNext ==
    ASSUME GivenIds = {}, OneChair, TypesOK, KeepInv, [Next]_vars
    PROVE  KeepInv'
<1>1. ASSUME NEW c \in Callers, CallStep(c)
      PROVE  KeepInv'
  <2>1. \A d \in Callers : Ending(d)'
    BY <1>1, EndingOthers, EndingOwn
  <2> QED
    BY <1>1, <2>1, StampsStep, BelongsStep, LogsStep, PromisesStep DEF KeepInv
<1>2. CASE Restart
  BY <1>2, KeepRestart
<1>3. CASE UNCHANGED vars
  BY <1>3 DEF vars, KeepInv, Stamps, Belongs, Logs, PromisesKept, Ending, Built, Own
<1> QED
  BY <1>1, <1>2, <1>3, NextSteps

\* While one chair starts, switches and ends the meetings, and none is given
\* an id, the archived report of a meeting keeps all that had been answered
\* when an answered end_meeting ended it, as item and as change, however often
\* it is ended again and after restarts and failing writes, and has nothing of
\* another meeting.  With two chairs, or with ids that callers give, it may
\* not: MeetingRecordTwoChairs.cfg and MeetingRecordSameId.cfg.
THEOREM ReportsKeep ==
    ASSUME GivenIds = {}, OneChair
    PROVE  Spec => []ReportKeepsTheMeeting
<1>1. KeepInv => ReportKeepsTheMeeting
  BY DEF KeepInv, PromisesKept, Belongs, OfMeeting, ReportKeepsTheMeeting
<1>2. TypesOK /\ KeepInv /\ [Next]_vars => KeepInv'
  BY KeepNext
<1> QED
  BY <1>1, <1>2, KeepInit, TypesInvariant, PTL DEF Spec

-----------------------------------------------------------------------------
(* Who has spoken.                                                         *)

\* An id and a name tell one person from another, and no list names one twice.
NamesTell ==
    /\ \A p, r \in Persons : p.id # NoId /\ p.id = r.id => p.name = r.name
    /\ \A list \in Lists : \A i, j \in DOMAIN list : list[i].name = list[j].name => i = j

\* An entry has no id, or one of somebody of this name.
Known(q) == q.id # NoId => \E r \in Persons : r.id = q.id /\ r.name = q.name

\* Nobody is listed twice.
Distinct(ps) ==
    /\ \A i, j \in 1 .. Len(ps) : ps[i].name = ps[j].name => i = j
    /\ \A i \in 1 .. Len(ps) : Known(ps[i])

\* Who has spoken is who gave an update.
Agrees(ps, updates) ==
    /\ Distinct(ps)
    /\ \A i \in 1 .. Len(ps) : ps[i].spoken <=> \E p \in updates : p.name = ps[i].name
    /\ \A p \in updates : \E i \in 1 .. Len(ps) : ps[i].name = p.name

SpokenInv == Agrees(meeting.participants, meeting.updates) /\ Agrees(saved.participants, saved.updates)

LEMMA SameByName ==
    ASSUME NamesTell, NEW q, Known(q), NEW p \in Persons
    PROVE  Same(q, p.id, p.name) <=> q.name = p.name
BY PersonsAssumption DEF Same, NamesTell, Known

\* The entry of a person in a list: where upsert and markSpoken put it.
LEMMA EntryOf ==
    ASSUME NamesTell, NEW ps \in Seq(Participants), Distinct(ps), NEW p \in Persons,
           NEW i, i = IndexOf(ps, p.id, p.name)
    PROVE  /\ Len(ps) \in Nat /\ i \in 1 .. Len(ps) + 1
           /\ i # Len(ps) + 1 => ps[i].name = p.name
           /\ i = Len(ps) + 1 => \A j \in 1 .. Len(ps) : ps[j].name # p.name
<1>1. Len(ps) \in Nat
  BY LenProperties
<1>2. /\ i \in 1 .. Len(ps) + 1
      /\ i <= Len(ps) => Same(ps[i], p.id, p.name)
      /\ \A j \in 1 .. i - 1 : ~Same(ps[j], p.id, p.name)
  BY <1>1, IndexFound
<1>3. \A j \in 1 .. Len(ps) : Same(ps[j], p.id, p.name) <=> ps[j].name = p.name
  BY SameByName DEF Distinct
<1> QED
  BY <1>1, <1>2, <1>3

\* What becomes of a list when one person's entry is set, with this mark.
Sets(l, ps, p, k) ==
    /\ l[k].name = p.name
    /\ \/ k = Len(ps) + 1 /\ Len(l) = k
       \/ k \in 1 .. Len(ps) /\ Len(l) = Len(ps) /\ ps[k].name = p.name
    /\ \A j \in 1 .. Len(ps) : j # k => l[j] = ps[j] /\ ps[j].name # p.name

LEMMA SetsDistinct ==
    ASSUME NEW ps \in Seq(Participants), Distinct(ps), NEW l, NEW p, NEW k,
           Sets(l, ps, p, k), Known(l[k])
    PROVE  Distinct(l) /\ k \in 1 .. Len(l) /\ 1 .. Len(l) = (1 .. Len(ps)) \cup {k}
<1>1. Len(ps) \in Nat
  BY LenProperties
<1>2. k \in 1 .. Len(l) /\ 1 .. Len(l) = (1 .. Len(ps)) \cup {k}
  BY <1>1 DEF Sets
<1>3. \A i \in 1 .. Len(l) : Known(l[i])
  BY <1>2 DEF Sets, Distinct
<1>4. ASSUME NEW i \in 1 .. Len(l), NEW j \in 1 .. Len(l), l[i].name = l[j].name
      PROVE  i = j
  BY <1>2, <1>4 DEF Sets, Distinct
<1> QED
  BY <1>2, <1>3, <1>4 DEF Distinct

LEMMA UpsertSets ==
    ASSUME NamesTell, NEW ps \in Seq(Participants), Distinct(ps), NEW p \in Persons,
           NEW spoken \in BOOLEAN, NEW l, l = upsert(ps, p, spoken)
    PROVE  /\ l \in Seq(Participants) /\ Distinct(l)
           /\ \E k \in 1 .. Len(l) :
                /\ Sets(l, ps, p, k)
                /\ l[k].spoken <=> spoken \/ (k \in 1 .. Len(ps) /\ ps[k].spoken)
<1> DEFINE k == IndexOf(ps, p.id, p.name)
<1>1. /\ l \in Seq(Participants) /\ Len(ps) \in Nat /\ k \in 1 .. Len(ps) + 1
      /\ k = Len(ps) + 1 =>
            /\ Len(l) = Len(ps) + 1
            /\ l[k] = [id |-> p.id, name |-> p.name, spoken |-> spoken]
            /\ \A j \in 1 .. Len(ps) : l[j] = ps[j]
      /\ k # Len(ps) + 1 =>
            /\ Len(l) = Len(ps)
            /\ l[k] = [id |-> IF p.id # NoId THEN p.id ELSE ps[k].id,
                       name |-> ps[k].name, spoken |-> ps[k].spoken \/ spoken]
            /\ \A j \in 1 .. Len(ps) : j # k => l[j] = ps[j]
  BY Upserts
<1>2. /\ k # Len(ps) + 1 => ps[k].name = p.name
      /\ k = Len(ps) + 1 => \A j \in 1 .. Len(ps) : ps[j].name # p.name
  BY EntryOf
<1> HIDE DEF k
<1>3. Sets(l, ps, p, k) /\ Known(l[k])
  <2>1. CASE k = Len(ps) + 1
    BY <1>1, <1>2, <2>1 DEF Sets, Known
  <2>2. CASE k # Len(ps) + 1
    <3>1. k \in 1 .. Len(ps) /\ l[k].name = p.name /\ ps[k].name = p.name
          /\ l[k].id = (IF p.id # NoId THEN p.id ELSE ps[k].id)
      BY <1>1, <1>2, <2>2
    <3>2. Known(l[k])
      BY <3>1 DEF Known, Distinct
    <3>3. \A j \in 1 .. Len(ps) : j # k => ps[j].name # p.name
      BY <3>1 DEF Distinct
    <3> QED
      BY <1>1, <2>2, <3>1, <3>2, <3>3 DEF Sets
  <2> QED
    BY <2>1, <2>2
<1>4. Distinct(l) /\ k \in 1 .. Len(l)
  BY <1>3, SetsDistinct
<1>5. l[k].spoken <=> spoken \/ (k \in 1 .. Len(ps) /\ ps[k].spoken)
  <2>1. CASE k = Len(ps) + 1
    BY <1>1, <2>1
  <2>2. CASE k # Len(ps) + 1
    <3>1. k \in 1 .. Len(ps)
      BY <1>1, <2>2
    <3> DEFINE b == ps[k].spoken \/ spoken
    <3>2. l[k].spoken <=> b
      <4>1. l[k] = [id |-> IF p.id # NoId THEN p.id ELSE ps[k].id, name |-> ps[k].name, spoken |-> b]
        BY <1>1, <2>2
      <4> HIDE DEF b
      <4> QED
        BY <4>1
    <3> QED
      BY <3>1, <3>2
  <2> QED
    BY <2>1, <2>2
<1> QED
  BY <1>1, <1>3, <1>4, <1>5

LEMMA MarkSets ==
    ASSUME NamesTell, NEW ps \in Seq(Participants), Distinct(ps), NEW p \in Persons,
           NEW l, l = markSpoken(ps, p)
    PROVE  \E k \in 1 .. Len(l) : Sets(l, ps, p, k) /\ Distinct(l) /\ l[k].spoken
<1> DEFINE k == IndexOf(ps, p.id, p.name)
<1>1. /\ Len(ps) \in Nat /\ k \in 1 .. Len(ps) + 1
      /\ k = Len(ps) + 1 =>
            /\ Len(l) = Len(ps) + 1
            /\ l[k] = [id |-> p.id, name |-> p.name, spoken |-> TRUE]
            /\ \A j \in 1 .. Len(ps) : l[j] = ps[j]
      /\ k # Len(ps) + 1 =>
            /\ Len(l) = Len(ps)
            /\ l[k] = [id |-> IF p.id # NoId THEN p.id ELSE ps[k].id,
                       name |-> p.name, spoken |-> TRUE]
            /\ \A j \in 1 .. Len(ps) : j # k => l[j] = ps[j]
  BY MarksSpoken
<1>2. /\ k # Len(ps) + 1 => ps[k].name = p.name
      /\ k = Len(ps) + 1 => \A j \in 1 .. Len(ps) : ps[j].name # p.name
  BY EntryOf
<1> HIDE DEF k
<1>3. Sets(l, ps, p, k) /\ Known(l[k]) /\ l[k].spoken
  <2>1. CASE k = Len(ps) + 1
    BY <1>1, <1>2, <2>1 DEF Sets, Known
  <2>2. CASE k # Len(ps) + 1
    <3>1. k \in 1 .. Len(ps) /\ l[k].name = p.name /\ ps[k].name = p.name
          /\ l[k].id = (IF p.id # NoId THEN p.id ELSE ps[k].id) /\ l[k].spoken
      BY <1>1, <1>2, <2>2
    <3>2. Known(l[k])
      BY <3>1 DEF Known, Distinct
    <3>3. \A j \in 1 .. Len(ps) : j # k => ps[j].name # p.name
      BY <3>1 DEF Distinct
    <3> QED
      BY <1>1, <2>2, <3>1, <3>2, <3>3 DEF Sets
  <2> QED
    BY <2>1, <2>2
<1> QED
  BY <1>3, SetsDistinct

\* A registration leaves who has spoken as it is.
LEMMA RegisterAgrees ==
    ASSUME NamesTell, NEW ps \in Seq(Participants), NEW updates \in SUBSET Persons,
           Agrees(ps, updates), NEW p \in Persons
    PROVE  Agrees(upsert(ps, p, FALSE), updates)
<1> DEFINE l == upsert(ps, p, FALSE)
<1>1. Distinct(ps)
  BY DEF Agrees
<1>2. /\ Distinct(l)
      /\ \E k \in 1 .. Len(l) :
           /\ Sets(l, ps, p, k)
           /\ l[k].spoken <=> FALSE \/ (k \in 1 .. Len(ps) /\ ps[k].spoken)
  BY <1>1, UpsertSets
<1> HIDE DEF l
<1>3. PICK k \in 1 .. Len(l) :
        /\ Sets(l, ps, p, k)
        /\ l[k].spoken <=> (k \in 1 .. Len(ps) /\ ps[k].spoken)
  BY <1>2
<1>4. /\ Len(ps) \in Nat /\ 1 .. Len(l) = (1 .. Len(ps)) \cup {k}
      /\ \A j \in 1 .. Len(ps) : l[j].name = ps[j].name
  BY <1>3, LenProperties DEF Sets
<1>5. ASSUME NEW i \in 1 .. Len(l)
      PROVE  l[i].spoken <=> \E r \in updates : r.name = l[i].name
  <2>1. CASE i \in 1 .. Len(ps)
    <3>1. l[i].name = ps[i].name /\ (l[i].spoken <=> ps[i].spoken)
      BY <1>3, <1>4, <2>1 DEF Sets
    <3> QED
      BY <2>1, <3>1 DEF Agrees
  <2>2. CASE i \notin 1 .. Len(ps)
    <3>1. i = k /\ ~l[i].spoken /\ l[i].name = p.name
      BY <1>3, <1>4, <2>2 DEF Sets
    <3>2. \A j \in 1 .. Len(ps) : ps[j].name # p.name
      BY <1>3, <2>2, <3>1 DEF Sets
    <3> QED
      BY <3>1, <3>2 DEF Agrees
  <2> QED
    BY <2>1, <2>2
<1>6. \A r \in updates : \E i \in 1 .. Len(l) : l[i].name = r.name
  BY <1>4 DEF Agrees
<1>7. Agrees(l, updates)
  BY <1>2, <1>5, <1>6 DEF Agrees
<1> QED
  BY <1>7 DEF l

\* An update marks its participant, and nobody else.
LEMMA UpdateAgrees ==
    ASSUME NamesTell, NEW ps \in Seq(Participants), NEW updates \in SUBSET Persons,
           Agrees(ps, updates), NEW p \in Persons
    PROVE  Agrees(markSpoken(upsert(ps, p, TRUE), p), updates \cup {p})
<1> DEFINE l == upsert(ps, p, TRUE)
           m == markSpoken(l, p)
<1>1. Distinct(ps)
  BY DEF Agrees
<1>2. /\ l \in Seq(Participants) /\ Distinct(l)
      /\ \E k \in 1 .. Len(l) : Sets(l, ps, p, k)
  BY <1>1, UpsertSets
<1>3. \E k \in 1 .. Len(m) : Sets(m, l, p, k) /\ Distinct(m) /\ m[k].spoken
  <2> HIDE DEF l
  <2> QED
    BY <1>2, MarkSets
<1> HIDE DEF l, m
<1>4. PICK h \in 1 .. Len(l) : Sets(l, ps, p, h)
  BY <1>2
<1>5. PICK k \in 1 .. Len(m) : Sets(m, l, p, k) /\ Distinct(m) /\ m[k].spoken
  BY <1>3
<1>6. Len(ps) \in Nat /\ Len(l) \in Nat
  BY <1>2, LenProperties
<1>7. /\ 1 .. Len(l) = (1 .. Len(ps)) \cup {h} /\ l[h].name = p.name
      /\ \A j \in 1 .. Len(ps) : j # h => l[j] = ps[j] /\ ps[j].name # p.name
  BY <1>4, <1>6 DEF Sets
<1>8. h = k /\ Len(m) = Len(l)
  BY <1>5, <1>6, <1>7 DEF Sets
<1>9. /\ 1 .. Len(m) = (1 .. Len(ps)) \cup {k} /\ m[k].name = p.name /\ m[k].spoken
      /\ \A j \in 1 .. Len(ps) : j # k => m[j] = ps[j] /\ ps[j].name # p.name
  BY <1>5, <1>7, <1>8 DEF Sets
<1>10. k \in 1 .. Len(ps) => ps[k].name = p.name
  BY <1>4, <1>6, <1>8 DEF Sets
<1>11. ASSUME NEW i \in 1 .. Len(m)
       PROVE  m[i].spoken <=> \E r \in updates \cup {p} : r.name = m[i].name
  <2>1. CASE i = k
    BY <1>9, <2>1
  <2>2. CASE i # k
    <3>1. i \in 1 .. Len(ps) /\ m[i] = ps[i] /\ ps[i].name # p.name
      BY <1>9, <2>2
    <3>2. ps[i].spoken <=> \E r \in updates : r.name = ps[i].name
      BY <3>1 DEF Agrees
    <3> QED
      BY <3>1, <3>2
  <2> QED
    BY <2>1, <2>2
<1>12. ASSUME NEW r \in updates \cup {p}
       PROVE  \E i \in 1 .. Len(m) : m[i].name = r.name
  <2>1. CASE r.name = p.name
    BY <1>5, <1>9, <2>1
  <2>2. CASE r.name # p.name
    <3>1. PICK i \in 1 .. Len(ps) : ps[i].name = r.name
      BY <2>2 DEF Agrees
    <3>2. i # k
      BY <1>10, <2>2, <3>1
    <3> QED
      BY <1>9, <3>1, <3>2
  <2> QED
    BY <2>1, <2>2
<1>13. Agrees(m, updates \cup {p})
  BY <1>5, <1>11, <1>12 DEF Agrees
<1> QED
  BY <1>13 DEF l, m

\* Nobody has spoken in a meeting that is started.
LEMMA StartAgrees ==
    ASSUME NamesTell, NEW list \in Lists
    PROVE  Agrees([i \in DOMAIN list |-> Entry(list[i])], {})
<1> DEFINE l == [i \in DOMAIN list |-> Entry(list[i])]
<1>1. list \in Seq(Persons)
  BY PersonsAssumption
<1>2. DOMAIN list = 1 .. Len(list) /\ \A i \in 1 .. Len(list) : list[i] \in Persons
  BY <1>1, LenProperties, ElementOfSeq
<1>3. Len(l) = Len(list)
  BY EntriesTyped
<1>4. \A i \in 1 .. Len(l) : /\ l[i].name = list[i].name /\ l[i].id = list[i].id
                             /\ ~l[i].spoken
  BY <1>2, <1>3 DEF Entry
<1> HIDE DEF l
<1>5. Distinct(l)
  BY <1>2, <1>3, <1>4 DEF Distinct, Known, NamesTell
<1>6. Agrees(l, {})
  BY <1>4, <1>5 DEF Agrees
<1> QED
  BY <1>6 DEF l

LEMMA SpokenInit == Init => SpokenInv
<1> SUFFICES ASSUME Init
             PROVE  SpokenInv
  OBVIOUS
<1>1. Len(<<>>) = 0
  OBVIOUS
<1>2. Agrees(<<>>, {})
  BY <1>1 DEF Agrees, Distinct
<1> QED
  BY <1>2 DEF Init, SpokenInv, FirstMeeting

LEMMA SpokenStep ==
    ASSUME NamesTell, TypesOK, SpokenInv, NEW c \in Callers, CallStep(c)
    PROVE  SpokenInv'
<1>1. /\ meeting \in Meetings /\ Agrees(meeting.participants, meeting.updates)
      /\ Agrees(saved.participants, saved.updates)
      /\ meeting.participants \in Seq(Participants) /\ meeting.updates \in SUBSET Persons
  BY DEF TypesOK, BoardTyped, SpokenInv, Meetings
<1>2. Agrees(meeting'.participants, meeting'.updates)
  <2>1. CASE StartMeeting(c)
    <3>1. PICK list \in Lists : \E m, speaker :
            meeting' = [FirstMeeting EXCEPT
                          !.id = m, !.active = TRUE, !.started = clock + 1,
                          !.participants = [i \in DOMAIN list |-> Entry(list[i])],
                          !.speaker = speaker]
      BY <2>1 DEF StartMeeting
    <3>2. /\ meeting'.participants = [i \in DOMAIN list |-> Entry(list[i])]
          /\ meeting'.updates = {}
      BY <3>1 DEF FirstMeeting
    <3> QED
      BY <3>2, StartAgrees
  <2>2. CASE RegisterParticipant(c)
    <3>1. PICK p \in Persons : \E speaker :
            meeting' = [meeting EXCEPT !.participants = upsert(@, p, FALSE), !.speaker = speaker]
      BY <2>2 DEF RegisterParticipant
    <3>2. /\ meeting'.participants = upsert(meeting.participants, p, FALSE)
          /\ meeting'.updates = meeting.updates
      BY <1>1, <3>1 DEF Meetings
    <3> QED
      BY <1>1, <3>2, RegisterAgrees
  <2>3. CASE RecordParticipantUpdate(c)
    <3>1. PICK p \in Persons :
            meeting' = [meeting EXCEPT
                          !.participants = markSpoken(upsert(@, p, TRUE), p),
                          !.updates = @ \cup {p}, !.speaker = p.name,
                          !.items = @ \cup {items + 1}]
      BY <2>3 DEF RecordParticipantUpdate
    <3>2. /\ meeting'.participants = markSpoken(upsert(meeting.participants, p, TRUE), p)
          /\ meeting'.updates = meeting.updates \cup {p}
      BY <1>1, <3>1 DEF Meetings
    <3> QED
      BY <1>1, <3>2, UpdateAgrees
  <2>4. CASE SwitchMeetingType(c) \/ RecordMeetingMemory(c) \/ NextSpeaker(c) \/ EndMeeting(c)
    <3>1. meeting'.participants = meeting.participants /\ meeting'.updates = meeting.updates
      <4>1. CASE SwitchMeetingType(c)
        BY <1>1, <4>1 DEF SwitchMeetingType, Meetings
      <4>2. CASE RecordMeetingMemory(c)
        BY <1>1, <4>2 DEF RecordMeetingMemory, Meetings
      <4>3. CASE NextSpeaker(c)
        <5>1. PICK speaker : meeting' = [meeting EXCEPT !.speaker = speaker]
          BY <4>3 DEF NextSpeaker
        <5> QED
          BY <1>1, <5>1 DEF Meetings
      <4>4. CASE EndMeeting(c)
        <5>1. \/ meeting' = [meeting EXCEPT !.items = @ \cup {items + 1}, !.active = FALSE, !.ended = TRUE]
              \/ meeting' = [meeting EXCEPT !.active = FALSE, !.ended = TRUE]
          BY <4>4 DEF EndMeeting
        <5> QED
          BY <1>1, <5>1 DEF Meetings
      <4> QED
        BY <2>4, <4>1, <4>2, <4>3, <4>4
    <3> QED
      BY <1>1, <3>1
  <2>5. CASE RecordMutation(c) \/ BuildReport(c) \/ SaveMeetingReport(c) \/ SaveFails(c) \/ Setup(c) \/ HostLeaves(c)
    <3>1. meeting' = meeting
      BY <2>5 DEF RecordMutation, BuildReport, SaveMeetingReport, SaveFails, Setup, HostLeaves
    <3> QED
      BY <1>1, <3>1
  <2> QED
    BY <2>1, <2>2, <2>3, <2>4, <2>5 DEF CallStep
<1>3. Agrees(saved'.participants, saved'.updates)
  BY <1>1, SavesAfter
<1> QED
  BY <1>2, <1>3 DEF SpokenInv

LEMMA SpokenNext ==
    ASSUME NamesTell, TypesOK, SpokenInv, [Next]_vars
    PROVE  SpokenInv'
<1>1. ASSUME NEW c \in Callers, CallStep(c)
      PROVE  SpokenInv'
  BY <1>1, SpokenStep
<1>2. CASE Restart
  BY <1>2 DEF Restart, storeVars, SpokenInv
<1>3. CASE UNCHANGED vars
  BY <1>3 DEF vars, SpokenInv
<1> QED
  BY <1>1, <1>2, <1>3, NextSteps

\* Where an id and a name tell one person from another and no meeting is
\* started with one name twice, whoever counts as having spoken gave an update
\* in this meeting and whoever gave one counts, whatever is registered,
\* switched or restarted in between.  Of two entries of one name only the
\* first is marked.
THEOREM SpokenGaveUpdates ==
    ASSUME NamesTell
    PROVE  Spec => []SpokenHasUpdate
<1>1. TypesOK /\ SpokenInv => SpokenHasUpdate
  <2> SUFFICES ASSUME TypesOK, SpokenInv
               PROVE  SpokenHasUpdate
    OBVIOUS
  <2> DEFINE ps == meeting.participants
  <2>1. /\ ps \in Seq(Participants) /\ meeting.updates \subseteq Persons
        /\ Agrees(ps, meeting.updates)
    BY DEF TypesOK, BoardTyped, Meetings, SpokenInv
  <2>2. Range(ps) = {ps[i] : i \in 1 .. Len(ps)}
    BY <2>1, LenProperties DEF Range
  <2> HIDE DEF ps
  <2>3. \A i \in 1 .. Len(ps) : \A p \in Persons : Same(ps[i], p.id, p.name) <=> ps[i].name = p.name
    BY <2>1, SameByName DEF Agrees, Distinct
  <2>4. ASSUME NEW q \in Range(ps)
        PROVE  q.spoken <=> \E p \in meeting.updates : Same(q, p.id, p.name)
    <3>1. PICK i \in 1 .. Len(ps) : q = ps[i]
      BY <2>2
    <3>2. q.spoken <=> \E p \in meeting.updates : p.name = q.name
      BY <2>1, <3>1 DEF Agrees
    <3> QED
      BY <2>1, <2>3, <3>1, <3>2
  <2>5. ASSUME NEW p \in meeting.updates
        PROVE  \E q \in Range(ps) : Same(q, p.id, p.name)
    BY <2>1, <2>2, <2>3 DEF Agrees
  <2> QED
    BY <2>4, <2>5 DEF SpokenHasUpdate, ps
<1>2. TypesOK /\ SpokenInv /\ [Next]_vars => SpokenInv'
  BY SpokenNext
<1> QED
  BY <1>1, <1>2, SpokenInit, TypesInvariant, PTL DEF Spec

-----------------------------------------------------------------------------
(* Turns.                                                                  *)

\* No id is a name somebody goes by, nor the text that says there is none.
IdsTell == \A p \in Persons : p.id # NoId => p.id # NoName /\ p.id \notin Names

\* How many places after s the place j is, round a ring of n; and the place
\* k after c.
Ahead(s, j, n) == IF j >= s THEN j - s ELSE j - s + n
Place(c, k, n) == IF c + k <= n THEN c + k ELSE c + k - n

LEMMA RemainderIs ==
    ASSUME NEW n \in Nat \ {0}, NEW x \in 0 .. 2 * n - 1
    PROVE  x % n = IF x < n THEN x ELSE x - n
OBVIOUS

LEMMA PlaceInRing ==
    ASSUME NEW n \in Nat \ {0}, NEW c \in 0 .. n, NEW k \in 1 .. n
    PROVE  ((c + k - 1) % n) + 1 = Place(c, k, n) /\ Place(c, k, n) \in 1 .. n
<1> DEFINE x == c + k - 1
<1>1. x \in 0 .. 2 * n - 1
  OBVIOUS
<1>2. x % n = IF x < n THEN x ELSE x - n
  <2> HIDE DEF x
  <2> QED
    BY <1>1, RemainderIs
<1>3. CASE c + k <= n
  BY <1>2, <1>3 DEF Place
<1>4. CASE c + k > n
  BY <1>2, <1>4 DEF Place
<1> QED
  BY <1>3, <1>4

\* Going on from e as far as u is behind it, seen from s, one is at u.
LEMMA PlaceAhead ==
    ASSUME NEW n \in Nat \ {0}, NEW s \in 1 .. n, NEW e \in 1 .. n, NEW u \in 1 .. n,
           Ahead(s, u, n) > Ahead(s, e, n)
    PROVE  /\ Ahead(s, u, n) - Ahead(s, e, n) \in 1 .. n - 1
           /\ Place(e, Ahead(s, u, n) - Ahead(s, e, n), n) = u
BY DEF Place, Ahead

LEMMA AheadOfPlace ==
    ASSUME NEW n \in Nat \ {0}, NEW s \in 1 .. n, NEW e \in 1 .. n, NEW k \in 1 .. n,
           Ahead(s, e, n) + k <= n - 1
    PROVE  Ahead(s, Place(e, k, n), n) = Ahead(s, e, n) + k
BY DEF Place, Ahead

LEMMA AheadTells ==
    ASSUME NEW n \in Nat \ {0}, NEW s \in 1 .. n, NEW i \in 1 .. n, NEW j \in 1 .. n
    PROVE  /\ Ahead(s, i, n) \in 0 .. n - 1
           /\ Ahead(s, i, n) = Ahead(s, j, n) => i = j
           /\ Ahead(s, i, n) <= 0 <=> i = s
BY DEF Ahead

\* Where somebody who has not spoken is behind e, seen from s, the next of them
\* after e is the first there: nobody is between the two.
LEMMA RingGoesOn ==
    ASSUME NEW n \in Nat \ {0}, NEW s \in 1 .. n, NEW e \in 1 .. n, NEW k \in 1 .. n,
           NEW open \in SUBSET (1 .. n), NEW x, x = Place(e, k, n), x \in open,
           \A j \in 1 .. k - 1 : Place(e, j, n) \notin open,
           NEW u \in open, ~(Ahead(s, u, n) <= Ahead(s, e, n))
    PROVE  /\ ~(Ahead(s, x, n) <= Ahead(s, e, n))
           /\ \A i \in open : Ahead(s, i, n) <= Ahead(s, x, n)
                                <=> i = x \/ Ahead(s, i, n) <= Ahead(s, e, n)
<1> DEFINE a(j) == Ahead(s, j, n)
<1>1. \A j \in 1 .. n : a(j) \in 0 .. n - 1
  BY AheadTells
<1>2. \A j \in open : a(j) > a(e) => ~(a(j) - a(e) < k)
  <2> SUFFICES ASSUME NEW j \in open, a(j) > a(e), a(j) - a(e) < k
               PROVE  FALSE
    OBVIOUS
  <2>1. a(j) - a(e) \in 1 .. n - 1 /\ Place(e, a(j) - a(e), n) = j
    BY PlaceAhead
  <2>2. a(j) - a(e) \in 1 .. k - 1
    <3> HIDE DEF a
    <3> QED
      BY <2>1
  <2> QED
    BY <2>1, <2>2
<1>3. a(u) > a(e)
  <2>1. ~(a(u) <= a(e)) /\ a(u) \in 0 .. n - 1 /\ a(e) \in 0 .. n - 1
    BY <1>1
  <2> HIDE DEF a
  <2> QED
    BY <2>1
<1>4. a(e) + k <= n - 1
  <2>1. a(u) \in 0 .. n - 1 /\ a(e) \in 0 .. n - 1 /\ ~(a(u) - a(e) < k)
    BY <1>1, <1>2, <1>3
  <2> HIDE DEF a
  <2> QED
    BY <2>1
<1>5. a(x) = a(e) + k
  BY <1>4, AheadOfPlace
<1>6. \A i \in open : a(i) = a(x) => i = x
  BY AheadTells
<1>7. \A i \in open : a(i) \in 0 .. n - 1
  BY <1>1
<1>8. a(e) \in 0 .. n - 1
  BY <1>1
<1> HIDE DEF a
<1>9. ~(a(x) <= a(e))
  BY <1>5, <1>8
<1>10. ASSUME NEW i \in open
       PROVE  a(i) <= a(x) <=> i = x \/ a(i) <= a(e)
  <2>1. CASE a(i) > a(e)
    <3>1. ~(a(i) - a(e) < k)
      BY <1>2, <2>1
    <3>2. a(i) <= a(x) => a(i) = a(x)
      BY <1>5, <1>7, <1>8, <3>1
    <3>3. i = x => a(i) <= a(x)
      BY <1>5, <1>7, <1>8
    <3>4. ~(a(i) <= a(e))
      BY <1>7, <1>8, <2>1
    <3> QED
      BY <1>6, <3>2, <3>3, <3>4
  <2>2. CASE ~(a(i) > a(e))
    <3>1. a(i) <= a(e) /\ a(i) <= a(x)
      BY <1>5, <1>7, <1>8, <2>2
    <3> QED
      BY <3>1
  <2> QED
    BY <2>1, <2>2
<1> QED
  BY <1>9, <1>10 DEF a

\* next_speaker goes on from the current speaker's entry, if there is one.
LEMMA CurrentIs ==
    ASSUME IdsTell, TypesOK, SpokenInv, NEW current \in {meeting.speaker, NoName}
    PROVE  /\ CurrentIndex(current) \in 0 .. Len(meeting.participants)
           /\ \A e \in 1 .. Len(meeting.participants) :
                meeting.participants[e].name = meeting.speaker => CurrentIndex(current) = e
<1> DEFINE ps == meeting.participants
           n == Len(ps)
           hits == {i \in 1 .. n : \/ Same(ps[i], current, current)
                                   \/ ps[i].name = meeting.speaker}
<1>1. n \in Nat /\ Distinct(ps) /\ \A i \in 1 .. n : ps[i] \in Participants
  BY LenProperties, ElementOfSeq DEF TypesOK, BoardTyped, Meetings, SpokenInv, Agrees
<1>2. CurrentIndex(current) = IF hits = {} THEN 0 ELSE CHOOSE i \in hits : \A j \in hits : i <= j
  BY DEF CurrentIndex
<1>3. hits \in SUBSET (1 .. n) /\ hits \in SUBSET Nat
  BY <1>1
<1>4. ASSUME NEW i \in hits
      PROVE  ps[i].name = meeting.speaker
  <2>1. ps[i].id \in Ids \cup {NoId} /\ ps[i].name \in Names /\ meeting.speaker \in Names \cup {NoName}
    BY <1>1, <1>3 DEF Participants, TypesOK, BoardTyped, Meetings
  <2>2. \A x \in Ids : x # NoId => x # NoName /\ x \notin Names
    BY DEF IdsTell, Ids
  <2>3. NoId # NoName
    BY DEF NoId, NoName
  <2>4. SUFFICES ASSUME Same(ps[i], current, current)
                 PROVE  ps[i].name = meeting.speaker
    OBVIOUS
  <2>5. CASE current # NoId /\ ps[i].id = current
    <3>1. current # NoName /\ current \notin Names
      BY <2>1, <2>2, <2>5
    <3> QED
      BY <2>1, <3>1
  <2>6. CASE current # NoName /\ ps[i].name = current
    BY <2>6
  <2> QED
    BY <2>4, <2>5, <2>6 DEF Same
<1>5. CurrentIndex(current) \in hits \cup {0} /\ (hits # {} => CurrentIndex(current) \in hits)
  <2> HIDE DEF hits
  <2>1. CASE hits = {}
    BY <1>2, <2>1
  <2>2. CASE hits # {}
    <3>1. \E i \in hits : \A j \in hits : i <= j
      BY <1>3, <2>2, SmallestExists
    <3> QED
      BY <1>2, <2>2, <3>1
  <2> QED
    BY <2>1, <2>2
<1>6. ASSUME NEW e \in 1 .. n, ps[e].name = meeting.speaker
      PROVE  CurrentIndex(current) = e
  <2>1. e \in hits
    BY <1>6
  <2>2. CurrentIndex(current) \in hits
    BY <1>5, <2>1
  <2>3. ps[CurrentIndex(current)].name = ps[e].name /\ CurrentIndex(current) \in 1 .. n
    BY <1>3, <1>4, <1>6, <2>2
  <2> QED
    BY <1>1, <2>3 DEF Distinct
<1>7. CurrentIndex(current) \in 0 .. n
  BY <1>1, <1>3, <1>5
<1> QED
  BY <1>6, <1>7

\* It finds the first behind it in the ring who has not spoken.
LEMMA NextIs ==
    ASSUME TypesOK, NEW current, NEW c \in 0 .. Len(meeting.participants),
           CurrentIndex(current) = c, NextIndex(current) # 0
    PROVE  LET n == Len(meeting.participants) IN
           /\ n \in Nat \ {0}
           /\ \E k \in 1 .. n :
                /\ NextIndex(current) = Place(c, k, n) /\ Place(c, k, n) \in 1 .. n
                /\ ~meeting.participants[Place(c, k, n)].spoken
                /\ \A j \in 1 .. k - 1 : meeting.participants[Place(c, j, n)].spoken
<1> DEFINE n == Len(meeting.participants)
           at(k) == ((c + k - 1) % n) + 1
           open == {k \in 1 .. n : ~meeting.participants[at(k)].spoken}
<1>1. n \in Nat
  BY LenProperties DEF TypesOK, BoardTyped, Meetings
<1>2. open # {} /\ NextIndex(current) = at(CHOOSE k \in open : \A j \in open : k <= j)
  BY DEF NextIndex
<1>3. open \in SUBSET (1 .. n) /\ open \in SUBSET Nat
  BY <1>1
<1>4. \E k \in open : \A j \in open : k <= j
  <2> HIDE DEF open
  <2> QED
    BY <1>2, <1>3, SmallestExists
<1>5. PICK k \in open : NextIndex(current) = at(k) /\ \A j \in open : k <= j
  <2> HIDE DEF open
  <2> QED
    BY <1>2, <1>4
<1>6. n \in Nat \ {0} /\ k \in 1 .. n
  BY <1>1, <1>3, <1>5
<1>7. \A j \in 1 .. n : at(j) = Place(c, j, n) /\ Place(c, j, n) \in 1 .. n
  BY <1>6, PlaceInRing
<1>8. ~meeting.participants[at(k)].spoken
  BY <1>5
<1>9. ASSUME NEW j \in 1 .. k - 1
      PROVE  meeting.participants[at(j)].spoken
  <2>1. j \in 1 .. n /\ ~(k <= j)
    BY <1>6, <1>9
  <2> QED
    BY <1>5, <2>1
<1>10. \A j \in 1 .. k - 1 : j \in 1 .. n
  BY <1>6
<1> HIDE DEF n, at
<1>11. /\ NextIndex(current) = Place(c, k, n) /\ Place(c, k, n) \in 1 .. n
       /\ ~meeting.participants[Place(c, k, n)].spoken
       /\ \A j \in 1 .. k - 1 : meeting.participants[Place(c, j, n)].spoken
  BY <1>5, <1>6, <1>7, <1>8, <1>9, <1>10
<1> QED
  BY <1>6, <1>11 DEF n

\* A round so far: from somebody, s, to the current speaker, all who have not
\* spoken were named, each once.
Round(ps, speaker, named) ==
    /\ IsFiniteSet(Range(named)) /\ Cardinality(Range(named)) = Len(named)
    /\ named # <<>> => \E s, e \in 1 .. Len(ps) :
          /\ ps[e].name = speaker
          /\ Range(named) = {ps[i].name : i \in {j \in 1 .. Len(ps) :
                /\ ~ps[j].spoken
                /\ Ahead(s, j, Len(ps)) <= Ahead(s, e, Len(ps))}}

RoundInv == Round(meeting.participants, meeting.speaker, asked)

LEMMA RangeOfNone == Range(<<>>) = {}
<1>1. <<>> \in Seq({}) /\ Len(<<>>) = 0
  BY EmptySeq
<1>2. DOMAIN <<>> = 1 .. 0
  BY <1>1, LenProperties
<1> QED
  BY <1>2 DEF Range

LEMMA EmptyRound == \A ps, speaker : Round(ps, speaker, <<>>)
BY RangeOfNone, FS_EmptySet, EmptySeq DEF Round

LEMMA RangeOfAppend ==
    ASSUME NEW named \in Seq(Names), NEW x \in Names
    PROVE  /\ Range(Append(named, x)) = Range(named) \cup {x}
           /\ Len(Append(named, x)) = Len(named) + 1 /\ Len(named) \in Nat
           /\ Range(<<x>>) = {x} /\ Len(<<x>>) = 1
<1>1. /\ Append(named, x) \in Seq(Names) /\ Len(Append(named, x)) = Len(named) + 1
      /\ \A i \in 1 .. Len(named) : Append(named, x)[i] = named[i]
      /\ Append(named, x)[Len(named) + 1] = x
  BY AppendProperties
<1>2. Len(named) \in Nat /\ DOMAIN named = 1 .. Len(named)
      /\ DOMAIN Append(named, x) = 1 .. Len(named) + 1
  BY <1>1, LenProperties
<1>3. 1 .. Len(named) + 1 = (1 .. Len(named)) \cup {Len(named) + 1}
  BY <1>2
<1>4. Range(Append(named, x)) = {Append(named, x)[i] : i \in 1 .. Len(named) + 1}
  BY <1>2 DEF Range
<1>5. Range(named) = {named[i] : i \in 1 .. Len(named)}
  BY <1>2 DEF Range
<1>6. Range(Append(named, x)) = Range(named) \cup {x}
  BY <1>1, <1>3, <1>4, <1>5
<1>7. <<x>> \in Seq(Names) /\ Len(<<x>>) = 1 /\ <<x>>[1] = x
  OBVIOUS
<1>8. DOMAIN <<x>> = 1 .. 1
  BY <1>7, LenProperties
<1>9. Range(<<x>>) = {x}
  BY <1>7, <1>8 DEF Range
<1> QED
  BY <1>1, <1>2, <1>6, <1>7, <1>9

\* A round that starts with one who has not spoken.
LEMMA RoundStarts ==
    ASSUME NEW ps, Len(ps) \in Nat, NEW x \in 1 .. Len(ps), ps[x].name \in Names, ~ps[x].spoken
    PROVE  Round(ps, ps[x].name, <<ps[x].name>>)
<1> DEFINE n == Len(ps)
           name == ps[x].name
<1>1. Range(<<name>>) = {name} /\ Len(<<name>>) = 1
  <2>1. name \in Names /\ <<>> \in Seq(Names)
    BY EmptySeq
  <2> HIDE DEF name
  <2>2. Range(<<name>>) = {name} /\ Len(<<name>>) = 1
    BY <2>1, RangeOfAppend
  <2> QED
    BY <2>2
<1>2. n \in Nat \ {0} /\ \A j \in 1 .. n : Ahead(x, j, n) <= Ahead(x, x, n) <=> j = x
  <2>1. n \in Nat \ {0}
    OBVIOUS
  <2>2. Ahead(x, x, n) = 0
    BY <2>1 DEF Ahead
  <2> QED
    BY <2>1, <2>2, AheadTells
<1>3. {ps[i].name : i \in {j \in 1 .. n : ~ps[j].spoken /\ Ahead(x, j, n) <= Ahead(x, x, n)}} = {name}
  BY <1>2
<1>4. IsFiniteSet({name}) /\ Cardinality({name}) = 1
  BY FS_Singleton
<1> HIDE DEF name
<1>5. name = ps[x].name
  BY DEF name
<1> QED
  BY <1>1, <1>3, <1>4, <1>5 DEF Round

\* A round that goes on: somebody who has not spoken was not named yet.
LEMMA RoundGoesOn ==
    ASSUME NEW ps \in Seq(Participants), Distinct(ps), NEW named \in Seq(Names), named # <<>>,
           NEW speaker, Round(ps, speaker, named),
           NEW e \in 1 .. Len(ps), ps[e].name = speaker,
           NEW k \in 1 .. Len(ps), NEW x \in 1 .. Len(ps), x = Place(e, k, Len(ps)),
           ~ps[x].spoken, \A j \in 1 .. k - 1 : ps[Place(e, j, Len(ps))].spoken,
           NEW u \in 1 .. Len(ps), ~ps[u].spoken, ps[u].name \notin Range(named)
    PROVE  Round(ps, ps[x].name, Append(named, ps[x].name))
<1> DEFINE n == Len(ps)
           open == {j \in 1 .. n : ~ps[j].spoken}
<1>1. n \in Nat \ {0} /\ \A j \in 1 .. n : ps[j].name \in Names
  <2>1. Len(ps) \in Nat /\ \A j \in 1 .. Len(ps) : ps[j] \in Participants
    BY LenProperties, ElementOfSeq
  <2>2. \A j \in 1 .. n : ps[j].name \in Names
    BY <2>1 DEF Participants
  <2>3. n # 0
    BY <2>1
  <2> QED
    BY <2>1, <2>2, <2>3
<1>2. PICK s \in 1 .. n : Range(named) = {ps[i].name : i \in {j \in 1 .. n :
                /\ ~ps[j].spoken /\ Ahead(s, j, n) <= Ahead(s, e, n)}}
  <2>1. PICK s, d \in 1 .. n :
          /\ ps[d].name = speaker
          /\ Range(named) = {ps[i].name : i \in {j \in 1 .. n :
                /\ ~ps[j].spoken /\ Ahead(s, j, n) <= Ahead(s, d, n)}}
    BY DEF Round
  <2>2. d = e
    BY <2>1 DEF Distinct
  <2> QED
    BY <2>1, <2>2
<1>3. ~(Ahead(s, u, n) <= Ahead(s, e, n))
  BY <1>2
<1>4. /\ ~(Ahead(s, x, n) <= Ahead(s, e, n))
      /\ \A i \in open : Ahead(s, i, n) <= Ahead(s, x, n)
                           <=> i = x \/ Ahead(s, i, n) <= Ahead(s, e, n)
  <2>1. open \in SUBSET (1 .. n) /\ x \in open /\ u \in open
        /\ \A j \in 1 .. k - 1 : Place(e, j, n) \notin open
    OBVIOUS
  <2> HIDE DEF open
  <2>2. x = Place(e, k, n) /\ k \in 1 .. n /\ x \in 1 .. n /\ e \in 1 .. n /\ u \in 1 .. n
    OBVIOUS
  <2> HIDE DEF n
  <2> QED
    BY <1>1, <1>3, <2>1, <2>2, RingGoesOn
<1>5. Range(named) \cup {ps[x].name} = {ps[i].name : i \in {j \in 1 .. n :
                /\ ~ps[j].spoken /\ Ahead(s, j, n) <= Ahead(s, x, n)}}
  BY <1>2, <1>4
<1>6. ps[x].name \notin Range(named)
  <2> SUFFICES ASSUME ps[x].name \in Range(named)
               PROVE  FALSE
    OBVIOUS
  <2>1. PICK i \in 1 .. n : ps[i].name = ps[x].name /\ Ahead(s, i, n) <= Ahead(s, e, n)
    BY <1>2
  <2>2. i = x
    BY <2>1 DEF Distinct
  <2> QED
    BY <1>4, <2>1, <2>2
<1>7. /\ Range(Append(named, ps[x].name)) = Range(named) \cup {ps[x].name}
      /\ Len(Append(named, ps[x].name)) = Len(named) + 1
  <2>1. ps[x].name \in Names
    BY <1>1
  <2> QED
    BY <2>1, RangeOfAppend
<1>8. IsFiniteSet(Range(named)) /\ Cardinality(Range(named)) = Len(named)
  BY DEF Round
<1>9. /\ IsFiniteSet(Range(named) \cup {ps[x].name})
      /\ Cardinality(Range(named) \cup {ps[x].name}) = Len(named) + 1
  BY <1>6, <1>8, FS_AddElement
<1> QED
  BY <1>5, <1>7, <1>9, SMTT(30) DEF Round

\* What a step of next_speaker does to a round.
LEMMA RoundNamesNext ==
    ASSUME IdsTell, TypesOK, SpokenInv, RoundInv, NEW current \in {meeting.speaker, NoName},
           NextIndex(current) # 0,
           NEW name, name = meeting.participants[NextIndex(current)].name
    PROVE  /\ Waiting \subseteq Range(asked) => Round(meeting.participants, name, <<name>>)
           /\ ~(Waiting \subseteq Range(asked)) => Round(meeting.participants, name, Append(asked, name))
<1> DEFINE ps == meeting.participants
           n == Len(ps)
<1>1. /\ ps \in Seq(Participants) /\ asked \in Seq(Names) /\ Distinct(ps)
      /\ Round(ps, meeting.speaker, asked)
  BY DEF TypesOK, BoardTyped, Meetings, SpokenInv, Agrees, RoundInv
<1>2. /\ n \in Nat /\ \A i \in 1 .. n : ps[i] \in Participants
      /\ Range(ps) = {ps[i] : i \in 1 .. n}
  <2>1. n \in Nat /\ DOMAIN ps = 1 .. n /\ \A i \in 1 .. n : ps[i] \in Participants
    BY <1>1, LenProperties, ElementOfSeq
  <2> QED
    BY <2>1 DEF Range
<1>3. \A i \in 1 .. n : ps[i].name \in Names
  BY <1>2 DEF Participants
<1>4. /\ CurrentIndex(current) \in 0 .. n
      /\ \A e \in 1 .. n : ps[e].name = meeting.speaker => CurrentIndex(current) = e
  BY CurrentIs
<1>5. PICK k \in 1 .. n :
        /\ NextIndex(current) = Place(CurrentIndex(current), k, n)
        /\ Place(CurrentIndex(current), k, n) \in 1 .. n
        /\ ~ps[Place(CurrentIndex(current), k, n)].spoken
        /\ \A j \in 1 .. k - 1 : ps[Place(CurrentIndex(current), j, n)].spoken
  BY <1>4, NextIs
<1>6. PICK x \in 1 .. n : x = NextIndex(current) /\ ~ps[x].spoken /\ name = ps[x].name
  BY <1>5
<1>7. Round(ps, name, <<name>>)
  BY <1>2, <1>3, <1>6, RoundStarts
<1>8. ASSUME ~(Waiting \subseteq Range(asked))
      PROVE  Round(ps, name, Append(asked, name))
  <2>1. CASE asked = <<>>
    <3>1. Append(<<>>, name) = <<name>>
      OBVIOUS
    <3> QED
      BY <1>7, <2>1, <3>1
  <2>2. CASE asked # <<>>
    <3>1. PICK e \in 1 .. n : ps[e].name = meeting.speaker
      BY <1>1, <2>2 DEF Round
    <3>2. CurrentIndex(current) = e
      BY <1>4, <3>1
    <3>3. PICK u \in 1 .. n : ~ps[u].spoken /\ ps[u].name \notin Range(asked)
      <4>1. PICK w \in Waiting : w \notin Range(asked)
        BY <1>8
      <4>2. PICK q \in Range(ps) : ~q.spoken /\ q.name = w
        BY <4>1 DEF Waiting
      <4> QED
        BY <1>2, <4>1, <4>2
    <3>4. x = Place(e, k, n) /\ \A j \in 1 .. k - 1 : ps[Place(e, j, n)].spoken
      BY <1>5, <1>6, <3>2
    <3> HIDE DEF ps
    <3>5. Round(ps, ps[x].name, Append(asked, ps[x].name))
      BY <1>1, <1>6, <2>2, <3>1, <3>3, <3>4, RoundGoesOn
    <3> QED
      BY <1>6, <3>5
  <2> QED
    BY <2>1, <2>2
<1> QED
  BY <1>7, <1>8

LEMMA RoundInit == Init => RoundInv
BY EmptyRound DEF Init, RoundInv

LEMMA RoundStep ==
    ASSUME IdsTell, TypesOK, SpokenInv, RoundInv, NEW c \in Callers, CallStep(c)
    PROVE  RoundInv'
<1>1. CASE StartMeeting(c) \/ RegisterParticipant(c) \/ RecordParticipantUpdate(c)
  <2>1. asked' = <<>>
    BY <1>1 DEF StartMeeting, RegisterParticipant, RecordParticipantUpdate
  <2> QED
    BY <2>1, EmptyRound DEF RoundInv
<1>2. CASE NextSpeaker(c)
  <2>1. PICK current \in {meeting.speaker, NoName} :
          /\ NextIndex(current) # 0
          /\ LET next == meeting.participants[NextIndex(current)].name IN
               /\ meeting' = [meeting EXCEPT !.speaker = next]
               /\ asked' = IF Waiting \subseteq Range(asked) THEN <<next>>
                           ELSE Append(asked, next)
    BY <1>2 DEF NextSpeaker
  <2> DEFINE next == meeting.participants[NextIndex(current)].name
  <2>2. /\ Waiting \subseteq Range(asked) => Round(meeting.participants, next, <<next>>)
        /\ ~(Waiting \subseteq Range(asked)) => Round(meeting.participants, next, Append(asked, next))
    BY <2>1, RoundNamesNext
  <2>3. /\ meeting' = [meeting EXCEPT !.speaker = next]
        /\ Waiting \subseteq Range(asked) => asked' = <<next>>
        /\ ~(Waiting \subseteq Range(asked)) => asked' = Append(asked, next)
    BY <2>1
  <2> HIDE DEF next
  <2>4. meeting'.participants = meeting.participants /\ meeting'.speaker = next
    BY <2>3 DEF TypesOK, BoardTyped, Meetings
  <2>5. Round(meeting'.participants, meeting'.speaker, asked')
    BY <2>2, <2>3, <2>4
  <2> QED
    BY <2>5 DEF RoundInv
<1>3. CASE SwitchMeetingType(c) \/ RecordMeetingMemory(c) \/ EndMeeting(c)
  <2>1. asked' = asked
    BY <1>3 DEF SwitchMeetingType, RecordMeetingMemory, EndMeeting, roundVars
  <2>2. meeting'.participants = meeting.participants /\ meeting'.speaker = meeting.speaker
    <3>1. meeting \in Meetings
      BY DEF TypesOK, BoardTyped
    <3>2. CASE SwitchMeetingType(c)
      BY <3>1, <3>2 DEF SwitchMeetingType, Meetings
    <3>3. CASE RecordMeetingMemory(c)
      BY <3>1, <3>3 DEF RecordMeetingMemory, Meetings
    <3>4. CASE EndMeeting(c)
      <4>1. \/ meeting' = [meeting EXCEPT !.items = @ \cup {items + 1}, !.active = FALSE, !.ended = TRUE]
            \/ meeting' = [meeting EXCEPT !.active = FALSE, !.ended = TRUE]
        BY <3>4 DEF EndMeeting
      <4> QED
        BY <3>1, <4>1 DEF Meetings
    <3> QED
      BY <1>3, <3>2, <3>3, <3>4
  <2> QED
    BY <2>1, <2>2 DEF RoundInv
<1>4. CASE \/ RecordMutation(c) \/ BuildReport(c) \/ SaveMeetingReport(c) \/ SaveFails(c)
           \/ Setup(c) \/ HostLeaves(c)
  <2>1. meeting' = meeting /\ asked' = asked
    BY <1>4 DEF RecordMutation, BuildReport, SaveMeetingReport, SaveFails, Setup, HostLeaves,
       roundVars
  <2> QED
    BY <2>1 DEF RoundInv
<1> QED
  BY <1>1, <1>2, <1>3, <1>4 DEF CallStep

LEMMA RoundNext ==
    ASSUME IdsTell, TypesOK, SpokenInv, RoundInv, [Next]_vars
    PROVE  RoundInv'
<1>1. ASSUME NEW c \in Callers, CallStep(c)
      PROVE  RoundInv'
  BY <1>1, RoundStep
<1>2. CASE Restart
  <2>1. asked' = <<>>
    BY <1>2 DEF Restart
  <2> QED
    BY <2>1, EmptyRound DEF RoundInv
<1>3. CASE UNCHANGED vars
  BY <1>3 DEF vars, RoundInv
<1> QED
  BY <1>1, <1>2, <1>3, NextSteps

\* Where an id and a name tell one person from another, no meeting is started
\* with one name twice and no id is a name, next_speaker names no one twice
\* before it has named everyone who has not spoken, however many take part and
\* whoever asks, with the current speaker's name or with none: what was named
\* is always one stretch of the ring, which ends at the current speaker.
THEOREM TurnsPassNobodyOver ==
    ASSUME NamesTell, IdsTell
    PROVE  Spec => []NobodyPassedOver
<1>1. RoundInv => NobodyPassedOver
  BY DEF RoundInv, Round, NobodyPassedOver
<1>2. TypesOK /\ SpokenInv /\ [Next]_vars => SpokenInv'
  BY SpokenNext
<1>3. TypesOK /\ SpokenInv /\ RoundInv /\ [Next]_vars => RoundInv'
  BY RoundNext
<1> QED
  BY <1>1, <1>2, <1>3, SpokenInit, RoundInit, TypesInvariant, PTL DEF Spec
=============================================================================
