--------------------------- MODULE MeetingRecord ---------------------------
(***************************************************************************)
(* The meeting on the board: who takes part, whose turn it is, what is     *)
(* written down, and the report that is archived when it ends              *)
(* (cmd/server/scrum_tools.go, meeting_intelligence.go,                    *)
(* meeting_reports.go, board_store.go, board.go, and meeting_access.go     *)
(* where it tells the board).                                              *)
(*                                                                         *)
(* A tool changes the meeting in one lock section and is recorded and      *)
(* saved after it.  end_meeting then builds the report from the board as   *)
(* it is by now, and writes the row after that.  The order of concurrent   *)
(* saves is the subject of BoardStore; here a change is recorded and saved *)
(* at once.                                                                *)
(*                                                                         *)
(* An item stands for anything a meeting writes down (agenda, decisions,   *)
(* risks, action items, parking lot, follow-ups, blockers); replacing an   *)
(* ownership entry by a newer one is left out.  Transcripts, modes, the    *)
(* briefing, and what a report takes from cards and from the sessions of   *)
(* the browsers are left out as well.                                      *)
(***************************************************************************)
EXTENDS Integers, Sequences, FiniteSets, Functions

CONSTANTS
    Callers,       \* goroutines that apply tool calls
    Chairs,        \* the callers that start, switch or end meetings
    Persons,       \* how callers name participants: an id and a name
    Lists,         \* participant lists a meeting is started with
    GivenIds,      \* meeting ids a start_meeting may give itself, or none
    MaxMeetings,   \* bound: start_meeting calls and setups
    MaxItems,      \* bound: items written down
    MaxFaults      \* bound: restarts, and report rows SQLite refuses

NoId == "no id"
NoName == "no name"
Ids == {p.id : p \in Persons}
Names == {p.name : p \in Persons}

ASSUME CallersAssumption == Chairs \subseteq Callers
ASSUME PersonsAssumption ==
    /\ \A p \in Persons : p.name # NoName /\ DOMAIN p = {"id", "name"}
    /\ Lists \subseteq Seq(Persons)
ASSUME BoundsAssumption ==
    /\ MaxMeetings \in Nat /\ MaxItems \in Nat
    /\ MaxFaults \in Nat
ASSUME GivenAssumption == \A m \in GivenIds : m \in Int /\ m < 0

NoMeeting == 0
\* Ids carry the time of the start; the clock counts starts, two of which are
\* taken to be a second apart.  The ids callers give are negative.
MeetingIds == (0 .. MaxMeetings) \cup GivenIds
Items == 1 .. MaxItems
NoItem == 0

VARIABLES
    meeting,       \* board.meeting
    access,        \* whether meetingAccess is active
    history,       \* board.mutationHistory and its table: items, with the time
    saved,         \* the meeting in the saved board
    reports,       \* the rows of meeting_reports
    call,          \* what each caller is doing
    clock, items, faults,    \* how many there were
    asked,         \* history: whom next_speaker named in this round, in order
    wrote,         \* history: the meeting id each item was written down under
    answered,      \* history: items whose call was answered
    promised       \* history: <<id, items>> of every answered end_meeting whose
                   \* row was saved: what had been answered when it ended

vars == <<meeting, access, history, saved, reports, call, clock, items, faults,
          asked, wrote, answered, promised>>

Participants == [id : Ids \cup {NoId}, name : Names, spoken : BOOLEAN]
Meetings == [id : MeetingIds, active : BOOLEAN, started : 0 .. MaxMeetings,
             ended : BOOLEAN, participants : Seq(Participants),
             speaker : Names \cup {NoName}, updates : SUBSET Persons,
             items : SUBSET Items]
FirstMeeting == [id |-> NoMeeting, active |-> FALSE, started |-> 0,
                 ended |-> FALSE, participants |-> <<>>, speaker |-> NoName,
                 updates |-> {}, items |-> {}]

\* A meetingIntelligenceReport
Reports == [id : MeetingIds, active : BOOLEAN, ended : BOOLEAN,
            items : SUBSET Items, changes : SUBSET Items]
NoReport == [id |-> NoMeeting, active |-> FALSE, ended |-> FALSE,
             items |-> {}, changes |-> {}]

Pcs == {"idle", "tell_switch", "tell_end", "record", "board", "save"}
\* A caller's locals; history: due is what the report it will archive has to
\* keep.
Idle == [pc |-> "idle", item |-> NoItem, ends |-> FALSE, report |-> NoReport,
         due |-> {}]

TypeOK ==
    /\ meeting \in Meetings /\ saved \in Meetings
    /\ access \in BOOLEAN
    /\ history \subseteq Items \X (0 .. MaxMeetings)
    /\ reports \in [MeetingIds -> Reports]
    /\ \A c \in Callers :
         /\ call[c].pc \in Pcs /\ call[c].item \in Items \cup {NoItem}
         /\ call[c].ends \in BOOLEAN /\ call[c].report \in Reports
         /\ call[c].due \subseteq Items
    /\ clock \in 0 .. MaxMeetings /\ items \in 0 .. MaxItems
    /\ faults \in 0 .. MaxFaults
    /\ asked \in Seq(Names)
    /\ wrote \in [1 .. items -> MeetingIds]
    /\ answered \subseteq 1 .. items
    /\ promised \subseteq MeetingIds \X SUBSET Items

Init ==
    /\ meeting = FirstMeeting /\ saved = FirstMeeting
    /\ access = FALSE /\ history = {}
    /\ reports = [m \in MeetingIds |-> NoReport]
    /\ call = [c \in Callers |-> Idle]
    /\ clock = 0 /\ items = 0 /\ faults = 0
    /\ asked = <<>> /\ wrote = <<>> /\ answered = {} /\ promised = {}

roundVars == <<asked, faults>>
storeVars == <<history, saved, reports, answered, promised>>

----------------------------------------------------------------------------
\* Participants and turns

\* sameParticipant
Same(q, id, name) == (id # NoId /\ q.id = id) \/ (name # NoName /\ q.name = name)

\* The first entry that is this person; one past the end if none is.
IndexOf(list, id, name) ==
    CHOOSE i \in 1 .. Len(list) + 1 :
        /\ i <= Len(list) => Same(list[i], id, name)
        /\ \A j \in 1 .. i - 1 : ~Same(list[j], id, name)

Entry(p) == [id |-> p.id, name |-> p.name, spoken |-> FALSE]

\* upsertParticipantLocked
upsert(list, p, spoken) ==
    LET i == IndexOf(list, p.id, p.name) IN
    IF i > Len(list) THEN Append(list, [Entry(p) EXCEPT !.spoken = spoken])
    ELSE [list EXCEPT ![i].id = IF p.id # NoId THEN p.id ELSE @,
                      ![i].spoken = @ \/ spoken]

\* markParticipantSpokenLocked
markSpoken(list, p) ==
    LET i == IndexOf(list, p.id, p.name) IN
    IF i > Len(list) THEN Append(list, [Entry(p) EXCEPT !.spoken = TRUE])
    ELSE [list EXCEPT ![i] = [id |-> IF p.id # NoId THEN p.id ELSE @.id,
                              name |-> p.name, spoken |-> TRUE]]

\* Who has not spoken yet.
Waiting == {q.name : q \in {r \in Range(meeting.participants) : ~r.spoken}}

\* The entry the ring goes on from: the first that is the one named or has
\* the current speaker's name.
CurrentIndex(current) ==
    LET hits == {i \in 1 .. Len(meeting.participants) :
                   \/ Same(meeting.participants[i], current, current)
                   \/ meeting.participants[i].name = meeting.speaker}
    IN IF hits = {} THEN 0 ELSE CHOOSE i \in hits : \A j \in hits : i <= j

\* Mutant: always starts from the top of the list.
MutantFromTheTop(current) ==
    LET open == {k \in 1 .. Len(meeting.participants) :
                   ~meeting.participants[k].spoken}
    IN IF open = {} THEN 0 ELSE CHOOSE k \in open : \A j \in open : k <= j

\* nextSpeakerLocked: the next in the ring who has not spoken, 0 if all have.
NextIndex(current) ==
    LET n == Len(meeting.participants)
        at(k) == ((CurrentIndex(current) + k - 1) % n) + 1
        open == {k \in 1 .. n : ~meeting.participants[at(k)].spoken}
    IN IF open = {} THEN 0 ELSE at(CHOOSE k \in open : \A j \in open : k <= j)

----------------------------------------------------------------------------
\* Tool calls: the change under board.mu

\* A changed call goes on to be recorded.
Changed(c, item, ends) ==
    call' = [call EXCEPT ![c] = [Idle EXCEPT !.pc = "record", !.item = item,
                                             !.ends = ends]]

\* An item is written down in the meeting there is.
WriteDown(c, ends) ==
    /\ items < MaxItems
    /\ items' = items + 1
    /\ wrote' = Append(wrote, meeting.id)
    /\ Changed(c, items + 1, ends)

\* startMeeting replaces the whole meeting.
StartMeeting(c) ==
    /\ c \in Chairs /\ call[c].pc = "idle"
    /\ clock < MaxMeetings
    /\ clock' = clock + 1
    /\ \E list \in Lists, m \in {clock + 1} \cup GivenIds :
         meeting' = [FirstMeeting EXCEPT
                        !.id = m, !.active = TRUE, !.started = clock + 1,
                        !.participants = [i \in DOMAIN list |-> Entry(list[i])],
                        !.speaker = IF list = <<>> THEN NoName ELSE list[1].name]
    /\ Changed(c, NoItem, FALSE)
    /\ asked' = <<>>
    /\ UNCHANGED <<access, items, wrote, faults, storeVars>>

\* switchMeetingType: opens the meeting there is again, under its old id and
\* start, or a new one if the board never had any.  (An access meeting only
\* changes its type.)
SwitchMeetingType(c) ==
    /\ c \in Chairs /\ call[c].pc \in {"idle", "tell_switch"}
    /\ clock' = IF call[c].pc = "idle" /\ meeting.id = NoMeeting THEN clock + 1 ELSE clock
    /\ clock' <= MaxMeetings
    /\ meeting' = [meeting EXCEPT !.id = IF @ = NoMeeting THEN clock' ELSE @,
                                  !.active = TRUE,
                                  !.started = IF @ = 0 THEN clock' ELSE @]
    /\ IF meeting' # meeting THEN Changed(c, NoItem, FALSE)
       ELSE call' = [call EXCEPT ![c] = Idle]
    /\ UNCHANGED <<access, items, wrote, roundVars, storeVars>>

\* Mutant: who registers first becomes the current speaker by id.
MutantSpeakerById(c) ==
    /\ call[c].pc = "idle"
    /\ \E p \in Persons :
         LET speaker == IF meeting.speaker = NoName THEN p.id ELSE meeting.speaker
         IN meeting' = [meeting EXCEPT !.participants = upsert(@, p, FALSE),
                                       !.speaker = speaker]
    /\ meeting' # meeting
    /\ Changed(c, NoItem, FALSE)
    /\ asked' = <<>>
    /\ UNCHANGED <<access, clock, items, wrote, faults, storeVars>>

RegisterParticipant(c) ==
    /\ call[c].pc = "idle"
    /\ \E p \in Persons :
         LET speaker == IF meeting.speaker = NoName THEN p.name ELSE meeting.speaker
         IN meeting' = [meeting EXCEPT !.participants = upsert(@, p, FALSE),
                                       !.speaker = speaker]
    /\ meeting' # meeting      \* (registering again changes nothing here)
    /\ Changed(c, NoItem, FALSE)
    /\ asked' = <<>>
    /\ UNCHANGED <<access, clock, items, wrote, faults, storeVars>>

\* Mutant: the update is kept and the participant is not marked.
MutantUpdateUnmarked(c) ==
    /\ call[c].pc = "idle"
    /\ \E p \in Persons :
         meeting' = [meeting EXCEPT
                       !.participants = upsert(@, p, FALSE),
                       !.updates = @ \cup {p}, !.speaker = p.name,
                       !.items = @ \cup {items + 1}]
    /\ WriteDown(c, FALSE)
    /\ asked' = <<>>
    /\ UNCHANGED <<access, clock, faults, storeVars>>

\* recordParticipantUpdate
RecordParticipantUpdate(c) ==
    /\ call[c].pc = "idle"
    /\ \E p \in Persons :
         meeting' = [meeting EXCEPT
                       !.participants = markSpoken(upsert(@, p, TRUE), p),
                       !.updates = @ \cup {p}, !.speaker = p.name,
                       !.items = @ \cup {items + 1}]
    /\ WriteDown(c, FALSE)
    /\ asked' = <<>>
    /\ UNCHANGED <<access, clock, faults, storeVars>>

RecordMeetingMemory(c) ==
    /\ call[c].pc = "idle"
    /\ meeting' = [meeting EXCEPT !.items = @ \cup {items + 1}]
    /\ WriteDown(c, FALSE)
    /\ UNCHANGED <<access, clock, roundVars, storeVars>>

\* nextSpeaker, asked with the current speaker's name or with none.  Told that
\* everyone has spoken, the caller has changed nothing.
NextSpeaker(c) ==
    /\ call[c].pc = "idle"
    /\ \E current \in {meeting.speaker, NoName} :
         /\ NextIndex(current) # 0
         /\ LET next == meeting.participants[NextIndex(current)].name IN
              /\ meeting' = [meeting EXCEPT !.speaker = next]
              /\ asked' = IF Waiting \subseteq Range(asked) THEN <<next>>
                          ELSE Append(asked, next)
    /\ Changed(c, NoItem, FALSE)
    /\ UNCHANGED <<access, clock, items, wrote, faults, storeVars>>

\* endMeeting: the host's leave gives it a decision to write down, the voice
\* may.  It does not ask whether the meeting is active.
EndMeeting(c) ==
    /\ c \in Chairs /\ call[c].pc \in {"idle", "tell_end"}
    /\ meeting.id # NoMeeting
    /\ \/ /\ meeting' = [meeting EXCEPT !.items = @ \cup {items + 1},
                                        !.active = FALSE, !.ended = TRUE]
          /\ WriteDown(c, TRUE)
       \/ /\ call[c].pc = "idle"
          /\ meeting' = [meeting EXCEPT !.active = FALSE, !.ended = TRUE]
          /\ Changed(c, NoItem, TRUE)
          /\ UNCHANGED <<items, wrote>>
    /\ UNCHANGED <<access, clock, roundVars, storeVars>>

----------------------------------------------------------------------------
\* Recording, and the archive of an ended meeting

Own(c) == {call[c].item} \ {NoItem}

\* history: what has been answered of the meeting there is.
Due == {i \in answered \cap meeting.items : wrote[i] = meeting.id}

\* recordMutation and persistMutationRecord, and for a call that does not end
\* the meeting its answer.
RecordMutation(c) ==
    /\ call[c].pc = "record"
    /\ history' = history \cup (Own(c) \X {clock})
    /\ IF call[c].ends
       THEN /\ call' = [call EXCEPT ![c].pc = "board", ![c].due = Own(c) \cup Due]
            /\ UNCHANGED answered
       ELSE /\ call' = [call EXCEPT ![c] = Idle]
            /\ answered' = answered \cup Own(c)
    /\ saved' = meeting
    /\ UNCHANGED <<meeting, access, clock, items, wrote, roundVars, reports, promised>>

\* mutationViewsSince
ChangesSince == {i \in Items : \E t \in meeting.started .. clock : <<i, t>> \in history}

\* BuildMeetingIntelligenceReport up to the unlock.
BuildReport(c) ==
    /\ call[c].pc = "board"
    /\ call' = [call EXCEPT ![c].pc = "save",
                  ![c].report = [id |-> meeting.id, active |-> meeting.active,
                                 ended |-> meeting.ended, items |-> meeting.items,
                                 changes |-> ChangesSince]]
    /\ UNCHANGED <<meeting, access, clock, items, wrote, roundVars, storeVars>>

\* Mutant: a row that is there is kept (DO NOTHING).
MutantKeepsFirst(m, r) == IF reports[m] = NoReport THEN [reports EXCEPT ![m] = r] ELSE reports

\* SaveMeetingReport: inserts the row or replaces the one of this meeting.
Upserted(m, r) == [reports EXCEPT ![m] = r]

SaveMeetingReport(c) ==
    /\ call[c].pc = "save"
    /\ reports' = Upserted(call[c].report.id, call[c].report)
    /\ promised' = promised \cup {<<call[c].report.id, call[c].due>>}
    /\ answered' = answered \cup Own(c)
    /\ call' = [call EXCEPT ![c] = Idle]
    /\ UNCHANGED <<meeting, access, clock, items, wrote, roundVars, history, saved>>

\* persistMeetingReport logs an error and goes on.
SaveFails(c) ==
    /\ call[c].pc = "save"
    /\ faults < MaxFaults
    /\ faults' = faults + 1
    /\ answered' = answered \cup Own(c)
    /\ call' = [call EXCEPT ![c] = Idle]
    /\ UNCHANGED <<meeting, access, clock, items, asked, wrote, history, saved,
                   reports, promised>>

----------------------------------------------------------------------------
\* The host's handlers and the sessions (MeetingAccess has them in full): the
\* access state changes first and the board is told after it.

\* setup, then applyMeetingTypeToBoard
Setup(c) ==
    /\ c \in Chairs /\ call[c].pc = "idle"
    /\ clock < MaxMeetings
    /\ clock' = clock + 1
    /\ access' = TRUE
    /\ call' = [call EXCEPT ![c].pc = "tell_switch"]
    /\ UNCHANGED <<meeting, items, wrote, roundVars, storeVars>>

\* leaveSession or leaveByIdentity of the host, then applyMeetingEndedToBoard
HostLeaves(c) ==
    /\ c \in Chairs /\ call[c].pc = "idle"
    /\ access
    /\ items < MaxItems
    /\ access' = FALSE
    /\ call' = [call EXCEPT ![c].pc = "tell_end"]
    /\ UNCHANGED <<meeting, clock, items, wrote, roundVars, storeVars>>

\* newPersistentKanbanBoard takes the meeting from the saved board and the
\* history from its table; the access state starts empty.
Restart ==
    /\ faults < MaxFaults
    /\ faults' = faults + 1
    /\ meeting' = saved
    /\ access' = FALSE
    /\ call' = [c \in Callers |-> Idle]
    /\ asked' = <<>>
    /\ UNCHANGED <<clock, items, wrote, storeVars>>

Next ==
    \/ \E c \in Callers :
         \/ StartMeeting(c) \/ SwitchMeetingType(c) \/ RegisterParticipant(c)
         \/ RecordParticipantUpdate(c) \/ RecordMeetingMemory(c) \/ NextSpeaker(c)
         \/ EndMeeting(c) \/ RecordMutation(c) \/ BuildReport(c)
         \/ SaveMeetingReport(c) \/ SaveFails(c) \/ Setup(c) \/ HostLeaves(c)
    \/ Restart

Spec == Init /\ [][Next]_vars

----------------------------------------------------------------------------
\* The archived report of a meeting keeps what was promised: everything whose
\* call had been answered when an answered end_meeting ended it, as item and as
\* change, however often it is ended again, and after restarts; and it holds
\* nothing of another meeting, but what was written down before there was any
\* (end_meeting, recordMutation, BuildMeetingIntelligenceReport and
\* SaveMeetingReport are steps of their own).
ReportKeepsTheMeeting ==
    /\ \A p \in promised : p[2] \subseteq reports[p[1]].items \cap reports[p[1]].changes
    /\ \A m \in MeetingIds : \A i \in reports[m].items : wrote[i] \in {m, NoMeeting}

\* Whoever counts as having spoken gave an update in this meeting, and whoever
\* gave one counts: the two lists a summary and next_speaker go by agree
\* (recordParticipantUpdate, start_meeting, restarts).
SpokenHasUpdate ==
    /\ \A q \in Range(meeting.participants) :
         q.spoken <=> \E p \in meeting.updates : Same(q, p.id, p.name)
    /\ \A p \in meeting.updates :
         \E q \in Range(meeting.participants) : Same(q, p.id, p.name)

\* Nobody is passed over: between two updates or registrations next_speaker
\* names no one twice before it has named everyone who has not spoken
\* (nextSpeakerLocked's ring starts from the current speaker's entry).
NobodyPassedOver == Cardinality(Range(asked)) = Len(asked)

\* A report that is archived is of a meeting that is over
\* (applyToolCallWithConfirmationBypass archives after end_meeting).
ArchivedNotActive == \A m \in MeetingIds : ~reports[m].active

=============================================================================
