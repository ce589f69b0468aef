----------------------------- MODULE BoardStore -----------------------------
(***************************************************************************)
(* How a change of the board is applied, recorded, saved, undone and       *)
(* reloaded (cmd/server/board.go, meeting_intelligence.go,                 *)
(* board_store.go).                                                        *)
(*                                                                         *)
(* A tool call takes board.mu several times and releases it in between:    *)
(* once for the snapshot before the change, once for the change, once for  *)
(* the snapshot after it and once for the audit record.  The three writes  *)
(* to SQLite follow without the lock.  Each of these is an action here.    *)
(***************************************************************************)
EXTENDS Integers, Sequences, FiniteSets, Functions

CONSTANTS
    Callers,       \* goroutines that apply tool calls
    Cards,         \* cards of the board
    MaxWrites,     \* bound: changes of the board other than undos
    MaxUndos,      \* bound: undos
    MaxHistory,    \* records kept in mutationHistory and reloaded (200)
    MaxRestarts,   \* bound: restarts of the process
    Crashes,       \* whether a restart may cut calls short
    MaxLost,       \* bound: SQLite writes that fail
    ByEvent        \* whether callers undo by event_id

ASSUME WritesAssumption == MaxWrites \in Nat /\ MaxUndos \in Nat
ASSUME HistoryAssumption == MaxHistory \in Nat \ {0}
ASSUME FaultsAssumption ==
    MaxRestarts \in Nat /\ Crashes \in BOOLEAN /\ MaxLost \in Nat
ASSUME ByEventAssumption == ByEvent \in BOOLEAN

MeetingPart == "meeting"
ASSUME CardsAssumption == MeetingPart \notin Cards

Parts == Cards \cup {MeetingPart}
Gone == -1                                \* content of a deleted card
Contents == {Gone} \cup (0 .. MaxWrites)  \* the number of the write it is from
Boards == [Parts -> Contents]
Events == 1 .. MaxWrites + MaxUndos
NoEvent == 0
Seqs == 1 .. 1 + MaxWrites + MaxUndos

\* A boardMutationRecord
Records == [event : Events, before : Boards, after : Boards,
            undoOf : Events \cup {NoEvent}, attached : BOOLEAN,
            reverted : BOOLEAN]

VARIABLES
    cards,         \* board.cards and board.meeting
    sequenceNumber,
    writes,        \* how many changes other than undos were made
    undos,         \* how many undos were made
    events,        \* how many event ids were given
    history,       \* board.mutationHistory
    snapshot,      \* the row of board_snapshots
    ledger,        \* the rows of action_replay_events
    call,          \* what each caller is doing
    restarts,
    lost,          \* history: events one of whose SQLite writes failed
    answered       \* history: events whose caller was answered, with
                   \* whether the record was given external confirmations

vars == <<cards, sequenceNumber, writes, undos, events, history, snapshot, ledger,
          call, restarts, lost, answered>>

Pcs == {"idle", "apply", "after", "record", "snapshot", "ledger", "external"}

FirstBoard == [p \in Parts |-> 0]
States == [cards : Boards, seq : Seqs]       \* what a SnapshotState keeps here
FirstState == [cards |-> FirstBoard, seq |-> 1]

\* A caller's locals: the record it makes and the state it saves with it.
Idle == [pc |-> "idle", before |-> FirstBoard, after |-> FirstBoard,
         undoOf |-> NoEvent, event |-> NoEvent, attached |-> FALSE,
         reverted |-> FALSE, state |-> FirstState]

TypeOK ==
    /\ cards \in Boards /\ sequenceNumber \in Seqs
    /\ writes \in 0 .. MaxWrites /\ undos \in 0 .. MaxUndos
    /\ events \in 0 .. MaxWrites + MaxUndos
    /\ history \in Seq(Records) /\ Len(history) <= MaxHistory
    /\ snapshot \in States
    /\ ledger \subseteq Records
    /\ \A r, s \in ledger : r.event = s.event => r = s
    /\ call \in [Callers ->
                   [pc : Pcs, before : Boards, after : Boards,
                    undoOf : Events \cup {NoEvent},
                    event : Events \cup {NoEvent}, attached : BOOLEAN,
                    reverted : BOOLEAN, state : States]]
    /\ restarts \in 0 .. MaxRestarts
    /\ lost \subseteq Events
    /\ answered \subseteq Events \X BOOLEAN

Init ==
    /\ cards = FirstBoard /\ sequenceNumber = 1
    /\ writes = 0 /\ undos = 0 /\ events = 0
    /\ history = <<>>
    /\ snapshot = FirstState           \* persistSnapshot("initial_board")
    /\ ledger = {}
    /\ call = [c \in Callers |-> Idle]
    /\ restarts = 0 /\ lost = {} /\ answered = {}

----------------------------------------------------------------------------
\* A tool call that changes the board

storeVars == <<snapshot, ledger, restarts, lost, answered>>

\* ApplyToolCallWithMeta, applyToolCallWithConfirmationBypass: the snapshot
\* taken before the change.
Begin(c) ==
    /\ call[c].pc = "idle"
    /\ writes < MaxWrites
    /\ call' = [call EXCEPT ![c] = [Idle EXCEPT !.pc = "apply", !.before = cards]]
    /\ UNCHANGED <<cards, sequenceNumber, writes, undos, events, history, storeVars>>

\* applyToolCall: one tool changes one part of the board under the lock.
Change(c, p, content) ==
    /\ call[c].pc = "apply"
    /\ writes < MaxWrites
    /\ cards[p] # Gone
    /\ cards' = [cards EXCEPT ![p] = content]
    /\ writes' = writes + 1
    /\ sequenceNumber' = sequenceNumber + 1
    /\ call' = [call EXCEPT ![c].pc = "after"]
    /\ UNCHANGED <<undos, events, history, storeVars>>

EditCard(c) == \E p \in Parts : Change(c, p, writes + 1)
DeleteTicket(c) == \E p \in Cards : Change(c, p, Gone)

\* applyToolCall's "unknown card" errors: nothing changed, nothing recorded.
UnknownCard(c) ==
    /\ call[c].pc = "apply"
    /\ \E p \in Cards : cards[p] = Gone
    /\ call' = [call EXCEPT ![c] = Idle]
    /\ UNCHANGED <<cards, sequenceNumber, writes, undos, events, history, storeVars>>

SnapshotState == [cards |-> cards, seq |-> sequenceNumber]

\* Mutant: the state that is saved holds the cards from before the change.
MutantSavesBefore(c) ==
    /\ call[c].pc = "after"
    /\ call' = [call EXCEPT ![c].pc = "record", ![c].after = cards,
                            ![c].state = [cards |-> call[c].before,
                                          seq |-> sequenceNumber]]
    /\ UNCHANGED <<cards, sequenceNumber, writes, undos, events, history, storeVars>>

\* The snapshot taken after the change.
After(c) ==
    /\ call[c].pc = "after"
    /\ call' = [call EXCEPT ![c].pc = "record", ![c].after = cards,
                            ![c].state = SnapshotState]
    /\ UNCHANGED <<cards, sequenceNumber, writes, undos, events, history, storeVars>>

\* The newest n elements of a sequence.
Newest(n, s) == IF Len(s) <= n THEN s ELSE SubSeq(s, Len(s) - n + 1, Len(s))

RecordOf(k) == [event |-> k.event, before |-> k.before, after |-> k.after,
                undoOf |-> k.undoOf, attached |-> k.attached,
                reverted |-> k.reverted]

\* recordMutation
RecordMutation(c) ==
    /\ call[c].pc = "record"
    /\ events' = events + 1
    /\ call' = [call EXCEPT ![c].pc = "snapshot", ![c].event = events + 1]
    /\ history' = Newest(MaxHistory, Append(history, RecordOf(call'[c])))
    /\ UNCHANGED <<cards, sequenceNumber, writes, undos, storeVars>>

----------------------------------------------------------------------------
\* persistMutationRecord: three SQLite writes; an error is logged and passed
\* over.

\* SaveSnapshot.  (AppendEvent, which follows, adds a row nothing reads back.)
SaveSnapshot(c) ==
    /\ call[c].pc = "snapshot"
    /\ snapshot' = call[c].state
    /\ call' = [call EXCEPT ![c].pc = "ledger"]
    /\ UNCHANGED <<cards, sequenceNumber, writes, undos, events, history, ledger,
                   restarts, lost, answered>>

\* Mutant: always inserts.
MutantInsertOnly(c) ==
    /\ call[c].pc = "ledger"
    /\ ledger' = ledger \cup {RecordOf(call[c])}
    /\ call' = [call EXCEPT ![c].pc = "external"]
    /\ UNCHANGED <<cards, sequenceNumber, writes, undos, events, history, snapshot,
                   restarts, lost, answered>>

\* SaveMutationRecord: inserts the row, or replaces the one of this event.
SaveMutationRecord(c) ==
    /\ call[c].pc = "ledger"
    /\ ledger' = {r \in ledger : r.event # call[c].event} \cup {RecordOf(call[c])}
    /\ call' = [call EXCEPT ![c].pc = "external"]
    /\ UNCHANGED <<cards, sequenceNumber, writes, undos, events, history, snapshot,
                   restarts, lost, answered>>

StoreError(c) ==
    /\ Cardinality(lost) < MaxLost
    /\ \/ call[c].pc = "snapshot" /\ call' = [call EXCEPT ![c].pc = "ledger"]
       \/ call[c].pc = "ledger" /\ call' = [call EXCEPT ![c].pc = "external"]
    /\ lost' = lost \cup {call[c].event}
    /\ UNCHANGED <<cards, sequenceNumber, writes, undos, events, history, snapshot,
                   ledger, restarts, answered>>

\* The caller's reply is sent: the result of the tool, or a broadcast.
Answer(c) ==
    /\ call[c].pc = "external"
    /\ answered' = answered \cup {<<call[c].event, call[c].attached>>}
    /\ call' = [call EXCEPT ![c] = Idle]
    /\ UNCHANGED <<cards, sequenceNumber, writes, undos, events, history, snapshot,
                   ledger, restarts, lost>>

\* Mutant: the confirmations are attached in memory and not saved.
MutantAttachInMemory(c) ==
    /\ call[c].pc = "external" /\ ~call[c].attached
    /\ \E i \in DOMAIN history :
         /\ history[i].event = call[c].event
         /\ history' = [history EXCEPT ![i].attached = TRUE]
         /\ call' = [call EXCEPT ![c].attached = TRUE]
    /\ UNCHANGED <<cards, sequenceNumber, writes, undos, events, storeVars>>

\* attachExternalConfirmationsToMutation: after the call to Jira the record
\* in the history, if it is still there, gets the confirmations, and it and
\* the board as it is now are saved again.
AttachExternalConfirmations(c) ==
    /\ call[c].pc = "external" /\ ~call[c].attached
    /\ \E i \in DOMAIN history :
         /\ history[i].event = call[c].event
         /\ history' = [history EXCEPT ![i].attached = TRUE]
         /\ call' = [call EXCEPT ![c].pc = "snapshot", ![c].attached = TRUE,
                                 ![c].reverted = history[i].reverted,
                                 ![c].state = SnapshotState]
    /\ UNCHANGED <<cards, sequenceNumber, writes, undos, events, storeVars>>

----------------------------------------------------------------------------
\* undo_last_mutation

\* Mutant: a mutation that was undone may be undone again.
MutantUndoReverted(e) == {i \in DOMAIN history :
                            /\ history[i].undoOf = NoEvent
                            /\ e \in {NoEvent, history[i].event}}

\* The newest record that may be undone: not undone yet, no undo itself, and
\* of the event asked for if one is.
Undoable(e) == {i \in DOMAIN history :
                  /\ ~history[i].reverted
                  /\ history[i].undoOf = NoEvent
                  /\ e \in {NoEvent, history[i].event}}

\* Mutant: the oldest one.
MutantOldest(e) == CHOOSE i \in Undoable(e) : \A j \in Undoable(e) : i <= j

Target(e) == CHOOSE i \in Undoable(e) : \A j \in Undoable(e) : j <= i

\* undoLastMutation up to the unlock: the whole board becomes what it was
\* before the target.  The record it makes is added by RecordMutation.
UndoLastMutation(c, e) ==
    /\ call[c].pc = "idle"
    /\ undos < MaxUndos
    /\ Undoable(e) # {}
    /\ undos' = undos + 1
    /\ LET t == history[Target(e)] IN
         /\ cards' = t.before
         /\ history' = [history EXCEPT ![Target(e)].reverted = TRUE]
         /\ sequenceNumber' = sequenceNumber + 1
         /\ call' = [call EXCEPT ![c] =
                       [Idle EXCEPT !.pc = "record", !.before = cards,
                                    !.after = t.before, !.undoOf = t.event,
                                    !.state = [cards |-> t.before,
                                               seq |-> sequenceNumber + 1]]]
    /\ UNCHANGED <<writes, events, storeVars>>

UndoLatest(c) == UndoLastMutation(c, NoEvent)
UndoEvent(c) == ByEvent /\ \E e \in 1 .. events : UndoLastMutation(c, e)

----------------------------------------------------------------------------
\* newPersistentKanbanBoard: what a new process loads.  ListMutationRecords
\* gives the newest rows, oldest first.

\* Mutant: the rows stay newest first, as the query gives them.
MutantNewestFirst(rows) ==
    [i \in 1 .. Cardinality(rows) |->
        CHOOSE r \in rows : Cardinality({s \in rows : s.event >= r.event}) = i]

\* The i-th row is the one up to which there are i.
ByTime(rows) ==
    [i \in 1 .. Cardinality(rows) |->
        CHOOSE r \in rows : Cardinality({s \in rows : s.event <= r.event}) = i]

Restart ==
    /\ restarts < MaxRestarts
    /\ Crashes \/ \A c \in Callers : call[c].pc = "idle"
    /\ restarts' = restarts + 1
    /\ cards' = snapshot.cards /\ sequenceNumber' = snapshot.seq
    /\ history' = Newest(MaxHistory, ByTime(ledger))
    /\ call' = [c \in Callers |-> Idle]
    /\ UNCHANGED <<writes, undos, events, snapshot, ledger, lost, answered>>

Next ==
    \/ \E c \in Callers :
         \/ Begin(c) \/ EditCard(c) \/ DeleteTicket(c) \/ UnknownCard(c)
         \/ After(c) \/ RecordMutation(c)
         \/ SaveSnapshot(c) \/ SaveMutationRecord(c) \/ StoreError(c)
         \/ AttachExternalConfirmations(c) \/ Answer(c)
         \/ UndoLatest(c) \/ UndoEvent(c)
    \/ Restart

Spec == Init /\ [][Next]_vars

----------------------------------------------------------------------------
Quiet == \A c \in Callers : call[c].pc = "idle"

\* A mutation whose caller was answered can be explained from then on, after
\* a crash as well: unless SQLite refused a write of it, its row is in the
\* ledger, with the external confirmations if the answer gave any, and it is
\* in the audit history until MaxHistory newer ones push it out (the order
\* of persistMutationRecord and the answer, ListMutationRecords' limit).
AnsweredKept ==
    \A a \in answered : a[1] \notin lost =>
        /\ \E r \in ledger : r.event = a[1] /\ (a[2] => r.attached)
        /\ \/ \E i \in DOMAIN history :
                 history[i].event = a[1] /\ (a[2] => history[i].attached)
           \/ Len(history) = MaxHistory /\ history[1].event > a[1]

\* No mutation is undone twice.
UndoneOnce ==
    \A r, s \in ledger \cup Range(history) :
        r.undoOf # NoEvent /\ r.undoOf = s.undoOf => r.event = s.event

\* Within one process no mutation is undone twice, whoever asks and however
\* (undoLastMutation skips the reverted ones).
NeverUndoneTwice == restarts = 0 => UndoneOnce

\* Once no call is in progress, the saved board is the board, so that a
\* restart changes nothing (persistMutationRecord saves the state its own
\* call saw, outside the lock).
SnapshotCurrent ==
    Quiet /\ lost = {} => snapshot = SnapshotState

\* The audit history tells one story: each change starts from the board the
\* one before it left, and once no call is in progress the last one left the
\* board as it is (before and after are read in lock sections of their own).
\* SQLite errors excepted.
HistoryChains ==
    lost = {} =>
        /\ \A i \in 1 .. Len(history) - 1 :
              history[i].after = history[i + 1].before
        /\ Quiet /\ history # <<>> => history[Len(history)].after = cards

\* Once no call is in progress, whatever the saved board holds is the outcome
\* of a mutation in the ledger (persistMutationRecord saves the board first
\* and the record after it).
BoardExplained ==
    Quiet /\ lost = {} => \A p \in Parts :
        snapshot.cards[p] # FirstBoard[p] =>
            \E r \in ledger : r.after[p] = snapshot.cards[p]

\* An undo undoes its target and nothing else: a part of the board the target
\* did not change is left alone, and one it did gets its old content back
\* (undoLastMutation replaces the whole board by the target's BeforeCards).
\* Before the first restart, which forgets what was undone.
UndoOnlyItsOwn ==
    [][\A c \in Callers : \A i \in DOMAIN history :
         restarts = 0 /\ call[c].pc = "idle" /\ call'[c].pc = "record"
           /\ call'[c].undoOf = history[i].event =>
         \A p \in Parts :
            cards'[p] = IF history[i].before[p] = history[i].after[p]
                        THEN cards[p] ELSE history[i].before[p]]_vars

=============================================================================
