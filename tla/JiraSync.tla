------------------------------ MODULE JiraSync ------------------------------
(***************************************************************************)
(* The board and Jira (cmd/server/jira.go, jira_ext.go, jira_conflicts.go, *)
(* jira_webhook.go and the command flow of main.go and nova_sonic.go).     *)
(*                                                                         *)
(* A tool call changes the board first, is recorded, and is then written   *)
(* through to Jira in one or several requests, with no lock held; the      *)
(* board is meanwhile replaced by what a poll or a webhook has read.  Each *)
(* section under board.mu and each request is an action.                   *)
(***************************************************************************)
EXTENDS TicketTools

CONSTANTS
    Callers,        \* goroutines that apply tool calls
    Refreshers,     \* the polling goroutine, and webhook requests
    Asks,           \* what callers ask for: sequences of tool arguments, of
                    \* more than one element for a confirmed set of actions
    FirstIssues,    \* issues that Jira holds at the start
    MaxCalls,       \* bound: tool calls
    MaxUndos,       \* bound: undos among them
    MaxFaults,      \* bound: Jira requests that fail, or whose answer is lost
    MaxEdits,       \* bound: changes made in Jira by others
    MaxResolves,    \* bound: resolve_jira_conflict calls
    MaxConflicts,   \* conflicts a refresh keeps (50)
    HasBlockedTransition,  \* transitions.Blocked is configured
    HasBlockedField        \* blocked_flag_field is configured

ASSUME BoundsAssumption ==
    /\ {FirstIssues, MaxCalls, MaxUndos, MaxFaults, MaxEdits, MaxResolves,
     MaxConflicts} \subseteq Nat
    /\ FirstIssues \in 1 .. MaxKey
ASSUME AsksAssumption == Asks \subseteq Seq(Args) \ {<<>>}
ASSUME ConfigAssumption == {HasBlockedTransition, HasBlockedField} \subseteq BOOLEAN

VARIABLES
    board,      \* board.cards, cardAliases and nextCreatedIndex
    touched,    \* sequenceNumber > lastJiraRefreshSeq
    history,    \* board.mutationHistory
    conflicts,  \* board.conflicts
    jira,       \* the issues of the project
    call,       \* what each caller is doing
    refresh,    \* what each refresher is doing
    calls, undos, faults, edits, resolves      \* counters for the bounds

vars == <<board, touched, history, conflicts, jira, call, refresh,
          calls, undos, faults, edits, resolves>>
counters == <<calls, undos, faults, edits, resolves>>

Keys == 1 .. MaxKey
NoIssue == [status |-> "", flag |-> FALSE, title |-> 0, notes |-> {},
            labels |-> {}, parent |-> NoCard, f |-> Empty]
Issue(title) == [NoIssue EXCEPT !.status = "Backlog", !.title = title]
Exists(k) == jira[k] # NoIssue

\* One request to Jira; id = NoCard: the issue this call has just created.
NoWrite == [op |-> "", id |-> NoCard, status |-> "", title |-> 0, notes |-> {},
            labels |-> {}, field |-> "", v |-> 0, card |-> Card(NoCard, "", 0)]

\* What is still to be written through: the arguments of a call and what its
\* result says.
Act(a, out) ==
    [a |-> a, id |-> out.id, other |-> out.other, place |-> out.place,
     status |-> out.status, moved |-> out.moved, notes |-> out.notes,
     tags |-> out.tags,
     card |-> IF a.tool \in {"create_ticket", "create_subtask"}
              THEN Of(out.board.cards, out.id) ELSE Card(NoCard, "", 0)]

Idle == [pc |-> "idle", asked |-> <<>>, before |-> <<>>, made |-> <<>>,
         acts |-> <<>>, todo |-> <<>>, key |-> 0, undo |-> FALSE,
         required |-> FALSE, failed |-> FALSE, sent |-> 0, bad |-> 0,
         answer |-> "none"]

Pcs == {"idle", "apply", "record", "sync", "write", "rename", "failed"}
Answers == {"none", "local_only", "api_confirmed", "api_failed"}

Nothing == Card(NoCard, "", 0)
Issues == [status : Statuses \cup {""}, flag : BOOLEAN, title : Nat,
           notes : SUBSET Remarks, labels : SUBSET Tags, parent : Refs,
           f : [CardFields -> Nat]]
Ops == {"refuse", "addLabels", "removeLabels", "update", "set", "extend",
        "transition", "flag", "rank", "create"}
Requests == [op : Ops, id : Refs, status : Statuses \cup {""}, title : Nat,
             notes : SUBSET Remarks, labels : SUBSET Tags, field : CardFields \cup {""},
             v : Nat, card : Cards \cup {Nothing}]
Acts == [a : Args, id : Refs, other : Refs, place : Places,
         status : Statuses \cup {""}, moved : BOOLEAN, notes : SUBSET Remarks,
         tags : SUBSET Tags, card : Cards \cup {Nothing}]
Mutations == [tool : Tools \cup {"undo_last_mutation"}, fresh : BOOLEAN,
              undone : BOOLEAN, ids : SUBSET Refs, before : Seq(Cards),
              after : Seq(Cards)]
Conflicts == [id : Refs, local : Cards, jira : Cards,
              resolution : {"", "keep_local", "use_jira"}]
Calls == [pc : Pcs, asked : Seq(Args), before : Seq(Cards), made : Seq(Acts),
          acts : Seq(Acts), todo : Seq(Requests), key : 0 .. MaxKey,
          undo : BOOLEAN, required : BOOLEAN, failed : BOOLEAN, sent : Nat,
          bad : Nat, answer : Answers]

\* An issue has a status; what was changed since the last refresh keeps the
\* refreshes that follow from taking the board as it was.
TypeOK ==
    /\ board \in Boards
    /\ touched \in BOOLEAN
    /\ history \in Seq(Mutations)
    /\ \A i \in DOMAIN history : history[i].fresh => touched
    /\ conflicts \in Seq(Conflicts)
    /\ jira \in [Keys -> Issues]
    /\ \A k \in Keys : Exists(k) => jira[k].status \in Statuses
    /\ call \in [Callers -> Calls]
    /\ refresh \in [Refreshers -> [pc : {"idle", "found"}, cards : Seq(Cards)]]
    /\ calls \in 0 .. MaxCalls /\ undos \in 0 .. MaxUndos
    /\ faults \in 0 .. MaxFaults /\ edits \in 0 .. MaxEdits
    /\ resolves \in 0 .. MaxResolves

----------------------------------------------------------------------------
\* What a search returns

\* SearchKanbanCards: an issue as a card.  The flag wins over the status;
\* remote links and watchers are not asked for.
CardOf(k, issue) ==
    [Card(Key(k), IF issue.flag /\ HasBlockedField THEN "Blocked" ELSE issue.status,
          issue.title)
        EXCEPT !.notes = issue.notes, !.tags = issue.labels,
               !.parent = issue.parent,
               !.f = [issue.f EXCEPT !["remoteLinks"] = 0, !["watchers"] = 0]]

SearchKanbanCards ==
    LET issues == {k \in Keys : Exists(k)}
    IN [i \in 1 .. Cardinality(issues) |->
            CardOf(Nth(issues, i), jira[Nth(issues, i)])]

\* setupJiraSync, ReplaceCards
Init ==
    /\ jira = [k \in Keys |-> IF k <= FirstIssues THEN Issue(k) ELSE NoIssue]
    /\ board = Board(SearchKanbanCards)
    /\ touched = FALSE
    /\ history = <<>> /\ conflicts = <<>>
    /\ call = [c \in Callers |-> Idle]
    /\ refresh = [r \in Refreshers |-> [pc |-> "idle", cards |-> <<>>]]
    /\ calls = 0 /\ undos = 0 /\ faults = 0 /\ edits = 0 /\ resolves = 0

----------------------------------------------------------------------------
\* The change of the board

\* latestMutationCardIDLocked: the first changed card, ids in their order, of
\* the latest mutation that was not taken back.
Latest ==
    LET kept == {i \in DOMAIN history : ~history[i].undone /\ history[i].ids # {}}
        last == CHOOSE i \in kept : \A j \in kept : j <= i
        ids == history[last].ids
        keys == {id \in ids : IsKey(id)}
        first == IF keys # {} THEN keys ELSE ids
    IN IF kept = {} THEN NoCard
       ELSE CHOOSE id \in first : \A other \in first : id.n <= other.n

\* Tools whose arguments wait for a confirmation as they were resolved; the
\* others are written through with the arguments as they came.
Confirmed == {"assign_ticket", "unassign_ticket", "set_eta", "set_priority",
              "set_reporter", "delete_ticket", "set_sprint", "rank_issue",
              "prioritize_ticket"}
Resolved(a) == Canonicalize(board, a, Latest)
Stored(a) == IF a.tool \in Confirmed THEN Resolved(a) ELSE a

\* A caller that has nothing more to do for an action: the next one, or the
\* answer (annotateJiraSyncResult, annotateConfirmedJiraSyncResult,
\* externalActionStatus).
Settled(d) ==
    IF d.acts # <<>> THEN [d EXCEPT !.pc = "sync"]
    ELSE [Idle EXCEPT
             !.answer = IF ~d.required THEN "local_only"
                        ELSE IF d.failed THEN "api_failed" ELSE "api_confirmed",
             !.sent = d.sent, !.bad = d.bad]

\* ApplyToolCallWithMeta, applyToolCallWithConfirmationBypass: resolve the
\* references, take the board before the change, change it.
Apply(c, asked, acts) ==
    LET a == Head(asked)
        out == ApplyTool(board, Resolved(a))
        next == [Idle EXCEPT !.asked = Tail(asked), !.acts = acts]
    IN /\ board' = out.board
       /\ touched' = (touched \/ out.changed)
       /\ call' = [call EXCEPT ![c] =
             IF out.changed
             THEN [next EXCEPT !.pc = "record", !.before = board.cards,
                               !.made = <<Act(Stored(a), out)>>]
             ELSE IF next.asked # <<>> THEN [next EXCEPT !.pc = "apply"]
             ELSE Settled(next)]

Begin(c) ==
    /\ call[c].pc = "idle"
    /\ calls < MaxCalls
    /\ \E asked \in Asks : Apply(c, asked, <<>>)
    /\ calls' = calls + 1
    /\ UNCHANGED <<history, conflicts, jira, refresh, undos, faults, edits, resolves>>

\* The next action of a confirmed set.
ApplyNext(c) ==
    /\ call[c].pc = "apply"
    /\ Apply(c, call[c].asked, call[c].acts)
    /\ UNCHANGED <<history, conflicts, jira, refresh, counters>>

\* changedCardIDs
ChangedCardIDs(before, after, id) ==
    ({id} \ {NoCard}) \cup
    {x \in IdsOf(before) \cup IdsOf(after) :
        \/ x \notin IdsOf(before) \cap IdsOf(after)
        \/ Of(before, x) # Of(after, x)}

\* The board after the change, and recordMutation.
RecordMutation(c) ==
    LET act == call[c].made[1]
    IN /\ call[c].pc = "record"
       /\ history' = Append(history,
             [tool |-> act.a.tool, fresh |-> touched, undone |-> FALSE,
              ids |-> ChangedCardIDs(call[c].before, board.cards, act.id),
              before |-> call[c].before, after |-> board.cards])
       /\ call' = [call EXCEPT
             ![c].acts = Append(@, act), ![c].made = <<>>, ![c].before = <<>>,
             ![c].pc = IF call[c].asked # <<>> THEN "apply" ELSE "sync"]
       /\ UNCHANGED <<board, touched, conflicts, jira, refresh, counters>>

\* undoLastMutation puts back the whole board of the record's BeforeCards, in
\* one section, and records itself.
Undoable == {i \in DOMAIN history :
                ~history[i].undone /\ history[i].tool # "undo_last_mutation"}

UndoAct(tool, card) ==
    [Act([NoArgs EXCEPT !.tool = tool, !.card = card.id], Refused(board))
        EXCEPT !.card = card]

\* What ApplyUndo goes through: every card of the two boards, whether it was
\* changed or not.
UndoActs(r) ==
    LET Only(cards, ids) == At(cards, {i \in DOMAIN cards : cards[i].id \in ids})
        removed == Only(r.after, IdsOf(r.after) \ IdsOf(r.before))
        kept == Only(r.before, IdsOf(r.after))
        deleted == Only(r.before, IdsOf(r.before) \ IdsOf(r.after))
        ActsOf(cards, tool) == [i \in DOMAIN cards |-> UndoAct(tool, cards[i])]
    IN ActsOf(removed, "close") \o ActsOf(kept, "restore")
       \o ActsOf(deleted, "recreate")

UndoLastMutation(c) ==
    LET target == CHOOSE i \in Undoable : \A j \in Undoable : j <= i
        r == history[target]
    IN /\ call[c].pc = "idle"
       /\ calls < MaxCalls /\ undos < MaxUndos
       /\ Undoable # {}
       /\ board' = [board EXCEPT !.cards = r.before]
       /\ touched' = TRUE
       /\ history' = Append([history EXCEPT ![target].undone = TRUE],
             [tool |-> "undo_last_mutation", fresh |-> TRUE, undone |-> FALSE,
              ids |-> ChangedCardIDs(board.cards, r.before, NoCard),
              before |-> board.cards, after |-> r.before])
       /\ call' = [call EXCEPT ![c] = Settled([Idle EXCEPT
             !.acts = UndoActs(r), !.undo = TRUE, !.required = TRUE])]
       /\ calls' = calls + 1 /\ undos' = undos + 1
       /\ UNCHANGED <<conflicts, jira, refresh, faults, edits, resolves>>

----------------------------------------------------------------------------
\* The requests a call makes, in their order

On(id, op) == [NoWrite EXCEPT !.op = op, !.id = id]
Refuse(id) == <<On(id, "refuse")>>          \* an error before any request
AddLabels(id, tags) ==
    IF tags = {} THEN <<>> ELSE <<[On(id, "addLabels") EXCEPT !.labels = tags]>>
RemoveLabels(id, tags) ==
    IF tags = {} THEN <<>> ELSE <<[On(id, "removeLabels") EXCEPT !.labels = tags]>>
UpdateIssue(id, title, notes) ==
    IF title = 0 /\ notes = {} THEN <<>>
    ELSE <<[On(id, "update") EXCEPT !.title = title, !.notes = notes]>>
UpdateField(id, field, v) ==
    <<[On(id, "set") EXCEPT !.field = field, !.v = v]>>
SetPriorityName(id, v) == IF v = 0 THEN <<>> ELSE UpdateField(id, "priority", v)
AddTo(id, field) == <<[On(id, "extend") EXCEPT !.field = field]>>
\* Mutant: the status is not given.
MutantTransition(id, status) == <<On(id, "transition")>>
TransitionIssue(id, status) == <<[On(id, "transition") EXCEPT !.status = status]>>
SetBlockedFlag(id, blocked) ==
    IF ~HasBlockedField THEN <<>>
    ELSE <<[On(id, "flag") EXCEPT !.v = IF blocked THEN 1 ELSE 0]>>
CloseIssue(id) == TransitionIssue(id, "Done")    \* delete_transition
CreateIssue(card) == <<[On(NoCard, "create") EXCEPT !.card = card]>>
RankIssue(id, beside) ==
    IF beside = NoCard THEN IF IsKey(id) THEN <<>> ELSE Refuse(id)
    ELSE IF IsKey(beside) THEN <<On(id, "rank")>> ELSE Refuse(id)

\* Mutant: a card that leaves Blocked keeps its flag in Jira.
MutantMoveIssue(id, status, reason) ==
    TransitionIssue(id, status)
    \o (IF status = "Blocked" THEN SetBlockedFlag(id, TRUE) ELSE <<>>)

\* moveIssue.  Moving to Blocked needs its transition or the flag.
MoveIssue(id, status, reason) ==
    IF status # "Blocked"
    THEN TransitionIssue(id, status) \o SetBlockedFlag(id, FALSE)
    ELSE (IF HasBlockedTransition THEN TransitionIssue(id, status)
          ELSE IF HasBlockedField THEN <<>> ELSE Refuse(id))
         \o SetBlockedFlag(id, TRUE)
         \o AddLabels(id, {"blocked"})
         \o (IF reason THEN AddTo(id, "comments") ELSE <<>>)

\* Mutant: the column is not restored.
MutantRestore(card) ==
    UpdateIssue(card.id, card.title, card.notes)
    \o UpdateField(card.id, "assignee", card.f["assignee"])
    \o UpdateField(card.id, "due", card.f["due"])

\* restoreJiraCard
RestoreJiraCard(card) ==
    UpdateIssue(card.id, card.title, card.notes)
    \o MoveIssue(card.id, card.status, FALSE)
    \o UpdateField(card.id, "assignee", card.f["assignee"])
    \o UpdateField(card.id, "due", card.f["due"])
    \o SetPriorityName(card.id, card.f["priority"])

\* jiraToolCanUseResultCardID, jiraArgsWithResultCardID
UseResultCard ==
    {"append_notes", "add_comment", "assign_ticket", "unassign_ticket", "set_eta",
     "set_priority", "set_story_points", "set_estimate", "add_worklog",
     "set_sprint", "set_components", "set_fix_versions", "set_custom_field",
     "add_remote_link", "set_reporter", "add_watcher", "set_blocked",
     "delete_ticket"}
CardFor(act, a) ==
    IF a.tool \in UseResultCard /\ a.card = NoCard
    THEN IF a.other # NoCard THEN a.other ELSE act.id
    ELSE a.card

FieldOf == [assign_ticket |-> "assignee", set_eta |-> "due", set_story_points |-> "points",
            set_estimate |-> "estimate", set_sprint |-> "sprint",
            set_components |-> "components", set_fix_versions |-> "fixVersions",
            set_custom_field |-> "custom", set_reporter |-> "reporter"]
ListOf == [add_comment |-> "comments", add_worklog |-> "worklogs",
           add_remote_link |-> "remoteLinks", add_watcher |-> "watchers"]

\* The column a card was put into, then its place there.
Reprioritize(id, act, a) ==
    (IF act.moved THEN MoveIssue(id, act.status, FALSE) ELSE <<>>)
    \o LET beside == IF a.other # NoCard THEN a.other ELSE act.other
       IN IF beside = NoCard THEN <<>> ELSE RankIssue(id, beside)

ParticipantUpdate(id, a) ==
    IF id = NoCard THEN <<>>
    ELSE (IF a.status = "" THEN <<>> ELSE MoveIssue(id, a.status, a.blocker))
         \o (IF a.v = 0 THEN <<>> ELSE UpdateField(id, "due", a.v))
         \o AddTo(id, "comments")

\* ApplyToolCall (and ApplyUndo), by tool.
RequestsOf(act, a, id) ==
    CASE a.tool \in {"create_ticket", "create_subtask"} ->
           CreateIssue(act.card)
           \o (IF act.card.status = "Backlog" THEN <<>>
               ELSE MoveIssue(NoCard, act.card.status, FALSE))
      [] a.tool = "move_ticket" -> MoveIssue(id, a.status, FALSE)
      [] a.tool = "add_tags" -> AddLabels(id, a.tags)
      [] a.tool = "remove_tags" -> RemoveLabels(id, a.tags)
      [] a.tool = "update_ticket" -> UpdateIssue(id, a.title, a.notes)
      [] a.tool = "append_notes" -> UpdateIssue(id, 0, act.notes)
      [] a.tool = "set_priority" -> SetPriorityName(id, a.v)
      [] a.tool = "unassign_ticket" -> UpdateField(id, "assignee", 0)
      [] a.tool \in DOMAIN FieldOf -> UpdateField(id, FieldOf[a.tool], a.v)
      [] a.tool \in DOMAIN ListOf -> AddTo(id, ListOf[a.tool])
      [] a.tool = "link_issues" ->
           IF IsKey(a.other) THEN AddTo(id, "links") ELSE Refuse(id)
      [] a.tool = "prioritize_ticket" -> Reprioritize(id, act, a)
      [] a.tool = "rank_issue" ->
           RankIssue(id, IF a.place \in Relative THEN a.other ELSE NoCard)
      [] a.tool = "set_blocked" ->
           MoveIssue(id, "Blocked", FALSE)
           \o AddLabels(id, act.tags \ {"blocked"})
           \o UpdateIssue(id, 0, act.notes)
           \o AddTo(id, "comments")
      [] a.tool = "record_participant_update" -> ParticipantUpdate(id, a)
      [] a.tool = "delete_ticket" -> CloseIssue(id)
      [] a.tool = "close" -> CloseIssue(act.card.id)
      [] a.tool = "restore" -> RestoreJiraCard(act.card)
      [] a.tool = "recreate" -> CreateIssue(act.card)

\* The arguments are resolved again, on the board as it is by now.
Writes(act) ==
    LET a == [act.a EXCEPT !.card = ResolveReference(board, @),
                           !.other = ResolveReference(board, @)]
    IN RequestsOf(act, a, CardFor(act, a))

\* jiraToolRequiresSync
RequiresSync(act) ==
    act.a.tool = "record_participant_update" => act.a.card # NoCard

\* Mutant: a confirmed set is answered by the outcome of its last action.
MutantFinish(d) ==
    Settled([d EXCEPT !.acts = Tail(@), !.todo = <<>>, !.key = 0,
                      !.failed = @ /\ Len(d.acts) = 1])

\* An action whose requests are all made, or whose writing through failed.
Finish(d) ==
    Settled([d EXCEPT !.acts = Tail(@), !.todo = <<>>, !.key = 0])
Progress(d) ==
    IF d.todo = <<>> THEN Finish(d) ELSE [d EXCEPT !.pc = "write"]

\* syncJiraToolCall, syncConfirmedJiraToolCalls: the next action that is to be
\* written through.
StartSync(c) ==
    LET act == Head(call[c].acts)
    IN /\ call[c].pc = "sync"
       /\ call' = [call EXCEPT ![c] = Progress(
             [call[c] EXCEPT !.todo = IF RequiresSync(act) THEN Writes(act) ELSE <<>>,
                             !.required = @ \/ RequiresSync(act)])]
       /\ UNCHANGED <<board, touched, history, conflicts, jira, refresh, counters>>

----------------------------------------------------------------------------
\* Jira (external): what a request does to an issue

Edited(issue, w) ==
    CASE w.op = "transition" -> [issue EXCEPT !.status = w.status]
      [] w.op = "flag" -> [issue EXCEPT !.flag = w.v = 1]
      [] w.op = "addLabels" -> [issue EXCEPT !.labels = @ \cup w.labels]
      [] w.op = "removeLabels" -> [issue EXCEPT !.labels = @ \ w.labels]
      [] w.op = "update" ->
            [issue EXCEPT !.title = IF w.title = 0 THEN @ ELSE w.title,
                          !.notes = IF w.notes = {} THEN @ ELSE w.notes]
      [] w.op = "set" -> [issue EXCEPT !.f[w.field] = w.v]
      [] w.op = "extend" -> [issue EXCEPT !.f[w.field] = @ + 1]
      [] w.op = "rank" -> issue

\* The fields CreateIssue sends.
Sent(card) ==
    [Issue(card.title) EXCEPT
        !.notes = card.notes, !.labels = card.tags, !.parent = card.parent,
        !.f = [x \in DOMAIN Empty |->
                 IF x \in {"assignee", "due", "priority", "points", "components",
                           "fixVersions"}
                 THEN card.f[x] ELSE 0]]
NewKey == CHOOSE k \in Keys : ~Exists(k) /\ \A j \in Keys : ~Exists(j) => k <= j

Target(c) == LET w == Head(call[c].todo)
             IN IF w.id = NoCard /\ call[c].key # 0 THEN Key(call[c].key) ELSE w.id

\* validateIssueKey and the other errors found before a request is made, and
\* Jira's own refusal of an issue or a parent it does not know.
Known == {Key(k) : k \in {j \in Keys : Exists(j)}}
Sendable(c) ==
    LET w == Head(call[c].todo)
    IN CASE w.op = "refuse" -> FALSE
         [] w.op = "create" -> w.card.parent = NoCard \/ IsKey(w.card.parent)
         [] OTHER -> Target(c) \in Known

\* doJSON: a request is done, fails, or is done although its answer is lost.
Write(c) ==
    LET w == Head(call[c].todo)
        done == IF w.op = "create" THEN [jira EXCEPT ![NewKey] = Sent(w.card)]
                ELSE [jira EXCEPT ![Target(c).n] = Edited(@, w)]
    IN /\ call[c].pc = "write"
       /\ w.op = "create" => \E k \in Keys : ~Exists(k)
       /\ \/ /\ ~Sendable(c)
             /\ call' = [call EXCEPT ![c].pc = "failed"]
             /\ UNCHANGED <<jira, faults>>
          \/ /\ Sendable(c)
             /\ jira' = done
             /\ LET sent == [call[c] EXCEPT !.sent = @ + 1]
                IN call' = [call EXCEPT ![c] =
                      IF w.op = "create"
                      THEN [sent EXCEPT !.key = NewKey, !.pc = "rename"]
                      ELSE Progress([sent EXCEPT !.todo = Tail(@)])]
             /\ UNCHANGED faults
          \/ /\ Sendable(c) /\ faults < MaxFaults
             /\ jira' \in {jira, done}
             /\ call' = [call EXCEPT ![c].pc = "failed"]
             /\ faults' = faults + 1
       /\ UNCHANGED <<board, touched, history, conflicts, refresh, calls, undos,
                      edits, resolves>>

\* The card gets the key of its issue; an undo renames nothing.
Rename(c) ==
    LET act == Head(call[c].acts)
        renamed == RenameCardID(board, act.card.id, Key(call[c].key))
    IN /\ call[c].pc = "rename"
       /\ board' = IF call[c].undo THEN board ELSE renamed
       /\ touched' = (touched \/ board' # board)
       /\ call' = [call EXCEPT ![c] = Progress([call[c] EXCEPT !.todo = Tail(@)])]
       /\ UNCHANGED <<history, conflicts, jira, refresh, counters>>

\* RecordJiraSyncFailure: the card as the arguments name it, unresolved, or as
\* the result does.
Conflict(id, local, shown) ==
    [id |-> id, local |-> local, jira |-> shown, resolution |-> ""]
FailureOf(c) ==
    LET act == Head(call[c].acts)
        created == act.a.tool = "create_ticket" /\ call[c].key # 0
        named == CASE act.a.tool = "create_ticket" -> NoCard
                   [] act.a.tool = "create_subtask" -> act.a.other
                   [] OTHER -> act.a.card
        id == IF named # NoCard THEN named
              ELSE IF created THEN Key(call[c].key)
              ELSE act.id
        i == Find(board, id)
    IN IF call[c].undo \/ i = 0 THEN <<>>
       ELSE <<Conflict(id, board.cards[i], board.cards[i])>>

RecordJiraSyncFailure(c) ==
    /\ call[c].pc = "failed"
    /\ conflicts' = conflicts \o FailureOf(c)
    /\ call' = [call EXCEPT ![c] =
          Finish([call[c] EXCEPT !.failed = TRUE, !.bad = @ + 1])]
    /\ UNCHANGED <<board, touched, history, jira, refresh, counters>>

----------------------------------------------------------------------------
\* What comes back from Jira

\* RefreshFromJira (startPolling, jiraWebhookHandler): the search, in several
\* requests of which the last decides.
Search(r) ==
    /\ refresh[r].pc = "idle"
    /\ refresh' = [refresh EXCEPT ![r] = [pc |-> "found", cards |-> SearchKanbanCards]]
    /\ UNCHANGED <<board, touched, history, conflicts, jira, call, counters>>

\* Mutant: mutations from before the last refresh count as well.
MutantHasLocal(id) == \E i \in DOMAIN history : id \in history[i].ids

\* hasLocalMutationSinceJiraRefreshLocked
HasLocalMutation(id) == \E i \in DOMAIN history : history[i].fresh /\ id \in history[i].ids

Newest(list) ==
    IF Len(list) <= MaxConflicts THEN list
    ELSE SubSeq(list, Len(list) - MaxConflicts + 1, Len(list))

\* ApplyJiraCards
ApplyJiraCards(r) ==
    LET cards == refresh[r].cards
        Local(d) == Of(board.cards, d.id)
        Kept(d) == /\ d.id \in IdsOf(board.cards)
                   /\ Local(d) # d
                   /\ HasLocalMutation(d.id)
        next == [i \in DOMAIN cards |->
                   IF Kept(cards[i]) THEN Local(cards[i]) ELSE cards[i]]
        kept == At(cards, {i \in DOMAIN cards : Kept(cards[i])})
    IN /\ refresh[r].pc = "found"
       /\ board' = [board EXCEPT !.cards = next, !.next = NextCreatedIndex(next)]
       /\ conflicts' = Newest(conflicts \o
             [i \in DOMAIN kept |-> Conflict(kept[i].id, Local(kept[i]), kept[i])])
       /\ history' = [i \in DOMAIN history |-> [history[i] EXCEPT !.fresh = FALSE]]
       /\ touched' = FALSE
       /\ refresh' = [refresh EXCEPT ![r] = [pc |-> "idle", cards |-> <<>>]]
       /\ UNCHANGED <<jira, call, counters>>

\* resolveJiraConflict
ResolveJiraConflict(i, resolution) ==
    LET d == conflicts[i].jira
        at == Find(board, conflicts[i].id)
    IN /\ resolves < MaxResolves
       /\ conflicts[i].resolution = ""
       /\ conflicts' = [conflicts EXCEPT ![i].resolution = resolution]
       /\ IF resolution = "use_jira"
          THEN /\ board' = [board EXCEPT !.cards =
                      IF at = 0 THEN Append(@, d) ELSE [@ EXCEPT ![at] = d]]
               /\ touched' = TRUE
          ELSE UNCHANGED <<board, touched>>
       /\ resolves' = resolves + 1
       /\ UNCHANGED <<history, jira, call, refresh, calls, undos, faults, edits>>

\* Somebody moves an issue in Jira (external).
EditInJira(k, status) ==
    /\ edits < MaxEdits
    /\ Exists(k) /\ jira[k].status # status
    /\ jira' = [jira EXCEPT ![k].status = status]
    /\ edits' = edits + 1
    /\ UNCHANGED <<board, touched, history, conflicts, call, refresh, calls, undos,
                   faults, resolves>>

Sync(c) ==
    \/ ApplyNext(c) \/ RecordMutation(c) \/ StartSync(c) \/ Write(c)
    \/ Rename(c) \/ RecordJiraSyncFailure(c)

Next ==
    \/ \E c \in Callers : Begin(c) \/ UndoLastMutation(c) \/ Sync(c)
    \/ \E r \in Refreshers : Search(r) \/ ApplyJiraCards(r)
    \/ \E i \in DOMAIN conflicts, resolution \in {"keep_local", "use_jira"} :
          ResolveJiraConflict(i, resolution)
    \/ \E k \in Keys, status \in {"In Progress"} : EditInJira(k, status)

Spec == Init /\ [][Next]_vars

\* Callers go on with their calls, each refresher polls again and again.
FairSpec ==
    /\ Spec
    /\ \A c \in Callers : WF_vars(Sync(c))
    /\ \A r \in Refreshers : WF_vars(Search(r) \/ ApplyJiraCards(r))

----------------------------------------------------------------------------
\* Properties

Quiet == \A c \in Callers : call[c].pc = "idle"

\* No two cards have one id, however a refresh, a rename and the reuse of
\* local ids fall together.
IdsDistinct ==
    \A i, j \in DOMAIN board.cards : board.cards[i].id = board.cards[j].id => i = j

Shown == {"assignee", "due", "priority", "points", "estimate", "sprint",
          "components", "fixVersions", "custom", "reporter"}
Agrees(card, issue) ==
    LET shown == CardOf(card.id.n, issue)
    IN /\ card.status = shown.status /\ card.title = shown.title
       /\ \A x \in Shown : card.f[x] = shown.f[x]
Listed(id) == \E i \in DOMAIN conflicts : ResolveAlias(board, conflicts[i].id) = id

\* When no call is in progress and nothing was undone, a card that Jira shows
\* otherwise is listed as a conflict (jira.go's write-through, with
\* RecordJiraSyncFailure for what failed of it).
ShownOrListed ==
    Quiet /\ undos = 0 => \A i \in DOMAIN board.cards :
        LET d == board.cards[i]
        IN IsKey(d.id) => Agrees(d, jira[d.id.n]) \/ Listed(d.id)

\* An undo that is answered "api_confirmed" has given the issues, too, back the
\* column, title, assignee and due date the board went back to, unless it had
\* to make an issue again or a conflict was resolved for Jira's side meanwhile
\* (jira_conflicts.go, ApplyUndo).
Recreated == \E i \in DOMAIN history :
    history[i].undone /\ IdsOf(history[i].before) # IdsOf(history[i].after)
UndoneInJira ==
    \A c \in Callers :
        /\ Quiet /\ call[c].answer = "api_confirmed" /\ ~Recreated
        /\ history[Len(history)].tool = "undo_last_mutation"
        /\ \A i \in DOMAIN conflicts : conflicts[i].resolution # "use_jira"
        => \A i \in DOMAIN board.cards :
              LET d == board.cards[i]
                  shown == CardOf(d.id.n, jira[d.id.n])
              IN IsKey(d.id) => /\ d.status = shown.status /\ d.title = shown.title
                                /\ d.f["assignee"] = shown.f["assignee"]
                                /\ d.f["due"] = shown.f["due"]

\* A ranked card stands where it was asked for, and no other card has changed
\* its place (scrum_tools.go, reorderTicket).
Placed(b, a, id, cards) ==
    LET i == Position(cards, id)
        column == InColumn(cards, cards[i].status)
    IN CASE a.place = "above" -> cards[i + 1].id = ResolveReference(b, a.other)
         [] a.place = "below" -> cards[i - 1].id = ResolveReference(b, a.other)
         [] a.place = "top" -> \A j \in column : i <= j
         [] a.place = "bottom" -> \A j \in column : j <= i
Ranked(c) ==
    \A i \in DOMAIN call'[c].made :
        LET act == call'[c].made[i]
            Others(cards) == RemoveAt(cards, Position(cards, act.id))
        IN /\ call[c].made = <<>>
           /\ act.a.tool \in {"prioritize_ticket", "rank_issue"}
           /\ act.a.place # ""
           => /\ Placed(board, act.a, act.id, board'.cards)
              /\ Others(board.cards) = Others(board'.cards)
PlacedWhereAsked == [][\A c \in Callers : Ranked(c)]_vars

\* A card gets the key of the issue that was made from it.
KeyOfItsIssue ==
    [][\A c \in Callers :
          LET key == Key(call[c].key)
          IN /\ call[c].pc = "rename" /\ call'[c].pc # "rename"
             /\ key \notin IdsOf(board.cards) /\ key \in IdsOf(board'.cards)
             => Of(board'.cards, key).title = Head(call[c].acts).card.title]_vars

\* A call is answered "api_confirmed" only if none of its requests failed,
\* also for one action of a confirmed set.
ConfirmedSent == \A c \in Callers : call[c].answer = "api_confirmed" => call[c].bad = 0

\* "Jira API returned success for the requested write." (jira.go:1329)
ClaimsOnlyWrites == \A c \in Callers : call[c].answer = "api_confirmed" => call[c].sent > 0

\* Once nothing else happens the board shows what Jira holds.
ShowsJira ==
    /\ IdsOf(board.cards) = {Key(k) : k \in {j \in Keys : Exists(j)}}
    /\ \A i \in DOMAIN board.cards :
          board.cards[i] = CardOf(board.cards[i].id.n, jira[board.cards[i].id.n])
Converges == <>[]ShowsJira
=============================================================================
