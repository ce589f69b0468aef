---------------------------- MODULE TicketTools ----------------------------
(***************************************************************************)
(* The tools that change the cards of the board (cmd/server/board.go and   *)
(* scrum_tools.go), as operators: a tool takes the board and its arguments *)
(* and returns the next board together with what its result says.  Each    *)
(* runs under board.mu from the lookup of the card to touchLocked, so each *)
(* is one step of whoever calls it.                                        *)
(*                                                                         *)
(* A card is named by its id or by its title.  Ids are local               *)
(* ("kanban-card-007") until Jira gives the card an issue key; a renamed   *)
(* card stays reachable under its old id through board.cardAliases.        *)
(***************************************************************************)
EXTENDS Integers, Sequences, FiniteSets, SequencesExt

CONSTANTS
    MaxLocal,   \* bound: local card ids that are handed out
    MaxKey,     \* bound: issues Jira ever holds
    Titles,     \* titles, up to what normalizeCardTitleForReference ignores
    Remarks     \* what can be written in a card's notes

ASSUME IdsAssumption == MaxLocal \in Nat /\ MaxKey \in Nat
ASSUME TextAssumption == Titles \subseteq Nat \ {0} /\ Remarks \subseteq Nat

Statuses == {"Backlog", "In Progress", "Blocked", "Done"}
Tags == {"blocked", "risk", "tag"}
Columns == <<"Backlog", "In Progress", "Blocked", "Done">>

\* What a card is called by, and the ids among it.
Ref(kind, n) == [kind |-> kind, n |-> n]
LocalId(n) == Ref("local", n)
Key(n) == Ref("key", n)
TitleRef(n) == Ref("title", n)
NoCard == Ref("none", 0)
IsKey(r) == r.kind = "key"

\* Fields that hold one value (0: empty) and fields that hold a list, of which
\* only the length is kept, and (own) whether it has entries made here, whose
\* ids and times are not those Jira gives them.
Single == {"assignee", "due", "priority", "points", "estimate", "sprint",
           "components", "fixVersions", "custom", "reporter"}
Lists == {"comments", "worklogs", "links", "remoteLinks", "watchers"}
CardFields == Single \cup Lists
Empty == [x \in CardFields |-> 0]

\* What a card can be called by, and the ids a card can have.
Refs == [kind : {"local"}, n : 1 .. MaxLocal]
        \cup [kind : {"none", "key", "title"}, n : Nat]
Ids == [kind : {"local"}, n : 1 .. MaxLocal] \cup [kind : {"key"}, n : 1 .. MaxKey]
Cards == [id : Ids, status : Statuses, title : Nat, notes : SUBSET Remarks,
          tags : SUBSET Tags, parent : Refs, own : BOOLEAN,
          f : [CardFields -> Nat]]
Boards == [cards : Seq(Cards), alias : [1 .. MaxLocal -> 0 .. MaxKey],
           next : 1 .. MaxLocal + 1]

Card(id, status, title) ==
    [id |-> id, status |-> status, title |-> title, notes |-> {}, tags |-> {},
     parent |-> NoCard, own |-> FALSE, f |-> Empty]

\* A board: cards in their order, cardAliases, nextCreatedIndex.
Board(cards) ==
    [cards |-> cards, alias |-> [n \in 1 .. MaxLocal |-> 0], next |-> 1]

\* The i-th of a set of indexes, and the cards at such a set, in their order.
Nth(S, i) == CHOOSE n \in S : Cardinality({m \in S : m <= n}) = i
At(cards, S) == [i \in 1 .. Cardinality(S) |-> cards[Nth(S, i)]]

IdsOf(cards) == {cards[i].id : i \in DOMAIN cards}
Of(cards, id) == cards[CHOOSE i \in DOMAIN cards : cards[i].id = id]

ResolveAlias(b, id) ==
    IF id.kind = "local" /\ b.alias[id.n] # 0 THEN Key(b.alias[id.n]) ELSE id

\* The first card of that id; 0 when there is none.
Position(cards, id) == SelectInSeq(cards, LAMBDA c : c.id = id)

\* findCardLocked and cardIndexLocked
Find(b, id) == Position(b.cards, ResolveAlias(b, id))

\* resolveCardReferenceLocked: an id the board has, else the one card of that
\* title, else the reference as it came.
ResolveReference(b, r) ==
    LET byId == ResolveAlias(b, r)
        titled == {i \in DOMAIN b.cards :
                      r.kind = "title" /\ b.cards[i].title = r.n}
    IN IF byId \in IdsOf(b.cards) THEN byId
       ELSE IF Cardinality(titled) = 1
            THEN b.cards[CHOOSE i \in titled : TRUE].id
            ELSE r

----------------------------------------------------------------------------
\* Arguments and results

Tools ==
    {"create_ticket", "create_subtask", "move_ticket", "add_tags", "remove_tags",
     "update_ticket", "append_notes", "add_comment", "assign_ticket",
     "unassign_ticket", "set_eta", "set_priority", "set_story_points",
     "set_estimate", "add_worklog", "link_issues", "set_sprint",
     "prioritize_ticket", "rank_issue", "set_components", "set_fix_versions",
     "set_custom_field", "add_remote_link", "set_reporter", "add_watcher",
     "set_blocked", "record_participant_update", "delete_ticket"}
\* What an undo writes through, as if by tools of these names.
UndoTools == {"close", "restore", "recreate"}
Places == {"", "above", "below", "top", "bottom"}
Args == [tool : Tools \cup UndoTools \cup {"none"}, card : Refs, other : Refs,
         status : Statuses \cup {""}, title : Titles \cup {0},
         notes : SUBSET Remarks, tags : SUBSET Tags, v : Nat, place : Places,
         blocker : BOOLEAN]
NoArgs == [tool |-> "none", card |-> NoCard, other |-> NoCard, status |-> "",
           title |-> 0, notes |-> {}, tags |-> {}, v |-> 0, place |-> "",
           blocker |-> FALSE]

Refused(b) ==
    [board |-> b, changed |-> FALSE, id |-> NoCard, other |-> NoCard,
     place |-> "", status |-> "", moved |-> FALSE, notes |-> {}, tags |-> {}]

Changed(b, id) == [Refused(b) EXCEPT !.changed = TRUE, !.id = id]

\* A tool that looks one card up and changes it, or refuses the call with
\* "unknown card_id".
OnCard(b, a, Edit(_)) ==
    LET i == Find(b, a.card)
    IN IF i = 0 THEN Refused(b)
       ELSE Changed([b EXCEPT !.cards[i] = Edit(@)], a.card)

SetField(b, a, field) ==
    OnCard(b, a, LAMBDA c : [c EXCEPT !.f[field] = a.v])

Extend(b, a, field) ==
    OnCard(b, a, LAMBDA c : [c EXCEPT !.f[field] = @ + 1, !.own = TRUE])

----------------------------------------------------------------------------
\* The tools

\* createCardIDLocked: indexes whose id names a card, also through an alias,
\* are skipped.
FreeIndexes(b) == {n \in b.next .. MaxLocal : Find(b, LocalId(n)) = 0}
CreateCardID(b) == CHOOSE n \in FreeIndexes(b) : \A m \in FreeIndexes(b) : n <= m

CreateTicket(b, a) ==
    IF a.title = 0 \/ FreeIndexes(b) = {} THEN Refused(b)
    ELSE LET n == CreateCardID(b)
             status == IF a.status = "" THEN "Backlog" ELSE a.status
             card == [Card(LocalId(n), status, a.title)
                         EXCEPT !.tags = a.tags, !.parent = a.other]
         IN Changed([b EXCEPT !.cards = Append(@, card), !.next = n + 1],
                    card.id)

\* createSubtask: the parent need not be on the board.
CreateSubtask(b, a) ==
    IF a.other = NoCard THEN Refused(b) ELSE CreateTicket(b, a)

MoveTicket(b, a) ==
    IF a.status = "" THEN Refused(b)
    ELSE OnCard(b, a, LAMBDA c : [c EXCEPT !.status = a.status])
AddTags(b, a) == OnCard(b, a, LAMBDA c : [c EXCEPT !.tags = @ \cup a.tags])
RemoveTags(b, a) ==
    IF a.tags = {} THEN Refused(b)
    ELSE OnCard(b, a, LAMBDA c : [c EXCEPT !.tags = @ \ a.tags])

UpdateTicket(b, a) ==
    OnCard(b, a, LAMBDA c :
        [c EXCEPT !.title = IF a.title = 0 THEN @ ELSE a.title,
                  !.notes = IF a.notes = {} THEN @ ELSE a.notes])

\* Results that carry the card's notes, which the write to Jira sends.
WithNotes(b, a, Edit(_)) ==
    LET out == OnCard(b, a, Edit)
    IN IF out.changed
       THEN [out EXCEPT !.notes = out.board.cards[Find(b, a.card)].notes]
       ELSE out

AppendNotes(b, a) ==
    IF a.notes = {} THEN Refused(b)
    ELSE WithNotes(b, a, LAMBDA c : [c EXCEPT !.notes = @ \cup a.notes])

AddComment(b, a) == Extend(b, a, "comments")
AssignTicket(b, a) == SetField(b, a, "assignee")
UnassignTicket(b, a) == SetField(b, [a EXCEPT !.v = 0], "assignee")
SetETA(b, a) == SetField(b, a, "due")
SetPriority(b, a) == IF a.v = 0 THEN Refused(b) ELSE SetField(b, a, "priority")
SetStoryPoints(b, a) == SetField(b, a, "points")
SetEstimate(b, a) == IF a.v = 0 THEN Refused(b) ELSE SetField(b, a, "estimate")
AddWorklog(b, a) == Extend(b, a, "worklogs")
SetSprint(b, a) == IF a.v = 0 THEN Refused(b) ELSE SetField(b, a, "sprint")
SetComponents(b, a) == SetField(b, a, "components")
SetFixVersions(b, a) == SetField(b, a, "fixVersions")
SetCustomField(b, a) == SetField(b, a, "custom")
AddRemoteLink(b, a) == Extend(b, a, "remoteLinks")
SetReporter(b, a) == SetField(b, a, "reporter")

\* linkIssues: the target need not be on the board.
LinkIssues(b, a) ==
    IF a.other \in {NoCard, a.card} THEN Refused(b) ELSE Extend(b, a, "links")

\* addWatcher: the same user a second time changes nothing.
AddWatcher(b, a) ==
    LET i == Find(b, a.card)
    IN IF i # 0 /\ b.cards[i].f["watchers"] > 0 THEN Refused(b)
       ELSE Extend(b, a, "watchers")

Block(c, notes, tags) ==
    [c EXCEPT !.status = "Blocked", !.tags = @ \cup {"blocked"} \cup tags,
              !.notes = @ \cup notes, !.f["comments"] = @ + 1, !.own = TRUE]

SetBlocked(b, a) ==
    [WithNotes(b, a, LAMBDA c : Block(c, a.notes, a.tags))
        EXCEPT !.tags = {"blocked"} \cup a.tags]

\* deleteTicket compares the id itself: an old local id is not followed.
DeleteTicket(b, a) ==
    LET i == Position(b.cards, a.card)
    IN IF i = 0 THEN Refused(b)
       ELSE Changed([b EXCEPT !.cards = RemoveAt(@, i)], a.card)

\* recordParticipantUpdate, its part on the card: a blocker wins over the
\* status it was reported with.  Without a card only the meeting changes.
RecordParticipantUpdate(b, a) ==
    LET Noted(c) ==
            [c EXCEPT !.status = IF a.blocker THEN "Blocked"
                                 ELSE IF a.status = "" THEN @ ELSE a.status,
                      !.tags = IF a.blocker THEN @ \cup {"blocked", "risk"} ELSE @,
                      !.f["due"] = IF a.v = 0 THEN @ ELSE a.v,
                      !.notes = @ \cup a.notes]
        i == Find(b, a.card)
    IN Changed(IF i = 0 THEN b ELSE [b EXCEPT !.cards[i] = Noted(@)], a.card)

----------------------------------------------------------------------------
\* reorderTicket, for prioritize_ticket (the card follows its target into the
\* target's column) and rank_issue (it keeps its own)

InColumn(cards, status) == {i \in DOMAIN cards : cards[i].status = status}
FirstInStatus(cards, status) ==
    CHOOSE i \in InColumn(cards, status) :
        \A j \in InColumn(cards, status) : i <= j
LastInStatus(cards, status) ==
    CHOOSE i \in InColumn(cards, status) :
        \A j \in InColumn(cards, status) : j <= i

\* Mutant: at the bottom of its column means before the last card.
MutantInsertionIndex(cards, status, place) ==
    IF InColumn(cards, status) = {} THEN Len(cards) + 1
    ELSE IF place = "top" THEN FirstInStatus(cards, status)
         ELSE LastInStatus(cards, status)

\* insertionIndexForColumnPosition
InsertionIndex(cards, status, place) ==
    IF InColumn(cards, status) = {} THEN Len(cards) + 1
    ELSE IF place = "top" THEN FirstInStatus(cards, status)
         ELSE LastInStatus(cards, status) + 1

\* The neighbour the rank in Jira is given by, none in an empty column.
Neighbour(cards, status, place) ==
    IF InColumn(cards, status) = {} THEN NoCard
    ELSE cards[IF place = "top" THEN FirstInStatus(cards, status)
               ELSE LastInStatus(cards, status)].id

Relative == {"above", "below"}

ReorderTicket(b, a, follow) ==
    LET id == ResolveAlias(b, a.card)
        target == ResolveAlias(b, a.other)
        i == Find(b, id)
        t == Find(b, target)
        old == b.cards[i].status
        status == IF a.place \in Relative
                  THEN IF a.status # "" THEN a.status
                       ELSE IF follow THEN b.cards[t].status ELSE old
                  ELSE IF a.status # "" THEN a.status ELSE old
        rest == RemoveAt(b.cards, i)
        at == Position(rest, target)
        to == CASE a.place = "above" -> at
                [] a.place = "below" -> at + 1
                [] OTHER -> InsertionIndex(rest, status, a.place)
        beside == IF a.place \in Relative THEN target
                  ELSE Neighbour(rest, status, a.place)
        moved == [b EXCEPT !.cards =
                     InsertAt(rest, to, [b.cards[i] EXCEPT !.status = status])]
    IN IF \/ i = 0
          \/ a.place = "" /\ follow
          \/ a.place \in Relative /\ (t = 0 \/ target = id)
          \/ a.place \in Relative /\ a.status \notin {"", b.cards[t].status}
       THEN Refused(b)
       ELSE IF a.place = ""
            THEN [Changed(b, id) EXCEPT !.status = status, !.moved = status # old]
            ELSE [Changed(moved, id) EXCEPT
                     !.other = beside, !.status = status, !.moved = status # old,
                     !.place = IF a.place \in {"above", "top"} THEN "above"
                               ELSE "below"]

----------------------------------------------------------------------------
\* applyToolCall: one tool, by name
ApplyTool(b, a) ==
    CASE a.tool = "create_ticket" -> CreateTicket(b, a)
      [] a.tool = "create_subtask" -> CreateSubtask(b, a)
      [] a.tool = "move_ticket" -> MoveTicket(b, a)
      [] a.tool = "add_tags" -> AddTags(b, a)
      [] a.tool = "remove_tags" -> RemoveTags(b, a)
      [] a.tool = "update_ticket" -> UpdateTicket(b, a)
      [] a.tool = "append_notes" -> AppendNotes(b, a)
      [] a.tool = "add_comment" -> AddComment(b, a)
      [] a.tool = "assign_ticket" -> AssignTicket(b, a)
      [] a.tool = "unassign_ticket" -> UnassignTicket(b, a)
      [] a.tool = "set_eta" -> SetETA(b, a)
      [] a.tool = "set_priority" -> SetPriority(b, a)
      [] a.tool = "set_story_points" -> SetStoryPoints(b, a)
      [] a.tool = "set_estimate" -> SetEstimate(b, a)
      [] a.tool = "add_worklog" -> AddWorklog(b, a)
      [] a.tool = "link_issues" -> LinkIssues(b, a)
      [] a.tool = "set_sprint" -> SetSprint(b, a)
      [] a.tool = "prioritize_ticket" -> ReorderTicket(b, a, TRUE)
      [] a.tool = "rank_issue" -> ReorderTicket(b, a, FALSE)
      [] a.tool = "set_components" -> SetComponents(b, a)
      [] a.tool = "set_fix_versions" -> SetFixVersions(b, a)
      [] a.tool = "set_custom_field" -> SetCustomField(b, a)
      [] a.tool = "add_remote_link" -> AddRemoteLink(b, a)
      [] a.tool = "set_reporter" -> SetReporter(b, a)
      [] a.tool = "add_watcher" -> AddWatcher(b, a)
      [] a.tool = "set_blocked" -> SetBlocked(b, a)
      [] a.tool = "record_participant_update" -> RecordParticipantUpdate(b, a)
      [] a.tool = "delete_ticket" -> DeleteTicket(b, a)
      [] OTHER -> Refused(b)

\* renameCardID
\* Mutant: the card is renamed also when the board has the new id already.
MutantRename(b, old, new) ==
    LET i == Find(b, old)
    IN IF i = 0 THEN b
       ELSE [b EXCEPT !.cards[i].id = new, !.alias[old.n] = new.n]

RenameCardID(b, old, new) ==
    LET i == Find(b, old)
    IN IF i = 0 \/ Find(b, new) # 0 THEN b
       ELSE [b EXCEPT !.cards[i].id = new, !.alias[old.n] = new.n]

\* canonicalizeToolArgsForTool: references become ids; four tools fall back on
\* the card of the latest mutation when they name none.
FallbackTools == {"assign_ticket", "set_eta", "add_comment", "append_notes"}
Canonicalize(b, a, latest) ==
    LET resolved == [a EXCEPT !.card = ResolveReference(b, @),
                              !.other = ResolveReference(b, @)]
    IN IF a.tool \in FallbackTools /\ a.card = NoCard
       THEN [resolved EXCEPT !.card = IF resolved.other # NoCard
                                      THEN resolved.other
                                      ELSE ResolveAlias(b, latest)]
       ELSE resolved

\* nextCreatedIndexForCards
NextCreatedIndex(cards) ==
    LET local == {c.n : c \in {d \in IdsOf(cards) : d.kind = "local"}}
    IN IF local = {} THEN 1 ELSE 1 + (CHOOSE n \in local : \A m \in local : m <= n)
=============================================================================
