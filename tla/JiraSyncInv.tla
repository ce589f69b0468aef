---------------------------- MODULE JiraSyncInv ----------------------------
(***************************************************************************)
(* The invariants behind the theorems about JiraSync (CallsOK, IInv,       *)
(* BackInv, ShownInv), and what is said there of boards, tools, requests   *)
(* and calls.                                                              *)
(***************************************************************************)
EXTENDS JiraSync

----------------------------------------------------------------------------
\* What a caller is told

Fields == {"pc", "asked", "before", "made", "acts", "todo", "key", "undo",
           "required", "failed", "sent", "bad", "answer"}

\* What is known of a call at any moment.  A failed action is remembered until
\* the whole set is answered, and the answer is given once, at the end.
CallOK(d) ==
    /\ d = [x \in Fields |-> d[x]]
    /\ d.bad \in Nat
    /\ d.pc # "idle" => d.answer = "none" /\ (d.failed \/ d.bad = 0)
    /\ d.answer = "api_confirmed" => d.bad = 0

\* The inductive invariant behind ConfirmedSent.
CallsOK ==
    /\ call = [c \in Callers |-> call[c]]
    /\ \A c \in Callers : CallOK(call[c])

\* A caller in the middle of its call.
Busy(d) ==
    /\ d = [x \in Fields |-> d[x]]
    /\ d.bad \in Nat
    /\ d.failed \/ d.bad = 0
    /\ d.answer = "none"

----------------------------------------------------------------------------
\* The board and what the tools do to it

Distinct(cards) == \A i, j \in DOMAIN cards : cards[i].id = cards[j].id => i = j
\* Every card has a title, and no two cards are of one issue.
Proper(cards) ==
    /\ \A i \in DOMAIN cards : cards[i].title # 0
    /\ \A i, j \in DOMAIN cards : IsKey(cards[i].id) /\ cards[i].id = cards[j].id => i = j
\* The local ids the board has were handed out.
HandedOut(b) ==
    \A i \in DOMAIN b.cards : b.cards[i].id.kind = "local" => b.cards[i].id.n < b.next

Outs == [board : Boards, changed : BOOLEAN, id : Refs, other : Refs, place : Places,
         status : Statuses \cup {""}, moved : BOOLEAN, notes : SUBSET Remarks,
         tags : SUBSET Tags]

Good(b, out) ==
    /\ out \in Outs
    /\ out.moved => out.status # ""
    /\ out.board.alias = b.alias
    /\ Distinct(b.cards) /\ HandedOut(b)
       => Distinct(out.board.cards) /\ HandedOut(out.board)
    /\ Proper(b.cards) => Proper(out.board.cards)

\* The result of a tool that edits one card.
EditOf(b, a, out) ==
    \/ out = Refused(b)
    \/ \E i \in 1 .. Len(b.cards), d \in Cards :
          /\ d.id = b.cards[i].id /\ (b.cards[i].title # 0 => d.title # 0)
          /\ out = Changed([b EXCEPT !.cards[i] = d], a.card)

\* A card of that title and column, with nothing else, is put at the end.
Added(b, a, out) ==
    \E n \in b.next .. MaxLocal, card \in Cards :
        /\ card.id = LocalId(n) /\ card.title = a.title
        /\ card.status = (IF a.status = "" THEN "Backlog" ELSE a.status)
        /\ \A x \in CardFields : card.f[x] = 0
        /\ out.board.cards = Append(b.cards, card) /\ out.board.next = n + 1
        /\ out.board.alias = b.alias /\ out.id = card.id

\* Where a card that is put elsewhere stands.
Moves(cards, i, to, d, rest, new) ==
    /\ rest \in Seq(Cards) /\ Len(rest) = Len(cards) - 1
    /\ new \in Seq(Cards) /\ Len(new) = Len(cards)
    /\ RemoveAt(new, to) = rest
    /\ \A j \in 1 .. Len(cards) :
          new[j] = IF j < to THEN rest[j] ELSE IF j = to THEN d ELSE rest[j - 1]
    /\ \A j \in 1 .. Len(cards) : \E k \in 1 .. Len(cards) : new[j].id = cards[k].id
    /\ Distinct(cards) =>
          Distinct(new) /\ Position(cards, d.id) = i /\ Position(new, d.id) = to
    /\ Proper(cards) => Proper(new)

\* What a reordering says, and that it puts one card elsewhere.
Reordered(b, a, follow, out) ==
    LET id == ResolveAlias(b, a.card)
        i == Find(b, id)
    IN /\ i \in 1 .. Len(b.cards) /\ b.cards[i].id = id /\ out.id = id
       /\ out.status \in Statuses
       /\ out.moved <=> out.status # b.cards[i].status
       /\ a.status = "" /\ ~follow => out.status = b.cards[i].status
       /\ out.board.next = b.next
       /\ IF a.place = "" THEN ~follow /\ out.board = b
          ELSE \E to \in 1 .. Len(b.cards) :
                  Moves(b.cards, i, to, [b.cards[i] EXCEPT !.status = out.status],
                        RemoveAt(b.cards, i), out.board.cards)

CreateTools == {"create_ticket", "create_subtask"}
\* What is known of a call that changed the board.
Applied(a, out) ==
    /\ a.tool \in Tools
    /\ a.tool = "move_ticket" => a.status # ""
    /\ a.tool \in CreateTools =>
         LET d == Of(out.board.cards, out.id) IN d \in Cards /\ d.id.kind = "local"

----------------------------------------------------------------------------
\* Calls and the state

\* What is known of an action that is written through, of a call or an undo.
ActOK(act, undo) ==
    /\ act.moved => act.status # ""
    /\ undo => act.a.tool \in UndoTools /\ act.card \in Cards
    /\ ~undo => /\ act.a.tool \in Tools
                /\ act.a.tool = "move_ticket" => act.a.status # ""
                /\ act.a.tool \in CreateTools => act.card \in Cards /\ act.card.id.kind = "local"
GoodActs(undo) == {act \in Acts : ActOK(act, undo)}

RequestOK(w) ==
    /\ w.op = "transition" => w.status # ""
    /\ w.op \in {"set", "extend"} => w.field # ""
    /\ w.op = "create" => w.card \in Cards
GoodRequests == {w \in Requests : RequestOK(w)}
Plain == {w \in GoodRequests : w.op # "create"}

Loose(d) ==
    /\ d \in Calls
    /\ d.acts \in Seq(GoodActs(d.undo)) /\ d.made \in Seq(GoodActs(d.undo))
    /\ d.todo \in Seq(GoodRequests)
Shape(d) ==
    /\ Loose(d)
    /\ d.pc = "apply" => d.asked # <<>>
    /\ d.pc = "record" => Len(d.made) = 1
    /\ d.pc \in {"apply", "record"} => ~d.undo
    /\ d.pc \in {"sync", "write", "rename", "failed"} => d.acts # <<>>
    /\ d.pc \in {"write", "rename"} =>
         /\ d.todo # <<>>
         /\ d.undo \/ Head(d.acts).a.tool \in CreateTools \/ d.todo \in Seq(Plain)
    /\ d.pc = "rename" => d.key # 0 /\ Head(d.todo).op = "create"

Found ==
    \A r \in Refreshers :
        /\ Distinct(refresh[r].cards)
        /\ \A i \in DOMAIN refresh[r].cards : IsKey(refresh[r].cards[i].id)
Ordered(b) == Distinct(b.cards) /\ HandedOut(b)
IInv ==
    /\ TypeOK
    /\ \A c \in Callers : Shape(call[c])
    /\ Found
    /\ undos = 0 /\ resolves = 0 => Ordered(board)

----------------------------------------------------------------------------
\* Requests and issues, and an undo

\* The column an issue is shown in (SearchKanbanCards).
ShownStatus(s) == IF s.flag /\ HasBlockedField THEN "Blocked" ELSE s.status

\* A request that gives the issue nothing but what the card d has, as far as
\* the fields F, the title and the column are concerned.
Fits(w, d, F) ==
    /\ w.op = "update" => w.title \in {0, d.title}
    /\ w.op = "set" /\ w.field \in F => w.v = d.f[w.field]
    /\ w.op = "extend" => w.field \notin F
    /\ w.op = "transition" => w.status = d.status
    /\ w.op = "flag" => (w.v = 1 <=> d.status = "Blocked")

\* An issue s will be like the card d by the requests W, in any order, or one
\* of them is refused: each attribute is right already or will be set.
Coming(W, s, d, F) ==
    \/ \E w \in W : w.op = "refuse"
    \/ /\ \A w \in W : Fits(w, d, F)
       /\ s.title = d.title \/ \E w \in W : w.op = "update" /\ w.title # 0
       /\ \A x \in F : s.f[x] = d.f[x] \/ \E w \in W : w.op = "set" /\ w.field = x
       /\ \/ /\ ShownStatus(s) = d.status
             /\ \A w \in W : w.op \notin {"transition", "flag"}
          \/ /\ \/ ~HasBlockedField
                \/ s.flag <=> d.status = "Blocked"
                \/ \E w \in W : w.op = "flag"
             /\ \/ s.status = d.status
                \/ \E w \in W : w.op = "transition"
                \/ d.status = "Blocked" /\ HasBlockedField
Like(s, d, F) == Coming({}, s, d, F)

\* What moving an issue asks of it.
MovesTo(W, id, status) ==
    /\ \A w \in W : /\ w.id = id
                    /\ w.op \in {"refuse", "transition", "flag", "addLabels", "extend"}
                    /\ w.op = "transition" => w.status = status
                    /\ w.op = "flag" => (w.v = 1 <=> status = "Blocked")
                    /\ w.op = "extend" => w.field = "comments"
    /\ \/ \E w \in W : w.op = "refuse"
       \/ /\ HasBlockedField => \E w \in W : w.op = "flag"
          /\ \/ \E w \in W : w.op = "transition"
             \/ status = "Blocked" /\ HasBlockedField

Back == {"assignee", "due"}

\* What is due while an undo is written through: its actions restore cards of
\* the board, and the issue of every card is like the card, or will be by the
\* requests of the action that is being written or by one of the next actions.
Due(cards, issues, acts, todo, writing) ==
    /\ \A j \in DOMAIN acts : acts[j].a.tool = "restore" /\ acts[j].card \in Range(cards)
    /\ \A w \in Range(todo) : w.op # "create" /\ w.id = acts[1].card.id
    /\ \A card \in Range(cards) : IsKey(card.id) =>
         IF writing /\ acts[1].card = card
         THEN Coming(Range(todo), issues[card.id.n], card, Back)
         ELSE \/ Like(issues[card.id.n], card, Back)
              \/ \E j \in DOMAIN acts : acts[j].card = card
Restored(cards, issues) ==
    \A card \in Range(cards) : IsKey(card.id) => Like(issues[card.id.n], card, Back)

NewestIsUndo == history[Len(history)].tool = "undo_last_mutation"
GoesBack(d, cards, issues) ==
    /\ d.undo /\ d.pc \notin {"idle", "failed"} /\ ~d.failed =>
         Due(cards, issues, d.acts, d.todo, d.pc = "write")
    /\ d.pc = "idle" /\ d.answer = "api_confirmed" => Restored(cards, issues)

\* What a step of a call keeps of it.
Keeps(d, n) ==
    /\ n.before \in {<<>>, d.before}
    /\ n.undo => d.undo
    /\ n.undo => n.required
    /\ d.undo => n.undo \/ (n.acts = <<>> /\ ~n.required)

\* The invariant behind UndoneInJira.  While nobody edits in Jira and no
\* conflict is resolved for Jira's side: the cards, also those a record keeps,
\* have titles, and no two are of one issue; and an undo is on its way to give
\* every issue back, or has done so.
Untouched ==
    /\ edits = 0
    /\ \A i \in DOMAIN conflicts : conflicts[i].resolution # "use_jira"
ProperInv ==
    /\ Proper(board.cards)
    /\ \A i \in DOMAIN history : Proper(history[i].before)
    /\ \A c \in Callers : Proper(call[c].before)
Told(d, undone) ==
    /\ ~d.undo /\ (d.acts # <<>> \/ d.required) => ~undone
    /\ d.undo => d.required
BackInv ==
    /\ \A c \in Callers : Told(call[c], NewestIsUndo)
    /\ Untouched => ProperInv
    /\ Untouched /\ ~Recreated => \A c \in Callers :
         GoesBack(call[c], board.cards, jira) \/ (call[c].pc = "idle" /\ ~NewestIsUndo)

----------------------------------------------------------------------------
\* What Jira shows or a conflict lists

\* Calls of one action whose failure is listed under the card it changed, and
\* that write through what they did to the board's columns: cards are named by
\* title only to tools that wait for a confirmation, a subtask and a rank are
\* asked for without a column, and a blocker is reported with its column.
Simple(a) ==
    /\ a.tool \notin Confirmed => a.card.kind # "title"
    /\ a.tool \in {"create_subtask", "rank_issue"} => a.status = ""
    /\ a.tool = "record_participant_update" /\ a.blocker => a.status = "Blocked"
PlainAsks == \A asked \in Asks : Len(asked) = 1 /\ Simple(asked[1])

\* A local id with a key was handed out, and is not the id of a card any more.
AliasOK(b) ==
    \A n \in 1 .. MaxLocal : b.alias[n] # 0 =>
        n < b.next /\ \A i \in DOMAIN b.cards : b.cards[i].id # LocalId(n)

\* What is written through for an action: its requests, their target, and the
\* one card they are about.
ResolvedOn(b, a) == [a EXCEPT !.card = ResolveReference(b, @), !.other = ResolveReference(b, @)]
WritesOn(b, act) ==
    LET a == ResolvedOn(b, act.a) IN RequestsOf(act, a, CardFor(act, a))
Plan(b, act) == IF RequiresSync(act) THEN WritesOn(b, act) ELSE <<>>
Goal(b, act, key) ==
    IF act.a.tool \in CreateTools THEN Key(key)
    ELSE ResolveAlias(b, IF act.a.card # NoCard THEN act.a.card ELSE act.id)
\* Requests that make nothing and change T, or fail.
Aimed(W, T) ==
    \A w \in W : w.op # "create" /\ (w.op = "refuse" \/ ~IsKey(w.id) \/ w.id = T)

\* The card that the arguments, resolved on the board n, and what is left of
\* the call are about.
About(n, act, T) ==
    /\ CardFor(act, ResolvedOn(n, act.a)) = T
    /\ ResolveAlias(n, IF act.a.card # NoCard THEN act.a.card ELSE act.id) = T

\* A tool that found the card r.card of the board b, and left the board n.
Aiming(b, n, a, latest, r, act) ==
    /\ b \in Boards /\ AliasOK(b) /\ n \in Boards /\ n.alias = b.alias
    /\ a \in Args /\ latest \in Refs /\ r = Canonicalize(b, a, latest)
    /\ Find(b, r.card) # 0 /\ (a.tool \notin Confirmed => a.card.kind # "title")
    /\ act.a = (IF a.tool \in Confirmed THEN r ELSE a) /\ act.id = r.card
    /\ a.tool \in Confirmed \/ r.card \in IdsOf(n.cards)
    /\ a.tool \in FallbackTools \ Confirmed =>
          \A x \in Refs : ResolveReference(n, x) = ResolveReference(b, x)

\* Requests that make of any issue that is like the card old one that is like
\* the card d, or one of them is refused.
Gives(W, old, d) ==
    \/ \E w \in W : w.op = "refuse"
    \/ /\ \A w \in W : Fits(w, d, Shown)
       /\ d.title = old.title \/ \E w \in W : w.op = "update" /\ w.title # 0
       /\ \A x \in Shown : d.f[x] = old.f[x] \/ \E w \in W : w.op = "set" /\ w.field = x
       /\ \/ d.status = old.status /\ \A w \in W : w.op \notin {"transition", "flag"}
          \/ /\ HasBlockedField => \E w \in W : w.op = "flag"
             /\ \/ \E w \in W : w.op = "transition"
                \/ d.status = "Blocked" /\ HasBlockedField

\* Requests that see to all but the column.
SeeTo(V, old, d) ==
    /\ \A w \in V : Fits(w, d, Shown)
    /\ d.title = old.title
    /\ \A x \in Shown : d.f[x] = old.f[x] \/ \E w \in V : w.op = "set" /\ w.field = x

\* What an action makes of the title, the column and the fields of a card.
FieldAfter(a, old, x) ==
    CASE a.tool \in DOMAIN FieldOf /\ FieldOf[a.tool] = x -> a.v
      [] a.tool = "set_priority" /\ x = "priority" -> a.v
      [] a.tool = "unassign_ticket" /\ x = "assignee" -> 0
      [] a.tool = "record_participant_update" /\ x = "due" /\ a.v # 0 -> a.v
      [] OTHER -> old.f[x]
StatusAfter(a, act, old) ==
    CASE a.tool = "move_ticket" -> a.status
      [] a.tool = "set_blocked" -> "Blocked"
      [] a.tool = "record_participant_update" /\ a.status # "" -> a.status
      [] a.tool = "prioritize_ticket" /\ act.moved -> act.status
      [] OTHER -> old.status
ShownAfter(a, act, old, d) ==
    /\ d.title = IF a.tool = "update_ticket" /\ a.title # 0 THEN a.title ELSE old.title
    /\ d.status = StatusAfter(a, act, old)
    /\ \A x \in Shown : d.f[x] = FieldAfter(a, old, x)
    /\ a.tool = "set_priority" => a.v # 0

\* Every card of the next board was there: as it is, or it is the one card the
\* call names, changed the way its arguments say.
Touched(b, a, out) ==
    /\ out.id = a.card /\ out.board.next = b.next
    /\ Find(b, a.card) = 0 => out.board = b /\ a.tool = "record_participant_update"
    /\ Find(b, a.card) # 0 /\ a.tool # "delete_ticket" => a.card \in IdsOf(out.board.cards)
    /\ a.tool \in FallbackTools =>
         /\ Len(out.board.cards) = Len(b.cards)
         /\ \A j \in 1 .. Len(b.cards) :
               /\ out.board.cards[j].id = b.cards[j].id
               /\ out.board.cards[j].title = b.cards[j].title
    /\ a.tool = "delete_ticket" => a.card \notin IdsOf(out.board.cards)
    /\ \A d \in Range(out.board.cards) : \E old \in Range(b.cards) :
          /\ d.id = old.id
          /\ IF d.id = a.card THEN ShownAfter(a, out, old, d) ELSE d = old

\* The outcome of a tool that did what was asked.
Succeeds(out) == out.changed

\* A tool that changes the one card it finds.
EditsCard(b, a, out) ==
    /\ Find(b, a.card) # 0 /\ out.id = a.card
    /\ \E d \in Cards :
          /\ out.board = [b EXCEPT !.cards[Find(b, a.card)] = d]
          /\ d.id = b.cards[Find(b, a.card)].id
          /\ ShownAfter(a, out, b.cards[Find(b, a.card)], d)

\* A reordering, of a card that is named by its own id.
CardPlaced(b, a, out) ==
    LET i == Find(b, a.card)
    IN /\ i \in 1 .. Len(b.cards) /\ b.cards[i].id = a.card /\ out.id = a.card
       /\ out.status \in Statuses
       /\ out.moved <=> out.status # b.cards[i].status
       /\ a.tool = "rank_issue" => out.status = b.cards[i].status
       /\ out.board.next = b.next
       /\ \/ out.board = b /\ out.status = b.cards[i].status
          \/ \E to \in 1 .. Len(b.cards) :
                Moves(b.cards, i, to, [b.cards[i] EXCEPT !.status = out.status],
                      RemoveAt(b.cards, i), out.board.cards)

\* The arguments a call reaches the board with, where a tool depends on them.
Filled(a) == /\ a.tool = "rank_issue" => a.status = ""
             /\ a.tool = "record_participant_update" /\ a.blocker => a.status = "Blocked"

\* Arguments keep what they say beside the references in them.
SameBut(w, a) ==
    /\ w \in Args /\ w.tool = a.tool /\ w.status = a.status /\ w.title = a.title
    /\ w.v = a.v /\ w.blocker = a.blocker

\* An action and the board it is recorded on: its requests go to one issue, and
\* give it what the tool gave the card, unless the tool took the card away.
Planned(b, n, act) ==
    LET T == Goal(n, act, 0)
        W == Range(Plan(n, act))
    IN /\ n.alias = b.alias /\ n.next = b.next
       /\ Aimed(W, T)
       /\ \A d \in Range(n.cards) : \E old \in Range(b.cards) :
             /\ d.id = old.id
             /\ IF d.id = T THEN Gives(W, old, d) ELSE d = old

\* What is asked for, the arguments a call is made with, and what comes of it.
Done(b, a, latest, r, out, act) ==
    /\ b \in Boards /\ AliasOK(b) /\ Ordered(b)
    /\ a \in Args /\ latest \in Refs /\ r = Canonicalize(b, a, latest)
    /\ out = ApplyTool(b, r) /\ Succeeds(out) /\ Simple(a)
    /\ act = Act(IF a.tool \in Confirmed THEN r ELSE a, out)

\* What is then known of it.
KnownOf(b, a, r, out, act) ==
    /\ r \in Args /\ SameBut(r, a) /\ act \in GoodActs(FALSE)
    /\ out.board \in Boards /\ out.board.alias = b.alias /\ Ordered(out.board)
    /\ act.id = out.id /\ act.status = out.status /\ act.moved = out.moved
    /\ act.a \in Args /\ SameBut(act.a, a)
    /\ act.a = (IF a.tool \in Confirmed THEN r ELSE a)

\* A card whose issue does not show it is listed as a conflict, or the requests
\* W to the issue T, which is its own, will make the issue like the card.
ListedIn(b, list, id) == \E i \in DOMAIN list : ResolveAlias(b, list[i].id) = id
Owed(b, list, issues, T, W) ==
    \A card \in Range(b.cards) : IsKey(card.id) =>
        \/ ListedIn(b, list, card.id)
        \/ Coming(IF card.id = T THEN W ELSE {}, issues[card.id.n], card, Shown)

\* A card of which an issue is still to be made, and what is asked of it then.
ToMake(cards, act, S) ==
    /\ act.a.tool \in CreateTools /\ act.card \in Range(cards)
    /\ S # <<>> /\ Head(S).op = "create" /\ Head(S).card = act.card
    /\ Aimed(Range(Tail(S)), NoCard)
    /\ Coming(Range(Tail(S)), Sent(act.card), act.card, Shown)
    /\ act.a.tool = "create_subtask" => Tail(S) = <<>>

\* An action of which the requests S are left, and nothing is made yet.
Begun(act, S, b, list, issues) ==
    /\ Owed(b, list, issues, Goal(b, act, 0), Range(S))
    /\ IF act.a.tool \in CreateTools THEN ToMake(b.cards, act, S)
       ELSE Aimed(Range(S), Goal(b, act, 0))

\* One action of a call, at each point of it.
Owing(d, b, list, issues) ==
    /\ d.pc # "apply" /\ d.asked = <<>> /\ ~d.undo
    /\ d.pc = "idle" => Owed(b, list, issues, NoCard, {})
    /\ d.pc = "record" =>
         d.acts = <<>> /\ d.key = 0 /\ Begun(d.made[1], Plan(b, d.made[1]), b, list, issues)
    /\ d.pc \in {"sync", "write", "rename", "failed"} => Len(d.acts) = 1
    /\ d.pc = "sync" => d.key = 0 /\ Begun(d.acts[1], Plan(b, d.acts[1]), b, list, issues)
    /\ d.pc = "write" /\ d.key = 0 => Begun(d.acts[1], d.todo, b, list, issues)
    /\ d.pc = "write" /\ d.key # 0 =>
         /\ d.acts[1].a.tool = "create_ticket" /\ Aimed(Range(d.todo), NoCard)
         /\ Owed(b, list, issues, Key(d.key), Range(d.todo))
    /\ d.pc = "rename" =>
         /\ ToMake(b.cards, d.acts[1], d.todo)
         /\ d.key \in Keys /\ issues[d.key] = Sent(d.acts[1].card)
         /\ Key(d.key) \in IdsOf(b.cards) => ListedIn(b, list, Key(d.key))
         /\ Owed(b, list, issues, NoCard, {})
    /\ d.pc = "failed" =>
         LET T == Goal(b, d.acts[1], d.key)
         IN /\ Owed(b, list, issues, T, Range(Refuse(T)))
            /\ d.acts[1].a.tool = "create_subtask" => d.key = 0
ShownInv ==
    edits = 0 /\ resolves = 0 /\ undos = 0 =>
       /\ AliasOK(board)
       /\ \A c \in Callers : Owing(call[c], board, conflicts, jira)

\* What a tool that makes a card leaves.
Making(b, a, r, out, act) ==
    /\ Added(b, r, out) /\ r.tool = a.tool /\ act.a = a
    /\ act.card = Of(out.board.cards, out.id) /\ (a.tool = "create_subtask" => r.status = "")

\* What refuses a call leaves the board as it is.
Unhurt(b, out) == Succeeds(out) \/ out.board = b

\* What is left to do of the one action of a call.
Left(d, b, list, issues) ==
    IF d.key = 0 THEN Begun(d.acts[1], d.todo, b, list, issues)
    ELSE /\ Owed(b, list, issues, Key(d.key), Range(d.todo))
         /\ d.todo # <<>> =>
              d.acts[1].a.tool = "create_ticket" /\ Aimed(Range(d.todo), NoCard)

\* A call that is being written through: its next request, and whose it is.
Sending(d, b, list, issues) ==
    LET w == Head(d.todo)
        T == Goal(b, d.acts[1], d.key)
    IN /\ d.asked = <<>> /\ ~d.undo /\ Len(d.acts) = 1
       /\ d.acts[1].a.tool = "create_subtask" => d.key = 0
       /\ Owed(b, list, issues, T, Range(d.todo))
       /\ w.op # "create" =>
            /\ d.key = 0 => d.acts[1].a.tool \notin CreateTools /\ Aimed(Range(d.todo), T)
            /\ d.key # 0 =>
                 /\ d.acts[1].a.tool = "create_ticket" /\ T = Key(d.key)
                 /\ Aimed(Range(d.todo), NoCard)
       /\ w.op = "create" =>
            d.key = 0 /\ T = Key(0) /\ ToMake(b.cards, d.acts[1], d.todo)

\* What renaming a card of the board does.
Renamed(b, n, i, d, id, k) ==
    /\ i \in 1 .. Len(b.cards) /\ b.cards[i].id = id
    /\ d \in Cards /\ d.id = Key(k) /\ d.title = b.cards[i].title
    /\ d.status = b.cards[i].status /\ d.f = b.cards[i].f
    /\ DOMAIN n.cards = 1 .. Len(b.cards)
    /\ \A j \in 1 .. Len(b.cards) :
          /\ n.cards[j] = IF j = i THEN d ELSE b.cards[j]
          /\ b.cards[j].id # Key(k)
    /\ n.next = b.next
    /\ \A m \in 1 .. MaxLocal : n.alias[m] = IF m = id.n THEN k ELSE b.alias[m]
=============================================================================
