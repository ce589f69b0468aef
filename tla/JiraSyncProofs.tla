--------------------------- MODULE JiraSyncProofs ---------------------------
(***************************************************************************)
(* Proofs about JiraSync: what a caller is told about Jira, what the state *)
(* can be, where a ranked card stands, that no two cards get one id, that  *)
(* an undo gives the issues back, too, and that a card Jira shows          *)
(* otherwise is listed.  The invariants are in JiraSyncInv.                *)
(***************************************************************************)
EXTENDS JiraSyncInv, SequenceTheorems, FiniteSetTheorems, WellFoundedInduction, TLAPS

----------------------------------------------------------------------------
\* What a caller is told

LEMMA IdleOK == CallOK(Idle) /\ Busy(Idle)
BY DEF CallOK, Busy, Idle, Fields

\* An action that is settled leaves a call that goes on or is answered by all
\* of its actions.
LEMMA SettledOK ==
    ASSUME NEW d, Busy(d)
    PROVE  CallOK(Settled(d))
<1>1. CASE d.acts # <<>>
    <2>1. Settled(d) = [d EXCEPT !.pc = "sync"]  BY <1>1 DEF Settled
    <2> QED BY <2>1 DEF Busy, CallOK, Fields
<1>2. CASE d.acts = <<>>
    <2> DEFINE answer == IF ~d.required THEN "local_only"
                         ELSE IF d.failed THEN "api_failed" ELSE "api_confirmed"
    <2>1. Settled(d) = [Idle EXCEPT !.answer = answer, !.sent = d.sent, !.bad = d.bad]
        BY <1>2 DEF Settled
    <2>2. answer = "api_confirmed" => ~d.failed  OBVIOUS
    <2>3. d.bad \in Nat /\ (d.failed \/ d.bad = 0)  BY DEF Busy
    <2> HIDE DEF answer
    <2> QED BY <2>1, <2>2, <2>3 DEF CallOK, Idle, Fields
<1> QED BY <1>1, <1>2

LEMMA FinishOK ==
    ASSUME NEW d, Busy(d)
    PROVE  CallOK(Finish(d))
<1> DEFINE e == [d EXCEPT !.acts = Tail(@), !.todo = <<>>, !.key = 0]
<1>1. Busy(e)  BY DEF Busy, Fields
<1>2. CallOK(Settled(e))  BY <1>1, SettledOK
<1> QED BY <1>2 DEF Finish

LEMMA ProgressOK ==
    ASSUME NEW d, Busy(d)
    PROVE  CallOK(Progress(d))
<1>1. CASE d.todo = <<>>  BY <1>1, FinishOK DEF Progress
<1>2. CASE d.todo # <<>>
    <2>1. Progress(d) = [d EXCEPT !.pc = "write"]  BY <1>2 DEF Progress
    <2> QED BY <2>1 DEF Busy, CallOK, Fields
<1> QED BY <1>1, <1>2

\* A caller that is not idle is busy.
LEMMA CallerBusy ==
    ASSUME CallsOK, NEW c \in Callers, call[c].pc # "idle"
    PROVE  Busy(call[c])
BY DEF CallsOK, CallOK, Busy

\* What a step does to one caller is all it does to the callers.
LEMMA OneCaller ==
    ASSUME CallsOK, NEW c \in Callers, NEW d, CallOK(d),
           call' = [call EXCEPT ![c] = d]
    PROVE  CallsOK'
<1>1. call' = [x \in Callers |-> call'[x]]  BY DEF CallsOK
<1>2. \A x \in Callers : CallOK(call'[x])  BY DEF CallsOK
<1> QED BY <1>1, <1>2 DEF CallsOK, CallOK

LEMMA ApplyOK ==
    ASSUME CallsOK, NEW c \in Callers, NEW asked, NEW acts, Apply(c, asked, acts)
    PROVE  CallsOK'
<1> DEFINE a == Head(asked)
           out == ApplyTool(board, Resolved(a))
           next == [Idle EXCEPT !.asked = Tail(asked), !.acts = acts]
           recorded == [next EXCEPT !.pc = "record", !.before = board.cards,
                                    !.made = <<Act(Stored(a), out)>>]
           d == IF out.changed THEN recorded
                ELSE IF next.asked # <<>> THEN [next EXCEPT !.pc = "apply"]
                ELSE Settled(next)
<1>1. call' = [call EXCEPT ![c] = d]  BY DEF Apply
<1>2. Busy(next)  BY DEF Busy, Idle, Fields
<1>3. CallOK(Settled(next))  BY <1>2, SettledOK
<1> HIDE DEF next
<1>4. CallOK([next EXCEPT !.pc = "apply"])  BY <1>2 DEF Busy, CallOK, Fields
<1>5. CallOK(recorded)
    <2> DEFINE made == <<Act(Stored(a), out)>>
    <2> HIDE DEF made
    <2>1. CallOK([next EXCEPT !.pc = "record", !.before = board.cards, !.made = made])
        BY <1>2 DEF Busy, CallOK, Fields
    <2> QED BY <2>1 DEF made
<1> HIDE DEF recorded, out
<1>6. CallOK(d)  BY <1>3, <1>4, <1>5
<1> HIDE DEF d
<1> QED BY <1>1, <1>6, OneCaller

LEMMA InitCallsOK == Init => CallsOK
BY IdleOK DEF Init, CallsOK

LEMMA NextCallsOK == CallsOK /\ [Next]_vars => CallsOK'
<1> SUFFICES ASSUME CallsOK, [Next]_vars
             PROVE  CallsOK'
    OBVIOUS
<1>1. ASSUME NEW c \in Callers, Begin(c)
      PROVE  CallsOK'
    BY <1>1, ApplyOK DEF Begin
<1>2. ASSUME NEW c \in Callers, ApplyNext(c)
      PROVE  CallsOK'
    BY <1>2, ApplyOK DEF ApplyNext
<1>3. ASSUME NEW c \in Callers, UndoLastMutation(c)
      PROVE  CallsOK'
    <2> DEFINE r == history[CHOOSE i \in Undoable : \A j \in Undoable : j <= i]
               acts == UndoActs(r)
               d == [Idle EXCEPT !.acts = acts, !.undo = TRUE, !.required = TRUE]
    <2>1. call' = [call EXCEPT ![c] = Settled(d)]  BY <1>3 DEF UndoLastMutation
    <2> HIDE DEF acts
    <2>2. Busy(d)  BY DEF Busy, Idle, Fields
    <2>3. CallOK(Settled(d))  BY <2>2, SettledOK
    <2> HIDE DEF d
    <2> QED BY <2>1, <2>3, OneCaller
<1>4. ASSUME NEW c \in Callers, RecordMutation(c)
      PROVE  CallsOK'
    <2> DEFINE act == call[c].made[1]
               pc == IF call[c].asked # <<>> THEN "apply" ELSE "sync"
               d == [call[c] EXCEPT !.acts = Append(@, act), !.made = <<>>,
                                    !.before = <<>>, !.pc = pc]
    <2>1. Busy(call[c])  BY <1>4, CallerBusy DEF RecordMutation
    <2>2. call' = [call EXCEPT ![c] = d]  BY <1>4 DEF RecordMutation, CallsOK
    <2> HIDE DEF act, pc
    <2>3. CallOK(d)  BY <2>1 DEF Busy, CallOK, Fields
    <2> HIDE DEF d
    <2> QED BY <2>2, <2>3, OneCaller
<1>5. ASSUME NEW c \in Callers, StartSync(c)
      PROVE  CallsOK'
    <2> DEFINE act == Head(call[c].acts)
               todo == IF RequiresSync(act) THEN Writes(act) ELSE <<>>
               required == call[c].required \/ RequiresSync(act)
               d == [call[c] EXCEPT !.todo = todo, !.required = required]
    <2>1. Busy(call[c])  BY <1>5, CallerBusy DEF StartSync
    <2>2. call' = [call EXCEPT ![c] = Progress(d)]  BY <1>5 DEF StartSync
    <2> HIDE DEF todo, required
    <2>3. Busy(d)  BY <2>1 DEF Busy, Fields
    <2>4. CallOK(Progress(d))  BY <2>3, ProgressOK
    <2> HIDE DEF d
    <2> QED BY <2>2, <2>4, OneCaller
<1>6. ASSUME NEW c \in Callers, Write(c)
      PROVE  CallsOK'
    <2> DEFINE d == call[c]
               sent == [d EXCEPT !.sent = @ + 1]
               created == [sent EXCEPT !.key = NewKey, !.pc = "rename"]
               rest == [sent EXCEPT !.todo = Tail(@)]
    <2>1. Busy(d)  BY <1>6, CallerBusy DEF Write
    <2>2. \/ call' = [call EXCEPT ![c] = [d EXCEPT !.pc = "failed"]]
          \/ call' = [call EXCEPT ![c] = created]
          \/ call' = [call EXCEPT ![c] = Progress(rest)]
        BY <1>6 DEF Write
    <2> HIDE DEF d
    <2>3. CallOK([d EXCEPT !.pc = "failed"])  BY <2>1 DEF Busy, CallOK, Fields
    <2>4. Busy(sent)  BY <2>1 DEF Busy, Fields
    <2>5. CallOK(created)  BY <2>4 DEF Busy, CallOK, Fields
    <2>6. Busy(rest)  BY <2>4 DEF Busy, Fields
    <2>7. CallOK(Progress(rest))  BY <2>6, ProgressOK
    <2> HIDE DEF created, rest
    <2> QED BY <2>2, <2>3, <2>5, <2>7, OneCaller
<1>7. ASSUME NEW c \in Callers, Rename(c)
      PROVE  CallsOK'
    <2> DEFINE d == [call[c] EXCEPT !.todo = Tail(@)]
    <2>1. Busy(call[c])  BY <1>7, CallerBusy DEF Rename
    <2>2. call' = [call EXCEPT ![c] = Progress(d)]  BY <1>7 DEF Rename
    <2>3. Busy(d)  BY <2>1 DEF Busy, Fields
    <2>4. CallOK(Progress(d))  BY <2>3, ProgressOK
    <2> HIDE DEF d
    <2> QED BY <2>2, <2>4, OneCaller
<1>8. ASSUME NEW c \in Callers, RecordJiraSyncFailure(c)
      PROVE  CallsOK'
    <2> DEFINE d == [call[c] EXCEPT !.failed = TRUE, !.bad = @ + 1]
    <2>1. Busy(call[c])  BY <1>8, CallerBusy DEF RecordJiraSyncFailure
    <2>2. call' = [call EXCEPT ![c] = Finish(d)]  BY <1>8 DEF RecordJiraSyncFailure
    <2>3. Busy(d)
        <3> DEFINE e == [call[c] EXCEPT !.failed = TRUE]
                   bad == call[c].bad + 1
        <3>1. e = [x \in Fields |-> e[x]] /\ e.answer = "none" /\ e.failed
            BY <2>1 DEF Busy, Fields
        <3>2. bad \in Nat  BY <2>1 DEF Busy
        <3>3. d = [e EXCEPT !.bad = bad]  BY <2>1 DEF Busy, Fields
        <3> HIDE DEF d, e, bad
        <3> QED BY <3>1, <3>2, <3>3 DEF Busy, Fields
    <2>4. CallOK(Finish(d))  BY <2>3, FinishOK
    <2> HIDE DEF d
    <2> QED BY <2>2, <2>4, OneCaller
<1>9. ASSUME UNCHANGED call
      PROVE  CallsOK'
    BY <1>9 DEF CallsOK, CallOK
<1>10. ASSUME NEW r \in Refreshers, Search(r) \/ ApplyJiraCards(r)
       PROVE  CallsOK'
    BY <1>10, <1>9, Zenon DEF Search, ApplyJiraCards
<1>11. ASSUME NEW i, NEW resolution, ResolveJiraConflict(i, resolution)
       PROVE  CallsOK'
    BY <1>11, <1>9 DEF ResolveJiraConflict
<1>12. ASSUME NEW k, NEW status, EditInJira(k, status)
       PROVE  CallsOK'
    BY <1>12, <1>9 DEF EditInJira
<1>13. ASSUME UNCHANGED vars
       PROVE  CallsOK'
    BY <1>13, <1>9 DEF vars
<1> QED
    BY <1>1, <1>2, <1>3, <1>4, <1>5, <1>6, <1>7, <1>8, <1>10, <1>11, <1>12, <1>13
    DEF Next, Sync

\* A caller is told "api_confirmed" only if none of the requests of its call
\* failed, whichever action of a confirmed set they belong to and whatever
\* other callers and refreshes do meanwhile (jira.go:1187,
\* syncConfirmedJiraToolCalls, and jira.go:1310, annotateConfirmedJiraSyncResult).
THEOREM ConfirmedAreSent == Spec => []ConfirmedSent
<1>1. CallsOK => ConfirmedSent  BY DEF CallsOK, CallOK, ConfirmedSent
<1> QED BY <1>1, InitCallsOK, NextCallsOK, PTL DEF Spec

----------------------------------------------------------------------------
\* Sets of numbers and lists of cards.

LEMMA SmallestExists ==
    ASSUME NEW S \in SUBSET Nat, S # {}
    PROVE  \E i \in S : \A j \in S : i <= j
<1>1. PICK i \in S : \A y \in S : <<y, i>> \notin OpToRel(<, Nat)
    BY NatLessThanWellFounded, WFMin
<1>2. ASSUME NEW j \in S
      PROVE  i <= j
    <2>1. ~(j < i)  BY <1>1 DEF OpToRel
    <2> QED BY <2>1
<1> QED BY <1>2

LEMMA LargestExists ==
    ASSUME NEW n \in Nat, NEW S \in SUBSET (0 .. n), S # {}
    PROVE  \E i \in S : \A j \in S : j <= i
<1> DEFINE T == {n - i : i \in S}
<1>1. T \in SUBSET Nat /\ T # {}
    <2>1. \A i \in S : i \in 0 .. n  OBVIOUS
    <2>2. \A i \in S : n - i \in Nat  BY <2>1
    <2>3. T # {}  OBVIOUS
    <2> QED BY <2>2, <2>3
<1>2. PICK t \in T : \A u \in T : t <= u  BY <1>1, SmallestExists
<1>3. PICK i \in S : t = n - i  BY <1>2
<1>4. ASSUME NEW j \in S
      PROVE  j <= i
    <2>1. n - i <= n - j  BY <1>2, <1>3
    <2> QED BY <2>1
<1> QED BY <1>4

LEMMA FunctionSeq ==
    ASSUME NEW S, NEW n \in Nat, NEW f \in [1 .. n -> S]
    PROVE  f \in Seq(S) /\ Len(f) = n
<1>1. f \in Seq(S)  BY SeqDef
<1>2. 1 .. Len(f) = 1 .. n /\ Len(f) \in Nat  BY <1>1, LenProperties
<1> QED BY <1>1, <1>2

\* The i-th of a finite set of numbers is one of it, each of them once.
LEMMA NthOfSet ==
    ASSUME NEW S \in SUBSET Nat, IsFiniteSet(S)
    PROVE  /\ Cardinality(S) \in Nat
           /\ \A i \in 1 .. Cardinality(S) :
                /\ Nth(S, i) \in S
                /\ Cardinality({m \in S : m <= Nth(S, i)}) = i
<1> DEFINE n == Cardinality(S)
           upTo(r) == {m \in S : m <= r}
           rank == [r \in S |-> Cardinality(upTo(r))]
<1>1. n \in Nat  BY FS_CardinalityType
<1>2. ASSUME NEW r \in S
      PROVE  IsFiniteSet(upTo(r)) /\ rank[r] \in 1 .. n
    <2>1. upTo(r) \in SUBSET S /\ r \in upTo(r)  OBVIOUS
    <2>2. IsFiniteSet(upTo(r)) /\ Cardinality(upTo(r)) <= n  BY <2>1, FS_Subset
    <2>3. Cardinality(upTo(r)) \in Nat /\ Cardinality(upTo(r)) # 0
        BY <2>1, <2>2, FS_CardinalityType, FS_EmptySet
    <2> QED BY <1>1, <2>2, <2>3
<1>3. ASSUME NEW r \in S, NEW s \in S, r < s
      PROVE  rank[r] < rank[s]
    <2>1. upTo(r) \subseteq upTo(s)
        <3>1. \A m \in S : m <= r => m <= s  BY <1>3
        <3> QED BY <3>1
    <2>2. s \in upTo(s) /\ s \notin upTo(r)  BY <1>3
    <2>3. Cardinality(upTo(r)) <= Cardinality(upTo(s)) /\ Cardinality(upTo(s)) # Cardinality(upTo(r))
        BY <1>2, <2>1, <2>2, FS_Subset
    <2>4. Cardinality(upTo(r)) \in Nat /\ Cardinality(upTo(s)) \in Nat
        BY <1>2, FS_CardinalityType
    <2> QED BY <2>3, <2>4
<1>4. \A r, s \in S : rank[r] = rank[s] => r = s
    <2> SUFFICES ASSUME NEW r \in S, NEW s \in S, rank[r] = rank[s], r # s
                 PROVE  FALSE
        OBVIOUS
    <2>1. r < s \/ s < r  OBVIOUS
    <2>2. rank[r] \in Int /\ rank[s] \in Int  BY <1>2
    <2> QED BY <1>3, <2>1, <2>2
<1>5. \A i \in 1 .. n : \E r \in S : rank[r] = i
    <2>1. rank \in Injection(S, 1 .. n)  BY <1>2, <1>4 DEF Injection, IsInjective
    <2>2. IsFiniteSet(1 .. n) /\ Cardinality(1 .. n) = n
        <3>1. 1 \in Int /\ n \in Int  BY <1>1
        <3> QED BY <1>1, <3>1, FS_Interval
    <2>3. rank \in Surjection(S, 1 .. n)  BY <2>1, <2>2, FS_Injection
    <2> QED BY <2>3 DEF Surjection
<1>6. ASSUME NEW i \in 1 .. n
      PROVE  Nth(S, i) \in S /\ Cardinality(upTo(Nth(S, i))) = i
    <2>1. PICK r \in S : Cardinality(upTo(r)) = i  BY <1>5
    <2> QED BY <2>1 DEF Nth
<1> QED BY <1>1, <1>6

\* So cards at a set of indexes are cards of the list.
LEMMA AtTyped ==
    ASSUME NEW X, NEW cards \in Seq(X), NEW S \in SUBSET DOMAIN cards
    PROVE  /\ At(cards, S) \in Seq(X)
           /\ \A i \in DOMAIN At(cards, S) : Nth(S, i) \in S /\ At(cards, S)[i] = cards[Nth(S, i)]
<1>1. Len(cards) \in Nat /\ DOMAIN cards = 1 .. Len(cards)  BY LenProperties
<1>2. IsFiniteSet(S) /\ S \in SUBSET Nat
    <2>1. IsFiniteSet(1 .. Len(cards))  BY <1>1, FS_Interval
    <2> QED BY <1>1, <2>1, FS_Subset
<1>3. Cardinality(S) \in Nat /\ \A i \in 1 .. Cardinality(S) : Nth(S, i) \in S
    BY <1>2, NthOfSet
<1>4. \A i \in 1 .. Cardinality(S) : cards[Nth(S, i)] \in X
    BY <1>1, <1>3, ElementOfSeq
<1>5. At(cards, S) \in [1 .. Cardinality(S) -> X]  BY <1>4 DEF At
<1>6. At(cards, S) \in Seq(X)  BY <1>3, <1>5, FunctionSeq
<1> QED BY <1>3, <1>6 DEF At

LEMMA RemoveAtFacts ==
    ASSUME NEW X, NEW s \in Seq(X), NEW i \in 1 .. Len(s)
    PROVE  /\ RemoveAt(s, i) \in Seq(X) /\ Len(RemoveAt(s, i)) = Len(s) - 1
           /\ \A j \in 1 .. Len(s) - 1 :
                RemoveAt(s, i)[j] = IF j < i THEN s[j] ELSE s[j + 1]
<1> DEFINE front == SubSeq(s, 1, i - 1)
           rest == SubSeq(s, i + 1, Len(s))
<1>1. Len(s) \in Nat /\ \A j \in 1 .. Len(s) : s[j] \in X
    BY LenProperties, ElementOfSeq
<1>2. /\ front \in Seq(X) /\ Len(front) = i - 1
      /\ \A j \in 1 .. i - 1 : front[j] = s[j]
    <2>1. 1 \in Int /\ i - 1 \in Int /\ \A j \in 1 .. i - 1 : s[j] \in X  BY <1>1
    <2> HIDE DEF front
    <2>2. /\ front \in Seq(X) /\ Len(front) = IF 1 <= i - 1 THEN i - 1 - 1 + 1 ELSE 0
          /\ \A j \in 1 .. i - 1 - 1 + 1 : front[j] = s[1 + j - 1]
        BY <2>1, SubSeqProperties DEF front
    <2> QED BY <1>1, <2>2
<1>3. /\ rest \in Seq(X) /\ Len(rest) = Len(s) - i
      /\ \A j \in 1 .. Len(s) - i : rest[j] = s[i + j]
    <2>1. i + 1 \in Int /\ Len(s) \in Int /\ \A j \in i + 1 .. Len(s) : s[j] \in X
        BY <1>1
    <2> HIDE DEF rest
    <2>2. /\ rest \in Seq(X)
          /\ Len(rest) = IF i + 1 <= Len(s) THEN Len(s) - (i + 1) + 1 ELSE 0
          /\ \A j \in 1 .. Len(s) - (i + 1) + 1 : rest[j] = s[i + 1 + j - 1]
        BY <2>1, SubSeqProperties DEF rest
    <2> QED BY <1>1, <2>2
<1> HIDE DEF front, rest
<1>4. /\ front \o rest \in Seq(X) /\ Len(front \o rest) = Len(front) + Len(rest)
      /\ \A j \in 1 .. Len(front) + Len(rest) :
            (front \o rest)[j] = IF j <= Len(front) THEN front[j] ELSE rest[j - Len(front)]
    BY <1>2, <1>3, ConcatProperties
<1>5. RemoveAt(s, i) = front \o rest  BY DEF RemoveAt, front, rest
<1>6. ASSUME NEW j \in 1 .. Len(s) - 1
      PROVE  (front \o rest)[j] = IF j < i THEN s[j] ELSE s[j + 1]
    <2>1. j \in 1 .. Len(front) + Len(rest)  BY <1>1, <1>2, <1>3
    <2>2. CASE j < i  BY <1>1, <1>2, <1>4, <2>1, <2>2
    <2>3. CASE ~(j < i)
        <3>1. j - (i - 1) \in 1 .. Len(s) - i /\ i + (j - (i - 1)) = j + 1
            BY <1>1, <2>3
        <3>2. rest[j - (i - 1)] = s[j + 1]  BY <1>3, <3>1
        <3>3. ~(j <= Len(front))  BY <1>2, <2>3
        <3> QED BY <1>2, <1>4, <2>1, <2>3, <3>2, <3>3
    <2> QED BY <2>2, <2>3
<1>7. Len(front \o rest) = Len(s) - 1  BY <1>1, <1>2, <1>3, <1>4
<1> QED BY <1>4, <1>5, <1>6, <1>7

LEMMA InsertAtFacts ==
    ASSUME NEW X, NEW s \in Seq(X), NEW i \in 1 .. Len(s) + 1, NEW e \in X
    PROVE  /\ InsertAt(s, i, e) \in Seq(X) /\ Len(InsertAt(s, i, e)) = Len(s) + 1
           /\ \A j \in 1 .. Len(s) + 1 :
                InsertAt(s, i, e)[j] = IF j < i THEN s[j] ELSE IF j = i THEN e ELSE s[j - 1]
<1> DEFINE front == SubSeq(s, 1, i - 1)
           rest == SubSeq(s, i, Len(s))
           first == front \o <<e>>
<1>1. Len(s) \in Nat /\ \A j \in 1 .. Len(s) : s[j] \in X
    BY LenProperties, ElementOfSeq
<1>2. /\ front \in Seq(X) /\ Len(front) = i - 1
      /\ \A j \in 1 .. i - 1 : front[j] = s[j]
    <2>1. 1 \in Int /\ i - 1 \in Int /\ \A j \in 1 .. i - 1 : s[j] \in X  BY <1>1
    <2> HIDE DEF front
    <2>2. /\ front \in Seq(X) /\ Len(front) = IF 1 <= i - 1 THEN i - 1 - 1 + 1 ELSE 0
          /\ \A j \in 1 .. i - 1 - 1 + 1 : front[j] = s[1 + j - 1]
        BY <2>1, SubSeqProperties DEF front
    <2> QED BY <1>1, <2>2
<1>3. /\ rest \in Seq(X) /\ Len(rest) = Len(s) - i + 1
      /\ \A j \in 1 .. Len(s) - i + 1 : rest[j] = s[i + j - 1]
    <2>1. i \in Int /\ Len(s) \in Int /\ \A j \in i .. Len(s) : s[j] \in X  BY <1>1
    <2> HIDE DEF rest
    <2>2. /\ rest \in Seq(X)
          /\ Len(rest) = IF i <= Len(s) THEN Len(s) - i + 1 ELSE 0
          /\ \A j \in 1 .. Len(s) - i + 1 : rest[j] = s[i + j - 1]
        BY <2>1, SubSeqProperties DEF rest
    <2> QED BY <1>1, <2>2
<1>4. <<e>> \in Seq(X) /\ Len(<<e>>) = 1 /\ <<e>>[1] = e  OBVIOUS
<1> HIDE DEF front, rest
<1>5. /\ first \in Seq(X) /\ Len(first) = i
      /\ \A j \in 1 .. i - 1 : first[j] = s[j]
      /\ first[i] = e
    <2> DEFINE one == <<e>>
    <2> HIDE DEF one
    <2>1. one \in Seq(X) /\ Len(one) = 1 /\ one[1] = e  BY <1>4 DEF one
    <2>2. /\ front \o one \in Seq(X) /\ Len(front \o one) = Len(front) + Len(one)
          /\ \A j \in 1 .. Len(front) + Len(one) :
                (front \o one)[j] = IF j <= Len(front) THEN front[j] ELSE one[j - Len(front)]
        BY <1>2, <2>1, ConcatProperties
    <2>3. first = front \o one  BY DEF one
    <2> HIDE DEF first
    <2>4. Len(first) = i  BY <1>1, <1>2, <2>1, <2>2, <2>3
    <2>5. \A j \in 1 .. i - 1 : first[j] = s[j]  BY <1>1, <1>2, <2>1, <2>2, <2>3
    <2>6. first[i] = one[1]
        <3>1. i \in 1 .. Len(front) + Len(one) /\ ~(i <= Len(front)) /\ i - Len(front) = 1
            BY <1>1, <1>2, <2>1
        <3> QED BY <2>2, <2>3, <3>1
    <2> QED BY <2>1, <2>2, <2>3, <2>4, <2>5, <2>6
<1> HIDE DEF first
<1>6. /\ first \o rest \in Seq(X) /\ Len(first \o rest) = Len(first) + Len(rest)
      /\ \A j \in 1 .. Len(first) + Len(rest) :
            (first \o rest)[j] = IF j <= Len(first) THEN first[j] ELSE rest[j - Len(first)]
    BY <1>3, <1>5, ConcatProperties
<1>7. InsertAt(s, i, e) = first \o rest  BY DEF InsertAt, front, rest, first
<1>8. ASSUME NEW j \in 1 .. Len(s) + 1
      PROVE  (first \o rest)[j] = IF j < i THEN s[j] ELSE IF j = i THEN e ELSE s[j - 1]
    <2>1. j \in 1 .. Len(first) + Len(rest)  BY <1>1, <1>3, <1>5
    <2>2. CASE j <= i  BY <1>1, <1>5, <1>6, <2>1, <2>2
    <2>3. CASE ~(j <= i)
        <3>1. j - i \in 1 .. Len(s) - i + 1 /\ i + (j - i) - 1 = j - 1  BY <1>1, <2>3
        <3>2. rest[j - i] = s[j - 1]  BY <1>3, <3>1
        <3> QED BY <1>5, <1>6, <2>1, <2>3, <3>2
    <2> QED BY <2>2, <2>3
<1>9. Len(first \o rest) = Len(s) + 1  BY <1>1, <1>3, <1>5, <1>6
<1> QED BY <1>6, <1>7, <1>8, <1>9

\* The first card of an id is found when there is one.
LEMMA PositionFound ==
    ASSUME NEW cards \in Seq(Cards), NEW id
    PROVE  /\ Position(cards, id) \in 0 .. Len(cards)
           /\ Position(cards, id) # 0 => cards[Position(cards, id)].id = id
           /\ Position(cards, id) = 0 => \A i \in 1 .. Len(cards) : cards[i].id # id
<1> DEFINE I == {i \in 1 .. Len(cards) : cards[i].id = id}
<1>1. Len(cards) \in Nat  BY LenProperties
<1>2. Position(cards, id) = IF I # {} THEN Min(I) ELSE 0  BY DEF Position, SelectInSeq
<1>3. CASE I = {}  BY <1>1, <1>2, <1>3
<1>4. CASE I # {}
    <2>1. \E i \in I : \A j \in I : i <= j
        <3>1. I \in SUBSET Nat  BY <1>1
        <3> HIDE DEF I
        <3> QED BY <1>4, <3>1, SmallestExists
    <2>2. Min(I) \in I  BY <2>1 DEF Min
    <2> QED BY <1>1, <1>2, <1>4, <2>2
<1> QED BY <1>3, <1>4

----------------------------------------------------------------------------
\* The tools.  What is shown of each: its result is a board again, with the
\* aliases it had, and no two cards get one id.

LEMMA NoCardIsRef == NoCard \in Refs /\ NoCard.kind = "none"
BY DEF NoCard, Ref, Refs

LEMMA RefusedGood ==
    ASSUME NEW b \in Boards
    PROVE  Good(b, Refused(b))
<1>1. Refused(b) \in Outs  BY NoCardIsRef DEF Refused, Outs, Places
<1> QED BY <1>1 DEF Good, Refused

LEMMA BoardParts ==
    ASSUME NEW b \in Boards
    PROVE  /\ b.cards \in Seq(Cards) /\ Len(b.cards) \in Nat
           /\ DOMAIN b.cards = 1 .. Len(b.cards)
           /\ \A i \in 1 .. Len(b.cards) : b.cards[i] \in Cards
           /\ b.next \in 1 .. MaxLocal + 1 /\ b.alias \in [1 .. MaxLocal -> 0 .. MaxKey]
           /\ b = [cards |-> b.cards, alias |-> b.alias, next |-> b.next]
<1>1. b.cards \in Seq(Cards)  BY DEF Boards
<1>2. Len(b.cards) \in Nat /\ DOMAIN b.cards = 1 .. Len(b.cards)
    BY <1>1, LenProperties
<1>3. \A i \in 1 .. Len(b.cards) : b.cards[i] \in Cards  BY <1>1, ElementOfSeq
<1> QED BY <1>1, <1>2, <1>3 DEF Boards

LEMMA FindFound ==
    ASSUME NEW b \in Boards, NEW id
    PROVE  /\ Find(b, id) \in 0 .. Len(b.cards)
           /\ Find(b, id) # 0 =>
                /\ Find(b, id) \in 1 .. Len(b.cards)
                /\ b.cards[Find(b, id)] \in Cards
                /\ b.cards[Find(b, id)].id = ResolveAlias(b, id)
           /\ Find(b, id) = 0 =>
                \A i \in 1 .. Len(b.cards) : b.cards[i].id # ResolveAlias(b, id)
<1>1. Find(b, id) = Position(b.cards, ResolveAlias(b, id))  BY DEF Find
<1> QED BY <1>1, BoardParts, PositionFound

LEMMA CardReplaced ==
    ASSUME NEW b \in Boards, NEW i \in 1 .. Len(b.cards), NEW d \in Cards
    PROVE  /\ [b EXCEPT !.cards[i] = d] \in Boards
           /\ [b EXCEPT !.cards[i] = d].cards = [b.cards EXCEPT ![i] = d]
           /\ [b EXCEPT !.cards[i] = d].alias = b.alias
           /\ [b EXCEPT !.cards[i] = d].next = b.next
           /\ Len([b EXCEPT !.cards[i] = d].cards) = Len(b.cards)
           /\ \A j \in 1 .. Len(b.cards) :
                [b EXCEPT !.cards[i] = d].cards[j] = IF j = i THEN d ELSE b.cards[j]
<1> DEFINE s == [b.cards EXCEPT ![i] = d]
<1>1. /\ s \in Seq(Cards) /\ Len(s) = Len(b.cards)
      /\ \A j \in 1 .. Len(b.cards) : s[j] = IF j = i THEN d ELSE b.cards[j]
    BY BoardParts, ExceptSeq
<1>2. [b EXCEPT !.cards[i] = d] = [b EXCEPT !.cards = s]  BY BoardParts
<1> HIDE DEF s
<1>3. [b EXCEPT !.cards = s] = [cards |-> s, alias |-> b.alias, next |-> b.next]
    BY BoardParts
<1>4. [b EXCEPT !.cards = s] \in Boards  BY <1>1, <1>3, BoardParts DEF Boards
<1> QED BY <1>1, <1>2, <1>3, <1>4 DEF s

LEMMA ReplacedGood ==
    ASSUME NEW b \in Boards, NEW i \in 1 .. Len(b.cards), NEW d \in Cards,
           d.id = b.cards[i].id, b.cards[i].title # 0 => d.title # 0, NEW id \in Refs
    PROVE  Good(b, Changed([b EXCEPT !.cards[i] = d], id))
<1> DEFINE n == [b EXCEPT !.cards[i] = d]
           out == Changed(n, id)
<1>1. /\ n \in Boards /\ n.alias = b.alias /\ n.next = b.next /\ Len(n.cards) = Len(b.cards)
      /\ \A j \in 1 .. Len(b.cards) : n.cards[j] = IF j = i THEN d ELSE b.cards[j]
    BY CardReplaced
<1> HIDE DEF n
<1>2. out \in Outs /\ out.board = n /\ ~out.moved
    BY <1>1, NoCardIsRef DEF Changed, Refused, Outs, Places
<1>3. DOMAIN n.cards = DOMAIN b.cards /\ \A j \in DOMAIN b.cards : n.cards[j].id = b.cards[j].id
    BY <1>1, BoardParts
<1>4. Distinct(b.cards) => Distinct(n.cards)  BY <1>3 DEF Distinct
<1>5. HandedOut(b) => HandedOut(n)  BY <1>1, <1>3 DEF HandedOut
<1>7. Proper(b.cards) => Proper(n.cards)  BY <1>1, <1>3, BoardParts DEF Proper
<1> HIDE DEF out
<1>8. Good(b, out)  BY <1>1, <1>2, <1>4, <1>5, <1>7 DEF Good
<1> QED BY <1>8 DEF out, n

LEMMA EditGood ==
    ASSUME NEW b \in Boards, NEW a \in Args, NEW out, EditOf(b, a, out)
    PROVE  Good(b, out)
<1>1. CASE out = Refused(b)  BY <1>1, RefusedGood
<1>2. CASE out # Refused(b)
    <2>1. PICK i \in 1 .. Len(b.cards), d \in Cards :
            /\ d.id = b.cards[i].id /\ (b.cards[i].title # 0 => d.title # 0)
            /\ out = Changed([b EXCEPT !.cards[i] = d], a.card)
        BY <1>2 DEF EditOf
    <2>2. a.card \in Refs  BY DEF Args
    <2> QED BY <2>1, <2>2, ReplacedGood
<1> QED BY <1>1, <1>2

LEMMA SetFieldEdits ==
    ASSUME NEW b \in Boards, NEW a \in Args, NEW field \in CardFields
    PROVE  EditOf(b, a, SetField(b, a, field))
<1> DEFINE i == Find(b, a.card)
           c == b.cards[i]
           d == [c EXCEPT !.f[field] = a.v]
<1>1. CASE i = 0  BY <1>1 DEF SetField, OnCard, EditOf
<1>2. CASE i # 0
    <2>1. i \in 1 .. Len(b.cards) /\ c \in Cards  BY <1>2, FindFound
    <2>2. d \in Cards /\ d.id = c.id /\ (c.title # 0 => d.title # 0)
        BY <2>1 DEF Cards, Args
    <2>3. SetField(b, a, field) = Changed([b EXCEPT !.cards[i] = d], a.card)
        BY <1>2 DEF SetField, OnCard
    <2> QED BY <2>1, <2>2, <2>3 DEF EditOf
<1> QED BY <1>1, <1>2

LEMMA ExtendEdits ==
    ASSUME NEW b \in Boards, NEW a \in Args, NEW field \in CardFields
    PROVE  EditOf(b, a, Extend(b, a, field))
<1> DEFINE i == Find(b, a.card)
           c == b.cards[i]
           d == [c EXCEPT !.f[field] = @ + 1, !.own = TRUE]
<1>1. CASE i = 0  BY <1>1 DEF Extend, OnCard, EditOf
<1>2. CASE i # 0
    <2>1. i \in 1 .. Len(b.cards) /\ c \in Cards  BY <1>2, FindFound
    <2>2. d \in Cards /\ d.id = c.id /\ (c.title # 0 => d.title # 0)
        <3>1. c.f[field] + 1 \in Nat  BY <2>1 DEF Cards
        <3> QED BY <2>1, <3>1 DEF Cards
    <2>3. Extend(b, a, field) = Changed([b EXCEPT !.cards[i] = d], a.card)
        BY <1>2 DEF Extend, OnCard
    <2> QED BY <2>1, <2>2, <2>3 DEF EditOf
<1> QED BY <1>1, <1>2

LEMMA MoveTicketEdits ==
    ASSUME NEW b \in Boards, NEW a \in Args
    PROVE  EditOf(b, a, MoveTicket(b, a))
<1> DEFINE i == Find(b, a.card)
           c == b.cards[i]
           d == [c EXCEPT !.status = a.status]
<1>1. CASE i = 0 \/ a.status = ""  BY <1>1 DEF MoveTicket, OnCard, EditOf
<1>2. CASE ~(i = 0 \/ a.status = "")
    <2>1. i \in 1 .. Len(b.cards) /\ c \in Cards  BY <1>2, FindFound
    <2>2. d \in Cards /\ d.id = c.id /\ (c.title # 0 => d.title # 0)
        BY <1>2, <2>1 DEF Cards, Args
    <2>3. MoveTicket(b, a) = Changed([b EXCEPT !.cards[i] = d], a.card)
        BY <1>2 DEF MoveTicket, OnCard
    <2> QED BY <2>1, <2>2, <2>3 DEF EditOf
<1> QED BY <1>1, <1>2

LEMMA AddTagsEdits ==
    ASSUME NEW b \in Boards, NEW a \in Args
    PROVE  EditOf(b, a, AddTags(b, a))
<1> DEFINE i == Find(b, a.card)
           c == b.cards[i]
           d == [c EXCEPT !.tags = @ \cup a.tags]
<1>1. CASE i = 0  BY <1>1 DEF AddTags, OnCard, EditOf
<1>2. CASE i # 0
    <2>1. i \in 1 .. Len(b.cards) /\ c \in Cards  BY <1>2, FindFound
    <2>2. d \in Cards /\ d.id = c.id /\ (c.title # 0 => d.title # 0)
        <3>1. c.tags \cup a.tags \in SUBSET Tags  BY <2>1 DEF Cards, Args
        <3> QED BY <2>1, <3>1 DEF Cards
    <2>3. AddTags(b, a) = Changed([b EXCEPT !.cards[i] = d], a.card)
        BY <1>2 DEF AddTags, OnCard
    <2> QED BY <2>1, <2>2, <2>3 DEF EditOf
<1> QED BY <1>1, <1>2

LEMMA RemoveTagsEdits ==
    ASSUME NEW b \in Boards, NEW a \in Args
    PROVE  EditOf(b, a, RemoveTags(b, a))
<1> DEFINE i == Find(b, a.card)
           c == b.cards[i]
           d == [c EXCEPT !.tags = @ \ a.tags]
<1>1. CASE i = 0 \/ a.tags = {}  BY <1>1 DEF RemoveTags, OnCard, EditOf
<1>2. CASE ~(i = 0 \/ a.tags = {})
    <2>1. i \in 1 .. Len(b.cards) /\ c \in Cards  BY <1>2, FindFound
    <2>2. d \in Cards /\ d.id = c.id /\ (c.title # 0 => d.title # 0)
        <3>1. c.tags \ a.tags \in SUBSET Tags  BY <2>1 DEF Cards
        <3> QED BY <2>1, <3>1 DEF Cards
    <2>3. RemoveTags(b, a) = Changed([b EXCEPT !.cards[i] = d], a.card)
        BY <1>2 DEF RemoveTags, OnCard
    <2> QED BY <2>1, <2>2, <2>3 DEF EditOf
<1> QED BY <1>1, <1>2

LEMMA UpdateTicketEdits ==
    ASSUME NEW b \in Boards, NEW a \in Args
    PROVE  EditOf(b, a, UpdateTicket(b, a))
<1> DEFINE i == Find(b, a.card)
           c == b.cards[i]
           title == IF a.title = 0 THEN c.title ELSE a.title
           notes == IF a.notes = {} THEN c.notes ELSE a.notes
           d == [c EXCEPT !.title = title, !.notes = notes]
<1>1. CASE i = 0  BY <1>1 DEF UpdateTicket, OnCard, EditOf
<1>2. CASE i # 0
    <2>1. i \in 1 .. Len(b.cards) /\ c \in Cards  BY <1>2, FindFound
    <2>2. title \in Nat /\ (c.title # 0 => title # 0) /\ notes \in SUBSET Remarks
        BY <2>1, TextAssumption DEF Cards, Args
    <2>3. UpdateTicket(b, a) = Changed([b EXCEPT !.cards[i] = d], a.card)
        BY <1>2 DEF UpdateTicket, OnCard
    <2> HIDE DEF title, notes
    <2>4. d \in Cards /\ d.id = c.id /\ (c.title # 0 => d.title # 0)
        BY <2>1, <2>2 DEF Cards
    <2> QED BY <2>1, <2>3, <2>4 DEF EditOf
<1> QED BY <1>1, <1>2

\* Results that say more of the card.
LEMMA SaidGood ==
    ASSUME NEW b, NEW out, Good(b, out)
    PROVE  /\ \A notes \in SUBSET Remarks : Good(b, [out EXCEPT !.notes = notes])
           /\ \A tags \in SUBSET Tags : Good(b, [out EXCEPT !.tags = tags])
<1> SUFFICES ASSUME NEW notes \in SUBSET Remarks, NEW tags \in SUBSET Tags
             PROVE  Good(b, [out EXCEPT !.notes = notes]) /\ Good(b, [out EXCEPT !.tags = tags])
    <2>1. {} \in SUBSET Remarks /\ {} \in SUBSET Tags  OBVIOUS
    <2> QED BY <2>1
<1>1. [out EXCEPT !.notes = notes] \in Outs /\ [out EXCEPT !.tags = tags] \in Outs
    BY DEF Good, Outs
<1>2. \A o \in {[out EXCEPT !.notes = notes], [out EXCEPT !.tags = tags]} :
        o.board = out.board /\ o.moved = out.moved /\ o.status = out.status
    BY DEF Good, Outs
<1> QED BY <1>1, <1>2 DEF Good

LEMMA AppendNotesGood ==
    ASSUME NEW b \in Boards, NEW a \in Args
    PROVE  Good(b, AppendNotes(b, a))
<1> DEFINE i == Find(b, a.card)
           c == b.cards[i]
           notes == c.notes \cup a.notes
           d == [c EXCEPT !.notes = @ \cup a.notes]
           n == [b EXCEPT !.cards[i] = d]
           out == Changed(n, a.card)
<1>1. CASE a.notes = {}  BY <1>1, RefusedGood DEF AppendNotes
<1>2. CASE a.notes # {} /\ i = 0
    <2>1. AppendNotes(b, a) = Refused(b)
        BY <1>2 DEF AppendNotes, WithNotes, OnCard, Refused
    <2> QED BY <2>1, RefusedGood
<1>3. CASE a.notes # {} /\ i # 0
    <2>1. i \in 1 .. Len(b.cards) /\ c \in Cards /\ a.card \in Refs
        BY <1>3, FindFound DEF Args
    <2>2. notes \in SUBSET Remarks  BY <2>1 DEF Cards, Args
    <2>3. d \in Cards /\ d.id = c.id /\ d.title = c.title /\ d.notes = notes
        BY <2>1, <2>2 DEF Cards
    <2>4. n.cards[i] = d  BY <2>1, <2>3, CardReplaced
    <2>5. Good(b, out)  BY <2>1, <2>3, ReplacedGood
    <2>6. out.board = n /\ out.changed  BY DEF Changed, Refused
    <2>7. AppendNotes(b, a) = IF out.changed THEN [out EXCEPT !.notes = out.board.cards[i].notes] ELSE out
        BY <1>3 DEF AppendNotes, WithNotes, OnCard
    <2> HIDE DEF out, n
    <2>8. AppendNotes(b, a) = [out EXCEPT !.notes = notes]  BY <2>3, <2>4, <2>6, <2>7
    <2> QED BY <2>2, <2>5, <2>8, SaidGood
<1> QED BY <1>1, <1>2, <1>3

LEMMA SetBlockedGood ==
    ASSUME NEW b \in Boards, NEW a \in Args
    PROVE  Good(b, SetBlocked(b, a))
<1> DEFINE i == Find(b, a.card)
           c == b.cards[i]
           d == Block(c, a.notes, a.tags)
           n == [b EXCEPT !.cards[i] = d]
           out == Changed(n, a.card)
           tags == {"blocked"} \cup a.tags
           said == WithNotes(b, a, LAMBDA x : Block(x, a.notes, a.tags))
<1>1. tags \in SUBSET Tags  BY DEF Args, Tags
<1>2. SetBlocked(b, a) = [said EXCEPT !.tags = tags]  BY DEF SetBlocked
<1>3. Good(b, said)
    <2>1. CASE i = 0
        <3>1. said = Refused(b)  BY <2>1 DEF WithNotes, OnCard, Refused
        <3> QED BY <3>1, RefusedGood
    <2>2. CASE i # 0
        <3>1. i \in 1 .. Len(b.cards) /\ c \in Cards /\ a.card \in Refs
            BY <2>2, FindFound DEF Args
        <3>2. d \in Cards /\ d.id = c.id /\ d.title = c.title
            <4> DEFINE f == [c.f EXCEPT !["comments"] = @ + 1]
                       newTags == c.tags \cup {"blocked"} \cup a.tags
                       notes == c.notes \cup a.notes
                       yes == TRUE
            <4>1. f \in [CardFields -> Nat]  BY <3>1 DEF Cards, CardFields, Lists
            <4>2. newTags \in SUBSET Tags /\ notes \in SUBSET Remarks /\ "Blocked" \in Statuses /\ yes \in BOOLEAN
                BY <3>1 DEF Cards, Args, Tags, Statuses
            <4>3. d = [c EXCEPT !.status = "Blocked", !.tags = newTags, !.notes = notes, !.f = f, !.own = yes]
                BY <3>1 DEF Block, Cards
            <4> HIDE DEF d, f, newTags, notes, yes
            <4> QED BY <3>1, <4>1, <4>2, <4>3 DEF Cards
        <3>3. n.cards[i] = d /\ d.notes \in SUBSET Remarks
            <4>1. d.notes \in SUBSET Remarks  BY <3>2 DEF Cards
            <4> QED BY <3>1, <3>2, <4>1, CardReplaced
        <3>4. Good(b, out)  BY <3>1, <3>2, ReplacedGood
        <3>5. out.board = n /\ out.changed  BY DEF Changed, Refused
        <3>6. said = IF out.changed THEN [out EXCEPT !.notes = out.board.cards[i].notes] ELSE out
            BY <2>2 DEF WithNotes, OnCard
        <3> HIDE DEF out, n, d, said
        <3>7. said = [out EXCEPT !.notes = d.notes]  BY <3>3, <3>5, <3>6
        <3> QED BY <3>3, <3>4, <3>7, SaidGood
    <2> QED BY <2>1, <2>2
<1> HIDE DEF said, tags
<1> QED BY <1>1, <1>2, <1>3, SaidGood

LEMMA RecordParticipantUpdateGood ==
    ASSUME NEW b \in Boards, NEW a \in Args
    PROVE  Good(b, RecordParticipantUpdate(b, a))
<1> DEFINE i == Find(b, a.card)
           c == b.cards[i]
           status == IF a.blocker THEN "Blocked" ELSE IF a.status = "" THEN c.status ELSE a.status
           tags == IF a.blocker THEN c.tags \cup {"blocked", "risk"} ELSE c.tags
           due == IF a.v = 0 THEN c.f["due"] ELSE a.v
           notes == c.notes \cup a.notes
           f == [c.f EXCEPT !["due"] = due]
           d == [c EXCEPT !.status = status, !.tags = tags, !.f["due"] = due, !.notes = notes]
<1>1. a.card \in Refs  BY DEF Args
<1>2. CASE i = 0
    <2>1. RecordParticipantUpdate(b, a) = Changed(b, a.card)
        BY <1>2 DEF RecordParticipantUpdate
    <2>2. Changed(b, a.card) \in Outs /\ Changed(b, a.card).board = b /\ ~Changed(b, a.card).moved
        BY <1>1, NoCardIsRef DEF Changed, Refused, Outs, Places
    <2> QED BY <2>1, <2>2 DEF Good
<1>3. CASE i # 0
    <2>1. i \in 1 .. Len(b.cards) /\ c \in Cards  BY <1>3, FindFound
    <2>2. status \in Statuses  BY <2>1 DEF Cards, Args, Statuses
    <2>3. tags \in SUBSET Tags /\ notes \in SUBSET Remarks
        BY <2>1 DEF Cards, Args, Tags
    <2>4. due \in Nat /\ f \in [CardFields -> Nat]
        BY <2>1 DEF Cards, Args, CardFields, Single
    <2>5. RecordParticipantUpdate(b, a) = Changed([b EXCEPT !.cards[i] = d], a.card)
        BY <1>3 DEF RecordParticipantUpdate
    <2>6. d = [c EXCEPT !.status = status, !.tags = tags, !.f = f, !.notes = notes]
        BY <2>1 DEF Cards
    <2> HIDE DEF status, tags, due, notes, f
    <2>7. d \in Cards /\ d.id = c.id /\ d.title = c.title
        BY <2>1, <2>2, <2>3, <2>4, <2>6 DEF Cards
    <2> QED BY <1>1, <2>1, <2>5, <2>7, ReplacedGood
<1> QED BY <1>2, <1>3

LEMMA IdsAreRefs == Ids \subseteq Refs /\ \A id \in Ids : id.kind \in {"local", "key"} /\ id.n \in Nat
BY IdsAssumption DEF Ids, Refs

\* What taking a card out, or putting one in, does to the ids.
LEMMA RemoveDistinct ==
    ASSUME NEW cards \in Seq(Cards), NEW i \in 1 .. Len(cards)
    PROVE  /\ \A j \in 1 .. Len(cards) - 1 : \E k \in 1 .. Len(cards) :
                /\ RemoveAt(cards, i)[j] = cards[k]
                /\ Distinct(cards) => cards[k].id # cards[i].id
                /\ Proper(cards) /\ IsKey(cards[i].id) => cards[k].id # cards[i].id
           /\ Distinct(cards) => Distinct(RemoveAt(cards, i))
           /\ Proper(cards) => Proper(RemoveAt(cards, i))
<1> DEFINE rest == RemoveAt(cards, i)
           old(j) == IF j < i THEN j ELSE j + 1
<1>1. /\ Len(cards) \in Nat /\ DOMAIN cards = 1 .. Len(cards)
      /\ rest \in Seq(Cards) /\ Len(rest) = Len(cards) - 1 /\ DOMAIN rest = 1 .. Len(cards) - 1
      /\ \A j \in 1 .. Len(cards) - 1 : rest[j] = IF j < i THEN cards[j] ELSE cards[j + 1]
    BY RemoveAtFacts, LenProperties
<1>2. \A j \in 1 .. Len(cards) - 1 :
        old(j) \in 1 .. Len(cards) /\ old(j) # i /\ rest[j] = cards[old(j)]
    BY <1>1
<1>3. \A j, k \in 1 .. Len(cards) - 1 : old(j) = old(k) => j = k  BY <1>1
<1> HIDE DEF rest, old
<1>4. Distinct(cards) => \A j \in 1 .. Len(cards) - 1 : cards[old(j)].id # cards[i].id
    BY <1>1, <1>2 DEF Distinct
<1>5. ASSUME Distinct(cards), NEW j \in 1 .. Len(cards) - 1, NEW k \in 1 .. Len(cards) - 1,
             rest[j].id = rest[k].id
      PROVE  j = k
    <2>1. cards[old(j)].id = cards[old(k)].id /\ old(j) \in DOMAIN cards /\ old(k) \in DOMAIN cards
        BY <1>1, <1>2, <1>5
    <2>2. old(j) = old(k)  BY <1>5, <2>1 DEF Distinct
    <2> QED BY <1>3, <2>2
<1>6. Distinct(cards) => Distinct(rest)  BY <1>1, <1>5 DEF Distinct
<1>7. Proper(cards) /\ IsKey(cards[i].id) =>
        \A j \in 1 .. Len(cards) - 1 : cards[old(j)].id # cards[i].id
    BY <1>1, <1>2 DEF Proper
<1>8. ASSUME Proper(cards)
      PROVE  Proper(rest)
    <2>1. \A j \in 1 .. Len(cards) - 1 : rest[j].title # 0
        BY <1>1, <1>2, <1>8 DEF Proper
    <2>2. ASSUME NEW j \in 1 .. Len(cards) - 1, NEW k \in 1 .. Len(cards) - 1,
                 IsKey(rest[j].id), rest[j].id = rest[k].id
          PROVE  j = k
        <3>1. /\ cards[old(j)].id = cards[old(k)].id /\ IsKey(cards[old(j)].id)
              /\ old(j) \in DOMAIN cards /\ old(k) \in DOMAIN cards
            BY <1>1, <1>2, <2>2
        <3>2. old(j) = old(k)  BY <1>8, <3>1 DEF Proper
        <3> QED BY <1>3, <3>2
    <2> QED BY <1>1, <2>1, <2>2 DEF Proper
<1> QED BY <1>2, <1>4, <1>6, <1>7, <1>8 DEF rest

LEMMA InsertDistinct ==
    ASSUME NEW cards \in Seq(Cards), NEW i \in 1 .. Len(cards) + 1, NEW d \in Cards,
           Distinct(cards), \A j \in 1 .. Len(cards) : cards[j].id # d.id
    PROVE  Distinct(InsertAt(cards, i, d))
<1> DEFINE new == InsertAt(cards, i, d)
           old(j) == IF j < i THEN j ELSE j - 1
<1>1. /\ Len(cards) \in Nat /\ DOMAIN cards = 1 .. Len(cards)
      /\ new \in Seq(Cards) /\ DOMAIN new = 1 .. Len(cards) + 1
      /\ \A j \in 1 .. Len(cards) + 1 :
            new[j] = IF j < i THEN cards[j] ELSE IF j = i THEN d ELSE cards[j - 1]
    BY InsertAtFacts, LenProperties
<1>2. \A j \in 1 .. Len(cards) + 1 :
        j # i => old(j) \in 1 .. Len(cards) /\ new[j] = cards[old(j)]
    BY <1>1
<1>3. \A j, k \in 1 .. Len(cards) + 1 : j # i /\ k # i /\ old(j) = old(k) => j = k
    BY <1>1
<1>4. new[i] = d  BY <1>1
<1> HIDE DEF new, old
<1>5. ASSUME NEW j \in 1 .. Len(cards) + 1, NEW k \in 1 .. Len(cards) + 1, new[j].id = new[k].id
      PROVE  j = k
    <2>1. CASE j # i /\ k # i  BY <1>1, <1>2, <1>3, <1>5, <2>1 DEF Distinct
    <2>2. CASE j = i \/ k = i  BY <1>2, <1>4, <1>5, <2>2
    <2> QED BY <2>1, <2>2
<1> QED BY <1>1, <1>5 DEF Distinct, new

LEMMA InsertProper ==
    ASSUME NEW cards \in Seq(Cards), NEW i \in 1 .. Len(cards) + 1, NEW d \in Cards,
           Proper(cards), d.title # 0,
           IsKey(d.id) => \A j \in 1 .. Len(cards) : cards[j].id # d.id
    PROVE  Proper(InsertAt(cards, i, d))
<1> DEFINE new == InsertAt(cards, i, d)
           old(j) == IF j < i THEN j ELSE j - 1
<1>0. Len(cards) \in Nat /\ DOMAIN cards = 1 .. Len(cards)  BY LenProperties
<1>1. /\ Len(cards) \in Nat /\ DOMAIN cards = 1 .. Len(cards)
      /\ new \in Seq(Cards) /\ DOMAIN new = 1 .. Len(cards) + 1
      /\ \A j \in 1 .. Len(cards) + 1 :
            new[j] = IF j < i THEN cards[j] ELSE IF j = i THEN d ELSE cards[j - 1]
    <2>1. /\ new \in Seq(Cards) /\ Len(new) = Len(cards) + 1
          /\ \A j \in 1 .. Len(cards) + 1 :
                new[j] = IF j < i THEN cards[j] ELSE IF j = i THEN d ELSE cards[j - 1]
        BY InsertAtFacts
    <2> HIDE DEF new
    <2> QED BY <1>0, <2>1, LenProperties
<1>2. \A j \in 1 .. Len(cards) + 1 :
        j # i => old(j) \in 1 .. Len(cards) /\ new[j] = cards[old(j)]
    BY <1>1
<1>3. \A j, k \in 1 .. Len(cards) + 1 : j # i /\ k # i /\ old(j) = old(k) => j = k
    BY <1>1
<1>4. new[i] = d  BY <1>1
<1> HIDE DEF new, old
<1>5. ASSUME NEW j \in 1 .. Len(cards) + 1, NEW k \in 1 .. Len(cards) + 1,
             IsKey(new[j].id), new[j].id = new[k].id
      PROVE  j = k
    <2>1. CASE j # i /\ k # i  BY <1>1, <1>2, <1>3, <1>5, <2>1 DEF Proper
    <2>2. CASE j = i \/ k = i  BY <1>2, <1>4, <1>5, <2>2
    <2> QED BY <2>1, <2>2
<1>6. \A j \in 1 .. Len(cards) + 1 : new[j].title # 0  BY <1>1, <1>2, <1>4 DEF Proper
<1> QED BY <1>1, <1>5, <1>6 DEF Proper, new

LEMMA CreateTicketGood ==
    ASSUME NEW b \in Boards, NEW a \in Args
    PROVE  LET out == CreateTicket(b, a) IN
           /\ Good(b, out)
           /\ out.changed => /\ Of(out.board.cards, out.id) \in Cards
                             /\ Of(out.board.cards, out.id).id.kind = "local"
                             /\ Added(b, a, out)
<1>1. CASE a.title = 0 \/ FreeIndexes(b) = {}
    <2>1. CreateTicket(b, a) = Refused(b) /\ ~Refused(b).changed
        BY <1>1 DEF CreateTicket, Refused
    <2> QED BY <2>1, RefusedGood
<1>2. CASE ~(a.title = 0 \/ FreeIndexes(b) = {})
    <2> DEFINE n == CreateCardID(b)
               status == IF a.status = "" THEN "Backlog" ELSE a.status
               card == [Card(LocalId(n), status, a.title) EXCEPT !.tags = a.tags, !.parent = a.other]
               new == [b EXCEPT !.cards = Append(@, card), !.next = n + 1]
               out == Changed(new, card.id)
    <2>1. n \in FreeIndexes(b)
        <3>1. FreeIndexes(b) \in SUBSET Nat
            BY BoardParts, IdsAssumption DEF FreeIndexes
        <3>2. \E m \in FreeIndexes(b) : \A k \in FreeIndexes(b) : m <= k
            BY <1>2, <3>1, SmallestExists
        <3> QED BY <3>2 DEF CreateCardID
    <2>2. n \in b.next .. MaxLocal /\ n \in 1 .. MaxLocal /\ b.next \in Nat
        BY <2>1, BoardParts, IdsAssumption DEF FreeIndexes
    <2>3. LocalId(n) \in Ids /\ LocalId(n).kind = "local" /\ LocalId(n).n = n
        BY <2>2 DEF LocalId, Ref, Ids
    <2>4. status \in Statuses /\ a.title \in Nat
        <3>1. a.status \in Statuses \cup {""} /\ a.title \in Titles \cup {0}
            BY DEF Args
        <3>2. a.title \in Nat
            <4>1. CASE a.title = 0  BY <4>1
            <4>2. CASE a.title # 0
                <5>1. a.title \in Titles  BY <3>1, <4>2
                <5> QED BY <5>1, TextAssumption
            <4> QED BY <4>1, <4>2
        <3> QED BY <3>1, <3>2 DEF Statuses
    <2>5. CreateTicket(b, a) = out  BY <1>2 DEF CreateTicket
    <2> HIDE DEF n, status
    <2>6. /\ card \in Cards /\ card.id = LocalId(n) /\ card.title = a.title
          /\ card.status = status /\ \A x \in CardFields : card.f[x] = 0
        <3>1. Empty \in [CardFields -> Nat] /\ \A x \in CardFields : Empty[x] = 0
            BY DEF Empty
        <3>2. a.tags \in SUBSET Tags /\ a.other \in Refs  BY DEF Args
        <3> QED BY <2>3, <2>4, <3>1, <3>2, NoCardIsRef DEF Card, Cards
    <2> HIDE DEF card
    <2> DEFINE cards == Append(b.cards, card)
    <2>7. /\ cards \in Seq(Cards) /\ Len(cards) = Len(b.cards) + 1
          /\ DOMAIN cards = 1 .. Len(b.cards) + 1
          /\ \A j \in 1 .. Len(b.cards) : cards[j] = b.cards[j]
          /\ cards[Len(b.cards) + 1] = card
        BY <2>6, BoardParts, AppendProperties, LenProperties
    <2>8. new = [cards |-> cards, alias |-> b.alias, next |-> n + 1]
        <3> HIDE DEF cards
        <3>1. new = [b EXCEPT !.cards = cards, !.next = n + 1]
            BY BoardParts DEF cards
        <3> HIDE DEF new
        <3>2. b = [cards |-> b.cards, alias |-> b.alias, next |-> b.next]
            BY BoardParts
        <3> DEFINE next == n + 1
        <3> HIDE DEF next
        <3>3. new = [b EXCEPT !.cards = cards, !.next = next]  BY <3>1 DEF next
        <3>4. new = [cards |-> cards, alias |-> b.alias, next |-> next]  BY <3>2, <3>3
        <3> QED BY <3>4 DEF next
    <2> HIDE DEF cards, new
    <2>9. new \in Boards
        <3>1. n + 1 \in 1 .. MaxLocal + 1  BY <2>2, IdsAssumption
        <3> QED BY <2>7, <2>8, <3>1, BoardParts DEF Boards
    <2>10. out \in Outs /\ out.board = new /\ ~out.moved /\ out.id = card.id
        <3>1. card.id \in Refs  BY <2>3, <2>6, IdsAreRefs
        <3> QED BY <2>9, <3>1, NoCardIsRef DEF Changed, Refused, Outs, Places
    <2>11. ASSUME Distinct(b.cards), HandedOut(b)
           PROVE  Distinct(cards) /\ HandedOut(new)
        <3>1. \A j \in 1 .. Len(b.cards) : b.cards[j].id.kind = "local" => b.cards[j].id.n < b.next
            BY <2>11, BoardParts DEF HandedOut
        <3>2. \A j \in 1 .. Len(b.cards) : b.cards[j].id # card.id
            BY <2>2, <2>3, <2>6, <3>1, BoardParts DEF Cards
        <3>3. Distinct(cards)
            <4>1. \A j, k \in 1 .. Len(b.cards) : b.cards[j].id = b.cards[k].id => j = k
                BY <2>11, BoardParts DEF Distinct
            <4>2. \A j \in 1 .. Len(b.cards) + 1 : j \in 1 .. Len(b.cards) \/ j = Len(b.cards) + 1
                BY BoardParts
            <4> QED BY <2>7, <3>2, <4>1, <4>2 DEF Distinct
        <3>4. ASSUME NEW j \in DOMAIN cards, cards[j].id.kind = "local"
              PROVE  cards[j].id.n < n + 1
            <4>1. CASE j = Len(b.cards) + 1  BY <2>2, <2>3, <2>6, <2>7, <4>1
            <4>2. CASE j # Len(b.cards) + 1
                <5>1. j \in 1 .. Len(b.cards)  BY <2>7, <4>2, BoardParts
                <5>2. b.cards[j].id.n < b.next /\ b.cards[j].id \in Ids
                    BY <2>7, <3>1, <3>4, <5>1, BoardParts DEF Cards
                <5> QED BY <2>2, <2>7, <5>1, <5>2, IdsAreRefs
            <4> QED BY <4>1, <4>2
        <3> QED BY <2>8, <3>3, <3>4 DEF HandedOut
    <2>15. Proper(b.cards) => Proper(cards)
        <3>1. card.title # 0 /\ ~IsKey(card.id)  BY <1>2, <2>3, <2>6 DEF IsKey
        <3>2. \A j \in 1 .. Len(b.cards) + 1 : j \in 1 .. Len(b.cards) \/ j = Len(b.cards) + 1
            BY BoardParts
        <3> QED BY <2>7, <3>1, <3>2, BoardParts DEF Proper
    <2>12. Of(cards, card.id) \in Cards /\ Of(cards, card.id).id = card.id
        <3>1. Len(b.cards) + 1 \in DOMAIN cards /\ cards[Len(b.cards) + 1].id = card.id
            BY <2>7, BoardParts
        <3>2. LET i == CHOOSE i \in DOMAIN cards : cards[i].id = card.id
              IN  i \in DOMAIN cards /\ cards[i].id = card.id
            BY <3>1
        <3>3. \A i \in DOMAIN cards : cards[i] \in Cards  BY <2>7, ElementOfSeq
        <3> QED BY <3>2, <3>3 DEF Of
    <2> HIDE DEF out
    <2>13. out.board.cards = cards /\ out.board.alias = b.alias  BY <2>8, <2>10
    <2>14. Good(b, out)  BY <2>10, <2>11, <2>13, <2>15 DEF Good
    <2>16. Added(b, a, out)
        <3>1. out.board.next = n + 1 /\ out.board.cards = Append(b.cards, card)
            BY <2>8, <2>10 DEF cards
        <3> QED BY <2>2, <2>6, <2>10, <2>13, <3>1 DEF Added, status
    <2> QED BY <2>3, <2>5, <2>6, <2>10, <2>12, <2>13, <2>14, <2>16
<1> QED BY <1>1, <1>2

LEMMA DeleteTicketGood ==
    ASSUME NEW b \in Boards, NEW a \in Args
    PROVE  Good(b, DeleteTicket(b, a))
<1> DEFINE i == Position(b.cards, a.card)
           rest == RemoveAt(b.cards, i)
           new == [b EXCEPT !.cards = rest]
           out == Changed(new, a.card)
<1>1. CASE i = 0  BY <1>1, RefusedGood DEF DeleteTicket
<1>2. CASE i # 0
    <2>1. i \in 1 .. Len(b.cards)  BY <1>2, BoardParts, PositionFound
    <2>2. rest \in Seq(Cards) /\ Len(rest) = Len(b.cards) - 1 /\ DOMAIN rest = 1 .. Len(b.cards) - 1
        BY <2>1, BoardParts, RemoveAtFacts, LenProperties
    <2>3. /\ Distinct(b.cards) => Distinct(rest)
          /\ Proper(b.cards) => Proper(rest)
          /\ \A j \in 1 .. Len(b.cards) - 1 : \E k \in 1 .. Len(b.cards) : rest[j] = b.cards[k]
        <3>1. b.cards \in Seq(Cards)  BY BoardParts
        <3> HIDE DEF i
        <3> QED BY <2>1, <3>1, RemoveDistinct, ZenonT(30)
    <2>4. DeleteTicket(b, a) = out  BY <1>2 DEF DeleteTicket
    <2> HIDE DEF rest
    <2>5. new = [cards |-> rest, alias |-> b.alias, next |-> b.next]  BY BoardParts
    <2> HIDE DEF new
    <2>6. new \in Boards  BY <2>2, <2>5, BoardParts DEF Boards
    <2>7. out \in Outs /\ out.board = new /\ ~out.moved
        <3>1. a.card \in Refs  BY DEF Args
        <3> QED BY <2>6, <3>1, NoCardIsRef DEF Changed, Refused, Outs, Places
    <2>8. HandedOut(b) => HandedOut(new)
        BY <2>2, <2>3, <2>5, BoardParts DEF HandedOut
    <2> HIDE DEF out
    <2>9. out.board.cards = rest /\ out.board.alias = b.alias  BY <2>5, <2>7
    <2>10. Good(b, out)  BY <2>3, <2>7, <2>8, <2>9 DEF Good
    <2> QED BY <2>4, <2>10
<1> QED BY <1>1, <1>2

----------------------------------------------------------------------------
\* Ranking

LEMMA ResolveAliasTyped ==
    ASSUME NEW b \in Boards, NEW r \in Refs
    PROVE  ResolveAlias(b, r) \in Refs /\ ResolveAlias(b, ResolveAlias(b, r)) = ResolveAlias(b, r)
<1>1. CASE r.kind = "local" /\ b.alias[r.n] # 0
    <2>1. r.n \in 1 .. MaxLocal  BY <1>1 DEF Refs
    <2>2. b.alias[r.n] \in Nat  BY <2>1, BoardParts, IdsAssumption
    <2>3. ResolveAlias(b, r) = Key(b.alias[r.n])  BY <1>1 DEF ResolveAlias
    <2>4. Key(b.alias[r.n]) \in Refs /\ Key(b.alias[r.n]).kind = "key"
        BY <2>2 DEF Key, Ref, Refs
    <2> HIDE <1>1
    <2>5. ResolveAlias(b, Key(b.alias[r.n])) = Key(b.alias[r.n])
        BY <2>4 DEF ResolveAlias
    <2> QED BY <2>3, <2>4, <2>5
<1>2. CASE ~(r.kind = "local" /\ b.alias[r.n] # 0)  BY <1>2 DEF ResolveAlias
<1> QED BY <1>1, <1>2

\* A place in a column is a place on the board, first or last in it.
LEMMA InsertionFound ==
    ASSUME NEW cards \in Seq(Cards), NEW status, NEW place
    PROVE  LET to == InsertionIndex(cards, status, place) IN
           /\ to \in 1 .. Len(cards) + 1
           /\ place = "top" => \A j \in InColumn(cards, status) : to <= j
           /\ place # "top" => \A j \in InColumn(cards, status) : j < to
           /\ Neighbour(cards, status, place) \in Refs
<1> DEFINE column == InColumn(cards, status)
<1>1. Len(cards) \in Nat /\ DOMAIN cards = 1 .. Len(cards) /\ \A j \in 1 .. Len(cards) : cards[j] \in Cards
    BY LenProperties, ElementOfSeq
<1>2. column \subseteq 1 .. Len(cards)  BY <1>1 DEF InColumn
<1>3. CASE column = {}  BY <1>1, <1>3, NoCardIsRef DEF InsertionIndex, Neighbour
<1>4. CASE column # {}
    <2> DEFINE first == FirstInStatus(cards, status)
               last == LastInStatus(cards, status)
    <2>1. first \in column /\ \A j \in column : first <= j
        <3>1. column \in SUBSET Nat  BY <1>1, <1>2
        <3> HIDE DEF column
        <3>2. \E i \in column : \A j \in column : i <= j
            BY <1>4, <3>1, SmallestExists
        <3> QED BY <3>2 DEF FirstInStatus, column
    <2>2. last \in column /\ \A j \in column : j <= last
        <3>1. column \in SUBSET (0 .. Len(cards))  BY <1>1, <1>2
        <3> HIDE DEF column
        <3>2. \E i \in column : \A j \in column : j <= i
            BY <1>1, <1>4, <3>1, LargestExists
        <3> QED BY <3>2 DEF LastInStatus, column
    <2>3. InsertionIndex(cards, status, place) = IF place = "top" THEN first ELSE last + 1
        BY <1>4 DEF InsertionIndex
    <2>4. Neighbour(cards, status, place) = cards[IF place = "top" THEN first ELSE last].id
        BY <1>4 DEF Neighbour
    <2> HIDE DEF first, last, column
    <2>5. first \in 1 .. Len(cards) /\ last \in 1 .. Len(cards)  BY <1>2, <2>1, <2>2
    <2>6. Neighbour(cards, status, place) \in Refs
        <3> DEFINE n == IF place = "top" THEN first ELSE last
        <3>1. n \in 1 .. Len(cards)  BY <2>5
        <3>2. Neighbour(cards, status, place) = cards[n].id  BY <2>4
        <3> HIDE DEF n
        <3>3. cards[n].id \in Ids  BY <1>1, <3>1 DEF Cards
        <3> QED BY <3>2, <3>3, IdsAreRefs
    <2>7. \A j \in column : j \in Int  BY <1>1, <1>2
    <2>8. CASE place = "top"  BY <1>1, <2>1, <2>3, <2>5, <2>6, <2>8 DEF column
    <2>9. CASE place # "top"
        <3>1. \A j \in column : j < last + 1  BY <2>2, <2>5, <2>7
        <3> QED BY <1>1, <2>3, <2>5, <2>6, <2>9, <3>1 DEF column
    <2> QED BY <2>8, <2>9
<1> QED BY <1>3, <1>4

LEMMA MovedTo ==
    ASSUME NEW cards \in Seq(Cards), NEW i \in 1 .. Len(cards),
           NEW to \in 1 .. Len(cards), NEW d \in Cards, d.id = cards[i].id,
           d.title = cards[i].title
    PROVE  Moves(cards, i, to, d, RemoveAt(cards, i), InsertAt(RemoveAt(cards, i), to, d))
<1>a. SUFFICES ASSUME NEW rest, rest = RemoveAt(cards, i), NEW new, new = InsertAt(rest, to, d)
               PROVE  Moves(cards, i, to, d, rest, new)
    OBVIOUS
<1> DEFINE again == RemoveAt(new, to)
<1>1. Len(cards) \in Nat /\ rest \in Seq(Cards) /\ Len(rest) = Len(cards) - 1
    BY <1>a, RemoveAtFacts, LenProperties
<1>2. /\ \A j \in 1 .. Len(cards) - 1 : \E k \in 1 .. Len(cards) :
            /\ rest[j] = cards[k] /\ (Distinct(cards) => cards[k].id # cards[i].id)
            /\ Proper(cards) /\ IsKey(cards[i].id) => cards[k].id # cards[i].id
      /\ Distinct(cards) => Distinct(rest)
      /\ Proper(cards) => Proper(rest)
    BY <1>a, RemoveDistinct
<1>3. to \in 1 .. Len(rest) + 1  BY <1>1
<1>4. /\ new \in Seq(Cards) /\ Len(new) = Len(cards)
      /\ \A j \in 1 .. Len(cards) :
            new[j] = IF j < to THEN rest[j] ELSE IF j = to THEN d ELSE rest[j - 1]
    <2>1. /\ InsertAt(rest, to, d) \in Seq(Cards) /\ Len(InsertAt(rest, to, d)) = Len(rest) + 1
          /\ \A j \in 1 .. Len(rest) + 1 :
                InsertAt(rest, to, d)[j] =
                    IF j < to THEN rest[j] ELSE IF j = to THEN d ELSE rest[j - 1]
        BY <1>1, <1>3, InsertAtFacts
    <2>2. Len(rest) + 1 = Len(cards)  BY <1>1
    <2> QED BY <1>a, <2>1, <2>2
<1>5. Distinct(cards) => Distinct(new)
    <2>1. Distinct(cards) => \A j \in 1 .. Len(rest) : rest[j].id # d.id
        BY <1>1, <1>2
    <2>2. Distinct(cards) => Distinct(InsertAt(rest, to, d))
        BY <1>1, <1>2, <1>3, <2>1, InsertDistinct
    <2> QED BY <1>a, <2>2
<1>10. ASSUME Proper(cards)
       PROVE  Proper(new)
    <2>1. IsKey(d.id) => \A j \in 1 .. Len(rest) : rest[j].id # d.id
        BY <1>1, <1>2, <1>10
    <2>2. d.title # 0  BY <1>1, <1>10, LenProperties DEF Proper
    <2>3. Proper(InsertAt(rest, to, d))
        BY <1>1, <1>2, <1>3, <1>10, <2>1, <2>2, InsertProper
    <2> QED BY <1>a, <2>3
<1>6. again = rest
    <2>1. /\ again \in Seq(Cards) /\ Len(again) = Len(rest)
          /\ \A j \in 1 .. Len(rest) : again[j] = IF j < to THEN new[j] ELSE new[j + 1]
        <3>1. to \in 1 .. Len(new)  BY <1>4
        <3>2. /\ again \in Seq(Cards) /\ Len(again) = Len(new) - 1
              /\ \A j \in 1 .. Len(new) - 1 : again[j] = IF j < to THEN new[j] ELSE new[j + 1]
            BY <1>4, <3>1, RemoveAtFacts
        <3>3. Len(new) - 1 = Len(rest)  BY <1>1, <1>4
        <3> QED BY <3>2, <3>3
    <2> HIDE DEF again
    <2>2. ASSUME NEW j \in 1 .. Len(rest)
          PROVE  again[j] = rest[j]
        <3>1. CASE j < to
            <4>1. j \in 1 .. Len(cards)  BY <1>1
            <4> QED BY <1>4, <2>1, <3>1, <4>1
        <3>2. CASE ~(j < to)
            <4>1. j + 1 \in 1 .. Len(cards) /\ ~(j + 1 < to) /\ j + 1 # to /\ (j + 1) - 1 = j
                BY <1>1, <3>2
            <4> QED BY <1>4, <2>1, <3>2, <4>1
        <3> QED BY <3>1, <3>2
    <2> QED BY <1>1, <2>1, <2>2, SeqEqual
<1>7. \A j \in 1 .. Len(cards) : \E k \in 1 .. Len(cards) : new[j].id = cards[k].id
    <2> TAKE j \in 1 .. Len(cards)
    <2>1. CASE j < to
        <3>1. j \in 1 .. Len(cards) - 1 /\ new[j] = rest[j]  BY <1>1, <1>4, <2>1
        <3> QED BY <1>2, <3>1
    <2>2. CASE j = to  BY <1>4, <2>2
    <2>3. CASE j > to
        <3>1. ~(j < to) /\ j # to /\ j - 1 \in 1 .. Len(cards) - 1  BY <1>1, <2>3
        <3>2. new[j] = rest[j - 1]  BY <1>4, <3>1
        <3> QED BY <1>2, <3>1, <3>2
    <2> QED BY <2>1, <2>2, <2>3
<1>8. ASSUME Distinct(cards)
      PROVE  Position(cards, d.id) = i
    <2> DEFINE p == Position(cards, d.id)
    <2>1. /\ p \in 0 .. Len(cards) /\ (p # 0 => cards[p].id = d.id)
          /\ p = 0 => \A j \in 1 .. Len(cards) : cards[j].id # d.id
        BY PositionFound
    <2>2. DOMAIN cards = 1 .. Len(cards)  BY LenProperties
    <2> HIDE DEF p
    <2>3. p # 0 /\ p \in 1 .. Len(cards)  BY <1>1, <2>1
    <2>4. p = i  BY <1>8, <2>1, <2>2, <2>3 DEF Distinct
    <2> QED BY <2>4 DEF p
<1>9. ASSUME Distinct(cards)
      PROVE  Position(new, d.id) = to
    <2> DEFINE p == Position(new, d.id)
    <2>1. /\ p \in 0 .. Len(cards) /\ (p # 0 => new[p].id = d.id)
          /\ p = 0 => \A j \in 1 .. Len(cards) : new[j].id # d.id
        BY <1>4, PositionFound
    <2>2. DOMAIN new = 1 .. Len(cards) /\ new[to].id = d.id  BY <1>4, LenProperties
    <2> HIDE DEF p
    <2>3. p # 0 /\ p \in 1 .. Len(cards)  BY <1>1, <2>1, <2>2
    <2>4. p = to  BY <1>5, <1>9, <2>1, <2>2, <2>3 DEF Distinct
    <2> QED BY <2>4 DEF p
<1> QED BY <1>1, <1>4, <1>5, <1>6, <1>7, <1>8, <1>9, <1>10 DEF Moves

LEMMA ReorderGood ==
    ASSUME NEW b \in Boards, NEW a \in Args, NEW follow \in BOOLEAN
    PROVE  LET out == ReorderTicket(b, a, follow) IN
           /\ Good(b, out)
           /\ out.changed => Reordered(b, a, follow, out)
           /\ out.changed /\ a.place # "" /\ Distinct(b.cards) =>
                /\ Placed(b, a, out.id, out.board.cards)
                /\ RemoveAt(b.cards, Position(b.cards, out.id))
                   = RemoveAt(out.board.cards, Position(out.board.cards, out.id))
<1> DEFINE id == ResolveAlias(b, a.card)
           target == ResolveAlias(b, a.other)
           i == Find(b, id)
           t == Find(b, target)
           old == b.cards[i].status
           status == IF a.place \in Relative
                     THEN IF a.status # "" THEN a.status
                          ELSE IF follow THEN b.cards[t].status ELSE old
                     ELSE IF a.status # "" THEN a.status ELSE old
           rest == RemoveAt(b.cards, i)
           at == Position(rest, target)
           to == CASE a.place = "above" -> at
                   [] a.place = "below" -> at + 1
                   [] OTHER -> InsertionIndex(rest, status, a.place)
           beside == IF a.place \in Relative THEN target
                     ELSE Neighbour(rest, status, a.place)
           d == [b.cards[i] EXCEPT !.status = status]
           new == InsertAt(rest, to, d)
           moved == [b EXCEPT !.cards = new]
           no == \/ i = 0
                 \/ a.place = "" /\ follow
                 \/ a.place \in Relative /\ (t = 0 \/ target = id)
                 \/ a.place \in Relative /\ a.status \notin {"", b.cards[t].status}
           stays == [Changed(b, id) EXCEPT !.status = status, !.moved = status # old]
           side == IF a.place \in {"above", "top"} THEN "above" ELSE "below"
           goes == [Changed(moved, id) EXCEPT
                       !.other = beside, !.status = status, !.moved = status # old,
                       !.place = side]
           out == ReorderTicket(b, a, follow)
<1>1. out = IF no THEN Refused(b) ELSE IF a.place = "" THEN stays ELSE goes
    BY DEF ReorderTicket
<1>2. id \in Refs /\ target \in Refs /\ ResolveAlias(b, id) = id /\ ResolveAlias(b, target) = target
    BY ResolveAliasTyped DEF Args
<1>3. CASE no
    <2>1. out = Refused(b) /\ ~Refused(b).changed  BY <1>1, <1>3 DEF Refused
    <2> HIDE DEF out
    <2>2. Good(b, out) /\ ~out.changed  BY <2>1, RefusedGood
    <2> QED BY <2>2 DEF out
<1>4. CASE ~no
    <2>1. i \in 1 .. Len(b.cards) /\ b.cards[i] \in Cards /\ b.cards[i].id = id
        BY <1>2, <1>4, FindFound
    <2>2. a.place \in Relative =>
            t \in 1 .. Len(b.cards) /\ b.cards[t] \in Cards /\ b.cards[t].id = target /\ target # id
        BY <1>2, <1>4, FindFound
    <2>3. status \in Statuses /\ old \in Statuses
        <3>1. a.status \in Statuses \cup {""} /\ old \in Statuses
            BY <2>1 DEF Args, Cards
        <3>2. a.place \in Relative => b.cards[t].status \in Statuses
            BY <2>2 DEF Cards
        <3> QED BY <3>1, <3>2
    <2> HIDE DEF status
    <2>4. d \in Cards /\ d.id = id /\ d.status = status /\ d.title = b.cards[i].title
        BY <2>1, <2>3 DEF Cards
    <2>5. Len(b.cards) \in Nat /\ b.cards \in Seq(Cards) /\ DOMAIN b.cards = 1 .. Len(b.cards)
        BY BoardParts
    <2>6. /\ rest \in Seq(Cards) /\ Len(rest) = Len(b.cards) - 1
          /\ \A j \in 1 .. Len(b.cards) - 1 :
                rest[j] = IF j < i THEN b.cards[j] ELSE b.cards[j + 1]
        BY <2>1, <2>5, RemoveAtFacts
    <2>7. a.place \in Relative => at \in 1 .. Len(rest) /\ rest[at].id = target
        <3> SUFFICES ASSUME a.place \in Relative
                     PROVE  at \in 1 .. Len(rest) /\ rest[at].id = target
            OBVIOUS
        <3>1. /\ at \in 0 .. Len(rest) /\ (at # 0 => rest[at].id = target)
              /\ at = 0 => \A j \in 1 .. Len(rest) : rest[j].id # target
            BY <2>6, PositionFound
        <3>2. t # i /\ t \in 1 .. Len(b.cards) /\ b.cards[t].id = target
            BY <2>1, <2>2
        <3> HIDE DEF rest, at, t, i
        <3>3. \E j \in 1 .. Len(rest) : rest[j] = b.cards[t]
            <4>1. CASE t < i
                <5>1. t \in 1 .. Len(rest) /\ rest[t] = b.cards[t]
                    BY <2>1, <2>5, <2>6, <3>2, <4>1
                <5> QED BY <5>1
            <4>2. CASE ~(t < i)
                <5>1. t - 1 \in 1 .. Len(rest) /\ ~(t - 1 < i) /\ (t - 1) + 1 = t
                    BY <2>1, <2>5, <2>6, <3>2, <4>2
                <5>2. rest[t - 1] = b.cards[t]  BY <2>6, <5>1
                <5> QED BY <5>1, <5>2
            <4> QED BY <4>1, <4>2
        <3> QED BY <3>1, <3>2, <3>3
    <2>8. /\ to \in 1 .. Len(b.cards)
          /\ a.place = "above" => rest[to].id = target /\ to \in 1 .. Len(rest)
          /\ a.place = "below" => to - 1 \in 1 .. Len(rest) /\ rest[to - 1].id = target
          /\ a.place = "top" => \A j \in InColumn(rest, status) : to <= j
          /\ a.place = "bottom" => \A j \in InColumn(rest, status) : j < to
          /\ beside \in Refs
        <3> DEFINE index == InsertionIndex(rest, status, a.place)
        <3>1. /\ index \in 1 .. Len(rest) + 1
              /\ a.place = "top" => \A j \in InColumn(rest, status) : index <= j
              /\ a.place # "top" => \A j \in InColumn(rest, status) : j < index
              /\ Neighbour(rest, status, a.place) \in Refs
            BY <2>6, InsertionFound
        <3> HIDE DEF rest, at, index
        <3>2. CASE a.place = "above"
            <4>1. to = at /\ beside = target  BY <3>2 DEF Relative
            <4> QED BY <1>2, <2>5, <2>6, <2>7, <3>2, <4>1 DEF Relative
        <3>3. CASE a.place = "below"
            <4>1. to = at + 1 /\ beside = target  BY <3>3 DEF Relative
            <4> QED BY <1>2, <2>5, <2>6, <2>7, <3>3, <4>1 DEF Relative
        <3>4. CASE a.place \notin Relative
            <4>1. to = index  BY <3>4 DEF Relative, index
            <4>2. beside = Neighbour(rest, status, a.place)  BY <3>4
            <4>3. to \in 1 .. Len(b.cards)  BY <2>5, <2>6, <3>1, <4>1
            <4> QED BY <3>1, <3>4, <4>1, <4>2, <4>3 DEF Relative
        <3> QED BY <3>2, <3>3, <3>4 DEF Relative
    <2> HIDE DEF to, beside, no, side
    <2>16. Moves(b.cards, i, to, d, rest, new)
        <3>1. d.id = b.cards[i].id /\ d.title = b.cards[i].title  BY <2>1, <2>4
        <3> HIDE DEF d, i
        <3>2. d \in Cards /\ i \in 1 .. Len(b.cards) /\ to \in 1 .. Len(b.cards)
            BY <2>1, <2>4, <2>8
        <3>3. rest = RemoveAt(b.cards, i) /\ new = InsertAt(rest, to, d)  OBVIOUS
        <3>4. Moves(b.cards, i, to, d, RemoveAt(b.cards, i), InsertAt(RemoveAt(b.cards, i), to, d))
            BY <2>5, <3>1, <3>2, MovedTo
        <3> HIDE DEF rest, new
        <3> QED BY <3>3, <3>4
    <2>9. /\ new \in Seq(Cards) /\ Len(new) = Len(b.cards)
          /\ RemoveAt(new, to) = rest
          /\ \A j \in 1 .. Len(b.cards) :
                new[j] = IF j < to THEN rest[j] ELSE IF j = to THEN d ELSE rest[j - 1]
          /\ \A j \in 1 .. Len(b.cards) : \E k \in 1 .. Len(b.cards) : new[j].id = b.cards[k].id
          /\ Distinct(b.cards) =>
                Distinct(new) /\ Position(b.cards, d.id) = i /\ Position(new, d.id) = to
          /\ Proper(b.cards) => Proper(new)
        <3> HIDE DEF rest, new, d, i
        <3> QED BY <2>16 DEF Moves
    <2> HIDE DEF new
    <2>10. moved = [cards |-> new, alias |-> b.alias, next |-> b.next]  BY BoardParts
    <2> HIDE DEF moved
    <2>11. moved \in Boards  BY <2>9, <2>10, BoardParts DEF Boards
    <2>12. HandedOut(b) => HandedOut(moved)
        <3>1. DOMAIN new = 1 .. Len(b.cards) /\ DOMAIN b.cards = 1 .. Len(b.cards)
            BY <2>9, BoardParts, LenProperties
        <3>2. moved.cards = new /\ moved.next = b.next  BY <2>10
        <3>3. ASSUME HandedOut(b), NEW j \in 1 .. Len(b.cards), new[j].id.kind = "local"
              PROVE  new[j].id.n < b.next
            <4>1. PICK k \in 1 .. Len(b.cards) : new[j].id = b.cards[k].id  BY <2>9
            <4>2. b.cards[k].id.kind = "local"  BY <3>3, <4>1
            <4>3. b.cards[k].id.n < b.next  BY <3>1, <3>3, <4>2 DEF HandedOut
            <4> QED BY <4>1, <4>3
        <3> QED BY <3>1, <3>2, <3>3 DEF HandedOut
    <2>13. CASE a.place = ""
        <3> DEFINE differs == status # old
        <3>1. out = [Changed(b, id) EXCEPT !.status = status, !.moved = differs]
            BY <1>1, <1>4, <2>13 DEF no
        <3>2. differs \in BOOLEAN  OBVIOUS
        <3> HIDE DEF out, differs, id
        <3>3. /\ out \in Outs /\ out.board = b /\ out.status = status
              /\ out.id = id /\ out.moved = differs
            BY <1>2, <2>3, <3>1, <3>2, NoCardIsRef DEF Changed, Refused, Outs, Places
        <3>4. status # ""  BY <2>3 DEF Statuses
        <3>5. Good(b, out)  BY <3>3, <3>4 DEF Good
        <3>6. ~follow  BY <1>4, <2>13 DEF no
        <3>7. a.status = "" => status = old  BY <2>13, <3>6 DEF status, Relative
        <3>8. Reordered(b, a, follow, out)
            BY <2>1, <2>3, <2>13, <3>3, <3>6, <3>7 DEF Reordered, differs, id
        <3> QED BY <2>13, <3>5, <3>8 DEF out
    <2>14. CASE a.place # ""
        <3> DEFINE differs == status # old
        <3>1. out = [Changed(moved, id) EXCEPT !.other = beside, !.status = status,
                                               !.moved = differs, !.place = side]
            BY <1>1, <1>4, <2>14 DEF no, moved, new, to, beside, side, status
        <3>2. differs \in BOOLEAN /\ side \in Places  BY DEF Places, side
        <3> HIDE DEF out, differs, id
        <3>3. /\ out \in Outs /\ out.board = moved /\ out.status = status /\ out.id = id
              /\ out.moved = differs
            BY <1>2, <2>3, <2>8, <2>11, <3>1, <3>2, NoCardIsRef DEF Changed, Refused, Outs
        <3>8. a.status = "" /\ ~follow => status = old  BY DEF status
        <3>9. \E x \in 1 .. Len(b.cards) : Moves(b.cards, i, x, d, rest, new)
            BY <2>8, <2>16
        <3>10. out.board.cards = new /\ out.board.next = b.next /\ d = [b.cards[i] EXCEPT !.status = out.status]
            BY <2>10, <3>3
        <3>11. Reordered(b, a, follow, out)
            <4>1. /\ i \in 1 .. Len(b.cards) /\ b.cards[i].id = id /\ out.id = id
                  /\ out.status \in Statuses /\ (out.moved <=> out.status # old)
                  /\ a.status = "" /\ ~follow => out.status = old
                BY <2>1, <2>3, <3>3, <3>8 DEF differs
            <4>2. \E x \in 1 .. Len(b.cards) :
                     Moves(b.cards, i, x, [b.cards[i] EXCEPT !.status = out.status],
                           RemoveAt(b.cards, i), out.board.cards)
                BY <3>9, <3>10
            <4> QED BY <2>14, <3>10, <4>1, <4>2 DEF Reordered, id
        <3>4. status # ""  BY <2>3 DEF Statuses
        <3>5. out.board.cards = new /\ out.board.alias = b.alias  BY <2>10, <3>3
        <3>6. Good(b, out)  BY <2>9, <2>12, <3>3, <3>4, <3>5 DEF Good
        <3>7. ASSUME Distinct(b.cards)
              PROVE  /\ RemoveAt(b.cards, Position(b.cards, id)) = RemoveAt(new, Position(new, id))
                     /\ Placed(b, a, id, new)
            <4>1. Position(b.cards, id) = i /\ Position(new, id) = to
                BY <2>4, <2>9, <3>7
            <4>2. RemoveAt(b.cards, Position(b.cards, id)) = RemoveAt(new, Position(new, id))
                BY <2>9, <4>1
            <4>3. new[to] = d  BY <2>8, <2>9
            <4>4. a.place \in Relative => ResolveReference(b, a.other) = target
                <5>1. a.place \in Relative => target \in IdsOf(b.cards)
                    BY <2>2, <2>5 DEF IdsOf
                <5> QED BY <5>1 DEF ResolveReference
            <4> HIDE DEF rest, d, target
            <4>5. CASE a.place = "above"
                <5>1. to + 1 \in 1 .. Len(b.cards) /\ ~(to + 1 < to) /\ to + 1 # to /\ (to + 1) - 1 = to
                    BY <2>5, <2>6, <2>8, <4>5
                <5>2. new[to + 1] = rest[to]  BY <2>9, <5>1
                <5>3. new[to + 1].id = ResolveReference(b, a.other)
                    BY <2>8, <4>4, <4>5, <5>2 DEF Relative
                <5> QED BY <4>1, <4>2, <4>5, <5>3 DEF Placed
            <4>6. CASE a.place = "below"
                <5>1. to - 1 \in 1 .. Len(b.cards) /\ to - 1 < to
                    BY <2>5, <2>6, <2>8, <4>6
                <5>2. new[to - 1] = rest[to - 1]  BY <2>9, <5>1
                <5>3. new[to - 1].id = ResolveReference(b, a.other)
                    BY <2>8, <4>4, <4>6, <5>2 DEF Relative
                <5> QED BY <4>1, <4>2, <4>6, <5>3 DEF Placed
            <4>7. CASE a.place \in {"top", "bottom"}
                <5>1. new[to].status = status  BY <2>4, <4>3
                <5>2. DOMAIN new = 1 .. Len(b.cards) /\ DOMAIN rest = 1 .. Len(b.cards) - 1
                    BY <2>6, <2>9, LenProperties
                <5>3. ASSUME NEW j \in InColumn(new, status)
                      PROVE  /\ j \in 1 .. Len(b.cards)
                             /\ j < to => j \in InColumn(rest, status)
                             /\ j > to => j - 1 \in InColumn(rest, status)
                    <6>1. j \in 1 .. Len(b.cards) /\ new[j].status = status
                        BY <5>2, <5>3 DEF InColumn
                    <6>2. CASE j < to
                        <7>1. j \in DOMAIN rest /\ rest[j] = new[j]
                            BY <2>5, <2>8, <2>9, <5>2, <6>1, <6>2
                        <7> QED BY <2>8, <6>1, <6>2, <7>1 DEF InColumn
                    <6>3. CASE j > to
                        <7>1. j - 1 \in DOMAIN rest /\ rest[j - 1] = new[j]
                            BY <2>5, <2>8, <2>9, <5>2, <6>1, <6>3
                        <7> QED BY <2>8, <6>1, <6>3, <7>1 DEF InColumn
                    <6> QED BY <6>1, <6>2, <6>3
                <5>4. CASE a.place = "top"
                    <6>1. \A j \in InColumn(new, status) : to <= j
                        BY <2>8, <5>3, <5>4
                    <6> QED BY <4>1, <4>2, <5>1, <5>4, <6>1 DEF Placed
                <5>5. CASE a.place = "bottom"
                    <6>1. \A j \in InColumn(new, status) : j <= to
                        BY <2>8, <5>3, <5>5
                    <6> QED BY <4>1, <4>2, <5>1, <5>5, <6>1 DEF Placed
                <5> QED BY <4>7, <5>4, <5>5
            <4>8. a.place \in {"above", "below", "top", "bottom"}
                BY <2>14 DEF Args, Places
            <4> QED BY <4>5, <4>6, <4>7, <4>8
        <3> QED BY <3>3, <3>5, <3>6, <3>7, <3>11 DEF out
    <2> QED BY <2>13, <2>14
<1> QED BY <1>3, <1>4

----------------------------------------------------------------------------
\* applyToolCall

LEMMA FieldTools ==
    ASSUME NEW b \in Boards, NEW a \in Args
    PROVE  \A out \in {AddComment(b, a), AssignTicket(b, a), UnassignTicket(b, a),
                       SetETA(b, a), SetPriority(b, a), SetStoryPoints(b, a),
                       SetEstimate(b, a), AddWorklog(b, a), SetSprint(b, a),
                       SetComponents(b, a), SetFixVersions(b, a),
                       SetCustomField(b, a), AddRemoteLink(b, a),
                       SetReporter(b, a), LinkIssues(b, a), AddWatcher(b, a)} :
              Good(b, out)
<1>1. \A field \in CardFields : Good(b, SetField(b, a, field)) /\ Good(b, Extend(b, a, field))
    BY SetFieldEdits, ExtendEdits, EditGood
<1>2. Good(b, Refused(b))  BY RefusedGood
<1>3. Good(b, UnassignTicket(b, a))
    <2> DEFINE none == [a EXCEPT !.v = 0]
    <2>1. none \in Args  BY DEF Args
    <2> HIDE DEF none
    <2>2. EditOf(b, none, SetField(b, none, "assignee"))
        BY <2>1, SetFieldEdits DEF CardFields, Single
    <2>3. Good(b, SetField(b, none, "assignee"))  BY <2>1, <2>2, EditGood
    <2> QED BY <2>3 DEF UnassignTicket, none
<1>4. {"assignee", "due", "priority", "points", "estimate", "sprint", "components",
       "fixVersions", "custom", "reporter", "comments", "worklogs", "links",
       "remoteLinks", "watchers"} \subseteq CardFields
    BY DEF CardFields, Single, Lists
<1>5. /\ Good(b, AddComment(b, a)) /\ Good(b, AddWorklog(b, a)) /\ Good(b, AddRemoteLink(b, a))
      /\ Good(b, LinkIssues(b, a)) /\ Good(b, AddWatcher(b, a))
    BY <1>1, <1>2, <1>4 DEF AddComment, AddWorklog, AddRemoteLink, LinkIssues, AddWatcher
<1>6. /\ Good(b, AssignTicket(b, a)) /\ Good(b, SetETA(b, a)) /\ Good(b, SetPriority(b, a))
      /\ Good(b, SetStoryPoints(b, a)) /\ Good(b, SetEstimate(b, a)) /\ Good(b, SetSprint(b, a))
    BY <1>1, <1>2, <1>4 DEF AssignTicket, SetETA, SetPriority, SetStoryPoints, SetEstimate, SetSprint
<1>7. /\ Good(b, SetComponents(b, a)) /\ Good(b, SetFixVersions(b, a))
      /\ Good(b, SetCustomField(b, a)) /\ Good(b, SetReporter(b, a))
    BY <1>1, <1>4 DEF SetComponents, SetFixVersions, SetCustomField, SetReporter
<1> QED BY <1>3, <1>5, <1>6, <1>7

LEMMA ApplyToolGood ==
    ASSUME NEW b \in Boards, NEW a \in Args
    PROVE  /\ Good(b, ApplyTool(b, a))
           /\ ApplyTool(b, a).changed => Applied(a, ApplyTool(b, a))
<1> DEFINE out == ApplyTool(b, a)
<1> SUFFICES Good(b, out) /\ (out.changed => Applied(a, out))
    OBVIOUS
<1> HIDE DEF out
<1>1. CASE a.tool = "create_ticket"
    <2>1. out = CreateTicket(b, a)  BY <1>1 DEF ApplyTool, out
    <2> QED BY <1>1, <2>1, CreateTicketGood DEF Applied, Tools
<1>2. CASE a.tool = "create_subtask"
    <2>1. out = IF a.other = NoCard THEN Refused(b) ELSE CreateTicket(b, a)
        BY <1>2 DEF ApplyTool, out, CreateSubtask
    <2>2. Good(b, Refused(b)) /\ ~Refused(b).changed  BY RefusedGood DEF Refused
    <2> QED BY <1>2, <2>1, <2>2, CreateTicketGood DEF Applied, Tools
<1>3. CASE a.tool = "move_ticket"
    <2>1. out = MoveTicket(b, a)  BY <1>3 DEF ApplyTool, out
    <2>2. Good(b, MoveTicket(b, a))  BY MoveTicketEdits, EditGood
    <2>3. a.status = "" => ~MoveTicket(b, a).changed  BY DEF MoveTicket, Refused
    <2> QED BY <1>3, <2>1, <2>2, <2>3 DEF Applied, Tools, CreateTools
<1>4. CASE a.tool \in {"add_tags", "remove_tags", "update_ticket", "append_notes"}
    <2>1. \/ out = AddTags(b, a) \/ out = RemoveTags(b, a)
          \/ out = UpdateTicket(b, a) \/ out = AppendNotes(b, a)
        BY <1>4 DEF ApplyTool, out
    <2>2. /\ Good(b, AddTags(b, a)) /\ Good(b, RemoveTags(b, a))
          /\ Good(b, UpdateTicket(b, a)) /\ Good(b, AppendNotes(b, a))
        BY AddTagsEdits, RemoveTagsEdits, UpdateTicketEdits, AppendNotesGood, EditGood
    <2> QED BY <1>4, <2>1, <2>2, ZenonT(30) DEF Applied, Tools, CreateTools
<1>5. CASE a.tool \in {"set_blocked", "record_participant_update", "delete_ticket"}
    <2>1. \/ out = SetBlocked(b, a) \/ out = RecordParticipantUpdate(b, a)
          \/ out = DeleteTicket(b, a)
        BY <1>5 DEF ApplyTool, out
    <2> QED
        BY <1>5, <2>1, SetBlockedGood, RecordParticipantUpdateGood, DeleteTicketGood, ZenonT(30) DEF Applied, Tools, CreateTools
<1>6. CASE a.tool \in {"prioritize_ticket", "rank_issue"}
    <2>1. out = ReorderTicket(b, a, TRUE) \/ out = ReorderTicket(b, a, FALSE)
        BY <1>6 DEF ApplyTool, out
    <2>2. Good(b, out)  BY <2>1, ReorderGood
    <2> QED BY <1>6, <2>2 DEF Applied, Tools, CreateTools
<1>7. CASE a.tool \in {"add_comment", "assign_ticket", "unassign_ticket", "set_eta",
                       "set_priority", "set_story_points", "set_estimate", "add_worklog"}
    <2>1. out \in {AddComment(b, a), AssignTicket(b, a), UnassignTicket(b, a), SetETA(b, a),
                   SetPriority(b, a), SetStoryPoints(b, a), SetEstimate(b, a), AddWorklog(b, a)}
        BY <1>7 DEF ApplyTool, out
    <2>2. Good(b, out)  BY <2>1, FieldTools
    <2> QED BY <1>7, <2>2 DEF Applied, Tools, CreateTools
<1>8. CASE a.tool \in {"set_sprint", "set_components", "set_fix_versions", "set_custom_field",
                       "add_remote_link", "set_reporter", "link_issues", "add_watcher"}
    <2>1. out \in {SetSprint(b, a), SetComponents(b, a), SetFixVersions(b, a),
                   SetCustomField(b, a), AddRemoteLink(b, a), SetReporter(b, a),
                   LinkIssues(b, a), AddWatcher(b, a)}
        BY <1>8 DEF ApplyTool, out
    <2>2. Good(b, out)  BY <2>1, FieldTools
    <2> QED BY <1>8, <2>2 DEF Applied, Tools, CreateTools
<1>9. CASE a.tool \notin Tools
    <2>1. out = Refused(b)  BY <1>9 DEF ApplyTool, out, Tools
    <2> QED BY <2>1, RefusedGood DEF Refused
<1> QED BY <1>1, <1>2, <1>3, <1>4, <1>5, <1>6, <1>7, <1>8, <1>9 DEF Tools

----------------------------------------------------------------------------
\* References

LEMMA IdsOfRefs ==
    ASSUME NEW cards \in Seq(Cards)
    PROVE  /\ IdsOf(cards) \subseteq Ids /\ IdsOf(cards) \subseteq Refs
           /\ \A id \in IdsOf(cards) : Of(cards, id) \in Cards /\ Of(cards, id).id = id
<1>1. \A i \in DOMAIN cards : cards[i] \in Cards  BY LenProperties, ElementOfSeq
<1>2. \A d \in Cards : d.id \in Ids  BY DEF Cards
<1>3. ASSUME NEW id \in IdsOf(cards)
      PROVE  Of(cards, id) \in Cards /\ Of(cards, id).id = id
    <2> DEFINE i == CHOOSE j \in DOMAIN cards : cards[j].id = id
    <2>1. i \in DOMAIN cards /\ cards[i].id = id  BY <1>3 DEF IdsOf
    <2> QED BY <1>1, <2>1 DEF Of
<1>4. IdsOf(cards) \subseteq Ids  BY <1>1, <1>2 DEF IdsOf
<1> QED BY <1>3, <1>4, IdsAreRefs

LEMMA ResolveReferenceTyped ==
    ASSUME NEW b \in Boards, NEW r \in Refs
    PROVE  ResolveReference(b, r) \in Refs
<1> DEFINE byId == ResolveAlias(b, r)
           titled == {i \in DOMAIN b.cards : r.kind = "title" /\ b.cards[i].title = r.n}
           one == CHOOSE i \in titled : TRUE
<1>1. byId \in Refs  BY ResolveAliasTyped
<1>2. ASSUME Cardinality(titled) = 1
      PROVE  b.cards[one].id \in Refs
    <2>1. titled # {}  BY <1>2, FS_EmptySet
    <2>2. one \in titled  BY <2>1
    <2>3. b.cards[one] \in Cards  BY <2>2, BoardParts
    <2> QED BY <2>3, IdsAreRefs DEF Cards
<1> HIDE DEF byId, titled, one
<1>3. ResolveReference(b, r) = IF byId \in IdsOf(b.cards) THEN byId
                               ELSE IF Cardinality(titled) = 1 THEN b.cards[one].id ELSE r
    BY DEF ResolveReference, byId, titled, one
<1> QED BY <1>1, <1>2, <1>3

LEMMA LatestTyped ==
    ASSUME history \in Seq(Mutations)
    PROVE  Latest \in Refs
<1> DEFINE kept == {i \in DOMAIN history : ~history[i].undone /\ history[i].ids # {}}
           last == CHOOSE i \in kept : \A j \in kept : j <= i
           ids == history[last].ids
           keys == {id \in ids : IsKey(id)}
           first == IF keys # {} THEN keys ELSE ids
           numbers == {id.n : id \in first}
           least == CHOOSE id \in first : \A other \in first : id.n <= other.n
<1>1. CASE kept = {}  BY <1>1, NoCardIsRef DEF Latest
<1>2. CASE kept # {}
    <2>1. Len(history) \in Nat /\ kept \subseteq 0 .. Len(history)  BY LenProperties
    <2>2. last \in kept  BY <1>2, <2>1, LargestExists
    <2>3. history[last] \in Mutations /\ ids # {}
        BY <2>2, LenProperties, ElementOfSeq
    <2>4. ids \subseteq Refs  BY <2>3, Zenon DEF Mutations
    <2> HIDE DEF ids
    <2>5. first \subseteq Refs /\ first # {}  BY <2>3, <2>4
    <2>6. Latest = least  BY <1>2, Zenon DEF Latest, ids
    <2> HIDE DEF first
    <2>7. numbers \in SUBSET Nat /\ numbers # {}  BY <2>5 DEF Refs
    <2>8. \E n \in numbers : \A m \in numbers : n <= m  BY <2>7, SmallestExists
    <2>9. \E id \in first : \A other \in first : id.n <= other.n  BY <2>8
    <2>10. least \in first  BY <2>9
    <2> QED BY <2>5, <2>6, <2>10
<1> QED BY <1>1, <1>2

LEMMA CanonicalizeTyped ==
    ASSUME NEW b \in Boards, NEW a \in Args, NEW latest \in Refs
    PROVE  /\ Canonicalize(b, a, latest) \in Args
           /\ Canonicalize(b, a, latest).tool = a.tool
           /\ Canonicalize(b, a, latest).status = a.status
<1> DEFINE card == ResolveReference(b, a.card)
           other == ResolveReference(b, a.other)
           resolved == [a EXCEPT !.card = card, !.other = other]
           fallback == IF other # NoCard THEN other ELSE ResolveAlias(b, latest)
<1>1. card \in Refs /\ other \in Refs  BY ResolveReferenceTyped DEF Args
<1>2. fallback \in Refs  BY <1>1, ResolveAliasTyped
<1>3. \/ Canonicalize(b, a, latest) = resolved
      \/ Canonicalize(b, a, latest) = [resolved EXCEPT !.card = fallback]
    BY DEF Canonicalize, Args
<1> HIDE DEF card, other, fallback
<1> QED BY <1>1, <1>2, <1>3, ZenonT(30) DEF Args

\* The arguments a call is made with, and those that are kept of it.
LEMMA ResolvedTyped ==
    ASSUME board \in Boards, history \in Seq(Mutations), NEW a \in Args
    PROVE  /\ Resolved(a) \in Args /\ Stored(a) \in Args
           /\ Resolved(a).tool = a.tool /\ Stored(a).tool = a.tool
           /\ Resolved(a).status = a.status /\ Stored(a).status = a.status
BY LatestTyped, CanonicalizeTyped DEF Resolved, Stored

----------------------------------------------------------------------------
\* Requests

LEMMA OnTyped ==
    ASSUME NEW id \in Refs
    PROVE  /\ \A op \in Ops : On(id, op) \in Requests /\ On(id, op).op = op
           /\ On(id, "refuse") \in Plain /\ On(id, "rank") \in Plain
<1> DEFINE Unset == [op : Ops \cup {""}, id : Refs, status : Statuses \cup {""}, title : Nat,
                     notes : SUBSET Remarks, labels : SUBSET Tags,
                     field : CardFields \cup {""}, v : Nat, card : Cards \cup {Nothing}]
<1>1. NoWrite \in Unset
    <2>1. Card(NoCard, "", 0) \in Cards \cup {Nothing} /\ NoCard \in Refs
        BY NoCardIsRef DEF Nothing
    <2>2. {} \in SUBSET Remarks /\ {} \in SUBSET Tags  OBVIOUS
    <2> QED BY <2>1, <2>2 DEF NoWrite
<1>2. ASSUME NEW op \in Ops
      PROVE  On(id, op) \in Requests /\ On(id, op).op = op
    <2> DEFINE w == [NoWrite EXCEPT !.op = op]
    <2>1. w \in Requests /\ w.op = op  BY <1>1 DEF Requests
    <2>2. On(id, op) = [w EXCEPT !.id = id]  BY DEF On
    <2> HIDE DEF w
    <2> QED BY <2>1, <2>2 DEF Requests
<1>3. On(id, "refuse") \in Plain /\ On(id, "rank") \in Plain
    <2>1. "refuse" \in Ops /\ "rank" \in Ops  BY DEF Ops
    <2>2. On(id, "refuse").op = "refuse" /\ On(id, "rank").op = "rank"  BY <1>2, <2>1
    <2> QED BY <1>2, <2>1, <2>2 DEF Plain, GoodRequests, RequestOK
<1> QED BY <1>2, <1>3

LEMMA PlainLists ==
    /\ <<>> \in Seq(Plain)
    /\ \A w \in Plain : <<w>> \in Seq(Plain)
    /\ \A s, t \in Seq(Plain) : s \o t \in Seq(Plain)
<1>1. <<>> \in Seq(Plain)  BY EmptySeq
<1>2. \A w \in Plain : <<w>> \in Seq(Plain)  OBVIOUS
<1>3. \A s, t \in Seq(Plain) : s \o t \in Seq(Plain)  BY ConcatProperties
<1> QED BY <1>1, <1>2, <1>3

LEMMA FilledIn ==
    ASSUME NEW w \in Requests
    PROVE  /\ \A tags \in SUBSET Tags :
                [w EXCEPT !.labels = tags] \in Requests /\ [w EXCEPT !.labels = tags].op = w.op
           /\ \A notes \in SUBSET Remarks :
                [w EXCEPT !.notes = notes] \in Requests /\ [w EXCEPT !.notes = notes].op = w.op
           /\ \A title \in Nat :
                [w EXCEPT !.title = title] \in Requests /\ [w EXCEPT !.title = title].op = w.op
           /\ \A v \in Nat :
                [w EXCEPT !.v = v] \in Requests /\ [w EXCEPT !.v = v].op = w.op
                /\ [w EXCEPT !.v = v].field = w.field
           /\ \A field \in CardFields :
                /\ [w EXCEPT !.field = field] \in Requests
                /\ [w EXCEPT !.field = field].op = w.op
                /\ [w EXCEPT !.field = field].field = field
           /\ \A status \in Statuses :
                /\ [w EXCEPT !.status = status] \in Requests
                /\ [w EXCEPT !.status = status].op = w.op
                /\ [w EXCEPT !.status = status].status = status
BY DEF Requests

LEMMA LabelRequests ==
    ASSUME NEW id \in Refs, NEW tags \in SUBSET Tags
    PROVE  AddLabels(id, tags) \in Seq(Plain) /\ RemoveLabels(id, tags) \in Seq(Plain)
<1>1. ASSUME NEW op \in {"addLabels", "removeLabels"}
      PROVE  <<[On(id, op) EXCEPT !.labels = tags]>> \in Seq(Plain)
    <2>1. [On(id, op) EXCEPT !.labels = tags] \in Plain
        <3> DEFINE w == On(id, op)
        <3>1. w \in Requests /\ w.op = op  BY <1>1, OnTyped DEF Ops
        <3> HIDE DEF w
        <3>2. [w EXCEPT !.labels = tags] \in Requests /\ [w EXCEPT !.labels = tags].op = op
            BY <3>1, FilledIn
        <3>3. [w EXCEPT !.labels = tags] \in Plain
            BY <1>1, <3>2 DEF Plain, GoodRequests, RequestOK
        <3> QED BY <3>3 DEF w
    <2> QED BY <2>1, PlainLists
<1> QED BY <1>1, PlainLists DEF AddLabels, RemoveLabels

LEMMA UpdateRequests ==
    ASSUME NEW id \in Refs, NEW title \in Nat, NEW notes \in SUBSET Remarks
    PROVE  UpdateIssue(id, title, notes) \in Seq(Plain)
<1> DEFINE w == [On(id, "update") EXCEPT !.title = title, !.notes = notes]
<1>1. w \in Plain
    <2> DEFINE on == On(id, "update")
               named == [on EXCEPT !.title = title]
    <2>1. on \in Requests /\ on.op = "update"  BY OnTyped DEF Ops
    <2> HIDE DEF on
    <2>2. named \in Requests /\ named.op = "update"  BY <2>1, FilledIn
    <2>3. w = [named EXCEPT !.notes = notes]  BY DEF on
    <2> HIDE DEF named, w
    <2>4. w \in Requests /\ w.op = "update"  BY <2>2, <2>3, FilledIn
    <2> QED BY <2>4 DEF Plain, GoodRequests, RequestOK
<1> HIDE DEF w
<1>2. <<w>> \in Seq(Plain)  BY <1>1, PlainLists
<1> QED BY <1>2, PlainLists DEF UpdateIssue, w

LEMMA FieldRequests ==
    ASSUME NEW id \in Refs, NEW field \in CardFields, NEW v \in Nat
    PROVE  /\ UpdateField(id, field, v) \in Seq(Plain) /\ AddTo(id, field) \in Seq(Plain)
           /\ SetPriorityName(id, v) \in Seq(Plain)
<1>1. "" \notin CardFields /\ "priority" \in CardFields
    BY DEF CardFields, Single, Lists
<1>2. ASSUME NEW x \in CardFields
      PROVE  [On(id, "set") EXCEPT !.field = x, !.v = v] \in Plain
    <2> DEFINE on == On(id, "set")
               named == [on EXCEPT !.field = x]
               w == [named EXCEPT !.v = v]
    <2>1. on \in Requests /\ on.op = "set"  BY OnTyped DEF Ops
    <2>2. [On(id, "set") EXCEPT !.field = x, !.v = v] = w  OBVIOUS
    <2> HIDE DEF on
    <2>3. named \in Requests /\ named.op = "set" /\ named.field = x  BY <2>1, FilledIn
    <2> HIDE DEF named
    <2>4. w \in Requests /\ w.op = "set" /\ w.field = x  BY <2>3, FilledIn
    <2> HIDE DEF w
    <2>5. w \in Plain  BY <1>1, <1>2, <2>4 DEF Plain, GoodRequests, RequestOK
    <2> QED BY <2>2, <2>5
<1>3. [On(id, "extend") EXCEPT !.field = field] \in Plain
    <2> DEFINE on == On(id, "extend")
               w == [on EXCEPT !.field = field]
    <2>1. on \in Requests /\ on.op = "extend"  BY OnTyped DEF Ops
    <2> HIDE DEF on
    <2>2. w \in Requests /\ w.op = "extend" /\ w.field = field  BY <2>1, FilledIn
    <2> HIDE DEF w
    <2>3. w \in Plain  BY <1>1, <2>2 DEF Plain, GoodRequests, RequestOK
    <2> QED BY <2>3 DEF w, on
<1>4. /\ <<[On(id, "set") EXCEPT !.field = field, !.v = v]>> \in Seq(Plain)
      /\ <<[On(id, "set") EXCEPT !.field = "priority", !.v = v]>> \in Seq(Plain)
      /\ <<[On(id, "extend") EXCEPT !.field = field]>> \in Seq(Plain)
    BY <1>1, <1>2, <1>3, PlainLists
<1> QED BY <1>4, PlainLists DEF UpdateField, AddTo, SetPriorityName

LEMMA FlagRequests ==
    ASSUME NEW id \in Refs, NEW blocked \in BOOLEAN
    PROVE  SetBlockedFlag(id, blocked) \in Seq(Plain)
<1> DEFINE v == IF blocked THEN 1 ELSE 0
           on == On(id, "flag")
           w == [on EXCEPT !.v = v]
<1>1. v \in Nat  OBVIOUS
<1> HIDE DEF v
<1>2. on \in Requests /\ on.op = "flag"  BY OnTyped DEF Ops
<1> HIDE DEF on
<1>3. w \in Requests /\ w.op = "flag"  BY <1>1, <1>2, FilledIn
<1> HIDE DEF w
<1>4. w \in Plain  BY <1>3 DEF Plain, GoodRequests, RequestOK
<1>5. <<w>> \in Seq(Plain)  BY <1>4, PlainLists
<1> QED BY <1>5, PlainLists DEF SetBlockedFlag, v, w, on

LEMMA MoveRequests ==
    ASSUME NEW id \in Refs, NEW status \in Statuses, NEW reason \in BOOLEAN
    PROVE  /\ TransitionIssue(id, status) \in Seq(Plain) /\ CloseIssue(id) \in Seq(Plain)
           /\ MoveIssue(id, status, reason) \in Seq(Plain)
<1>1. ASSUME NEW s \in Statuses
      PROVE  TransitionIssue(id, s) \in Seq(Plain)
    <2>1. [On(id, "transition") EXCEPT !.status = s] \in Plain
        <3> DEFINE on == On(id, "transition")
                   w == [on EXCEPT !.status = s]
        <3>1. on \in Requests /\ on.op = "transition"  BY OnTyped DEF Ops
        <3> HIDE DEF on
        <3>2. w \in Requests /\ w.op = "transition" /\ w.status = s  BY <3>1, FilledIn
        <3> HIDE DEF w
        <3>3. w \in Plain  BY <3>2 DEF Plain, GoodRequests, RequestOK, Statuses
        <3> QED BY <3>3 DEF w, on
    <2> QED BY <2>1, PlainLists DEF TransitionIssue
<1>2. ASSUME NEW blocked \in BOOLEAN
      PROVE  SetBlockedFlag(id, blocked) \in Seq(Plain)
    BY FlagRequests
<1>3. "Done" \in Statuses /\ {"blocked"} \in SUBSET Tags /\ "comments" \in CardFields
    BY DEF Statuses, Tags, CardFields, Lists
<1>4. AddLabels(id, {"blocked"}) \in Seq(Plain) /\ AddTo(id, "comments") \in Seq(Plain)
    BY <1>3, LabelRequests, FieldRequests
<1>5. Refuse(id) \in Seq(Plain) /\ <<>> \in Seq(Plain)
    BY OnTyped, PlainLists DEF Refuse
<1>6. CASE status # "Blocked"
    <2>1. MoveIssue(id, status, reason) = TransitionIssue(id, status) \o SetBlockedFlag(id, FALSE)
        BY <1>6 DEF MoveIssue
    <2> QED BY <1>1, <1>2, <1>3, <2>1, PlainLists DEF CloseIssue
<1>7. CASE status = "Blocked"
    <2> DEFINE first == IF HasBlockedTransition THEN TransitionIssue(id, status)
                        ELSE IF HasBlockedField THEN <<>> ELSE Refuse(id)
               last == IF reason THEN AddTo(id, "comments") ELSE <<>>
    <2>1. first \in Seq(Plain) /\ last \in Seq(Plain)  BY <1>1, <1>4, <1>5
    <2>2. MoveIssue(id, status, reason)
            = first \o SetBlockedFlag(id, TRUE) \o AddLabels(id, {"blocked"}) \o last
        BY <1>7 DEF MoveIssue
    <2> HIDE DEF first, last
    <2>3. first \o SetBlockedFlag(id, TRUE) \in Seq(Plain)  BY <1>2, <2>1, PlainLists
    <2>4. first \o SetBlockedFlag(id, TRUE) \o AddLabels(id, {"blocked"}) \in Seq(Plain)
        BY <1>4, <2>3, PlainLists
    <2>5. MoveIssue(id, status, reason) \in Seq(Plain)
        BY <2>1, <2>2, <2>4, PlainLists
    <2> QED BY <1>1, <1>3, <2>5 DEF CloseIssue
<1> QED BY <1>6, <1>7

LEMMA RankRequests ==
    ASSUME NEW id \in Refs, NEW beside \in Refs
    PROVE  RankIssue(id, beside) \in Seq(Plain)
<1>1. Refuse(id) \in Seq(Plain) /\ <<On(id, "rank")>> \in Seq(Plain) /\ <<>> \in Seq(Plain)
    BY OnTyped, PlainLists DEF Refuse
<1> QED BY <1>1 DEF RankIssue

LEMMA RestoreRequests ==
    ASSUME NEW card \in Cards
    PROVE  RestoreJiraCard(card) \in Seq(Plain)
<1>1. /\ card.id \in Refs /\ card.title \in Nat /\ card.notes \in SUBSET Remarks
      /\ card.status \in Statuses
    BY IdsAreRefs DEF Cards
<1>2. "assignee" \in CardFields /\ "due" \in CardFields /\ "priority" \in CardFields
    BY DEF CardFields, Single
<1>3. card.f["assignee"] \in Nat /\ card.f["due"] \in Nat /\ card.f["priority"] \in Nat
    BY <1>2 DEF Cards
<1>4. /\ UpdateIssue(card.id, card.title, card.notes) \in Seq(Plain)
      /\ MoveIssue(card.id, card.status, FALSE) \in Seq(Plain)
    BY <1>1, UpdateRequests, MoveRequests
<1>5. /\ UpdateField(card.id, "assignee", card.f["assignee"]) \in Seq(Plain)
      /\ UpdateField(card.id, "due", card.f["due"]) \in Seq(Plain)
      /\ SetPriorityName(card.id, card.f["priority"]) \in Seq(Plain)
    BY <1>1, <1>2, <1>3, FieldRequests
<1>6. UpdateIssue(card.id, card.title, card.notes) \o MoveIssue(card.id, card.status, FALSE)
        \in Seq(Plain)
    BY <1>4, PlainLists
<1>7. UpdateIssue(card.id, card.title, card.notes) \o MoveIssue(card.id, card.status, FALSE)
        \o UpdateField(card.id, "assignee", card.f["assignee"]) \in Seq(Plain)
    BY <1>5, <1>6, PlainLists
<1>8. UpdateIssue(card.id, card.title, card.notes) \o MoveIssue(card.id, card.status, FALSE)
        \o UpdateField(card.id, "assignee", card.f["assignee"])
        \o UpdateField(card.id, "due", card.f["due"]) \in Seq(Plain)
    BY <1>5, <1>7, PlainLists
<1> QED BY <1>5, <1>8, PlainLists DEF RestoreJiraCard

LEMMA PlainAreGood == Seq(Plain) \subseteq Seq(GoodRequests)
<1>1. Plain \subseteq GoodRequests  BY DEF Plain
<1> QED BY <1>1

LEMMA CreateRequests ==
    ASSUME NEW card \in Cards
    PROVE  CreateIssue(card) \in Seq(GoodRequests)
<1> DEFINE on == On(NoCard, "create")
           w == [on EXCEPT !.card = card]
<1>1. on \in Requests /\ on.op = "create"  BY NoCardIsRef, OnTyped DEF Ops
<1> HIDE DEF on
<1>2. w \in Requests /\ w.op = "create" /\ w.card = card  BY <1>1 DEF Requests
<1> HIDE DEF w
<1>3. w \in GoodRequests  BY <1>2 DEF GoodRequests, RequestOK
<1>4. <<w>> \in Seq(GoodRequests)  BY <1>3
<1>5. CreateIssue(card) = <<w>>  BY DEF CreateIssue, w, on
<1> QED BY <1>4, <1>5

LEMMA RankingRequests ==
    ASSUME NEW id \in Refs, NEW act \in Acts, act.moved => act.status # "", NEW a \in Args
    PROVE  Reprioritize(id, act, a) \in Seq(Plain)
<1> DEFINE move == IF act.moved THEN MoveIssue(id, act.status, FALSE) ELSE <<>>
           beside == IF a.other # NoCard THEN a.other ELSE act.other
           rank == IF beside = NoCard THEN <<>> ELSE RankIssue(id, beside)
<1>1. move \in Seq(Plain)
    <2>1. CASE act.moved
        <3>1. act.status \in Statuses  BY <2>1 DEF Acts
        <3>2. MoveIssue(id, act.status, FALSE) \in Seq(Plain)  BY <3>1, MoveRequests
        <3> QED BY <2>1, <3>2
    <2>2. CASE ~act.moved  BY <2>2, PlainLists
    <2> QED BY <2>1, <2>2
<1>2. beside \in Refs  BY DEF Acts, Args
<1> HIDE DEF beside
<1>3. rank \in Seq(Plain)  BY <1>2, RankRequests, PlainLists
<1>4. Reprioritize(id, act, a) = move \o rank  BY DEF Reprioritize, beside
<1> HIDE DEF move, rank
<1> QED BY <1>1, <1>3, <1>4, PlainLists

LEMMA UpdateOfParticipant ==
    ASSUME NEW id \in Refs, NEW a \in Args
    PROVE  ParticipantUpdate(id, a) \in Seq(Plain)
<1> DEFINE move == IF a.status = "" THEN <<>> ELSE MoveIssue(id, a.status, a.blocker)
           due == IF a.v = 0 THEN <<>> ELSE UpdateField(id, "due", a.v)
<1>1. "due" \in CardFields /\ "comments" \in CardFields
    BY DEF CardFields, Single, Lists
<1>2. a.v \in Nat /\ a.blocker \in BOOLEAN /\ a.status \in Statuses \cup {""}
    BY DEF Args
<1>3. move \in Seq(Plain)
    <2>1. CASE a.status = ""  BY <2>1, PlainLists
    <2>2. CASE a.status # ""
        <3>1. MoveIssue(id, a.status, a.blocker) \in Seq(Plain)
            BY <1>2, <2>2, MoveRequests
        <3> QED BY <2>2, <3>1
    <2> QED BY <2>1, <2>2
<1>4. due \in Seq(Plain) /\ AddTo(id, "comments") \in Seq(Plain)
    BY <1>1, <1>2, FieldRequests, PlainLists
<1>5. ParticipantUpdate(id, a) = IF id = NoCard THEN <<>> ELSE move \o due \o AddTo(id, "comments")
    BY DEF ParticipantUpdate
<1> HIDE DEF move, due
<1>6. move \o due \in Seq(Plain)  BY <1>3, <1>4, PlainLists
<1>7. move \o due \o AddTo(id, "comments") \in Seq(Plain)  BY <1>4, <1>6, PlainLists
<1> QED BY <1>5, <1>7, PlainLists

LEMMA FieldNames ==
    /\ DOMAIN FieldOf = {"assign_ticket", "set_eta", "set_story_points",
                         "set_estimate", "set_sprint", "set_components", "set_fix_versions",
                         "set_custom_field", "set_reporter"}
    /\ DOMAIN ListOf = {"add_comment", "add_worklog", "add_remote_link", "add_watcher"}
    /\ \A tool \in DOMAIN FieldOf : FieldOf[tool] \in CardFields
    /\ \A tool \in DOMAIN ListOf : ListOf[tool] \in CardFields
BY DEF FieldOf, ListOf, CardFields, Single, Lists

\* Whatever a call still writes through are requests, and only what a create
\* tool or an undo writes makes an issue.
LEMMA WritesTyped ==
    ASSUME board \in Boards, NEW undo \in BOOLEAN, NEW act \in GoodActs(undo)
    PROVE  /\ Writes(act) \in Seq(GoodRequests)
           /\ act.a.tool \notin CreateTools \cup {"recreate"} => Writes(act) \in Seq(Plain)
<1> DEFINE card == ResolveReference(board, act.a.card)
           other == ResolveReference(board, act.a.other)
           a == [act.a EXCEPT !.card = card, !.other = other]
           id == CardFor(act, a)
<1>1. act \in Acts /\ ActOK(act, undo)  BY DEF GoodActs
<1>2. act.a \in Args /\ act.id \in Refs  BY <1>1 DEF Acts
<1>3. card \in Refs /\ other \in Refs  BY <1>2, ResolveReferenceTyped DEF Args
<1>4. /\ a \in Args /\ a.tool = act.a.tool /\ a.status = act.a.status
    <2> HIDE DEF card, other
    <2> QED BY <1>2, <1>3 DEF Args
<1> HIDE DEF card, other
<1>5. id \in Refs  BY <1>2, <1>4 DEF CardFor, Args
<1>6. /\ act.notes \in SUBSET Remarks /\ act.tags \in SUBSET Tags
      /\ a.v \in Nat /\ a.tags \in SUBSET Tags /\ a.notes \in SUBSET Remarks /\ a.title \in Nat
      /\ a.other \in Refs /\ a.status \in Statuses \cup {""}
    <2> HIDE DEF a
    <2>1. act.notes \in SUBSET Remarks /\ act.tags \in SUBSET Tags  BY <1>1 DEF Acts
    <2>2. /\ a.v \in Nat /\ a.tags \in SUBSET Tags /\ a.notes \in SUBSET Remarks
          /\ a.other \in Refs /\ a.status \in Statuses \cup {""}
        BY <1>4 DEF Args
    <2>3. a.title \in Nat
        <3>1. a.title \in Titles \cup {0}  BY <1>4 DEF Args
        <3>2. Titles \cup {0} \subseteq Nat  BY TextAssumption
        <3> QED BY <3>1, <3>2
    <2> QED BY <2>1, <2>2, <2>3
<1>7. /\ "assignee" \in CardFields /\ "links" \in CardFields /\ "comments" \in CardFields
      /\ "Blocked" \in Statuses
    BY DEF CardFields, Single, Lists, Statuses
<1>8. Seq(Plain) \subseteq Seq(GoodRequests)  BY PlainAreGood
<1> DEFINE w == Writes(act)
<1>9. w = RequestsOf(act, a, id)  BY DEF Writes, card, other
<1> HIDE DEF a, id
<1> SUFFICES /\ w \in Seq(GoodRequests)
             /\ act.a.tool \notin CreateTools \cup {"recreate"} => w \in Seq(Plain)
    OBVIOUS
<1> HIDE DEF w
<1>10. CASE act.a.tool \in CreateTools
    <2> DEFINE move == IF act.card.status = "Backlog" THEN <<>>
                       ELSE MoveIssue(NoCard, act.card.status, FALSE)
    <2>1. act.card \in Cards
        <3>1. CASE undo  BY <1>1, <3>1 DEF ActOK
        <3>2. CASE ~undo  BY <1>1, <1>10, <3>2 DEF ActOK
        <3> QED BY <3>1, <3>2
    <2>2. act.card.status \in Statuses  BY <2>1 DEF Cards
    <2>3. MoveIssue(NoCard, act.card.status, FALSE) \in Seq(Plain)
        BY <2>2, NoCardIsRef, MoveRequests
    <2>4. move \in Seq(GoodRequests)  BY <1>8, <2>3, PlainLists, Zenon
    <2>5. w = CreateIssue(act.card) \o move
        BY <1>4, <1>9, <1>10, FieldNames, Zenon DEF RequestsOf, CreateTools
    <2> HIDE DEF move
    <2>6. w \in Seq(GoodRequests)
        BY <2>1, <2>4, <2>5, CreateRequests, ConcatProperties
    <2> QED BY <1>10, <2>6
<1>11. CASE act.a.tool = "recreate"
    <2>1. act.card \in Cards  BY <1>1, <1>11 DEF ActOK, Tools
    <2>2. w = CreateIssue(act.card)  BY <1>4, <1>9, <1>11, FieldNames DEF RequestsOf
    <2>3. w \in Seq(GoodRequests)  BY <2>1, <2>2, CreateRequests
    <2> QED BY <1>11, <2>3
<1>12. ASSUME act.a.tool \notin CreateTools \cup {"recreate"}
       PROVE  w \in Seq(Plain)
    <2>1. a.tool \in (Tools \cup UndoTools) \ (CreateTools \cup {"recreate"})
        BY <1>1, <1>4, <1>12 DEF ActOK
    <2>2. CASE a.tool = "move_ticket"
        <3>1. a.status \in Statuses  BY <1>1, <1>4, <1>6, <2>2 DEF ActOK, UndoTools
        <3>2. w = MoveIssue(id, a.status, FALSE)
            BY <1>9, <2>2, FieldNames DEF RequestsOf
        <3> QED BY <1>5, <3>1, <3>2, MoveRequests
    <2>3. CASE a.tool \in {"add_tags", "remove_tags"}
        <3>1. w = AddLabels(id, a.tags) \/ w = RemoveLabels(id, a.tags)
            BY <1>9, <2>3, FieldNames DEF RequestsOf
        <3> QED BY <1>5, <1>6, <3>1, LabelRequests
    <2>4. CASE a.tool \in {"update_ticket", "append_notes"}
        <3>1. w = UpdateIssue(id, a.title, a.notes) \/ w = UpdateIssue(id, 0, act.notes)
            BY <1>9, <2>4, FieldNames DEF RequestsOf
        <3> QED BY <1>5, <1>6, <3>1, UpdateRequests
    <2>5. CASE a.tool \in {"set_priority", "unassign_ticket"}
        <3>1. w = SetPriorityName(id, a.v) \/ w = UpdateField(id, "assignee", 0)
            BY <1>9, <2>5, FieldNames DEF RequestsOf
        <3> QED BY <1>5, <1>6, <1>7, <3>1, FieldRequests
    <2>6. CASE a.tool \in DOMAIN FieldOf
        <3>1. w = UpdateField(id, FieldOf[a.tool], a.v)
            BY <1>9, <2>6, FieldNames DEF RequestsOf
        <3>2. FieldOf[a.tool] \in CardFields  BY <2>6, FieldNames
        <3> QED BY <1>5, <1>6, <3>1, <3>2, FieldRequests
    <2>7. CASE a.tool \in DOMAIN ListOf
        <3>1. w = AddTo(id, ListOf[a.tool])  BY <1>9, <2>7, FieldNames DEF RequestsOf
        <3>2. ListOf[a.tool] \in CardFields  BY <2>7, FieldNames
        <3> QED BY <1>5, <1>6, <3>1, <3>2, FieldRequests
    <2>8. CASE a.tool = "link_issues"
        <3>1. w = AddTo(id, "links") \/ w = Refuse(id)
            BY <1>9, <2>8, FieldNames DEF RequestsOf
        <3> QED
            BY <1>5, <1>6, <1>7, <3>1, FieldRequests, OnTyped, PlainLists DEF Refuse
    <2>9. CASE a.tool = "prioritize_ticket"
        <3>1. w = Reprioritize(id, act, a)  BY <1>9, <2>9, FieldNames DEF RequestsOf
        <3> QED BY <1>1, <1>4, <1>5, <3>1, RankingRequests DEF ActOK
    <2>10. CASE a.tool = "rank_issue"
        <3>1. w = RankIssue(id, a.other) \/ w = RankIssue(id, NoCard)
            BY <1>9, <2>10, FieldNames DEF RequestsOf
        <3> QED BY <1>5, <1>6, <3>1, RankRequests, NoCardIsRef
    <2>11. CASE a.tool = "set_blocked"
        <3> DEFINE move == MoveIssue(id, "Blocked", FALSE)
                   labels == AddLabels(id, act.tags \ {"blocked"})
                   notes == UpdateIssue(id, 0, act.notes)
                   comment == AddTo(id, "comments")
        <3>1. w = move \o labels \o notes \o comment
            BY <1>9, <2>11, FieldNames DEF RequestsOf
        <3>2. act.tags \ {"blocked"} \in SUBSET Tags  BY <1>6
        <3>3. /\ move \in Seq(Plain) /\ labels \in Seq(Plain) /\ notes \in Seq(Plain)
              /\ comment \in Seq(Plain)
            BY <1>5, <1>6, <1>7, <3>2, MoveRequests, LabelRequests, UpdateRequests, FieldRequests
        <3> HIDE DEF move, labels, notes, comment
        <3>4. move \o labels \in Seq(Plain)  BY <3>3, PlainLists
        <3>5. move \o labels \o notes \in Seq(Plain)  BY <3>3, <3>4, PlainLists
        <3> QED BY <3>1, <3>3, <3>5, PlainLists
    <2>12. CASE a.tool = "record_participant_update"
        <3>1. w = ParticipantUpdate(id, a)  BY <1>9, <2>12, FieldNames DEF RequestsOf
        <3> QED BY <1>4, <1>5, <3>1, UpdateOfParticipant
    <2>13. CASE a.tool = "delete_ticket"
        <3>1. w = CloseIssue(id)  BY <1>9, <2>13, FieldNames DEF RequestsOf
        <3> QED BY <1>5, <1>7, <3>1, MoveRequests
    <2>14. CASE a.tool \in {"close", "restore"}
        <3>1. act.card \in Cards  BY <1>1, <1>4, <2>14 DEF ActOK, Tools
        <3>2. act.card.id \in Refs  BY <3>1, IdsAreRefs DEF Cards
        <3>3. w = CloseIssue(act.card.id) \/ w = RestoreJiraCard(act.card)
            BY <1>9, <2>14, FieldNames DEF RequestsOf
        <3> QED BY <1>7, <3>1, <3>2, <3>3, MoveRequests, RestoreRequests
    <2> QED
        BY <2>1, <2>2, <2>3, <2>4, <2>5, <2>6, <2>7, <2>8, <2>9, <2>10, <2>11, <2>12, <2>13,
           <2>14, FieldNames DEF Tools, UndoTools, CreateTools
<1> QED BY <1>8, <1>10, <1>11, <1>12

----------------------------------------------------------------------------
\* What is known of a caller at each point of its call: what it has still to
\* write through, and that it has something to go on with.

LEMMA IdleShape ==
    /\ Idle \in Calls /\ Idle.pc = "idle" /\ Idle.acts = <<>> /\ Idle.made = <<>>
    /\ Idle.todo = <<>> /\ Idle.undo = FALSE /\ Shape(Idle)
<1>1. /\ <<>> \in Seq(Args) /\ <<>> \in Seq(Cards) /\ <<>> \in Seq(Acts) /\ <<>> \in Seq(Requests)
      /\ <<>> \in Seq(GoodActs(FALSE)) /\ <<>> \in Seq(GoodRequests)
    BY EmptySeq
<1>2. /\ Idle.pc = "idle" /\ Idle.acts = <<>> /\ Idle.made = <<>>
      /\ Idle.todo = <<>> /\ Idle.undo = FALSE
    BY DEF Idle
<1>3. Idle \in Calls  BY <1>1, IdsAssumption DEF Idle, Calls, Pcs, Answers
<1> QED BY <1>1, <1>2, <1>3 DEF Shape, Loose

LEMMA SettledShape ==
    ASSUME NEW d, Loose(d)
    PROVE  Shape(Settled(d))
<1>1. CASE d.acts # <<>>
    <2> DEFINE n == [d EXCEPT !.pc = "sync"]
    <2>1. Settled(d) = n  BY <1>1 DEF Settled
    <2>2. /\ n \in Calls /\ n.pc = "sync" /\ n.acts = d.acts /\ n.made = d.made
          /\ n.todo = d.todo /\ n.undo = d.undo
        BY DEF Loose, Calls, Pcs
    <2> HIDE DEF n
    <2>3. Shape(n)  BY <1>1, <2>2 DEF Shape, Loose
    <2> QED BY <2>1, <2>3
<1>2. CASE d.acts = <<>>
    <2> DEFINE answer == IF ~d.required THEN "local_only"
                         ELSE IF d.failed THEN "api_failed" ELSE "api_confirmed"
               told == [Idle EXCEPT !.answer = answer]
               n == [told EXCEPT !.sent = d.sent, !.bad = d.bad]
    <2>1. Settled(d) = n  BY <1>2 DEF Settled
    <2>2. answer \in Answers /\ d.sent \in Nat /\ d.bad \in Nat
        BY DEF Answers, Loose, Calls
    <2> HIDE DEF answer
    <2>3. /\ told \in Calls /\ told.pc = "idle" /\ told.acts = <<>> /\ told.made = <<>>
          /\ told.todo = <<>> /\ told.undo = FALSE
        BY <2>2, IdleShape DEF Calls
    <2> HIDE DEF told
    <2>4. /\ n \in Calls /\ n.pc = "idle" /\ n.acts = <<>> /\ n.made = <<>>
          /\ n.todo = <<>> /\ n.undo = FALSE
        BY <2>2, <2>3 DEF Calls
    <2> HIDE DEF n
    <2>5. Shape(n)  BY <2>4, EmptySeq DEF Shape, Loose
    <2> QED BY <2>1, <2>5
<1> QED BY <1>1, <1>2

LEMMA FinishShape ==
    ASSUME NEW d, Loose(d), d.acts # <<>>
    PROVE  Shape(Finish(d))
<1> DEFINE left == Tail(d.acts)
           n == [d EXCEPT !.acts = left, !.todo = <<>>, !.key = 0]
<1>1. d.acts \in Seq(GoodActs(d.undo)) /\ d.acts \in Seq(Acts)  BY DEF Loose, Calls
<1>2. left \in Seq(GoodActs(d.undo)) /\ left \in Seq(Acts)
    BY <1>1, HeadTailProperties
<1>3. <<>> \in Seq(Requests) /\ <<>> \in Seq(GoodRequests) /\ 0 \in 0 .. MaxKey
    BY EmptySeq, IdsAssumption
<1>4. Finish(d) = Settled(n)  BY DEF Finish, Loose, Calls
<1> HIDE DEF left
<1>5. /\ n \in Calls /\ n.acts = left /\ n.made = d.made /\ n.todo = <<>> /\ n.undo = d.undo
    BY <1>2, <1>3 DEF Loose, Calls
<1> HIDE DEF n
<1>6. Loose(n)  BY <1>2, <1>3, <1>5 DEF Loose
<1> QED BY <1>4, <1>6, SettledShape

LEMMA ProgressShape ==
    ASSUME NEW d, Loose(d), d.acts # <<>>,
           d.undo \/ Head(d.acts).a.tool \in CreateTools \/ d.todo \in Seq(Plain)
    PROVE  Shape(Progress(d))
<1>1. CASE d.todo = <<>>
    <2>1. Progress(d) = Finish(d)  BY <1>1 DEF Progress
    <2> QED BY <2>1, FinishShape
<1>2. CASE d.todo # <<>>
    <2> DEFINE n == [d EXCEPT !.pc = "write"]
    <2>1. Progress(d) = n  BY <1>2 DEF Progress
    <2>2. /\ n \in Calls /\ n.pc = "write" /\ n.acts = d.acts /\ n.made = d.made
          /\ n.todo = d.todo /\ n.undo = d.undo
        BY DEF Loose, Calls, Pcs
    <2> HIDE DEF n
    <2>3. Shape(n)  BY <1>2, <2>2 DEF Shape, Loose
    <2> QED BY <2>1, <2>3
<1> QED BY <1>1, <1>2

----------------------------------------------------------------------------
\* The invariant: the types, the shape of every call, what a search has found,
\* and that ids are distinct as long as nothing was put back, by an undo or by
\* the resolution of a conflict.

LEMMA CallStep ==
    ASSUME call \in [Callers -> Calls], \A c \in Callers : Shape(call[c]),
           NEW c \in Callers, NEW n, Shape(n), call' = [call EXCEPT ![c] = n]
    PROVE  call' \in [Callers -> Calls] /\ \A x \in Callers : Shape(call'[x])
<1>1. n \in Calls  BY DEF Shape, Loose
<1> QED BY <1>1

LEMMA SeqOfSubset ==
    ASSUME NEW T, NEW S \in SUBSET T
    PROVE  Seq(S) \subseteq Seq(T)
OBVIOUS

LEMMA OfGoodActs ==
    ASSUME NEW undo
    PROVE  /\ Seq(GoodActs(undo)) \subseteq Seq(Acts)
           /\ \A act \in GoodActs(undo) :
                <<act>> \in Seq(GoodActs(undo)) /\ Len(<<act>>) = 1 /\ <<act>>[1] = act
<1> DEFINE S == GoodActs(undo)
<1>1. S \subseteq Acts  BY DEF GoodActs
<1> HIDE DEF S
<1>2. Seq(S) \subseteq Seq(Acts)  BY <1>1, SeqOfSubset
<1>3. \A act \in S : <<act>> \in Seq(S) /\ Len(<<act>>) = 1 /\ <<act>>[1] = act
    OBVIOUS
<1> QED BY <1>2, <1>3 DEF S

LEMMA ActTyped ==
    ASSUME NEW b \in Boards, NEW s \in Args, NEW r \in Args, s.tool = r.tool,
           s.status = r.status, NEW out, Good(b, out), Applied(r, out)
    PROVE  Act(s, out) \in GoodActs(FALSE)
<1> DEFINE card == IF s.tool \in {"create_ticket", "create_subtask"}
                   THEN Of(out.board.cards, out.id) ELSE Nothing
           n == [a |-> s, id |-> out.id, other |-> out.other, place |-> out.place,
                 status |-> out.status, moved |-> out.moved, notes |-> out.notes,
                 tags |-> out.tags, card |-> card]
<1>1. Act(s, out) = n  BY DEF Act, Nothing
<1>2. card \in Cards \cup {Nothing} /\ (s.tool \in CreateTools => card \in Cards /\ card.id.kind = "local")
    BY DEF Applied, CreateTools
<1>3. /\ out.id \in Refs /\ out.other \in Refs /\ out.place \in Places
      /\ out.status \in Statuses \cup {""} /\ out.moved \in BOOLEAN
      /\ out.notes \in SUBSET Remarks /\ out.tags \in SUBSET Tags
      /\ out.moved => out.status # ""
    BY DEF Good, Outs
<1> HIDE DEF card
<1>4. n \in Acts /\ n.a = s /\ n.card = card /\ n.moved = out.moved /\ n.status = out.status
    BY <1>2, <1>3 DEF Acts
<1> HIDE DEF n
<1>5. ActOK(n, FALSE)  BY <1>2, <1>3, <1>4 DEF ActOK, Applied
<1> QED BY <1>1, <1>4, <1>5 DEF GoodActs

LEMMA ApplyTyped ==
    ASSUME IInv, NEW c \in Callers, NEW asked \in Seq(Args), asked # <<>>,
           NEW acts \in Seq(GoodActs(FALSE)), Apply(c, asked, acts)
    PROVE  /\ board' \in Boards /\ touched' \in BOOLEAN /\ (touched => touched')
           /\ call' \in [Callers -> Calls] /\ \A x \in Callers : Shape(call'[x])
           /\ Ordered(board) => Ordered(board')
<1> DEFINE a == Head(asked)
           rest == Tail(asked)
           r == Resolved(a)
           s == Stored(a)
           out == ApplyTool(board, r)
           act == Act(s, out)
           next == [Idle EXCEPT !.asked = rest, !.acts = acts]
           recorded == [next EXCEPT !.pc = "record", !.before = board.cards, !.made = <<act>>]
           going == [next EXCEPT !.pc = "apply"]
           n == IF out.changed THEN recorded ELSE IF rest # <<>> THEN going ELSE Settled(next)
<1>1. /\ board \in Boards /\ touched \in BOOLEAN /\ history \in Seq(Mutations)
      /\ call \in [Callers -> Calls] /\ \A x \in Callers : Shape(call[x])
    BY DEF IInv, TypeOK
<1>2. a \in Args /\ rest \in Seq(Args)  BY HeadTailProperties
<1> HIDE DEF a, rest
<1>3. /\ r \in Args /\ s \in Args /\ r.tool = s.tool /\ r.status = s.status
    BY <1>1, <1>2, ResolvedTyped
<1> HIDE DEF r, s
<1>4. Good(board, out) /\ (out.changed => Applied(r, out))
    BY <1>1, <1>3, ApplyToolGood
<1> HIDE DEF out
<1>5. out.board \in Boards /\ out.changed \in BOOLEAN /\ (Ordered(board) => Ordered(out.board))
    BY <1>4 DEF Good, Outs, Ordered
<1>6. /\ next \in Calls /\ next.pc = "idle" /\ next.asked = rest /\ next.acts = acts
      /\ next.made = <<>> /\ next.todo = <<>> /\ next.undo = FALSE
    <2>2. acts \in Seq(Acts)  BY OfGoodActs
    <2> QED BY <1>2, <2>2, IdleShape DEF Calls
<1>7. /\ board' = out.board /\ touched' = (touched \/ out.changed)
      /\ call' = [call EXCEPT ![c] = n]
    <2>1. next.asked = rest  BY <1>6
    <2> HIDE DEF n
    <2>2. /\ board' = out.board /\ touched' = (touched \/ out.changed)
          /\ call' = [call EXCEPT ![c] = IF out.changed THEN recorded
                                         ELSE IF next.asked # <<>> THEN going ELSE Settled(next)]
        BY DEF Apply, a, rest, r, s, out
    <2> QED BY <2>1, <2>2 DEF n
<1> HIDE DEF next
<1>8. Loose(next)  BY <1>6, EmptySeq DEF Loose
<1>9. Shape(n)
    <2>1. CASE out.changed
        <3>1. act \in GoodActs(FALSE)  BY <1>1, <1>3, <1>4, <2>1, ActTyped
        <3> HIDE DEF act
        <3>2. <<act>> \in Seq(GoodActs(FALSE)) /\ <<act>> \in Seq(Acts) /\ Len(<<act>>) = 1
            BY <3>1, OfGoodActs
        <3>3. board.cards \in Seq(Cards)  BY <1>1, BoardParts
        <3> DEFINE before == board.cards
                   made == <<act>>
        <3>4. recorded = [next EXCEPT !.pc = "record", !.before = before, !.made = made]
            OBVIOUS
        <3> HIDE DEF before, made, recorded
        <3>5. before \in Seq(Cards) /\ made \in Seq(Acts) /\ made \in Seq(GoodActs(FALSE)) /\ Len(made) = 1
            BY <3>2, <3>3 DEF before, made
        <3>6. /\ recorded \in Calls /\ recorded.pc = "record" /\ recorded.acts = acts
              /\ recorded.made = made /\ recorded.todo = <<>> /\ recorded.undo = FALSE
            BY <1>6, <3>4, <3>5 DEF Calls, Pcs
        <3>7. Shape(recorded)  BY <3>5, <3>6, EmptySeq DEF Shape, Loose
        <3> QED BY <2>1, <3>7
    <2>2. CASE ~out.changed /\ rest # <<>>
        <3>1. /\ going \in Calls /\ going.pc = "apply" /\ going.acts = acts /\ going.asked = rest
              /\ going.made = <<>> /\ going.todo = <<>> /\ going.undo = FALSE
            BY <1>6 DEF Calls, Pcs
        <3> HIDE DEF going
        <3>2. Shape(going)  BY <2>2, <3>1, EmptySeq DEF Shape, Loose
        <3> QED BY <2>2, <3>2
    <2>3. CASE ~out.changed /\ rest = <<>>  BY <1>8, <2>3, SettledShape
    <2> QED BY <1>5, <2>1, <2>2, <2>3
<1> HIDE DEF n
<1>10. call' \in [Callers -> Calls] /\ \A x \in Callers : Shape(call'[x])
    BY <1>1, <1>7, <1>9, CallStep
<1> QED BY <1>1, <1>5, <1>7, <1>10

LEMMA BoundsNat ==
    /\ MaxCalls \in Nat /\ MaxUndos \in Nat /\ MaxFaults \in Nat /\ MaxEdits \in Nat
    /\ MaxResolves \in Nat /\ MaxConflicts \in Nat /\ FirstIssues \in Nat
BY BoundsAssumption

LEMMA BeginInv ==
    ASSUME IInv, NEW c \in Callers, Begin(c)
    PROVE  IInv'
<1>1. PICK asked \in Asks : Apply(c, asked, <<>>)  BY DEF Begin
<1>2. asked \in Seq(Args) /\ asked # <<>> /\ <<>> \in Seq(GoodActs(FALSE))
    BY AsksAssumption, EmptySeq
<1>3. /\ board' \in Boards /\ touched' \in BOOLEAN /\ (touched => touched')
      /\ call' \in [Callers -> Calls] /\ \A x \in Callers : Shape(call'[x])
      /\ Ordered(board) => Ordered(board')
    BY <1>1, <1>2, ApplyTyped
<1>4. calls' \in 0 .. MaxCalls  BY BoundsNat DEF Begin, IInv, TypeOK
<1>5. TypeOK'  BY <1>3, <1>4 DEF Begin, IInv, TypeOK, Exists
<1> QED BY <1>3, <1>5 DEF Begin, IInv, Found

LEMMA ApplyNextInv ==
    ASSUME IInv, NEW c \in Callers, ApplyNext(c)
    PROVE  IInv'
<1>1. Shape(call[c]) /\ call[c].pc = "apply" /\ Apply(c, call[c].asked, call[c].acts)
    BY DEF IInv, ApplyNext
<1>2. call[c].undo = FALSE  BY <1>1 DEF Shape, Loose, Calls
<1>3. /\ call[c].asked \in Seq(Args) /\ call[c].asked # <<>>
      /\ call[c].acts \in Seq(GoodActs(FALSE))
    BY <1>1, <1>2 DEF Shape, Loose, Calls
<1>4. /\ board' \in Boards /\ touched' \in BOOLEAN /\ (touched => touched')
      /\ call' \in [Callers -> Calls] /\ \A x \in Callers : Shape(call'[x])
      /\ Ordered(board) => Ordered(board')
    BY <1>1, <1>3, ApplyTyped
<1>5. TypeOK'  BY <1>4 DEF ApplyNext, IInv, TypeOK, Exists, counters
<1> QED BY <1>4, <1>5 DEF ApplyNext, IInv, Found, counters

LEMMA ChangedIdsTyped ==
    ASSUME NEW before \in Seq(Cards), NEW after \in Seq(Cards), NEW id \in Refs
    PROVE  ChangedCardIDs(before, after, id) \in SUBSET Refs
<1>1. IdsOf(before) \subseteq Refs /\ IdsOf(after) \subseteq Refs  BY IdsOfRefs
<1> QED BY <1>1 DEF ChangedCardIDs

LEMMA RecordedInv ==
    ASSUME IInv, NEW c \in Callers, RecordMutation(c)
    PROVE  IInv'
<1> DEFINE d == call[c]
           act == d.made[1]
           ids == ChangedCardIDs(d.before, board.cards, act.id)
           entry == [tool |-> act.a.tool, fresh |-> touched, undone |-> FALSE, ids |-> ids,
                     before |-> d.before, after |-> board.cards]
           acts == Append(d.acts, act)
           pc == IF d.asked # <<>> THEN "apply" ELSE "sync"
           n == [d EXCEPT !.acts = acts, !.made = <<>>, !.before = <<>>, !.pc = pc]
<1>1. /\ board \in Boards /\ touched \in BOOLEAN /\ history \in Seq(Mutations)
      /\ call \in [Callers -> Calls] /\ \A x \in Callers : Shape(call[x])
      /\ board.cards \in Seq(Cards)
    BY BoardParts DEF IInv, TypeOK
<1>2. d \in Calls /\ Shape(d) /\ d.pc = "record"  BY <1>1 DEF RecordMutation
<1>3. history' = Append(history, entry)  BY DEF RecordMutation
<1>4. call' = [call EXCEPT ![c] = n]  BY <1>1 DEF RecordMutation
<1> HIDE DEF d
<1>5. /\ d.undo = FALSE /\ Len(d.made) = 1 /\ d.made \in Seq(GoodActs(FALSE))
      /\ d.acts \in Seq(GoodActs(FALSE)) /\ d.todo \in Seq(GoodRequests)
      /\ d.before \in Seq(Cards) /\ d.asked \in Seq(Args)
    BY <1>2 DEF Shape, Loose, Calls
<1>6. act \in GoodActs(FALSE)
    <2> DEFINE S == GoodActs(FALSE)
    <2>1. Len(d.made) = 1 /\ d.made \in Seq(S)  BY <1>5
    <2> HIDE DEF S
    <2>2. d.made[1] \in S  BY <2>1, ElementOfSeq
    <2> QED BY <2>2 DEF S
<1> HIDE DEF act
<1>7. act \in Acts /\ act.id \in Refs /\ act.a.tool \in Tools
    BY <1>6 DEF GoodActs, ActOK, Acts
<1>8. ids \in SUBSET Refs  BY <1>1, <1>5, <1>7, ChangedIdsTyped
<1> HIDE DEF ids
<1>9. entry \in Mutations /\ entry.fresh = touched
    BY <1>1, <1>5, <1>7, <1>8 DEF Mutations
<1> HIDE DEF entry
<1>10. /\ history' \in Seq(Mutations)
       /\ \A i \in DOMAIN history' : history'[i].fresh => touched
    <2>1. /\ history' \in Seq(Mutations) /\ Len(history') = Len(history) + 1
          /\ \A i \in 1 .. Len(history) : history'[i] = history[i]
          /\ history'[Len(history) + 1] = entry
        BY <1>1, <1>3, <1>9, AppendProperties
    <2>2. DOMAIN history' = 1 .. Len(history) + 1 /\ DOMAIN history = 1 .. Len(history) /\ Len(history) \in Nat
        BY <1>1, <2>1, LenProperties
    <2>3. \A i \in DOMAIN history : history[i].fresh => touched  BY DEF IInv, TypeOK
    <2> QED BY <1>9, <2>1, <2>2, <2>3
<1>11. Shape(n)
    <2>1. acts \in Seq(GoodActs(FALSE)) /\ acts # <<>>
        <3> DEFINE S == GoodActs(FALSE)
        <3>1. d.acts \in Seq(S) /\ act \in S  BY <1>5, <1>6
        <3> HIDE DEF S
        <3>2. acts \in Seq(S) /\ acts # <<>>  BY <3>1, AppendProperties
        <3> QED BY <3>2 DEF S
    <2>2. acts \in Seq(Acts)  BY <2>1, OfGoodActs
    <2>3. pc \in {"apply", "sync"} /\ (pc = "apply" => d.asked # <<>>)  OBVIOUS
    <2>4. <<>> \in Seq(Acts) /\ <<>> \in Seq(Cards) /\ <<>> \in Seq(GoodActs(FALSE))
        BY EmptySeq
    <2> HIDE DEF acts, pc
    <2>5. /\ n \in Calls /\ n.pc = pc /\ n.acts = acts /\ n.made = <<>> /\ n.todo = d.todo
          /\ n.undo = d.undo /\ n.asked = d.asked
        BY <1>2, <2>2, <2>3, <2>4 DEF Calls, Pcs
    <2> HIDE DEF n
    <2> QED BY <1>5, <2>1, <2>3, <2>4, <2>5 DEF Shape, Loose
<1> HIDE DEF n
<1>12. call' \in [Callers -> Calls] /\ \A x \in Callers : Shape(call'[x])
    BY <1>1, <1>4, <1>11, CallStep
<1>13. TypeOK'  BY <1>10, <1>12 DEF RecordMutation, IInv, TypeOK, Exists, counters
<1> QED BY <1>12, <1>13 DEF RecordMutation, IInv, Found, counters

LEMMA StartSyncInv ==
    ASSUME IInv, NEW c \in Callers, StartSync(c)
    PROVE  IInv'
<1> DEFINE d == call[c]
           act == Head(d.acts)
           todo == IF RequiresSync(act) THEN Writes(act) ELSE <<>>
           required == d.required \/ RequiresSync(act)
           m == [d EXCEPT !.todo = todo, !.required = required]
<1>1. /\ board \in Boards /\ call \in [Callers -> Calls] /\ \A x \in Callers : Shape(call[x])
    BY DEF IInv, TypeOK
<1>2. d \in Calls /\ Shape(d) /\ d.pc = "sync"  BY <1>1 DEF StartSync
<1>3. call' = [call EXCEPT ![c] = Progress(m)]  BY <1>1 DEF StartSync, Calls
<1> HIDE DEF d
<1>4. /\ d.undo \in BOOLEAN /\ d.acts # <<>> /\ d.acts \in Seq(GoodActs(d.undo))
      /\ d.made \in Seq(GoodActs(d.undo)) /\ d.required \in BOOLEAN
    BY <1>2 DEF Shape, Loose, Calls
<1>5. act \in GoodActs(d.undo)  BY <1>4, HeadTailProperties
<1> HIDE DEF act
<1>6. /\ Writes(act) \in Seq(GoodRequests)
      /\ act.a.tool \notin CreateTools \cup {"recreate"} => Writes(act) \in Seq(Plain)
    BY <1>1, <1>4, <1>5, WritesTyped
<1>7. d.undo \/ act.a.tool \in Tools  BY <1>5 DEF GoodActs, ActOK
<1>8. todo \in Seq(GoodRequests) /\ (d.undo \/ act.a.tool \in CreateTools \/ todo \in Seq(Plain))
    BY <1>6, <1>7, PlainLists, EmptySeq DEF Tools
<1>9. GoodRequests \subseteq Requests  BY DEF GoodRequests
<1>10. todo \in Seq(Requests)  BY <1>8, <1>9, SeqOfSubset
<1>11. required \in BOOLEAN  BY <1>4 DEF RequiresSync
<1> HIDE DEF todo, required
<1>12. /\ m \in Calls /\ m.acts = d.acts /\ m.made = d.made /\ m.todo = todo /\ m.undo = d.undo
    BY <1>2, <1>10, <1>11 DEF Calls
<1> HIDE DEF m
<1>13. Loose(m) /\ m.acts # <<>> /\ Head(m.acts) = act
    BY <1>4, <1>8, <1>12 DEF Loose, act
<1>14. Shape(Progress(m))  BY <1>8, <1>12, <1>13, ProgressShape
<1>15. call' \in [Callers -> Calls] /\ \A x \in Callers : Shape(call'[x])
    BY <1>1, <1>3, <1>14, CallStep
<1>16. TypeOK'  BY <1>15 DEF StartSync, IInv, TypeOK, Exists, counters
<1> QED BY <1>15, <1>16 DEF StartSync, IInv, Found, counters

\* What a search returns.
LEMMA CardOfTyped ==
    ASSUME NEW k \in Keys, NEW issue \in Issues, issue.status \in Statuses
    PROVE  CardOf(k, issue) \in Cards /\ CardOf(k, issue).id = Key(k) /\ IsKey(Key(k))
<1> DEFINE status == IF issue.flag /\ HasBlockedField THEN "Blocked" ELSE issue.status
           f == [issue.f EXCEPT !["remoteLinks"] = 0, !["watchers"] = 0]
<1>1. status \in Statuses  BY DEF Statuses
<1>2. f \in [CardFields -> Nat]  BY DEF Issues
<1>3. /\ issue.title \in Nat /\ issue.notes \in SUBSET Remarks /\ issue.labels \in SUBSET Tags
      /\ issue.parent \in Refs
    BY DEF Issues
<1>4. Key(k) \in Ids /\ IsKey(Key(k))  BY DEF Key, Ref, Ids, Keys, IsKey
<1> DEFINE base == Card(Key(k), status, issue.title)
           notes == issue.notes
           labels == issue.labels
           parent == issue.parent
<1>5. CardOf(k, issue) = [base EXCEPT !.notes = notes, !.tags = labels, !.parent = parent, !.f = f]
    BY DEF CardOf
<1> HIDE DEF status, f
<1>6. base \in Cards /\ base.id = Key(k)
    <2>1. Empty \in [CardFields -> Nat] /\ {} \in SUBSET Remarks /\ {} \in SUBSET Tags
        BY DEF Empty
    <2> QED BY <1>1, <1>3, <1>4, <2>1, NoCardIsRef DEF Cards, Card
<1> HIDE DEF base, notes, labels, parent
<1>7. notes \in SUBSET Remarks /\ labels \in SUBSET Tags /\ parent \in Refs
    BY <1>3 DEF notes, labels, parent
<1> QED BY <1>2, <1>4, <1>5, <1>6, <1>7 DEF Cards

LEMMA SearchTyped ==
    ASSUME jira \in [Keys -> Issues], \A k \in Keys : Exists(k) => jira[k].status \in Statuses
    PROVE  /\ SearchKanbanCards \in Seq(Cards)
           /\ Distinct(SearchKanbanCards)
           /\ \A i \in DOMAIN SearchKanbanCards : IsKey(SearchKanbanCards[i].id)
           /\ \A i \in DOMAIN SearchKanbanCards : \E k \in Keys :
                Exists(k) /\ SearchKanbanCards[i] = CardOf(k, jira[k])
<1> DEFINE issues == {k \in Keys : Exists(k)}
           n == Cardinality(issues)
           card(i) == CardOf(Nth(issues, i), jira[Nth(issues, i)])
<1>1. IsFiniteSet(issues) /\ issues \in SUBSET Nat
    <2>1. IsFiniteSet(Keys)  BY IdsAssumption, FS_Interval DEF Keys
    <2>2. Keys \subseteq Nat /\ issues \subseteq Keys  BY DEF Keys
    <2> HIDE DEF issues
    <2> QED BY <2>1, <2>2, FS_Subset
<1>2. n \in Nat /\ \A i \in 1 .. n : Nth(issues, i) \in issues  BY <1>1, NthOfSet
<1>3. \A i, j \in 1 .. n : Nth(issues, i) = Nth(issues, j) => i = j
    <2> HIDE DEF issues
    <2>1. \A i \in 1 .. n : Cardinality({m \in issues : m <= Nth(issues, i)}) = i
        BY <1>1, NthOfSet
    <2> QED BY <2>1
<1>4. ASSUME NEW i \in 1 .. n
      PROVE  card(i) \in Cards /\ card(i).id = Key(Nth(issues, i)) /\ IsKey(card(i).id)
    <2>1. Nth(issues, i) \in Keys /\ Exists(Nth(issues, i))  BY <1>2
    <2> QED BY <2>1, CardOfTyped
<1>5. SearchKanbanCards = [i \in 1 .. n |-> card(i)]  BY DEF SearchKanbanCards
<1>9. \A i \in 1 .. n : \E k \in Keys : Exists(k) /\ card(i) = CardOf(k, jira[k])
    <2> HIDE DEF n
    <2> QED BY <1>2
<1> HIDE DEF n, card
<1>6. SearchKanbanCards \in [1 .. n -> Cards]  BY <1>4, <1>5
<1>7. SearchKanbanCards \in Seq(Cards) /\ DOMAIN SearchKanbanCards = 1 .. n
    BY <1>2, <1>6, FunctionSeq
<1>8. Distinct(SearchKanbanCards)
    <2> SUFFICES ASSUME NEW i \in 1 .. n, NEW j \in 1 .. n, card(i).id = card(j).id
                 PROVE  i = j
        BY <1>5, <1>7 DEF Distinct
    <2>1. Key(Nth(issues, i)) = Key(Nth(issues, j))  BY <1>4
    <2>2. Nth(issues, i) = Nth(issues, j)  BY <2>1 DEF Key, Ref
    <2> QED BY <1>3, <2>2
<1> QED BY <1>4, <1>5, <1>7, <1>8, <1>9

LEMMA InitInv == Init => IInv
<1> SUFFICES ASSUME Init
             PROVE  IInv
    OBVIOUS
<1>1. jira = [k \in Keys |-> IF k <= FirstIssues THEN Issue(k) ELSE NoIssue]
    BY DEF Init
<1>2. NoIssue \in Issues
    <2>1. Empty \in [CardFields -> Nat] /\ {} \in SUBSET Remarks /\ {} \in SUBSET Tags
        BY DEF Empty
    <2> QED BY <2>1, NoCardIsRef DEF NoIssue, Issues
<1>3. ASSUME NEW k \in Keys
      PROVE  Issue(k) \in Issues /\ Issue(k).status = "Backlog"
    <2>1. k \in Nat /\ "Backlog" \in Statuses  BY DEF Keys, Statuses
    <2> QED BY <1>2, <2>1 DEF Issue, Issues
<1>4. jira \in [Keys -> Issues]  BY <1>1, <1>2, <1>3
<1>5. \A k \in Keys : Exists(k) => jira[k].status \in Statuses
    BY <1>1, <1>3 DEF Exists, Statuses
<1>6. /\ SearchKanbanCards \in Seq(Cards) /\ Distinct(SearchKanbanCards)
      /\ \A i \in DOMAIN SearchKanbanCards : IsKey(SearchKanbanCards[i].id)
    BY <1>4, <1>5, SearchTyped
<1>7. board.cards = SearchKanbanCards /\ board \in Boards
    BY <1>6, IdsAssumption DEF Init, Board, Boards
<1>8. Ordered(board)  BY <1>6, <1>7 DEF Ordered, HandedOut, IsKey
<1>9. call \in [Callers -> Calls] /\ \A c \in Callers : Shape(call[c])
    BY IdleShape DEF Init
<1>10. history = <<>> /\ conflicts = <<>> /\ <<>> \in Seq(Mutations) /\ <<>> \in Seq(Conflicts)
    BY EmptySeq DEF Init
<1>11. \A i \in DOMAIN history : history[i].fresh => touched  BY <1>10
<1>12. refresh \in [Refreshers -> [pc : {"idle", "found"}, cards : Seq(Cards)]] /\ Found
    BY EmptySeq DEF Init, Found, Distinct
<1>13. TypeOK
    <2>1. /\ calls \in 0 .. MaxCalls /\ undos \in 0 .. MaxUndos /\ faults \in 0 .. MaxFaults
          /\ edits \in 0 .. MaxEdits /\ resolves \in 0 .. MaxResolves
        <3>1. calls = 0 /\ undos = 0 /\ faults = 0 /\ edits = 0 /\ resolves = 0
            BY DEF Init
        <3> QED BY <3>1, BoundsNat
    <2>2. history \in Seq(Mutations) /\ conflicts \in Seq(Conflicts)  BY <1>10
    <2>3. touched \in BOOLEAN  BY DEF Init
    <2> QED BY <1>4, <1>5, <1>7, <1>9, <1>11, <1>12, <2>1, <2>2, <2>3 DEF TypeOK
<1> QED BY <1>8, <1>9, <1>12, <1>13 DEF IInv

LEMMA SearchInv ==
    ASSUME IInv, NEW r \in Refreshers, Search(r)
    PROVE  IInv'
<1>1. /\ SearchKanbanCards \in Seq(Cards) /\ Distinct(SearchKanbanCards)
      /\ \A i \in DOMAIN SearchKanbanCards : IsKey(SearchKanbanCards[i].id)
    BY SearchTyped DEF IInv, TypeOK
<1> DEFINE cards == SearchKanbanCards
<1>2. refresh' = [refresh EXCEPT ![r] = [pc |-> "found", cards |-> cards]]
    BY DEF Search
<1> HIDE DEF cards
<1>3. refresh \in [Refreshers -> [pc : {"idle", "found"}, cards : Seq(Cards)]]
    BY DEF IInv, TypeOK
<1>4. refresh' \in [Refreshers -> [pc : {"idle", "found"}, cards : Seq(Cards)]]
    BY <1>1, <1>2, <1>3 DEF cards
<1>5. Found'  BY <1>1, <1>2, <1>3 DEF cards, IInv, Found
<1>6. TypeOK'  BY <1>4 DEF Search, IInv, TypeOK, Exists, counters
<1> QED BY <1>5, <1>6 DEF Search, IInv, counters

LEMMA EditInJiraInv ==
    ASSUME IInv, NEW k \in Keys, NEW status \in Statuses, EditInJira(k, status)
    PROVE  IInv'
<1>1. /\ jira \in [Keys -> Issues] /\ Exists(k)
      /\ \A j \in Keys : Exists(j) => jira[j].status \in Statuses
    BY DEF IInv, TypeOK, EditInJira
<1> DEFINE issue == [jira[k] EXCEPT !.status = status]
<1>2. issue \in Issues /\ issue.status \in Statuses  BY <1>1 DEF Issues
<1>3. jira' = [jira EXCEPT ![k] = issue]  BY <1>1 DEF EditInJira
<1> HIDE DEF issue
<1>4. jira' \in [Keys -> Issues] /\ \A j \in Keys : Exists(j)' => jira'[j].status \in Statuses
    BY <1>1, <1>2, <1>3 DEF Exists
<1>5. edits' \in 0 .. MaxEdits
    <2>1. edits \in 0 .. MaxEdits /\ edits < MaxEdits /\ edits' = edits + 1
        BY DEF EditInJira, IInv, TypeOK
    <2>2. MaxEdits \in Nat  BY BoundsNat
    <2> QED BY <2>1, <2>2
<1>6. TypeOK'  BY <1>4, <1>5 DEF EditInJira, IInv, TypeOK
<1> QED BY <1>6 DEF EditInJira, IInv, Found

LEMMA FailureTyped ==
    ASSUME IInv, NEW c \in Callers, call[c].pc = "failed"
    PROVE  FailureOf(c) \in Seq(Conflicts)
<1> DEFINE d == call[c]
           act == Head(d.acts)
           created == act.a.tool = "create_ticket" /\ d.key # 0
           named == CASE act.a.tool = "create_ticket" -> NoCard
                      [] act.a.tool = "create_subtask" -> act.a.other
                      [] OTHER -> act.a.card
           id == IF named # NoCard THEN named
                 ELSE IF created THEN Key(d.key) ELSE act.id
           i == Find(board, id)
           card == board.cards[i]
           failure == Conflict(id, card, card)
<1>1. board \in Boards /\ d \in Calls /\ Shape(d) /\ d.pc = "failed"
    BY DEF IInv, TypeOK
<1>2. FailureOf(c) = IF d.undo \/ i = 0 THEN <<>> ELSE <<failure>>  BY DEF FailureOf
<1> HIDE DEF d
<1>3. d.acts # <<>> /\ d.acts \in Seq(Acts) /\ d.key \in 0 .. MaxKey
    BY <1>1 DEF Shape, Loose, Calls
<1>4. act \in Acts  BY <1>3, HeadTailProperties
<1> HIDE DEF act
<1>5. act.id \in Refs /\ act.a.other \in Refs /\ act.a.card \in Refs
    BY <1>4 DEF Acts, Args
<1>6. Key(d.key) \in Refs  BY <1>3, IdsAssumption DEF Key, Ref, Refs
<1>7. named \in Refs  BY <1>5, NoCardIsRef
<1> HIDE DEF named, created
<1>8. id \in Refs  BY <1>5, <1>6, <1>7
<1> HIDE DEF id
<1>9. i # 0 => card \in Cards  BY <1>1, FindFound
<1> HIDE DEF card, i
<1>10. i # 0 => failure \in Conflicts  BY <1>8, <1>9 DEF Conflict, Conflicts
<1> HIDE DEF failure
<1>11. <<>> \in Seq(Conflicts)  BY EmptySeq
<1>12. i # 0 => <<failure>> \in Seq(Conflicts)  BY <1>10
<1> QED BY <1>2, <1>11, <1>12

LEMMA FailureInv ==
    ASSUME IInv, NEW c \in Callers, RecordJiraSyncFailure(c)
    PROVE  IInv'
<1> DEFINE d == call[c]
           bad == d.bad + 1
           m == [d EXCEPT !.failed = TRUE, !.bad = bad]
<1>1. /\ call \in [Callers -> Calls] /\ \A x \in Callers : Shape(call[x])
      /\ conflicts \in Seq(Conflicts)
    BY DEF IInv, TypeOK
<1>2. d \in Calls /\ Shape(d) /\ d.pc = "failed"  BY <1>1 DEF RecordJiraSyncFailure
<1>3. call' = [call EXCEPT ![c] = Finish(m)] /\ conflicts' = conflicts \o FailureOf(c)
    BY <1>1 DEF RecordJiraSyncFailure, Calls
<1>4. FailureOf(c) \in Seq(Conflicts)  BY <1>2, FailureTyped
<1> HIDE DEF d
<1>5. /\ d.acts # <<>> /\ d.acts \in Seq(GoodActs(d.undo)) /\ d.made \in Seq(GoodActs(d.undo))
      /\ d.todo \in Seq(GoodRequests) /\ d.bad \in Nat
    BY <1>2 DEF Shape, Loose, Calls
<1>6. conflicts' \in Seq(Conflicts)  BY <1>1, <1>3, <1>4, ConcatProperties
<1>7. bad \in Nat  BY <1>5
<1> HIDE DEF bad
<1>8. /\ m \in Calls /\ m.acts = d.acts /\ m.made = d.made /\ m.todo = d.todo /\ m.undo = d.undo
    BY <1>2, <1>7 DEF Calls
<1> HIDE DEF m
<1>9. Shape(Finish(m))
    <2>1. Loose(m) /\ m.acts # <<>>  BY <1>5, <1>8 DEF Loose
    <2> QED BY <2>1, FinishShape
<1>10. call' \in [Callers -> Calls] /\ \A x \in Callers : Shape(call'[x])
    BY <1>1, <1>3, <1>9, CallStep
<1>11. TypeOK'
    BY <1>6, <1>10 DEF RecordJiraSyncFailure, IInv, TypeOK, Exists, counters
<1> QED BY <1>10, <1>11 DEF RecordJiraSyncFailure, IInv, Found, counters

\* A card that gets its issue's key gets an id that no card has.
LEMMA RenameTyped ==
    ASSUME NEW b \in Boards, NEW old \in Ids, old.kind = "local", NEW k \in Keys
    PROVE  /\ RenameCardID(b, old, Key(k)) \in Boards
           /\ Ordered(b) => Ordered(RenameCardID(b, old, Key(k)))
           /\ Proper(b.cards) => Proper(RenameCardID(b, old, Key(k)).cards)
<1> DEFINE i == Find(b, old)
           new == Key(k)
           d == [b.cards[i] EXCEPT !.id = new]
           m == [b EXCEPT !.cards[i] = d]
           alias == [b.alias EXCEPT ![old.n] = k]
           n == [m EXCEPT !.alias = alias]
<1>1. CASE i = 0 \/ Find(b, new) # 0  BY <1>1 DEF RenameCardID
<1>2. CASE ~(i = 0 \/ Find(b, new) # 0)
    <2>1. i \in 1 .. Len(b.cards) /\ b.cards[i] \in Cards  BY <1>2, FindFound
    <2>2. new \in Ids /\ new.kind = "key" /\ new.n = k /\ k \in 1 .. MaxKey /\ old.n \in 1 .. MaxLocal
        BY DEF Key, Ref, Ids, Keys
    <2>3. ResolveAlias(b, new) = new  BY <2>2 DEF ResolveAlias
    <2>4. \A j \in 1 .. Len(b.cards) : b.cards[j].id # new  BY <1>2, <2>3, FindFound
    <2>5. RenameCardID(b, old, new) = n
        <3>1. RenameCardID(b, old, new) = [b EXCEPT !.cards[i].id = new, !.alias[old.n] = new.n]
            BY <1>2 DEF RenameCardID
        <3>2. b = [cards |-> b.cards, alias |-> b.alias, next |-> b.next]
            BY BoardParts
        <3> HIDE DEF i, new
        <3> QED BY <2>2, <3>1, <3>2
    <2> HIDE DEF new
    <2>6. d \in Cards /\ d.id = new /\ d.title = b.cards[i].title
        BY <2>1, <2>2 DEF Cards
    <2> HIDE DEF d, i
    <2>7. /\ m \in Boards /\ m.alias = b.alias /\ m.next = b.next /\ Len(m.cards) = Len(b.cards)
          /\ \A j \in 1 .. Len(b.cards) : m.cards[j] = IF j = i THEN d ELSE b.cards[j]
        BY <2>1, <2>6, CardReplaced
    <2>8. DOMAIN m.cards = 1 .. Len(b.cards) /\ DOMAIN b.cards = 1 .. Len(b.cards)
        BY <2>7, BoardParts
    <2> HIDE DEF m
    <2>9. alias \in [1 .. MaxLocal -> 0 .. MaxKey]  BY <2>2, BoardParts, IdsAssumption
    <2> HIDE DEF alias
    <2>10. n \in Boards /\ n.cards = m.cards /\ n.next = m.next
        BY <2>7, <2>9 DEF Boards
    <2>11. Distinct(b.cards) => Distinct(n.cards)
        BY <2>4, <2>6, <2>7, <2>8, <2>10 DEF Distinct
    <2>12. HandedOut(b) => HandedOut(n)
        BY <2>2, <2>6, <2>7, <2>8, <2>10 DEF HandedOut
    <2>13. Proper(b.cards) => Proper(n.cards)
        BY <2>1, <2>4, <2>6, <2>7, <2>8, <2>10 DEF Proper
    <2> QED BY <2>5, <2>10, <2>11, <2>12, <2>13 DEF Ordered, new
<1> QED BY <1>1, <1>2

LEMMA RenameInv ==
    ASSUME IInv, NEW c \in Callers, Rename(c)
    PROVE  IInv'
<1> DEFINE d == call[c]
           act == Head(d.acts)
           left == Tail(d.todo)
           m == [d EXCEPT !.todo = left]
<1>1. /\ board \in Boards /\ call \in [Callers -> Calls] /\ \A x \in Callers : Shape(call[x])
      /\ touched \in BOOLEAN
    BY DEF IInv, TypeOK
<1>2. d \in Calls /\ Shape(d) /\ d.pc = "rename"  BY <1>1 DEF Rename
<1>3. /\ call' = [call EXCEPT ![c] = Progress(m)]
      /\ board' = IF d.undo THEN board ELSE RenameCardID(board, act.card.id, Key(d.key))
      /\ touched' = (touched \/ board' # board)
    BY <1>1 DEF Rename, Calls
<1> HIDE DEF d
<1>4. /\ d.undo \in BOOLEAN /\ d.acts # <<>> /\ d.acts \in Seq(GoodActs(d.undo))
      /\ d.made \in Seq(GoodActs(d.undo)) /\ d.todo \in Seq(GoodRequests) /\ d.todo # <<>>
      /\ d.undo \/ act.a.tool \in CreateTools \/ d.todo \in Seq(Plain)
      /\ Head(d.todo).op = "create" /\ d.key \in Keys
    BY <1>2 DEF Shape, Loose, Calls, Keys
<1>5. act \in GoodActs(d.undo)  BY <1>4, HeadTailProperties
<1>6. d.todo \notin Seq(Plain)
    <2>1. d.todo \in Seq(Plain) => Head(d.todo) \in Plain  BY <1>4, HeadTailProperties
    <2> QED BY <1>4, <2>1 DEF Plain
<1>7. d.undo \/ act.a.tool \in CreateTools  BY <1>4, <1>6
<1>8. ~d.undo => act.card \in Cards /\ act.card.id \in Ids /\ act.card.id.kind = "local"
    BY <1>5, <1>7 DEF GoodActs, ActOK, Cards
<1>9. board' \in Boards /\ (Ordered(board) => Ordered(board'))
    BY <1>1, <1>3, <1>4, <1>8, RenameTyped
<1>10. left \in Seq(GoodRequests)  BY <1>4, HeadTailProperties
<1>11. left \in Seq(Requests)
    <2>1. GoodRequests \subseteq Requests  BY DEF GoodRequests
    <2> QED BY <1>10, <2>1, SeqOfSubset
<1> HIDE DEF left
<1>12. m \in Calls /\ m.acts = d.acts /\ m.made = d.made /\ m.todo = left /\ m.undo = d.undo
    BY <1>2, <1>11 DEF Calls
<1> HIDE DEF m
<1>13. Shape(Progress(m))
    <2>1. Loose(m) /\ m.acts # <<>> /\ Head(m.acts) = act
        BY <1>4, <1>10, <1>12 DEF Loose
    <2> HIDE DEF act
    <2> QED BY <1>7, <1>12, <2>1, ProgressShape
<1>14. call' \in [Callers -> Calls] /\ \A x \in Callers : Shape(call'[x])
    BY <1>1, <1>3, <1>13, CallStep
<1>15. touched' \in BOOLEAN /\ (touched => touched')  BY <1>1, <1>3
<1>16. TypeOK'  BY <1>9, <1>14, <1>15 DEF Rename, IInv, TypeOK, Exists, counters
<1> QED BY <1>9, <1>14, <1>16 DEF Rename, IInv, Found, counters

\* What a request does leaves an issue that is one, with a status.
LEMMA EditedTyped ==
    ASSUME NEW issue \in Issues, issue.status \in Statuses, NEW w \in GoodRequests,
           w.op \notin {"refuse", "create"}
    PROVE  Edited(issue, w) \in Issues /\ Edited(issue, w).status \in Statuses
<1>1. /\ w.op \in Ops /\ w.status \in Statuses \cup {""} /\ w.title \in Nat
      /\ w.notes \in SUBSET Remarks /\ w.labels \in SUBSET Tags
      /\ w.field \in CardFields \cup {""} /\ w.v \in Nat
    BY DEF GoodRequests, Requests
<1>2. /\ w.op = "transition" => w.status # ""
      /\ w.op \in {"set", "extend"} => w.field # ""
    BY DEF GoodRequests, RequestOK
<1>3. issue.title \in Nat /\ issue.notes \in SUBSET Remarks /\ issue.labels \in SUBSET Tags
      /\ issue.f \in [CardFields -> Nat]
    BY DEF Issues
<1>4. CASE w.op = "transition"
    <2> DEFINE status == w.status
    <2>1. status \in Statuses /\ Edited(issue, w) = [issue EXCEPT !.status = status]
        BY <1>1, <1>2, <1>4 DEF Edited
    <2> HIDE DEF status
    <2> QED BY <2>1 DEF Issues
<1>5. CASE w.op = "flag"
    <2> DEFINE flag == w.v = 1
    <2>1. flag \in BOOLEAN /\ Edited(issue, w) = [issue EXCEPT !.flag = flag]
        BY <1>5 DEF Edited
    <2> HIDE DEF flag
    <2> QED BY <2>1 DEF Issues
<1>6. CASE w.op = "addLabels"
    <2> DEFINE labels == issue.labels \cup w.labels
    <2>1. labels \in SUBSET Tags  BY <1>1, <1>3
    <2>2. Edited(issue, w) = [issue EXCEPT !.labels = labels]
        BY <1>6 DEF Edited, Issues
    <2> HIDE DEF labels
    <2> QED BY <2>1, <2>2 DEF Issues
<1>7. CASE w.op = "removeLabels"
    <2> DEFINE labels == issue.labels \ w.labels
    <2>1. labels \in SUBSET Tags  BY <1>3
    <2>2. Edited(issue, w) = [issue EXCEPT !.labels = labels]
        BY <1>7 DEF Edited, Issues
    <2> HIDE DEF labels
    <2> QED BY <2>1, <2>2 DEF Issues
<1>8. CASE w.op = "update"
    <2> DEFINE title == IF w.title = 0 THEN issue.title ELSE w.title
               notes == IF w.notes = {} THEN issue.notes ELSE w.notes
    <2>1. title \in Nat /\ notes \in SUBSET Remarks  BY <1>1, <1>3
    <2>2. Edited(issue, w) = [issue EXCEPT !.title = title, !.notes = notes]
        BY <1>8 DEF Edited, Issues
    <2> HIDE DEF title, notes
    <2> QED BY <2>1, <2>2 DEF Issues
<1>9. CASE w.op \in {"set", "extend"}
    <2> DEFINE v == IF w.op = "set" THEN w.v ELSE issue.f[w.field] + 1
               f == [issue.f EXCEPT ![w.field] = v]
    <2>1. w.field \in CardFields  BY <1>1, <1>2, <1>9
    <2>2. v \in Nat
        <3>1. issue.f[w.field] \in Nat  BY <1>3, <2>1
        <3>2. issue.f[w.field] + 1 \in Nat  BY <3>1
        <3> QED BY <1>1, <3>2
    <2>3. Edited(issue, w) = [issue EXCEPT !.f = f]
        <3>1. CASE w.op = "set"  BY <2>1, <3>1 DEF Edited, Issues
        <3>2. CASE w.op = "extend"  BY <2>1, <3>2 DEF Edited, Issues
        <3> QED BY <1>9, <3>1, <3>2
    <2> HIDE DEF v
    <2>4. f \in [CardFields -> Nat]  BY <1>3, <2>2
    <2> HIDE DEF f
    <2> QED BY <2>3, <2>4 DEF Issues
<1>10. CASE w.op = "rank"  BY <1>10 DEF Edited
<1> QED BY <1>1, <1>4, <1>5, <1>6, <1>7, <1>8, <1>9, <1>10 DEF Ops

LEMMA SentTyped ==
    ASSUME NEW card \in Cards
    PROVE  Sent(card) \in Issues /\ Sent(card).status \in Statuses
<1> DEFINE sent == {"assignee", "due", "priority", "points", "components", "fixVersions"}
           f == [x \in DOMAIN Empty |-> IF x \in sent THEN card.f[x] ELSE 0]
           base == Issue(card.title)
           notes == card.notes
           labels == card.tags
           parent == card.parent
<1>1. /\ notes \in SUBSET Remarks /\ labels \in SUBSET Tags /\ parent \in Refs
      /\ card.title \in Nat /\ card.f \in [CardFields -> Nat]
    BY DEF Cards
<1>2. f \in [CardFields -> Nat]
    <2> HIDE DEF sent
    <2> QED BY <1>1 DEF Empty
<1>3. base \in Issues /\ base.status \in Statuses
    <2>1. Empty \in [CardFields -> Nat] /\ {} \in SUBSET Remarks /\ {} \in SUBSET Tags
        BY DEF Empty
    <2>2. NoIssue \in Issues  BY <2>1, NoCardIsRef DEF NoIssue, Issues
    <2>3. "Backlog" \in Statuses  BY DEF Statuses
    <2> QED BY <1>1, <2>2, <2>3 DEF Issue, Issues
<1>4. Sent(card) = [base EXCEPT !.notes = notes, !.labels = labels, !.parent = parent, !.f = f]
    BY DEF Sent
<1> HIDE DEF base, f, notes, labels, parent
<1> QED BY <1>1, <1>2, <1>3, <1>4 DEF Issues

LEMMA NewKeyFree ==
    ASSUME \E k \in Keys : ~Exists(k)
    PROVE  NewKey \in Keys /\ ~Exists(NewKey)
<1> DEFINE free == {k \in Keys : ~Exists(k)}
<1>1. free \in SUBSET Nat /\ free # {}  BY DEF Keys
<1> HIDE DEF free
<1>2. \E k \in free : \A j \in free : k <= j  BY <1>1, SmallestExists
<1>3. \E k \in Keys : ~Exists(k) /\ \A j \in Keys : ~Exists(j) => k <= j
    BY <1>2 DEF free
<1> QED BY <1>3 DEF NewKey

\* A request: refused, done, failed, or done although nobody learns of it.
LEMMA WriteInv ==
    ASSUME IInv, NEW c \in Callers, Write(c)
    PROVE  IInv'
<1> DEFINE d == call[c]
           w == Head(d.todo)
           left == Tail(d.todo)
           sent == d.sent + 1
           s == [d EXCEPT !.sent = sent]
           edited == Edited(jira[Target(c).n], w)
           done == IF w.op = "create" THEN [jira EXCEPT ![NewKey] = Sent(w.card)]
                   ELSE [jira EXCEPT ![Target(c).n] = edited]
           failed == [d EXCEPT !.pc = "failed"]
           made == [s EXCEPT !.key = NewKey, !.pc = "rename"]
           went == Progress([s EXCEPT !.todo = left])
<1>1. /\ board \in Boards /\ call \in [Callers -> Calls] /\ \A x \in Callers : Shape(call[x])
      /\ jira \in [Keys -> Issues] /\ \A k \in Keys : Exists(k) => jira[k].status \in Statuses
    BY DEF IInv, TypeOK
<1>2. d \in Calls /\ Shape(d) /\ d.pc = "write"  BY <1>1 DEF Write
<1>3. /\ d.undo \in BOOLEAN /\ d.acts # <<>> /\ d.acts \in Seq(GoodActs(d.undo))
      /\ d.made \in Seq(GoodActs(d.undo)) /\ d.todo \in Seq(GoodRequests) /\ d.todo # <<>>
      /\ d.undo \/ Head(d.acts).a.tool \in CreateTools \/ d.todo \in Seq(Plain)
      /\ d.sent \in Nat
    BY <1>2 DEF Shape, Loose, Calls
<1>4. w \in GoodRequests /\ left \in Seq(GoodRequests)  BY <1>3, HeadTailProperties
<1>5. w.op = "create" => \E k \in Keys : ~Exists(k)  BY DEF Write
<1>6. w.op = "create" => NewKey \in Keys  BY <1>5, NewKeyFree
<1>7. ASSUME Sendable(c)
      PROVE  done \in [Keys -> Issues] /\ \A k \in Keys : done[k] # NoIssue => done[k].status \in Statuses
    <2>1. CASE w.op = "create"
        <3> DEFINE new == Sent(w.card)
        <3>1. w.card \in Cards  BY <1>4, <2>1 DEF GoodRequests, RequestOK
        <3>2. new \in Issues /\ new.status \in Statuses  BY <3>1, SentTyped
        <3>3. done = [jira EXCEPT ![NewKey] = new]  BY <2>1
        <3> HIDE DEF new, done, w
        <3> QED BY <1>1, <3>2, <3>3 DEF Exists
    <2>2. CASE w.op # "create"
        <3> DEFINE k == Target(c).n
        <3>1. w.op # "refuse" /\ Target(c) \in Known  BY <1>7, <2>2 DEF Sendable
        <3>2. k \in Keys /\ Exists(k)  BY <3>1 DEF Known, Key, Ref
        <3>3. edited \in Issues /\ edited.status \in Statuses
            <4>1. jira[k] \in Issues /\ jira[k].status \in Statuses  BY <1>1, <3>2
            <4> HIDE DEF w
            <4> QED BY <1>4, <2>2, <3>1, <4>1, EditedTyped
        <3>4. done = [jira EXCEPT ![k] = edited]  BY <2>2
        <3> HIDE DEF edited, done, k, w
        <3> QED BY <1>1, <3>3, <3>4 DEF Exists
    <2> QED BY <2>1, <2>2
<1>8. \/ ~Sendable(c) /\ call' = [call EXCEPT ![c] = failed] /\ jira' = jira /\ faults' = faults
      \/ /\ Sendable(c) /\ jira' = done /\ faults' = faults
         /\ call' = [call EXCEPT ![c] = IF w.op = "create" THEN made ELSE went]
      \/ /\ Sendable(c) /\ jira' \in {jira, done} /\ faults < MaxFaults /\ faults' = faults + 1
         /\ call' = [call EXCEPT ![c] = failed]
    BY <1>1 DEF Write, Calls
<1>9. jira' \in [Keys -> Issues] /\ \A k \in Keys : Exists(k)' => jira'[k].status \in Statuses
    <2>1. jira' = jira \/ (Sendable(c) /\ jira' = done)  BY <1>8
    <2> HIDE DEF done
    <2> QED BY <1>1, <1>7, <2>1 DEF Exists
<1>10. faults' \in 0 .. MaxFaults
    <2>1. faults \in 0 .. MaxFaults /\ (faults' = faults \/ (faults < MaxFaults /\ faults' = faults + 1))
        BY <1>8 DEF IInv, TypeOK
    <2>2. MaxFaults \in Nat  BY BoundsNat
    <2> QED BY <2>1, <2>2
<1>11. Shape(failed)
    <2>1. /\ failed \in Calls /\ failed.pc = "failed" /\ failed.acts = d.acts /\ failed.made = d.made
          /\ failed.todo = d.todo /\ failed.undo = d.undo
        BY <1>2 DEF Calls, Pcs
    <2> HIDE DEF failed, d
    <2> QED BY <1>3, <2>1 DEF Shape, Loose
<1>12. /\ s \in Calls /\ s.pc = d.pc /\ s.acts = d.acts /\ s.made = d.made /\ s.todo = d.todo
       /\ s.undo = d.undo
    <2>1. sent \in Nat  BY <1>3
    <2> HIDE DEF sent, d
    <2> QED BY <1>2, <2>1 DEF Calls
<1>13. ASSUME w.op = "create"
       PROVE  Shape(made)
    <2>1. NewKey \in 0 .. MaxKey /\ NewKey # 0  BY <1>6, <1>13 DEF Keys
    <2> HIDE DEF s
    <2>2. /\ made \in Calls /\ made.pc = "rename" /\ made.acts = s.acts /\ made.made = s.made
          /\ made.todo = s.todo /\ made.undo = s.undo /\ made.key = NewKey
        BY <1>12, <2>1 DEF Calls, Pcs
    <2> HIDE DEF made, d
    <2> QED BY <1>3, <1>12, <1>13, <2>1, <2>2 DEF Shape, Loose
<1>14. ASSUME w.op # "create"
       PROVE  Shape(went)
    <2> DEFINE m == [s EXCEPT !.todo = left]
    <2>1. left \in Seq(Requests)
        <3>1. GoodRequests \subseteq Requests  BY DEF GoodRequests
        <3> HIDE DEF left
        <3> QED BY <1>4, <3>1, SeqOfSubset
    <2>2. d.todo \in Seq(Plain) => left \in Seq(Plain)  BY <1>3, HeadTailProperties
    <2> HIDE DEF left, s, d, w
    <2>3. m \in Calls /\ m.acts = s.acts /\ m.made = s.made /\ m.todo = left /\ m.undo = s.undo
        BY <1>12, <2>1 DEF Calls
    <2>4. went = Progress(m)  OBVIOUS
    <2> HIDE DEF m, went
    <2>5. Loose(m) /\ m.acts # <<>>  BY <1>3, <1>4, <1>12, <2>3 DEF Loose
    <2> QED BY <1>3, <1>12, <2>2, <2>3, <2>4, <2>5, ProgressShape
<1>15. PICK n : Shape(n) /\ call' = [call EXCEPT ![c] = n]
    <2> HIDE DEF failed, made, went, done, w
    <2> QED BY <1>8, <1>11, <1>13, <1>14
<1>16. call' \in [Callers -> Calls] /\ \A x \in Callers : Shape(call'[x])
    BY <1>1, <1>15, CallStep
<1>17. TypeOK'  BY <1>9, <1>10, <1>16 DEF Write, IInv, TypeOK
<1> QED BY <1>16, <1>17 DEF Write, IInv, Found

\* A refresh: the board becomes what was found, but for the cards that were
\* changed here since the last one.
LEMMA NextIndexTyped ==
    ASSUME NEW cards \in Seq(Cards)
    PROVE  NextCreatedIndex(cards) \in 1 .. MaxLocal + 1
<1> DEFINE local == {c.n : c \in {d \in IdsOf(cards) : d.kind = "local"}}
           last == CHOOSE n \in local : \A m \in local : m <= n
<1>1. local \subseteq 1 .. MaxLocal  BY IdsOfRefs DEF Ids
<1>2. MaxLocal \in Nat  BY IdsAssumption
<1>3. CASE local = {}  BY <1>2, <1>3 DEF NextCreatedIndex
<1>4. CASE local # {}
    <2> HIDE DEF local
    <2>1. local \in SUBSET (0 .. MaxLocal)  BY <1>1, <1>2
    <2>2. last \in local  BY <1>2, <1>4, <2>1, LargestExists
    <2>3. last \in 1 .. MaxLocal  BY <1>1, <2>2
    <2> HIDE DEF last
    <2>4. 1 + last \in 1 .. MaxLocal + 1  BY <1>2, <2>3
    <2> QED BY <1>4, <2>4 DEF NextCreatedIndex, local, last
<1> QED BY <1>3, <1>4

LEMMA NewestTyped ==
    ASSUME NEW list \in Seq(Conflicts)
    PROVE  Newest(list) \in Seq(Conflicts)
<1> DEFINE first == Len(list) - MaxConflicts + 1
<1>1. Len(list) \in Nat /\ MaxConflicts \in Nat  BY BoundsNat, LenProperties
<1>2. CASE Len(list) <= MaxConflicts  BY <1>2 DEF Newest
<1>3. CASE ~(Len(list) <= MaxConflicts)
    <2>1. first \in Int /\ first >= 1  BY <1>1, <1>3
    <2>2. Newest(list) = SubSeq(list, first, Len(list))  BY <1>3 DEF Newest
    <2> HIDE DEF first
    <2>3. \A i \in first .. Len(list) : i \in 1 .. Len(list)  BY <1>1, <2>1
    <2>4. \A i \in first .. Len(list) : list[i] \in Conflicts  BY <2>3, ElementOfSeq
    <2>5. SubSeq(list, first, Len(list)) \in Seq(Conflicts)
        BY <1>1, <2>1, <2>4, SubSeqProperties
    <2> QED BY <2>2, <2>5
<1> QED BY <1>2, <1>3

LEMMA ApplyJiraCardsInv ==
    ASSUME IInv, NEW r \in Refreshers, ApplyJiraCards(r)
    PROVE  IInv'
<1> DEFINE cards == refresh[r].cards
           Local(d) == Of(board.cards, d.id)
           Kept(d) == /\ d.id \in IdsOf(board.cards)
                      /\ Local(d) # d
                      /\ HasLocalMutation(d.id)
           next == [i \in DOMAIN cards |-> IF Kept(cards[i]) THEN Local(cards[i]) ELSE cards[i]]
           S == {i \in DOMAIN cards : Kept(cards[i])}
           kept == At(cards, S)
           more == [i \in DOMAIN kept |-> Conflict(kept[i].id, Local(kept[i]), kept[i])]
           index == NextCreatedIndex(next)
<1>1. /\ board \in Boards /\ board.cards \in Seq(Cards) /\ history \in Seq(Mutations)
      /\ conflicts \in Seq(Conflicts) /\ Found
      /\ refresh \in [Refreshers -> [pc : {"idle", "found"}, cards : Seq(Cards)]]
    BY BoardParts DEF IInv, TypeOK
<1>2. cards \in Seq(Cards) /\ Distinct(cards) /\ \A i \in DOMAIN cards : IsKey(cards[i].id)
    BY <1>1 DEF Found
<1>3. /\ board' = [board EXCEPT !.cards = next, !.next = index]
      /\ conflicts' = Newest(conflicts \o more)
      /\ history' = [i \in DOMAIN history |-> [history[i] EXCEPT !.fresh = FALSE]]
      /\ touched' = FALSE
      /\ refresh' = [refresh EXCEPT ![r] = [pc |-> "idle", cards |-> <<>>]]
    BY Zenon DEF ApplyJiraCards
<1> HIDE DEF cards
<1>4. Len(cards) \in Nat /\ DOMAIN cards = 1 .. Len(cards) /\ \A i \in DOMAIN cards : cards[i] \in Cards
    BY <1>2, LenProperties, ElementOfSeq
<1>5. ASSUME NEW d \in Cards, Kept(d)
      PROVE  Local(d) \in Cards /\ Local(d).id = d.id
    BY <1>1, <1>5, IdsOfRefs
<1>6. ASSUME NEW i \in DOMAIN cards
      PROVE  next[i] \in Cards /\ next[i].id = cards[i].id
    <2> HIDE DEF Kept, Local
    <2> QED BY <1>4, <1>5
<1>7. next \in Seq(Cards) /\ DOMAIN next = DOMAIN cards
    <2>1. DOMAIN next = 1 .. Len(cards) /\ next \in [1 .. Len(cards) -> Cards]
        BY <1>4, <1>6
    <2> HIDE DEF next
    <2> QED BY <1>4, <2>1, FunctionSeq
<1>8. kept \in Seq(Cards) /\ \A i \in DOMAIN kept : kept[i] \in Cards /\ Kept(kept[i])
    <2>1. S \in SUBSET DOMAIN cards /\ \A i \in S : cards[i] \in Cards /\ Kept(cards[i])
        BY <1>4
    <2> HIDE DEF S, Kept
    <2>2. kept \in Seq(Cards) /\ \A i \in DOMAIN kept : Nth(S, i) \in S /\ kept[i] = cards[Nth(S, i)]
        BY <1>2, <2>1, AtTyped
    <2> QED BY <2>1, <2>2
<1> HIDE DEF kept
<1>9. more \in Seq(Conflicts)
    <2>1. ASSUME NEW i \in DOMAIN kept
          PROVE  Conflict(kept[i].id, Local(kept[i]), kept[i]) \in Conflicts
        <3>1. kept[i] \in Cards /\ Local(kept[i]) \in Cards  BY <1>5, <1>8
        <3>2. kept[i].id \in Refs  BY <3>1, IdsAreRefs DEF Cards
        <3> HIDE DEF Local
        <3> QED BY <3>1, <3>2 DEF Conflict, Conflicts
    <2>2. Len(kept) \in Nat /\ DOMAIN kept = 1 .. Len(kept)  BY <1>8, LenProperties
    <2> HIDE DEF Local
    <2>3. more \in [1 .. Len(kept) -> Conflicts]  BY <2>1, <2>2
    <2> HIDE DEF more
    <2> QED BY <2>2, <2>3, FunctionSeq
<1> HIDE DEF more, next
<1>10. conflicts' \in Seq(Conflicts)
    <2>1. conflicts \o more \in Seq(Conflicts)  BY <1>1, <1>9, ConcatProperties
    <2> QED BY <1>3, <2>1, NewestTyped
<1>11. index \in 1 .. MaxLocal + 1  BY <1>7, NextIndexTyped
<1> HIDE DEF index
<1>12. board' \in Boards /\ board'.cards = next  BY <1>1, <1>3, <1>7, <1>11 DEF Boards
<1>13. Ordered(board')
    <2>1. Distinct(next)  BY <1>2, <1>6, <1>7 DEF Distinct
    <2>2. \A i \in DOMAIN next : next[i].id.kind # "local"
        BY <1>2, <1>6, <1>7 DEF IsKey
    <2> QED BY <1>12, <2>1, <2>2 DEF Ordered, HandedOut
<1>14. history' \in Seq(Mutations) /\ \A i \in DOMAIN history' : history'[i].fresh = FALSE
    <2>1. Len(history) \in Nat /\ DOMAIN history = 1 .. Len(history)
          /\ \A i \in DOMAIN history : history[i] \in Mutations
        BY <1>1, LenProperties, ElementOfSeq
    <2>2. \A m \in Mutations : [m EXCEPT !.fresh = FALSE] \in Mutations
                               /\ [m EXCEPT !.fresh = FALSE].fresh = FALSE
        BY DEF Mutations
    <2>3. history' \in [1 .. Len(history) -> Mutations]  BY <1>3, <2>1, <2>2
    <2>4. history' \in Seq(Mutations)  BY <2>1, <2>3, FunctionSeq
    <2> QED BY <1>3, <2>1, <2>2, <2>4
<1>15. /\ refresh' \in [Refreshers -> [pc : {"idle", "found"}, cards : Seq(Cards)]]
       /\ Found'
    <2>1. <<>> \in Seq(Cards) /\ Distinct(<<>>)  BY EmptySeq DEF Distinct
    <2> QED BY <1>1, <1>3, <2>1 DEF Found
<1>16. TypeOK'
    <2>1. touched' \in BOOLEAN /\ \A i \in DOMAIN history' : history'[i].fresh => touched'
        BY <1>3, <1>14
    <2> QED
        BY <1>10, <1>12, <1>14, <1>15, <2>1, Zenon DEF ApplyJiraCards, IInv, TypeOK, Exists, counters
<1> QED BY <1>13, <1>15, <1>16, Zenon DEF ApplyJiraCards, IInv, counters

LEMMA ResolveInv ==
    ASSUME IInv, NEW i \in DOMAIN conflicts, NEW resolution \in {"keep_local", "use_jira"},
           ResolveJiraConflict(i, resolution)
    PROVE  IInv'
<1> DEFINE d == conflicts[i].jira
           at == Find(board, conflicts[i].id)
           settled == [conflicts[i] EXCEPT !.resolution = resolution]
           list == IF at = 0 THEN Append(board.cards, d) ELSE [board.cards EXCEPT ![at] = d]
<1>1. /\ board \in Boards /\ board.cards \in Seq(Cards) /\ touched \in BOOLEAN
      /\ conflicts \in Seq(Conflicts) /\ conflicts[i] \in Conflicts
    BY BoardParts, ElementOfSeq, LenProperties DEF IInv, TypeOK
<1>2. d \in Cards /\ settled \in Conflicts  BY <1>1 DEF Conflicts
<1>3. conflicts' = [conflicts EXCEPT ![i] = settled]  BY <1>1 DEF ResolveJiraConflict
<1>4. \/ board' = [board EXCEPT !.cards = list] /\ touched' = TRUE
      \/ board' = board /\ touched' = touched
    BY <1>1 DEF ResolveJiraConflict, Boards
<1> HIDE DEF settled, d
<1>5. conflicts' \in Seq(Conflicts)  BY <1>1, <1>2, <1>3, ExceptSeq, LenProperties
<1>6. list \in Seq(Cards)
    <2>1. at \in 0 .. Len(board.cards) /\ (at # 0 => at \in 1 .. Len(board.cards))
        BY <1>1, FindFound
    <2> HIDE DEF at
    <2>2. CASE at = 0  BY <1>1, <1>2, <2>2, AppendProperties
    <2>3. CASE at # 0  BY <1>1, <1>2, <2>1, <2>3, ExceptSeq
    <2> QED BY <2>2, <2>3
<1> HIDE DEF list
<1>7. board' \in Boards  BY <1>1, <1>4, <1>6 DEF Boards
<1>8. resolves' \in 0 .. MaxResolves /\ resolves' # 0
    <2>1. resolves \in 0 .. MaxResolves /\ resolves < MaxResolves /\ resolves' = resolves + 1
        BY DEF ResolveJiraConflict, IInv, TypeOK
    <2>2. MaxResolves \in Nat  BY BoundsNat
    <2> QED BY <2>1, <2>2
<1>9. touched' \in BOOLEAN /\ (touched => touched')  BY <1>1, <1>4
<1>10. TypeOK'
    BY <1>5, <1>7, <1>8, <1>9 DEF ResolveJiraConflict, IInv, TypeOK, Exists
<1> QED BY <1>8, <1>10 DEF ResolveJiraConflict, IInv, Found

\* An undo: what it writes through are actions on cards of the two boards.
LEMMA UndoActTyped ==
    ASSUME board \in Boards, NEW tool \in UndoTools, NEW card \in Cards
    PROVE  UndoAct(tool, card) \in GoodActs(TRUE)
<1> DEFINE id == card.id
           named == [NoArgs EXCEPT !.tool = tool, !.card = id]
           plain == Act(named, Refused(board))
           n == [plain EXCEPT !.card = card]
<1>1. id \in Refs  BY IdsAreRefs DEF Cards
<1>2. NoArgs \in Args
    <2>1. {} \in SUBSET Remarks /\ {} \in SUBSET Tags  OBVIOUS
    <2> QED BY <2>1, NoCardIsRef DEF NoArgs, Args, Places
<1>3. UndoAct(tool, card) = n  BY DEF UndoAct
<1> HIDE DEF id
<1>4. named \in Args /\ named.tool = tool  BY <1>1, <1>2 DEF Args
<1> HIDE DEF named
<1>5. Refused(board) \in Outs /\ Refused(board).moved = FALSE
    BY RefusedGood DEF Good, Refused
<1> DEFINE out == Refused(board)
           made == [a |-> named, id |-> out.id, other |-> out.other, place |-> out.place,
                    status |-> out.status, moved |-> out.moved, notes |-> out.notes,
                    tags |-> out.tags, card |-> Nothing]
<1>6. plain = made  BY <1>4 DEF Act, Nothing, UndoTools
<1> HIDE DEF out, plain
<1>7. made \in Acts /\ made.a = named /\ made.moved = FALSE
    BY <1>4, <1>5 DEF out, Outs, Acts
<1> HIDE DEF made
<1>8. n \in Acts /\ n.a = named /\ n.moved = FALSE /\ n.card = card
    BY <1>6, <1>7 DEF Acts
<1> HIDE DEF n
<1> QED BY <1>3, <1>4, <1>8 DEF GoodActs, ActOK

LEMMA UndoActsTyped ==
    ASSUME board \in Boards, NEW r \in Mutations
    PROVE  UndoActs(r) \in Seq(GoodActs(TRUE))
<1> DEFINE Only(cards, ids) == At(cards, {i \in DOMAIN cards : cards[i].id \in ids})
           ActsOf(cards, tool) == [i \in DOMAIN cards |-> UndoAct(tool, cards[i])]
           S == GoodActs(TRUE)
           gone == IdsOf(r.after) \ IdsOf(r.before)
           both == IdsOf(r.after)
           lost == IdsOf(r.before) \ IdsOf(r.after)
           close == ActsOf(Only(r.after, gone), "close")
           restore == ActsOf(Only(r.before, both), "restore")
           recreate == ActsOf(Only(r.before, lost), "recreate")
<1>1. UndoActs(r) = close \o restore \o recreate  BY DEF UndoActs
<1>2. r.before \in Seq(Cards) /\ r.after \in Seq(Cards)  BY DEF Mutations
<1>3. ASSUME NEW cards \in Seq(Cards), NEW ids
      PROVE  Only(cards, ids) \in Seq(Cards)
    <2> DEFINE I == {i \in DOMAIN cards : cards[i].id \in ids}
    <2>1. I \in SUBSET DOMAIN cards  OBVIOUS
    <2> HIDE DEF I
    <2>2. At(cards, I) \in Seq(Cards)  BY <2>1, AtTyped
    <2> QED BY <2>2 DEF I
<1>4. ASSUME NEW cards \in Seq(Cards), NEW tool \in UndoTools
      PROVE  ActsOf(cards, tool) \in Seq(S)
    <2>1. Len(cards) \in Nat /\ DOMAIN cards = 1 .. Len(cards) /\ \A i \in DOMAIN cards : cards[i] \in Cards
        BY LenProperties, ElementOfSeq
    <2>2. \A i \in DOMAIN cards : UndoAct(tool, cards[i]) \in S  BY <2>1, UndoActTyped
    <2> HIDE DEF S
    <2>3. ActsOf(cards, tool) \in [1 .. Len(cards) -> S]  BY <2>1, <2>2
    <2> HIDE DEF ActsOf
    <2> QED BY <2>1, <2>3, FunctionSeq
<1>5. "close" \in UndoTools /\ "restore" \in UndoTools /\ "recreate" \in UndoTools
    BY DEF UndoTools
<1> HIDE DEF gone, both, lost, Only, ActsOf, S
<1>6. close \in Seq(S) /\ restore \in Seq(S) /\ recreate \in Seq(S)
    BY <1>2, <1>3, <1>4, <1>5
<1> HIDE DEF close, restore, recreate
<1>7. close \o restore \o recreate \in Seq(S)  BY <1>6, ConcatProperties
<1> QED BY <1>1, <1>7 DEF S

LEMMA UndoInv ==
    ASSUME IInv, NEW c \in Callers, UndoLastMutation(c)
    PROVE  IInv'
<1> DEFINE target == CHOOSE i \in Undoable : \A j \in Undoable : j <= i
           r == history[target]
           taken == [r EXCEPT !.undone = TRUE]
           old == [history EXCEPT ![target] = taken]
           ids == ChangedCardIDs(board.cards, r.before, NoCard)
           entry == [tool |-> "undo_last_mutation", fresh |-> TRUE, undone |-> FALSE,
                     ids |-> ids, before |-> board.cards, after |-> r.before]
           acts == UndoActs(r)
           before == r.before
           n == [Idle EXCEPT !.acts = acts, !.undo = TRUE, !.required = TRUE]
<1>1. /\ board \in Boards /\ board.cards \in Seq(Cards) /\ history \in Seq(Mutations)
      /\ call \in [Callers -> Calls] /\ \A x \in Callers : Shape(call[x])
    BY BoardParts DEF IInv, TypeOK
<1>2. Len(history) \in Nat /\ DOMAIN history = 1 .. Len(history)
    BY <1>1, LenProperties
<1>3. target \in DOMAIN history /\ r \in Mutations
    <2>1. Undoable # {}  BY DEF UndoLastMutation
    <2>2. Undoable \in SUBSET (0 .. Len(history)) /\ Undoable \subseteq DOMAIN history
        BY <1>2 DEF Undoable
    <2>3. target \in Undoable  BY <1>2, <2>1, <2>2, LargestExists
    <2> HIDE DEF target
    <2> QED BY <1>1, <1>2, <2>2, <2>3, ElementOfSeq
<1>4. /\ board' = [board EXCEPT !.cards = before]
      /\ touched' = TRUE
      /\ history' = Append(old, entry)
      /\ call' = [call EXCEPT ![c] = Settled(n)]
    <2>1. [history EXCEPT ![target].undone = TRUE] = old  BY <1>3
    <2> QED BY <2>1 DEF UndoLastMutation
<1> HIDE DEF target
<1>5. before \in Seq(Cards) /\ taken \in Mutations  BY <1>3 DEF Mutations
<1>6. ids \in SUBSET Refs  BY <1>1, <1>5, NoCardIsRef, ChangedIdsTyped
<1>7. acts \in Seq(GoodActs(TRUE))  BY <1>1, <1>3, UndoActsTyped
<1> HIDE DEF taken, ids
<1>8. entry \in Mutations  BY <1>1, <1>5, <1>6 DEF Mutations
<1> HIDE DEF before, r, entry, acts
<1>9. old \in Seq(Mutations)  BY <1>1, <1>3, <1>5, <1>2, ExceptSeq
<1> HIDE DEF old
<1>10. history' \in Seq(Mutations)  BY <1>4, <1>8, <1>9, AppendProperties
<1>11. board' \in Boards  BY <1>1, <1>4, <1>5 DEF Boards
<1>12. Loose(n)
    <2>1. acts \in Seq(Acts)  BY <1>7, OfGoodActs
    <2>2. /\ n \in Calls /\ n.acts = acts /\ n.made = <<>> /\ n.todo = <<>> /\ n.undo = TRUE
        BY <2>1, IdleShape DEF Calls
    <2> HIDE DEF n
    <2> QED BY <1>7, <2>2, EmptySeq DEF Loose
<1> HIDE DEF n
<1>13. call' \in [Callers -> Calls] /\ \A x \in Callers : Shape(call'[x])
    <2>1. Shape(Settled(n))  BY <1>12, SettledShape
    <2> QED BY <1>1, <1>4, <2>1, CallStep
<1>14. calls' \in 0 .. MaxCalls
    <2>1. calls \in 0 .. MaxCalls /\ calls < MaxCalls /\ calls' = calls + 1
        BY DEF UndoLastMutation, IInv, TypeOK
    <2>2. MaxCalls \in Nat  BY BoundsNat
    <2> QED BY <2>1, <2>2
<1>15. undos' \in 0 .. MaxUndos /\ undos' # 0
    <2>1. undos \in 0 .. MaxUndos /\ undos < MaxUndos /\ undos' = undos + 1
        BY DEF UndoLastMutation, IInv, TypeOK
    <2>2. MaxUndos \in Nat  BY BoundsNat
    <2> QED BY <2>1, <2>2
<1>16. TypeOK'
    <2>1. touched' \in BOOLEAN /\ \A i \in DOMAIN history' : history'[i].fresh => touched'
        BY <1>4
    <2> QED
        BY <1>10, <1>11, <1>13, <1>14, <1>15, <2>1 DEF UndoLastMutation, IInv, TypeOK, Exists
<1> QED BY <1>13, <1>15, <1>16 DEF UndoLastMutation, IInv, Found

LEMMA NextInv == IInv /\ [Next]_vars => IInv'
<1> SUFFICES ASSUME IInv, [Next]_vars
             PROVE  IInv'
    OBVIOUS
<1>1. CASE UNCHANGED vars  BY <1>1 DEF vars, IInv, TypeOK, Exists, Found
<1>2. ASSUME NEW c \in Callers, Begin(c) \/ UndoLastMutation(c) \/ Sync(c)
      PROVE  IInv'
    BY <1>2, BeginInv, UndoInv, ApplyNextInv, RecordedInv, StartSyncInv, WriteInv, RenameInv,
       FailureInv DEF Sync
<1>3. ASSUME NEW r \in Refreshers, Search(r) \/ ApplyJiraCards(r)
      PROVE  IInv'
    BY <1>3, SearchInv, ApplyJiraCardsInv
<1>4. ASSUME NEW i \in DOMAIN conflicts, NEW resolution \in {"keep_local", "use_jira"},
             ResolveJiraConflict(i, resolution)
      PROVE  IInv'
    BY <1>4, ResolveInv
<1>5. ASSUME NEW k \in Keys, NEW status \in {"In Progress"}, EditInJira(k, status)
      PROVE  IInv'
    BY <1>5, EditInJiraInv DEF Statuses
<1> QED BY <1>1, <1>2, <1>3, <1>4, <1>5 DEF Next

----------------------------------------------------------------------------
\* The theorems

\* Every variable keeps its type: no call is left without something to go on
\* with, every request has the field, status or card it is about, and an issue
\* that exists has a status, whatever tools, undos, refreshes, resolutions and
\* failed requests come between (jira.go, jira_ext.go, jira_conflicts.go).
THEOREM TypeCorrect == Spec => []TypeOK
<1>1. IInv => TypeOK  BY DEF IInv
<1> QED BY <1>1, InitInv, NextInv, PTL DEF Spec

\* While nothing was undone and no conflict was resolved, no two cards have
\* one id, however refreshes, renames and the reuse of local ids fall together
\* (board.go, createCardIDLocked and renameCardID; jira.go, ApplyJiraCards).
THEOREM IdsStayDistinct == Spec => [](undos = 0 /\ resolves = 0 => IdsDistinct)
<1>1. IInv => (undos = 0 /\ resolves = 0 => IdsDistinct)
    BY DEF IInv, Ordered, Distinct, IdsDistinct
<1> QED BY <1>1, InitInv, NextInv, PTL DEF Spec

\* A tool call that changed the board is kept with the caller until it is
\* recorded; only the change itself puts it there.
LEMMA MadeKept ==
    ASSUME NEW d \in Calls
    PROVE  /\ Settled(d).made \in {d.made, <<>>}
           /\ Finish(d).made \in {d.made, <<>>}
           /\ Progress(d).made \in {d.made, <<>>}
<1>1. ASSUME NEW e, e.made = d.made, [e EXCEPT !.pc = "sync"].made = d.made
      PROVE  Settled(e).made \in {d.made, <<>>}
    <2> DEFINE answer == IF ~e.required THEN "local_only"
                         ELSE IF e.failed THEN "api_failed" ELSE "api_confirmed"
               told == [Idle EXCEPT !.answer = answer, !.sent = e.sent, !.bad = e.bad]
    <2>1. told.made = <<>>  BY DEF Idle
    <2>2. Settled(e) = [e EXCEPT !.pc = "sync"] \/ Settled(e) = told  BY DEF Settled
    <2> HIDE DEF told
    <2> QED BY <1>1, <2>1, <2>2
<1>2. Settled(d).made \in {d.made, <<>>}  BY <1>1 DEF Calls
<1>3. Finish(d).made \in {d.made, <<>>}
    <2> DEFINE left == Tail(d.acts)
               m == [d EXCEPT !.acts = left, !.todo = <<>>, !.key = 0]
    <2>1. Finish(d) = Settled(m)  BY DEF Finish, Calls
    <2> HIDE DEF left
    <2>2. m.made = d.made /\ [m EXCEPT !.pc = "sync"].made = d.made  BY DEF Calls
    <2> HIDE DEF m
    <2> QED BY <1>1, <2>1, <2>2
<1>4. Progress(d).made \in {d.made, <<>>}
    <2>1. [d EXCEPT !.pc = "write"].made = d.made  BY DEF Calls
    <2> QED BY <1>3, <2>1 DEF Progress
<1> QED BY <1>2, <1>3, <1>4

LEMMA OnlyApplyMakes ==
    ASSUME IInv, [Next]_vars, NEW c \in Callers, call[c].made = <<>>, call'[c].made # <<>>
    PROVE  \E asked \in Seq(Args), acts \in Seq(GoodActs(FALSE)) :
              asked # <<>> /\ Apply(c, asked, acts)
<1>1. /\ call \in [Callers -> Calls] /\ \A x \in Callers : Shape(call[x])
      /\ board \in Boards /\ history \in Seq(Mutations)
    BY DEF IInv, TypeOK
<1> DEFINE d == call[c]
<1>2. d \in Calls /\ Shape(d)  BY <1>1
<1>3. call' # call  OBVIOUS
<1>4. PICK x \in Callers : Begin(x) \/ UndoLastMutation(x) \/ Sync(x)
    BY <1>3, Zenon DEF Next, vars, Search, ApplyJiraCards, ResolveJiraConflict, EditInJira
<1>5. PICK n : call' = [call EXCEPT ![x] = n]
    <2>1. CASE Begin(x)  BY <2>1 DEF Begin, Apply
    <2>2. CASE UndoLastMutation(x)  BY <2>2 DEF UndoLastMutation
    <2>3. CASE ApplyNext(x)  BY <2>3 DEF ApplyNext, Apply
    <2>4. CASE RecordMutation(x)  BY <1>1, <2>4 DEF RecordMutation, Calls
    <2>5. CASE StartSync(x)  BY <2>5 DEF StartSync
    <2>6. CASE Write(x)  BY <1>1, <2>6 DEF Write, Calls
    <2>7. CASE Rename(x)  BY <2>7 DEF Rename
    <2>8. CASE RecordJiraSyncFailure(x)  BY <2>8 DEF RecordJiraSyncFailure
    <2> QED BY <1>4, <2>1, <2>2, <2>3, <2>4, <2>5, <2>6, <2>7, <2>8 DEF Sync
<1>6. x = c  BY <1>1, <1>5
<1>7. CASE Begin(c)
    <2>1. PICK asked \in Asks : Apply(c, asked, <<>>)  BY <1>7 DEF Begin
    <2>2. asked \in Seq(Args) /\ asked # <<>> /\ <<>> \in Seq(GoodActs(FALSE))
        BY AsksAssumption, EmptySeq
    <2> QED BY <2>1, <2>2
<1>8. CASE ApplyNext(c)
    <2>1. d.pc = "apply" /\ Apply(c, d.asked, d.acts)  BY <1>8 DEF ApplyNext
    <2>2. d.undo = FALSE  BY <1>2, <2>1 DEF Shape, Calls
    <2>3. d.asked \in Seq(Args) /\ d.asked # <<>> /\ d.acts \in Seq(GoodActs(FALSE))
        BY <1>2, <2>1, <2>2 DEF Shape, Loose, Calls
    <2> QED BY <2>1, <2>3
<1>9. CASE UndoLastMutation(c)
    <2> DEFINE r == history[CHOOSE i \in Undoable : \A j \in Undoable : j <= i]
               acts == UndoActs(r)
               m == [Idle EXCEPT !.acts = acts, !.undo = TRUE, !.required = TRUE]
    <2>1. call'[c] = Settled(m)  BY <1>1, <1>9 DEF UndoLastMutation
    <2>2. r \in Mutations
        <3>1. Len(history) \in Nat /\ DOMAIN history = 1 .. Len(history)
            BY <1>1, LenProperties
        <3>2. Undoable # {}  BY <1>9 DEF UndoLastMutation
        <3>4. Undoable \in SUBSET (0 .. Len(history)) /\ Undoable \subseteq DOMAIN history
            BY <3>1 DEF Undoable
        <3>3. (CHOOSE i \in Undoable : \A j \in Undoable : j <= i) \in Undoable
            BY <3>1, <3>2, <3>4, LargestExists
        <3> QED BY <1>1, <3>1, <3>3, <3>4, ElementOfSeq
    <2>3. acts \in Seq(Acts)  BY <1>1, <2>2, UndoActsTyped, OfGoodActs
    <2> HIDE DEF acts
    <2>4. m \in Calls /\ m.made = <<>>  BY <2>3, IdleShape DEF Calls
    <2> HIDE DEF m
    <2> QED BY <2>1, <2>4, MadeKept
<1>10. CASE RecordMutation(c)  BY <1>2, <1>10, <1>1 DEF RecordMutation, Shape
<1>11. CASE StartSync(c)
    <2> DEFINE act == Head(d.acts)
               todo == IF RequiresSync(act) THEN Writes(act) ELSE <<>>
               required == d.required \/ RequiresSync(act)
               m == [d EXCEPT !.todo = todo, !.required = required]
    <2>1. call'[c] = Progress(m)  BY <1>1, <1>11 DEF StartSync, Calls
    <2>2. GoodRequests \subseteq Requests  BY DEF GoodRequests
    <2> HIDE DEF d
    <2>3. d.acts \in Seq(GoodActs(d.undo)) /\ d.acts # <<>> /\ d.undo \in BOOLEAN /\ d.required \in BOOLEAN
        BY <1>2, <1>11 DEF d, Shape, Loose, Calls, StartSync
    <2>4. act \in GoodActs(d.undo)  BY <2>3, HeadTailProperties
    <2> HIDE DEF act
    <2>5. todo \in Seq(Requests)
        <3>1. Writes(act) \in Seq(GoodRequests)  BY <1>1, <2>3, <2>4, WritesTyped
        <3>2. Writes(act) \in Seq(Requests)  BY <2>2, <3>1, SeqOfSubset
        <3> QED BY <3>2, EmptySeq
    <2>6. required \in BOOLEAN  BY <2>3 DEF RequiresSync
    <2> HIDE DEF todo, required
    <2>7. m \in Calls /\ m.made = d.made  BY <1>2, <2>5, <2>6 DEF Calls
    <2> HIDE DEF m
    <2> QED BY <2>1, <2>7, MadeKept DEF d
<1>12. CASE Write(c) \/ Rename(c)
    <2> DEFINE left == Tail(d.todo)
               sent == d.sent + 1
               s == [d EXCEPT !.sent = sent]
               m == [d EXCEPT !.todo = left]
               o == [s EXCEPT !.todo = left]
    <2>1. \/ call'[c] = [d EXCEPT !.pc = "failed"]
          \/ call'[c] = [s EXCEPT !.key = NewKey, !.pc = "rename"]
          \/ call'[c] = Progress(m) \/ call'[c] = Progress(o)
        <3>1. CASE Write(c)
            <4>1. \/ call' = [call EXCEPT ![c].pc = "failed"]
                  \/ call' = [call EXCEPT ![c] = [s EXCEPT !.key = NewKey, !.pc = "rename"]]
                  \/ call' = [call EXCEPT ![c] = Progress(o)]
                BY <1>1, <3>1 DEF Write
            <4> HIDE DEF s, o
            <4>2. call[c] = d  OBVIOUS
            <4> HIDE DEF d
            <4> QED BY <1>1, <4>1, <4>2
        <3>2. CASE Rename(c)
            <4>1. call' = [call EXCEPT ![c] = Progress(m)]  BY <1>1, <3>2 DEF Rename
            <4> HIDE DEF m
            <4> QED BY <1>1, <4>1
        <3> QED BY <1>12, <3>1, <3>2
    <2> HIDE DEF d
    <2>2. d.todo \in Seq(Requests) /\ d.todo # <<>> /\ d.sent \in Nat
        BY <1>2, <1>12 DEF d, Shape, Calls, Write, Rename
    <2>3. left \in Seq(Requests) /\ sent \in Nat  BY <2>2, HeadTailProperties
    <2> HIDE DEF left, sent
    <2>4. m \in Calls /\ m.made = d.made /\ s \in Calls /\ s.made = d.made
        BY <1>2, <2>3 DEF Calls
    <2> HIDE DEF s, m
    <2>5. o \in Calls /\ o.made = d.made  BY <2>3, <2>4 DEF Calls
    <2>6. [d EXCEPT !.pc = "failed"].made = d.made  BY <1>2 DEF Calls
    <2>7. [s EXCEPT !.key = NewKey, !.pc = "rename"].made = d.made  BY <2>4 DEF Calls
    <2> HIDE DEF o
    <2> QED BY <2>1, <2>4, <2>5, <2>6, <2>7, MadeKept DEF d
<1>13. CASE RecordJiraSyncFailure(c)
    <2> DEFINE bad == d.bad + 1
               m == [d EXCEPT !.failed = TRUE, !.bad = bad]
    <2>1. call'[c] = Finish(m)  BY <1>1, <1>13 DEF RecordJiraSyncFailure, Calls
    <2>2. bad \in Nat  BY <1>2 DEF Calls
    <2> HIDE DEF d, bad
    <2>3. m \in Calls /\ m.made = d.made  BY <1>2, <2>2 DEF Calls
    <2> HIDE DEF m
    <2> QED BY <2>1, <2>3, MadeKept DEF d
<1> QED BY <1>4, <1>6, <1>7, <1>8, <1>9, <1>10, <1>11, <1>12, <1>13 DEF Sync

LEMMA RankedStep ==
    ASSUME IInv, IdsDistinct, [Next]_vars, NEW c \in Callers
    PROVE  Ranked(c)
<1> DEFINE ranked(act) ==
               act.a.tool \in {"prioritize_ticket", "rank_issue"} /\ act.a.place # ""
           right(act) ==
               /\ Placed(board, act.a, act.id, board'.cards)
               /\ RemoveAt(board.cards, Position(board.cards, act.id))
                  = RemoveAt(board'.cards, Position(board'.cards, act.id))
           done == call'[c].made
<1>a. Ranked(c) <=> \A i \in DOMAIN done : call[c].made = <<>> /\ ranked(done[i]) => right(done[i])
    BY DEF Ranked
<1> HIDE DEF ranked, right
<1>b. SUFFICES ASSUME call[c].made = <<>>, NEW j \in DOMAIN done, ranked(done[j])
               PROVE  right(done[j])
    BY <1>a
<1>c. done # <<>>  BY <1>b
<1>1. PICK asked \in Seq(Args), acts \in Seq(GoodActs(FALSE)) :
          asked # <<>> /\ Apply(c, asked, acts)
    BY <1>b, <1>c, OnlyApplyMakes
<1> DEFINE a == Head(asked)
           rest == Tail(asked)
           r == Resolved(a)
           s == Stored(a)
           out == ApplyTool(board, r)
           act == Act(s, out)
           before == board.cards
           made == <<act>>
           next == [Idle EXCEPT !.asked = rest, !.acts = acts]
           recorded == [next EXCEPT !.pc = "record", !.before = before, !.made = made]
           going == [next EXCEPT !.pc = "apply"]
<1>2. /\ board \in Boards /\ history \in Seq(Mutations) /\ call \in [Callers -> Calls]
      /\ Distinct(board.cards)
    BY DEF IInv, TypeOK, IdsDistinct, Distinct
<1>3. a \in Args /\ rest \in Seq(Args)  BY <1>1, HeadTailProperties
<1>4. /\ r \in Args /\ r.tool = s.tool /\ r.tool = a.tool
      /\ s.tool \in {"prioritize_ticket", "rank_issue"} => s = r
    <2> HIDE DEF a
    <2>1. r \in Args /\ r.tool = s.tool  BY <1>2, <1>3, ResolvedTyped
    <2>2. s = r \/ (s = a /\ a.tool \notin Confirmed)  BY DEF Stored
    <2>3. r.tool = a.tool
        BY <1>2, <1>3, ResolvedTyped, CanonicalizeTyped, LatestTyped DEF Resolved
    <2> QED BY <2>1, <2>2, <2>3 DEF Confirmed
<1>5. /\ board' = out.board
      /\ call'[c] = IF out.changed THEN recorded
                    ELSE IF next.asked # <<>> THEN going ELSE Settled(next)
    <2> HIDE DEF next
    <2> QED BY <1>1, <1>2 DEF Apply, next
<1> HIDE DEF a, rest, r, s, out, act, before, made
<1>6. next \in Calls /\ next.made = <<>>
    <2>1. acts \in Seq(Acts)  BY OfGoodActs
    <2> QED BY <1>3, <2>1, IdleShape DEF Calls
<1> HIDE DEF next
<1>7. recorded.made = made /\ going.made = <<>>  BY <1>6 DEF Calls
<1>8. Settled(next).made = <<>>  BY <1>6, MadeKept
<1> HIDE DEF recorded, going
<1>9. ApplyTool(board, r).changed /\ call'[c].made = <<act>>
    BY <1>5, <1>7, <1>8, <1>c DEF out, made
<1>10. act.a = s /\ act.id = out.id  BY DEF act, Act
<1>11. done[j] = act  BY <1>9, <1>b
<1>12. act.a.tool \in {"prioritize_ticket", "rank_issue"} /\ act.a.place # ""
    BY <1>b, <1>11 DEF ranked
<1>13. s = r  BY <1>4, <1>10, <1>12, ZenonT(30)
<1>14. PICK follow \in BOOLEAN : out = ReorderTicket(board, r, follow)
    BY <1>10, <1>12, <1>13 DEF ApplyTool, out
<1>15. right(act)
    <2>1. r \in Args /\ board \in Boards /\ Distinct(board.cards)  BY <1>2, <1>4
    <2>2. out.changed /\ r.place # ""  BY <1>9, <1>10, <1>12, <1>13 DEF out
    <2>3. /\ Placed(board, r, out.id, out.board.cards)
          /\ RemoveAt(board.cards, Position(board.cards, out.id))
             = RemoveAt(out.board.cards, Position(out.board.cards, out.id))
        BY <1>14, <2>1, <2>2, ReorderGood
    <2>4. act.a = r /\ act.id = out.id /\ board' = out.board  BY <1>5, <1>10, <1>13
    <2> QED BY <2>3, <2>4 DEF right
<1> QED BY <1>11, <1>15

\* Where ids are distinct, a ranked card stands where it was asked for and no
\* other card has changed its place, also when the references are titles, old
\* ids or left out, and whatever the board has become meanwhile
\* (board.go, reorderTicket; scrum_tools.go).
THEOREM RankedWhereAsked == Spec /\ []IdsDistinct => PlacedWhereAsked
<1>1. IInv /\ IdsDistinct /\ [Next]_vars => [\A c \in Callers : Ranked(c)]_vars
    BY RankedStep
<1> QED BY <1>1, InitInv, NextInv, PTL DEF Spec, PlacedWhereAsked

-----------------------------------------------------------------------------
(* What becomes of an issue by the requests that are still to be made.     *)

LEMMA LikeShows ==
    ASSUME NEW s \in Issues, NEW d \in Cards, NEW F
    PROVE  Like(s, d, F) <=> /\ ShownStatus(s) = d.status /\ s.title = d.title
                             /\ \A x \in F : s.f[x] = d.f[x]
BY ConfigAssumption DEF Like, Coming, ShownStatus, Issues

LEMMA ShownIs ==
    ASSUME NEW s \in Issues, NEW k
    PROVE  /\ CardOf(k, s).status = ShownStatus(s) /\ CardOf(k, s).title = s.title
           /\ \A x \in Single : CardOf(k, s).f[x] = s.f[x]
<1> DEFINE plain == Card(Key(k), ShownStatus(s), s.title)
           f == [s.f EXCEPT !["remoteLinks"] = 0, !["watchers"] = 0]
<1>1. CardOf(k, s) = [plain EXCEPT !.notes = s.notes, !.tags = s.labels,
                                   !.parent = s.parent, !.f = f]
    BY DEF CardOf, ShownStatus
<1>2. /\ plain.status = ShownStatus(s) /\ plain.title = s.title
      /\ plain = [id |-> plain.id, status |-> plain.status, title |-> plain.title,
                  notes |-> plain.notes, tags |-> plain.tags, parent |-> plain.parent,
                  own |-> plain.own, f |-> plain.f]
    BY DEF Card
<1>3. \A x \in Single : f[x] = s.f[x]  BY DEF Issues, CardFields, Single, Lists
<1> HIDE DEF plain, f
<1> QED BY <1>1, <1>2, <1>3

\* One request, and what it leaves of the attributes.
LEMMA EditedShows ==
    ASSUME NEW s \in Issues, NEW w \in GoodRequests, w.op \notin {"refuse", "create"}
    PROVE  LET n == Edited(s, w) IN
           /\ n.title = IF w.op = "update" /\ w.title # 0 THEN w.title ELSE s.title
           /\ n.status = IF w.op = "transition" THEN w.status ELSE s.status
           /\ n.flag = IF w.op = "flag" THEN w.v = 1 ELSE s.flag
           /\ \A x \in CardFields : n.f[x] = IF w.op = "set" /\ w.field = x THEN w.v
                                   ELSE IF w.op = "extend" /\ w.field = x THEN s.f[x] + 1
                                   ELSE s.f[x]
<1> DEFINE n == Edited(s, w)
<1>1. w \in Requests /\ RequestOK(w)  BY DEF GoodRequests
<1>2. w.op \in Ops /\ w.op \notin {"refuse", "create"}  BY <1>1 DEF Requests
<1>3. CASE w.op = "transition"
    <2>1. n = [s EXCEPT !.status = w.status]  BY <1>3 DEF Edited
    <2> QED BY <1>3, <2>1 DEF Issues
<1>4. CASE w.op = "flag"
    <2>1. n = [s EXCEPT !.flag = w.v = 1]  BY <1>4 DEF Edited
    <2> QED BY <1>4, <2>1 DEF Issues
<1>5. CASE w.op \in {"addLabels", "removeLabels"}
    <2>1. n = [s EXCEPT !.labels = @ \cup w.labels] \/ n = [s EXCEPT !.labels = @ \ w.labels]
        BY <1>5 DEF Edited
    <2> QED BY <1>5, <2>1 DEF Issues
<1>6. CASE w.op = "update"
    <2>1. n = [s EXCEPT !.title = IF w.title = 0 THEN @ ELSE w.title,
                        !.notes = IF w.notes = {} THEN @ ELSE w.notes]
        BY <1>6 DEF Edited
    <2> QED BY <1>6, <2>1 DEF Issues
<1>7. CASE w.op = "set"
    <2>1. n = [s EXCEPT !.f[w.field] = w.v] /\ w.field \in CardFields
        BY <1>1, <1>7 DEF Edited, RequestOK, Requests
    <2> QED BY <1>7, <2>1 DEF Issues
<1>8. CASE w.op = "extend"
    <2> DEFINE field == w.field
               more == s.f[field] + 1
               f == [s.f EXCEPT ![field] = more]
    <2>1. n = [s EXCEPT !.f[field] = more] /\ field \in CardFields
        BY <1>1, <1>8 DEF Edited, RequestOK, Requests
    <2>2. \A x \in CardFields : f[x] = IF field = x THEN more ELSE s.f[x]
        BY <2>1 DEF Issues
    <2>3. \A x \in CardFields : f[x] = IF field = x THEN s.f[x] + 1 ELSE s.f[x]
        BY <2>2
    <2>4. n = [s EXCEPT !.f = f]  BY <2>1 DEF Issues
    <2> HIDE DEF f, field
    <2>5. n.title = s.title /\ n.status = s.status /\ n.flag = s.flag /\ n.f = f
        BY <2>4 DEF Issues
    <2> HIDE DEF n
    <2>6. \A x \in CardFields : n.f[x] = IF w.op = "extend" /\ w.field = x THEN s.f[x] + 1 ELSE s.f[x]
        BY <1>8, <2>3, <2>5 DEF field
    <2>7. w.op # "set" /\ w.op # "update" /\ w.op # "transition" /\ w.op # "flag"
        BY <1>8
    <2>8. \A x \in CardFields : n.f[x] = IF w.op = "set" /\ w.field = x THEN w.v
                              ELSE IF w.op = "extend" /\ w.field = x THEN s.f[x] + 1
                              ELSE s.f[x]
        BY <2>6, <2>7
    <2> QED BY <2>5, <2>7, <2>8 DEF n
<1>9. CASE w.op = "rank"
    <2>1. n = s  BY <1>9 DEF Edited
    <2> QED BY <1>9, <2>1
<1> QED BY <1>2, <1>3, <1>4, <1>5, <1>6, <1>7, <1>8, <1>9 DEF Ops

\* So a request that was made brings the issue nearer to the card.
LEMMA ComingStep ==
    ASSUME NEW s \in Issues, NEW d \in Cards, NEW F, F \subseteq CardFields,
           NEW w \in GoodRequests, w.op \notin {"refuse", "create"},
           NEW V, Coming({w} \cup V, s, d, F)
    PROVE  Coming(V, Edited(s, w), d, F)
<1> DEFINE n == Edited(s, w)
<1>1. /\ n.title = IF w.op = "update" /\ w.title # 0 THEN w.title ELSE s.title
      /\ n.status = IF w.op = "transition" THEN w.status ELSE s.status
      /\ n.flag = IF w.op = "flag" THEN w.v = 1 ELSE s.flag
      /\ \A x \in CardFields : n.f[x] = IF w.op = "set" /\ w.field = x THEN w.v
                              ELSE IF w.op = "extend" /\ w.field = x THEN s.f[x] + 1
                              ELSE s.f[x]
    BY EditedShows
<1> HIDE DEF n
<1>2. CASE \E r \in {w} \cup V : r.op = "refuse"  BY <1>2 DEF Coming, n
<1>3. CASE ~\E r \in {w} \cup V : r.op = "refuse"
    <2>1. Fits(w, d, F) /\ \A r \in V : Fits(r, d, F)  BY <1>3 DEF Coming
    <2>2. n.title = d.title \/ \E r \in V : r.op = "update" /\ r.title # 0
        <3>1. s.title = d.title \/ \E r \in {w} \cup V : r.op = "update" /\ r.title # 0
            BY <1>3 DEF Coming
        <3> QED BY <1>1, <2>1, <3>1 DEF Fits
    <2>3. ASSUME NEW x \in F
          PROVE  n.f[x] = d.f[x] \/ \E r \in V : r.op = "set" /\ r.field = x
        <3>1. s.f[x] = d.f[x] \/ \E r \in {w} \cup V : r.op = "set" /\ r.field = x
            BY <1>3 DEF Coming
        <3>2. x \in CardFields  OBVIOUS
        <3> QED BY <1>1, <2>1, <3>1, <3>2 DEF Fits
    <2>4. \/ /\ ShownStatus(n) = d.status
             /\ \A r \in V : r.op \notin {"transition", "flag"}
          \/ /\ \/ ~HasBlockedField
                \/ n.flag <=> d.status = "Blocked"
                \/ \E r \in V : r.op = "flag"
             /\ \/ n.status = d.status
                \/ \E r \in V : r.op = "transition"
                \/ d.status = "Blocked" /\ HasBlockedField
        <3>1. CASE /\ ShownStatus(s) = d.status
                   /\ \A r \in {w} \cup V : r.op \notin {"transition", "flag"}
            BY <1>1, <3>1 DEF ShownStatus
        <3>2. CASE /\ \/ ~HasBlockedField
                      \/ s.flag <=> d.status = "Blocked"
                      \/ \E r \in {w} \cup V : r.op = "flag"
                   /\ \/ s.status = d.status
                      \/ \E r \in {w} \cup V : r.op = "transition"
                      \/ d.status = "Blocked" /\ HasBlockedField
            <4>1. \/ ~HasBlockedField
                  \/ n.flag <=> d.status = "Blocked"
                  \/ \E r \in V : r.op = "flag"
                <5>1. CASE w.op = "flag"
                    <6>1. n.flag = (w.v = 1) /\ (w.v = 1 <=> d.status = "Blocked")
                        BY <1>1, <2>1, <5>1 DEF Fits
                    <6> QED BY <6>1
                <5>2. CASE w.op # "flag"
                    <6>1. n.flag = s.flag  BY <1>1, <5>2
                    <6> QED BY <3>2, <5>2, <6>1
                <5> QED BY <5>1, <5>2
            <4>2. \/ n.status = d.status
                  \/ \E r \in V : r.op = "transition"
                  \/ d.status = "Blocked" /\ HasBlockedField
                BY <1>1, <2>1, <3>2 DEF Fits
            <4> QED BY <4>1, <4>2
        <3> QED BY <1>3, <3>1, <3>2 DEF Coming
    <2> QED BY <2>1, <2>2, <2>3, <2>4 DEF Coming, n
<1> QED BY <1>2, <1>3

-----------------------------------------------------------------------------
(* Lists of requests, as sets.                                             *)

LEMMA RangeFacts ==
    /\ Range(<<>>) = {}
    /\ \A w : Range(<<w>>) = {w}
    /\ \A s, t \in Seq(Plain) : Range(s \o t) = Range(s) \cup Range(t)
<1>1. Range(<<>>) = {}
    <2>1. <<>> \in Seq({}) /\ Len(<<>>) = 0  BY EmptySeq
    <2>2. DOMAIN <<>> = 1 .. 0  BY <2>1, LenProperties
    <2> QED BY <2>2 DEF Range
<1>2. \A w : Range(<<w>>) = {w}  BY DEF Range
<1>3. ASSUME NEW s \in Seq(Plain), NEW t \in Seq(Plain)
      PROVE  Range(s \o t) = Range(s) \cup Range(t)
    <2>1. /\ Len(s) \in Nat /\ DOMAIN s = 1 .. Len(s)
          /\ Len(t) \in Nat /\ DOMAIN t = 1 .. Len(t)
        BY LenProperties
    <2>2. /\ s \o t \in Seq(Plain) /\ Len(s \o t) = Len(s) + Len(t)
          /\ \A i \in 1 .. Len(s) + Len(t) :
                (s \o t)[i] = IF i <= Len(s) THEN s[i] ELSE t[i - Len(s)]
        BY ConcatProperties
    <2>3. DOMAIN (s \o t) = 1 .. Len(s) + Len(t)  BY <2>2, LenProperties
    <2>4. \A i \in 1 .. Len(s) : i \in 1 .. Len(s) + Len(t) /\ (s \o t)[i] = s[i]
        BY <2>1, <2>2
    <2>5. ASSUME NEW i \in 1 .. Len(t)
          PROVE  Len(s) + i \in 1 .. Len(s) + Len(t) /\ (s \o t)[Len(s) + i] = t[i]
        <3>1. Len(s) + i \in 1 .. Len(s) + Len(t) /\ ~(Len(s) + i <= Len(s))
              /\ (Len(s) + i) - Len(s) = i
            BY <2>1
        <3> QED BY <2>2, <3>1
    <2>6. \A i \in 1 .. Len(s) + Len(t) : i \in 1 .. Len(s) \/ i - Len(s) \in 1 .. Len(t)
        BY <2>1
    <2>7. \A i \in 1 .. Len(s) + Len(t) : (s \o t)[i] \in Range(s) \cup Range(t)
        BY <2>1, <2>2, <2>6, SMTT(30) DEF Range
    <2>8. Range(s) \cup Range(t) \subseteq Range(s \o t)
        BY <2>1, <2>3, <2>4, <2>5 DEF Range
    <2> QED BY <2>3, <2>7, <2>8 DEF Range
<1> QED BY <1>1, <1>2, <1>3

LEMMA TodoRange ==
    ASSUME NEW R \in Seq(GoodRequests), R # <<>>
    PROVE  /\ Head(R) \in GoodRequests /\ Tail(R) \in Seq(GoodRequests)
           /\ Range(R) = {Head(R)} \cup Range(Tail(R))
<1>1. /\ Head(R) \in GoodRequests /\ Tail(R) \in Seq(GoodRequests) /\ Len(Tail(R)) = Len(R) - 1
      /\ Len(R) \in Nat /\ Len(R) # 0 /\ Head(R) = R[1]
      /\ \A i \in 1 .. Len(Tail(R)) : Tail(R)[i] = R[i + 1]
    BY HeadTailProperties, EmptySeq, LenProperties
<1>2. DOMAIN R = 1 .. Len(R) /\ DOMAIN Tail(R) = 1 .. Len(R) - 1
    BY <1>1, LenProperties
<1>3. \A i \in 1 .. Len(R) : i = 1 \/ (i - 1 \in 1 .. Len(R) - 1 /\ i = (i - 1) + 1)
    BY <1>1
<1>4. ASSUME NEW i \in 1 .. Len(R), i # 1
      PROVE  R[i] \in Range(Tail(R))
    <2>1. i - 1 \in 1 .. Len(R) - 1 /\ i = (i - 1) + 1  BY <1>3, <1>4
    <2>2. Tail(R)[i - 1] = R[(i - 1) + 1] /\ i - 1 \in DOMAIN Tail(R)
        BY <1>1, <1>2, <2>1
    <2>3. Tail(R)[i - 1] = R[i]  BY <2>1, <2>2
    <2> QED BY <2>2, <2>3 DEF Range
<1>5. 1 \in 1 .. Len(R) /\ \A i \in 1 .. Len(R) - 1 : i + 1 \in 1 .. Len(R)  BY <1>1
<1>6. {Head(R)} \cup Range(Tail(R)) \subseteq Range(R)  BY <1>1, <1>2, <1>5 DEF Range
<1> QED BY <1>1, <1>2, <1>4, <1>6 DEF Range

LEMMA OnIs ==
    ASSUME NEW id, NEW op
    PROVE  /\ On(id, op).op = op /\ On(id, op).id = id
           /\ \A s : LET w == [On(id, op) EXCEPT !.status = s]
                     IN w.op = op /\ w.id = id /\ w.status = s
           /\ \A v : LET w == [On(id, op) EXCEPT !.v = v]
                     IN w.op = op /\ w.id = id /\ w.v = v
           /\ \A l : LET w == [On(id, op) EXCEPT !.labels = l]
                     IN w.op = op /\ w.id = id
           /\ \A x : LET w == [On(id, op) EXCEPT !.field = x]
                     IN w.op = op /\ w.id = id /\ w.field = x
           /\ \A x, v : LET w == [On(id, op) EXCEPT !.field = x, !.v = v]
                        IN w.op = op /\ w.id = id /\ w.field = x /\ w.v = v
           /\ \A t, m : LET w == [On(id, op) EXCEPT !.title = t, !.notes = m]
                        IN w.op = op /\ w.id = id /\ w.title = t
BY DEF On, NoWrite

LEMMA MoveBrings ==
    ASSUME NEW id \in Refs, NEW status \in Statuses, NEW reason \in BOOLEAN
    PROVE  MovesTo(Range(MoveIssue(id, status, reason)), id, status)
<1> DEFINE move == TransitionIssue(id, status)
           flag(on) == SetBlockedFlag(id, on)
           label == AddLabels(id, {"blocked"})
           note == AddTo(id, "comments")
<1>1. /\ move \in Seq(Plain) /\ label \in Seq(Plain) /\ note \in Seq(Plain)
      /\ flag(TRUE) \in Seq(Plain) /\ flag(FALSE) \in Seq(Plain)
      /\ Refuse(id) \in Seq(Plain) /\ <<>> \in Seq(Plain)
    <2>1. {"blocked"} \in SUBSET Tags /\ "comments" \in CardFields
        BY DEF Tags, CardFields, Lists
    <2>2. Refuse(id) \in Seq(Plain) /\ <<>> \in Seq(Plain)
        BY OnTyped, PlainLists DEF Refuse
    <2>3. ASSUME NEW on \in BOOLEAN
          PROVE  flag(on) \in Seq(Plain)
        BY FlagRequests
    <2> QED BY <2>1, <2>2, <2>3, MoveRequests, LabelRequests, FieldRequests
<1>2. \A w \in Range(move) : w.id = id /\ w.op = "transition" /\ w.status = status
    <2> DEFINE w == [On(id, "transition") EXCEPT !.status = status]
    <2>1. w.id = id /\ w.op = "transition" /\ w.status = status  BY OnIs
    <2>2. move = <<w>>  BY DEF TransitionIssue
    <2> HIDE DEF w, move
    <2> QED BY <2>1, <2>2, RangeFacts
<1>3. Range(move) # {}  BY RangeFacts DEF TransitionIssue
<1>4. ASSUME NEW on \in BOOLEAN
      PROVE  /\ \A w \in Range(flag(on)) : w.id = id /\ w.op = "flag" /\ (w.v = 1 <=> on)
             /\ HasBlockedField => Range(flag(on)) # {}
    <2> DEFINE v == IF on THEN 1 ELSE 0
               w == [On(id, "flag") EXCEPT !.v = v]
    <2>1. w.op = "flag" /\ w.id = id /\ w.v = v  BY OnIs
    <2>2. v = 1 <=> on  OBVIOUS
    <2>3. flag(on) = IF HasBlockedField THEN <<w>> ELSE <<>>
        BY ConfigAssumption DEF SetBlockedFlag
    <2> HIDE DEF w, v
    <2> QED BY <2>1, <2>2, <2>3, RangeFacts
<1>5. /\ \A w \in Range(label) : w.id = id /\ w.op = "addLabels"
      /\ \A w \in Range(note) : w.id = id /\ w.op = "extend" /\ w.field = "comments"
      /\ \A w \in Range(Refuse(id)) : w.id = id /\ w.op = "refuse"
      /\ Range(Refuse(id)) # {} /\ Range(<<>>) = {}
    <2> DEFINE l == [On(id, "addLabels") EXCEPT !.labels = {"blocked"}]
               n == [On(id, "extend") EXCEPT !.field = "comments"]
               r == On(id, "refuse")
    <2>1. /\ l.id = id /\ l.op = "addLabels"
          /\ n.id = id /\ n.op = "extend" /\ n.field = "comments"
          /\ r.id = id /\ r.op = "refuse"
        BY OnIs
    <2>2. label = <<l>> /\ note = <<n>> /\ Refuse(id) = <<r>>
        BY DEF AddLabels, AddTo, Refuse
    <2> HIDE DEF l, n, r, label, note
    <2>3. Range(label) = {l} /\ Range(note) = {n} /\ Range(Refuse(id)) = {r} /\ Range(<<>>) = {}
        BY <2>2, RangeFacts
    <2> QED BY <2>1, <2>3
<1>6. CASE status # "Blocked"
    <2>1. MoveIssue(id, status, reason) = move \o flag(FALSE)  BY <1>6 DEF MoveIssue
    <2> HIDE DEF move, flag
    <2>2. Range(move \o flag(FALSE)) = Range(move) \cup Range(flag(FALSE))
        BY <1>1, RangeFacts
    <2> QED BY <1>2, <1>3, <1>4, <1>6, <2>1, <2>2 DEF MovesTo
<1>7. CASE status = "Blocked"
    <2> DEFINE first == IF HasBlockedTransition THEN move
                        ELSE IF HasBlockedField THEN <<>> ELSE Refuse(id)
               last == IF reason THEN note ELSE <<>>
               list == first \o flag(TRUE) \o label \o last
    <2>1. MoveIssue(id, status, reason) = list  BY <1>7 DEF MoveIssue
    <2>2. first \in Seq(Plain) /\ last \in Seq(Plain)  BY <1>1
    <2>3. /\ \A w \in Range(first) : /\ w.id = id /\ w.op \in {"transition", "refuse"}
                                     /\ w.op = "transition" => w.status = status
          /\ HasBlockedField \/ Range(first) # {}
        BY <1>2, <1>3, <1>5
    <2>4. \A w \in Range(last) : w.id = id /\ w.op = "extend" /\ w.field = "comments"
        BY <1>5
    <2> HIDE DEF first, last, move, flag, label
    <2>5. Range(list) = Range(first) \cup Range(flag(TRUE)) \cup Range(label) \cup Range(last)
        <3>1. /\ first \o flag(TRUE) \in Seq(Plain)
              /\ Range(first \o flag(TRUE)) = Range(first) \cup Range(flag(TRUE))
            BY <1>1, <2>2, PlainLists, RangeFacts
        <3> DEFINE two == first \o flag(TRUE)
        <3> HIDE DEF two
        <3>2. /\ two \o label \in Seq(Plain)
              /\ Range(two \o label) = Range(two) \cup Range(label)
            BY <1>1, <3>1, PlainLists, RangeFacts DEF two
        <3> DEFINE three == two \o label
        <3> HIDE DEF three
        <3>3. Range(three \o last) = Range(three) \cup Range(last)
            BY <2>2, <3>2, RangeFacts DEF three
        <3>4. list = three \o last  BY DEF three, two
        <3> QED BY <3>1, <3>2, <3>3, <3>4 DEF three, two
    <2> HIDE DEF list
    <2>6. \A w \in Range(list) : /\ w.id = id
                                 /\ w.op \in {"refuse", "transition", "flag", "addLabels", "extend"}
                                 /\ w.op = "transition" => w.status = status
                                 /\ w.op = "flag" => (w.v = 1 <=> status = "Blocked")
                                 /\ w.op = "extend" => w.field = "comments"
        BY <1>4, <1>5, <1>7, <2>3, <2>4, <2>5
    <2>7. \/ \E w \in Range(list) : w.op = "refuse"
          \/ /\ HasBlockedField => \E w \in Range(list) : w.op = "flag"
             /\ \/ \E w \in Range(list) : w.op = "transition"
                \/ status = "Blocked" /\ HasBlockedField
        <3>1. HasBlockedField => \E w \in Range(list) : w.op = "flag"  BY <1>4, <2>5
        <3>2. HasBlockedField \/ \E w \in Range(list) : w.op \in {"transition", "refuse"}
            BY <2>3, <2>5
        <3> QED BY <1>7, <3>1, <3>2
    <2> QED BY <2>1, <2>6, <2>7 DEF MovesTo
<1> QED BY <1>6, <1>7

\* The other lists of requests that the tools are made of.
LEMMA RequestsAsk ==
    ASSUME NEW id \in Refs
    PROVE  /\ \A field, v : \A w \in Range(UpdateField(id, field, v)) :
                w.id = id /\ w.op = "set" /\ w.field = field /\ w.v = v
           /\ \A field, v : Range(UpdateField(id, field, v)) # {}
           /\ \A v : \A w \in Range(SetPriorityName(id, v)) :
                w.id = id /\ w.op = "set" /\ w.field = "priority" /\ w.v = v
           /\ \A v : v # 0 => Range(SetPriorityName(id, v)) # {}
           /\ \A field : \A w \in Range(AddTo(id, field)) :
                w.id = id /\ w.op = "extend" /\ w.field = field
           /\ \A tags : \A w \in Range(AddLabels(id, tags)) : w.id = id /\ w.op = "addLabels"
           /\ \A tags : \A w \in Range(RemoveLabels(id, tags)) :
                w.id = id /\ w.op = "removeLabels"
           /\ \A title, notes : \A w \in Range(UpdateIssue(id, title, notes)) :
                w.id = id /\ w.op = "update" /\ w.title = title
           /\ \A title, notes : title # 0 => Range(UpdateIssue(id, title, notes)) # {}
           /\ \A w \in Range(Refuse(id)) : w.id = id /\ w.op = "refuse"
           /\ Range(Refuse(id)) # {}
<1>1. ASSUME NEW field, NEW v
      PROVE  /\ \A w \in Range(UpdateField(id, field, v)) :
                    w.id = id /\ w.op = "set" /\ w.field = field /\ w.v = v
             /\ Range(UpdateField(id, field, v)) # {}
    <2> DEFINE r == [On(id, "set") EXCEPT !.field = field, !.v = v]
    <2>1. r.id = id /\ r.op = "set" /\ r.field = field /\ r.v = v  BY OnIs
    <2>2. UpdateField(id, field, v) = <<r>>  BY DEF UpdateField
    <2> HIDE DEF r
    <2> QED BY <2>1, <2>2, RangeFacts
<1>2. ASSUME NEW v
      PROVE  /\ \A w \in Range(SetPriorityName(id, v)) :
                    w.id = id /\ w.op = "set" /\ w.field = "priority" /\ w.v = v
             /\ v # 0 => Range(SetPriorityName(id, v)) # {}
    BY <1>1, RangeFacts DEF SetPriorityName
<1>3. ASSUME NEW field
      PROVE  \A w \in Range(AddTo(id, field)) :
                w.id = id /\ w.op = "extend" /\ w.field = field
    <2> DEFINE r == [On(id, "extend") EXCEPT !.field = field]
    <2>1. r.id = id /\ r.op = "extend" /\ r.field = field  BY OnIs
    <2>2. AddTo(id, field) = <<r>>  BY DEF AddTo
    <2> HIDE DEF r
    <2> QED BY <2>1, <2>2, RangeFacts
<1>4. ASSUME NEW tags
      PROVE  /\ \A w \in Range(AddLabels(id, tags)) : w.id = id /\ w.op = "addLabels"
             /\ \A w \in Range(RemoveLabels(id, tags)) : w.id = id /\ w.op = "removeLabels"
    <2> DEFINE a == [On(id, "addLabels") EXCEPT !.labels = tags]
               r == [On(id, "removeLabels") EXCEPT !.labels = tags]
    <2>1. a.id = id /\ a.op = "addLabels" /\ r.id = id /\ r.op = "removeLabels"
        BY OnIs
    <2>2. /\ AddLabels(id, tags) = IF tags = {} THEN <<>> ELSE <<a>>
          /\ RemoveLabels(id, tags) = IF tags = {} THEN <<>> ELSE <<r>>
        BY DEF AddLabels, RemoveLabels
    <2> HIDE DEF a, r
    <2>3. Range(<<>>) = {} /\ Range(<<a>>) = {a} /\ Range(<<r>>) = {r}  BY RangeFacts
    <2>4. /\ Range(AddLabels(id, tags)) \subseteq {a}
          /\ Range(RemoveLabels(id, tags)) \subseteq {r}
        BY <2>2, <2>3
    <2> QED BY <2>1, <2>4
<1>5. ASSUME NEW title, NEW notes
      PROVE  /\ \A w \in Range(UpdateIssue(id, title, notes)) :
                    w.id = id /\ w.op = "update" /\ w.title = title
             /\ title # 0 => Range(UpdateIssue(id, title, notes)) # {}
    <2> DEFINE r == [On(id, "update") EXCEPT !.title = title, !.notes = notes]
    <2>1. r.id = id /\ r.op = "update" /\ r.title = title  BY OnIs
    <2>2. UpdateIssue(id, title, notes) = IF title = 0 /\ notes = {} THEN <<>> ELSE <<r>>
        BY DEF UpdateIssue
    <2> HIDE DEF r
    <2>3. Range(<<>>) = {} /\ Range(<<r>>) = {r}  BY RangeFacts
    <2>4. /\ Range(UpdateIssue(id, title, notes)) \subseteq {r}
          /\ title # 0 => Range(UpdateIssue(id, title, notes)) = {r}
        BY <2>2, <2>3
    <2> QED BY <2>1, <2>4
<1>6. Range(Refuse(id)) = {On(id, "refuse")}  BY RangeFacts DEF Refuse
<1> QED BY <1>1, <1>2, <1>3, <1>4, <1>5, <1>6, OnIs

-----------------------------------------------------------------------------
(* What an undo gives back.                                                *)

\* Whatever became of an issue, the requests of restoreJiraCard give it the
\* column, title, assignee and due date of the card.
LEMMA RestoreComes ==
    ASSUME NEW d \in Cards, d.title # 0, NEW s \in Issues
    PROVE  /\ \A w \in Range(RestoreJiraCard(d)) : w.id = d.id /\ w.op # "create"
           /\ Coming(Range(RestoreJiraCard(d)), s, d, Back)
<1> DEFINE text == UpdateIssue(d.id, d.title, d.notes)
           move == MoveIssue(d.id, d.status, FALSE)
           who == UpdateField(d.id, "assignee", d.f["assignee"])
           due == UpdateField(d.id, "due", d.f["due"])
           level == SetPriorityName(d.id, d.f["priority"])
           list == text \o move \o who \o due \o level
           W == Range(list)
<1>1. /\ d.id \in Refs /\ d.title \in Nat /\ d.notes \in SUBSET Remarks /\ d.status \in Statuses
      /\ {"assignee", "due", "priority"} \subseteq CardFields
      /\ d.f["assignee"] \in Nat /\ d.f["due"] \in Nat /\ d.f["priority"] \in Nat
    BY IdsAreRefs DEF Cards, CardFields, Single
<1>2. /\ text \in Seq(Plain) /\ move \in Seq(Plain) /\ who \in Seq(Plain)
      /\ due \in Seq(Plain) /\ level \in Seq(Plain)
    <2>1. text \in Seq(Plain) /\ move \in Seq(Plain)
        BY <1>1, UpdateRequests, MoveRequests
    <2>2. who \in Seq(Plain) /\ due \in Seq(Plain)  BY <1>1, FieldRequests
    <2>3. level \in Seq(Plain)  BY <1>1, FieldRequests
    <2> QED BY <2>1, <2>2, <2>3
<1>3. MovesTo(Range(move), d.id, d.status)  BY <1>1, MoveBrings
<1>4. /\ \A w \in Range(text) : w.id = d.id /\ w.op = "update" /\ w.title = d.title
      /\ Range(text) # {}
      /\ \A w \in Range(who) : w.id = d.id /\ w.op = "set" /\ w.field = "assignee" /\ w.v = d.f["assignee"]
      /\ Range(who) # {}
      /\ \A w \in Range(due) : w.id = d.id /\ w.op = "set" /\ w.field = "due" /\ w.v = d.f["due"]
      /\ Range(due) # {}
      /\ \A w \in Range(level) : w.id = d.id /\ w.op = "set" /\ w.field = "priority"
    BY <1>1, RequestsAsk
<1>5. RestoreJiraCard(d) = list  BY DEF RestoreJiraCard
<1> HIDE DEF text, move, who, due, level
<1>6. W = Range(text) \cup Range(move) \cup Range(who) \cup Range(due) \cup Range(level)
    <2> DEFINE two == text \o move
               three == two \o who
               four == three \o due
    <2>1. two \in Seq(Plain) /\ Range(two) = Range(text) \cup Range(move)
        BY <1>2, PlainLists, RangeFacts
    <2> HIDE DEF two
    <2>2. three \in Seq(Plain) /\ Range(three) = Range(two) \cup Range(who)
        BY <1>2, <2>1, PlainLists, RangeFacts
    <2> HIDE DEF three
    <2>3. four \in Seq(Plain) /\ Range(four) = Range(three) \cup Range(due)
        BY <1>2, <2>2, PlainLists, RangeFacts
    <2> HIDE DEF four
    <2>4. Range(four \o level) = Range(four) \cup Range(level)
        BY <1>2, <2>3, RangeFacts
    <2>5. list = four \o level  BY DEF two, three, four
    <2> QED BY <2>1, <2>2, <2>3, <2>4, <2>5
<1> HIDE DEF list, W
<1>7. \A w \in W : w.id = d.id /\ w.op # "create"  BY <1>3, <1>4, <1>6 DEF MovesTo
<1>8. Coming(W, s, d, Back)
    <2>1. CASE \E w \in W : w.op = "refuse"  BY <2>1 DEF Coming
    <2>2. CASE ~\E w \in W : w.op = "refuse"
        <3>1. \A w \in W : Fits(w, d, Back)
            <4>1. \A w \in Range(move) : Fits(w, d, Back)
                BY <1>3 DEF MovesTo, Fits, Back
            <4>2. \A w \in Range(text) : Fits(w, d, Back)  BY <1>4 DEF Fits
            <4>3. \A w \in Range(who) \cup Range(due) \cup Range(level) : Fits(w, d, Back)
                BY <1>4 DEF Fits, Back
            <4> QED BY <1>6, <4>1, <4>2, <4>3
        <3>2. \E w \in W : w.op = "update" /\ w.title # 0  BY <1>4, <1>6
        <3>3. \A x \in Back : \E w \in W : w.op = "set" /\ w.field = x
            BY <1>4, <1>6 DEF Back
        <3>4. /\ HasBlockedField => \E w \in W : w.op = "flag"
              /\ \/ \E w \in W : w.op = "transition"
                 \/ d.status = "Blocked" /\ HasBlockedField
            BY <1>3, <1>6, <2>2 DEF MovesTo
        <3> QED BY <3>1, <3>2, <3>3, <3>4 DEF Coming
    <2> QED BY <2>1, <2>2
<1> QED BY <1>5, <1>7, <1>8 DEF W

LEMMA AtAll ==
    ASSUME NEW cards \in Seq(Cards)
    PROVE  At(cards, DOMAIN cards) = cards /\ At(cards, {}) = <<>>
<1> DEFINE n == Len(cards)
<1>1. n \in Nat /\ DOMAIN cards = 1 .. n /\ cards = [i \in 1 .. n |-> cards[i]]
    BY LenProperties
<1>2. ASSUME NEW k \in Nat
      PROVE  IsFiniteSet(1 .. k) /\ Cardinality(1 .. k) = k
    <2>1. 1 \in Int /\ k \in Int  OBVIOUS
    <2> QED BY <2>1, FS_Interval
<1>3. ASSUME NEW i \in 1 .. n
      PROVE  Nth(1 .. n, i) = i
    <2> DEFINE x == Nth(1 .. n, i)
    <2>1. x \in 1 .. n /\ Cardinality({m \in 1 .. n : m <= x}) = i
        <3>1. 1 .. n \in SUBSET Nat /\ IsFiniteSet(1 .. n) /\ i \in 1 .. Cardinality(1 .. n)
            BY <1>1, <1>2
        <3> QED BY <3>1, NthOfSet
    <2> HIDE DEF x
    <2>2. {m \in 1 .. n : m <= x} = 1 .. x /\ x \in Nat  BY <1>1, <2>1
    <2>3. Cardinality(1 .. x) = x  BY <1>2, <2>2
    <2> QED BY <2>1, <2>2, <2>3 DEF x
<1>4. At(cards, DOMAIN cards) = [i \in 1 .. n |-> cards[Nth(1 .. n, i)]]
    BY <1>1, <1>2 DEF At
<1>5. At(cards, {}) = <<>>
    <2>1. At(cards, {}) = [i \in 1 .. 0 |-> cards[Nth({}, i)]]  BY FS_EmptySet DEF At
    <2> QED BY <2>1
<1> QED BY <1>1, <1>3, <1>4, <1>5

\* Where the ids are the same before and after, an undo restores every card.
LEMMA UndoActsRestore ==
    ASSUME board \in Boards, NEW r \in Mutations, IdsOf(r.before) = IdsOf(r.after)
    PROVE  /\ DOMAIN UndoActs(r) = DOMAIN r.before
           /\ \A j \in DOMAIN r.before :
                UndoActs(r)[j].a.tool = "restore" /\ UndoActs(r)[j].card = r.before[j]
<1> DEFINE Only(cards, ids) == At(cards, {i \in DOMAIN cards : cards[i].id \in ids})
           ActsOf(cards, tool) == [i \in DOMAIN cards |-> UndoAct(tool, cards[i])]
           restore == ActsOf(r.before, "restore")
<1>1. r.before \in Seq(Cards) /\ r.after \in Seq(Cards)  BY DEF Mutations
<1>2. Only(r.after, IdsOf(r.after) \ IdsOf(r.before)) = <<>>
    <2>1. {i \in DOMAIN r.after : r.after[i].id \in IdsOf(r.after) \ IdsOf(r.before)} = {}
        OBVIOUS
    <2> QED BY <1>1, <2>1, AtAll
<1>3. Only(r.before, IdsOf(r.before) \ IdsOf(r.after)) = <<>>
    <2>1. {i \in DOMAIN r.before : r.before[i].id \in IdsOf(r.before) \ IdsOf(r.after)} = {}
        OBVIOUS
    <2> QED BY <1>1, <2>1, AtAll
<1>4. Only(r.before, IdsOf(r.after)) = r.before
    <2>1. {i \in DOMAIN r.before : r.before[i].id \in IdsOf(r.after)} = DOMAIN r.before
        BY Zenon DEF IdsOf
    <2> QED BY <1>1, <2>1, AtAll
<1>5. UndoActs(r) = ActsOf(<<>>, "close") \o restore \o ActsOf(<<>>, "recreate")
    BY <1>2, <1>3, <1>4, Zenon DEF UndoActs
<1>6. \A tool : ActsOf(<<>>, tool) = <<>>  OBVIOUS
<1>7. restore \in Seq(GoodActs(TRUE)) /\ DOMAIN restore = DOMAIN r.before
    <2>1. Len(r.before) \in Nat /\ DOMAIN r.before = 1 .. Len(r.before)
          /\ \A i \in DOMAIN r.before : r.before[i] \in Cards
        BY <1>1, LenProperties, ElementOfSeq
    <2>2. \A i \in DOMAIN r.before : UndoAct("restore", r.before[i]) \in GoodActs(TRUE)
        BY <2>1, UndoActTyped DEF UndoTools
    <2> DEFINE S == GoodActs(TRUE)
    <2> HIDE DEF S
    <2>3. restore \in [1 .. Len(r.before) -> S]  BY <2>1, <2>2 DEF S
    <2> HIDE DEF restore
    <2>4. restore \in Seq(S)  BY <2>1, <2>3, FunctionSeq
    <2> QED BY <2>1, <2>3, <2>4 DEF S
<1>8. UndoActs(r) = restore
    <2> DEFINE none == ActsOf(<<>>, "recreate")
    <2>1. UndoActs(r) = <<>> \o restore \o <<>>  BY <1>5, <1>6
    <2> HIDE DEF restore
    <2> QED BY <1>7, <2>1, ConcatEmptySeq
<1>9. ASSUME NEW j \in DOMAIN r.before
      PROVE  restore[j].a.tool = "restore" /\ restore[j].card = r.before[j]
    <2> DEFINE card == r.before[j]
               named == [NoArgs EXCEPT !.tool = "restore", !.card = card.id]
               plain == Act(named, Refused(board))
    <2>1. restore[j] = [plain EXCEPT !.card = card]  BY DEF UndoAct
    <2>2. named.tool = "restore"  BY DEF NoArgs
    <2> HIDE DEF named, card
    <2>3. [plain EXCEPT !.card = card].a = named /\ [plain EXCEPT !.card = card].card = card
        BY DEF Act
    <2> HIDE DEF plain
    <2> QED BY <2>1, <2>2, <2>3 DEF card
<1> QED BY <1>7, <1>8, <1>9

LEMMA SettledKeeps ==
    ASSUME NEW d \in Calls
    PROVE  LET n == Settled(d)
           IN /\ n.before \in {<<>>, d.before}
              /\ n.undo => d.undo /\ (d.required => n.required)
              /\ \/ /\ d.acts # <<>> /\ n.pc = "sync" /\ n.undo = d.undo /\ n.failed = d.failed
                    /\ n.acts = d.acts /\ n.todo = d.todo /\ n.required = d.required
                 \/ /\ d.acts = <<>> /\ n.pc = "idle" /\ n.undo = FALSE /\ n.acts = <<>>
                    /\ n.required = FALSE
                    /\ n.answer = "api_confirmed" => d.required /\ ~d.failed
<1>1. CASE d.acts # <<>>
    <2>1. Settled(d) = [d EXCEPT !.pc = "sync"]  BY <1>1 DEF Settled
    <2> QED BY <1>1, <2>1 DEF Calls
<1>2. CASE d.acts = <<>>
    <2> DEFINE answer == IF ~d.required THEN "local_only"
                         ELSE IF d.failed THEN "api_failed" ELSE "api_confirmed"
    <2>1. Settled(d) = [Idle EXCEPT !.answer = answer, !.sent = d.sent, !.bad = d.bad]
        BY <1>2 DEF Settled
    <2>2. answer = "api_confirmed" => d.required /\ ~d.failed  OBVIOUS
    <2> HIDE DEF answer
    <2> QED BY <1>2, <2>1, <2>2 DEF Idle
<1> QED BY <1>1, <1>2

LEMMA FinishIs ==
    ASSUME NEW d, Loose(d), d.acts # <<>>
    PROVE  \E m \in Calls : /\ Finish(d) = Settled(m) /\ m.acts = Tail(d.acts) /\ m.todo = <<>>
                            /\ m.before = d.before /\ m.undo = d.undo
                            /\ m.required = d.required /\ m.failed = d.failed
<1> DEFINE left == Tail(d.acts)
           m == [d EXCEPT !.acts = left, !.todo = <<>>, !.key = 0]
<1>1. d \in Calls /\ left \in Seq(Acts)  BY HeadTailProperties DEF Loose, Calls
<1>2. <<>> \in Seq(Requests) /\ 0 \in 0 .. MaxKey  BY EmptySeq, IdsAssumption
<1>3. Finish(d) = Settled(m)  BY DEF Finish, Loose, Calls
<1> HIDE DEF left
<1>4. /\ m \in Calls /\ m.acts = left /\ m.todo = <<>> /\ m.before = d.before /\ m.undo = d.undo
      /\ m.required = d.required /\ m.failed = d.failed
    BY <1>1, <1>2 DEF Calls
<1> QED BY <1>3, <1>4 DEF left

LEMMA ProgressKeeps ==
    ASSUME NEW d, Loose(d), d.acts # <<>>, d.undo => d.required
    PROVE  Keeps(d, Finish(d)) /\ Keeps(d, Progress(d))
<1>1. Keeps(d, Finish(d))
    <2>1. PICK m \in Calls : /\ Finish(d) = Settled(m) /\ m.before = d.before /\ m.undo = d.undo
                             /\ m.required = d.required
        BY FinishIs
    <2> DEFINE n == Settled(m)
    <2>2. /\ n.before \in {<<>>, m.before}
          /\ n.undo => m.undo /\ (m.required => n.required)
          /\ n.undo = m.undo \/ (n.acts = <<>> /\ n.required = FALSE)
        BY SettledKeeps
    <2> HIDE DEF n
    <2> QED BY <2>1, <2>2 DEF Keeps, n
<1>2. CASE d.todo = <<>>  BY <1>1, <1>2 DEF Progress
<1>3. CASE d.todo # <<>>
    <2>1. Progress(d) = [d EXCEPT !.pc = "write"]  BY <1>3 DEF Progress
    <2> QED BY <1>1, <2>1 DEF Keeps, Loose, Calls
<1> QED BY <1>1, <1>2, <1>3

\* An undo that is settled goes on with what is due or has given all back.
LEMMA SettledGoesBack ==
    ASSUME NEW d \in Calls, NEW cards, NEW issues, d.undo, d.todo = <<>>,
           d.failed \/ Due(cards, issues, d.acts, <<>>, FALSE)
    PROVE  GoesBack(Settled(d), cards, issues)
<1> DEFINE n == Settled(d)
<1>1. \/ /\ d.acts # <<>> /\ n.pc = "sync" /\ n.failed = d.failed
         /\ n.acts = d.acts /\ n.todo = d.todo
      \/ /\ d.acts = <<>> /\ n.pc = "idle"
         /\ n.answer = "api_confirmed" => ~d.failed
    BY SettledKeeps
<1> HIDE DEF n
<1>2. CASE d.acts # <<>>  BY <1>1, <1>2 DEF GoesBack, n
<1>3. CASE d.acts = <<>>
    <2>1. Due(cards, issues, <<>>, <<>>, FALSE) => Restored(cards, issues)
        BY DEF Due, Restored
    <2> QED BY <1>1, <1>3, <2>1 DEF GoesBack, n
<1> QED BY <1>2, <1>3

LEMMA ProgressGoesBack ==
    ASSUME NEW d, Loose(d), d.acts # <<>>, NEW cards, NEW issues, d.undo,
           d.failed \/ Due(cards, issues, d.acts, d.todo, TRUE)
    PROVE  GoesBack(Progress(d), cards, issues)
<1>1. CASE d.todo = <<>>
    <2>1. PICK m \in Calls : /\ Finish(d) = Settled(m) /\ m.acts = Tail(d.acts) /\ m.todo = <<>>
                             /\ m.undo = d.undo /\ m.failed = d.failed
        BY FinishIs
    <2>2. d.failed \/ Due(cards, issues, Tail(d.acts), <<>>, FALSE)
        <3> SUFFICES ASSUME ~d.failed
                     PROVE  Due(cards, issues, Tail(d.acts), <<>>, FALSE)
            OBVIOUS
        <3> DEFINE acts == d.acts
                   rest == Tail(acts)
        <3>1. Due(cards, issues, acts, <<>>, TRUE)  BY <1>1
        <3>2. acts \in Seq(Acts) /\ acts # <<>>  BY DEF Loose, Calls
        <3> HIDE DEF acts
        <3>3. /\ DOMAIN rest = 1 .. Len(acts) - 1 /\ DOMAIN acts = 1 .. Len(acts) /\ Len(acts) \in Nat
              /\ \A i \in 1 .. Len(acts) - 1 : rest[i] = acts[i + 1]
            <4>1. /\ rest \in Seq(Acts) /\ Len(rest) = Len(acts) - 1
                  /\ \A i \in 1 .. Len(rest) : rest[i] = acts[i + 1]
                BY <3>2, HeadTailProperties
            <4> QED BY <3>2, <4>1, LenProperties
        <3> HIDE DEF rest
        <3>4. \A j \in DOMAIN rest : \E i \in DOMAIN acts : rest[j] = acts[i]
            <4>1. \A j \in 1 .. Len(acts) - 1 : j + 1 \in 1 .. Len(acts)  BY <3>3
            <4> QED BY <3>3, <4>1
        <3>5. \A i \in DOMAIN acts : i = 1 \/ \E j \in DOMAIN rest : rest[j] = acts[i]
            <4>1. \A i \in 1 .. Len(acts) : i = 1 \/ (i - 1 \in 1 .. Len(acts) - 1 /\ (i - 1) + 1 = i)
                BY <3>3
            <4> QED BY <3>3, <4>1
        <3>6. \A j \in DOMAIN rest : rest[j].a.tool = "restore" /\ rest[j].card \in Range(cards)
            BY <3>1, <3>4 DEF Due
        <3>7. ASSUME NEW card \in Range(cards), IsKey(card.id)
              PROVE  \/ Like(issues[card.id.n], card, Back)
                     \/ \E j \in DOMAIN rest : rest[j].card = card
            <4>1. CASE acts[1].card = card
                <5>1. Coming(Range(<<>>), issues[card.id.n], card, Back)
                    BY <3>1, <3>7, <4>1 DEF Due
                <5> QED BY <5>1, RangeFacts DEF Like
            <4>2. CASE acts[1].card # card
                <5>1. \/ Like(issues[card.id.n], card, Back)
                      \/ \E i \in DOMAIN acts : acts[i].card = card
                    BY <3>1, <3>7, <4>2 DEF Due
                <5> QED BY <3>5, <4>2, <5>1
            <4> QED BY <4>1, <4>2
        <3>8. Range(<<>>) = {}  BY RangeFacts
        <3> QED BY <3>6, <3>7, <3>8 DEF Due, rest, acts
    <2>3. GoesBack(Settled(m), cards, issues)  BY <2>1, <2>2, SettledGoesBack
    <2> QED BY <1>1, <2>1, <2>3 DEF Progress
<1>2. CASE d.todo # <<>>
    <2> DEFINE n == [d EXCEPT !.pc = "write"]
    <2>1. Progress(d) = n  BY <1>2 DEF Progress
    <2>2. /\ n.pc = "write" /\ n.acts = d.acts /\ n.todo = d.todo /\ n.failed = d.failed
        BY DEF Loose, Calls
    <2> HIDE DEF n
    <2> QED BY <2>1, <2>2 DEF GoesBack
<1> QED BY <1>1, <1>2

LEMMA InitBack == Init => BackInv
<1> SUFFICES ASSUME Init
             PROVE  BackInv
    OBVIOUS
<1>1. /\ IInv /\ board.cards = SearchKanbanCards /\ history = <<>>
      /\ \A c \in Callers : call[c] = Idle
    BY InitInv DEF Init, Board
<1>2. /\ Distinct(SearchKanbanCards)
      /\ \A i \in DOMAIN SearchKanbanCards : \E k \in Keys :
           Exists(k) /\ SearchKanbanCards[i] = CardOf(k, jira[k])
    BY <1>1, SearchTyped DEF IInv, TypeOK
<1>3. ASSUME NEW k \in Keys, Exists(k)
      PROVE  CardOf(k, jira[k]).title # 0
    <2>1. jira[k] = Issue(k)  BY <1>3 DEF Init, Exists
    <2>2. jira[k] \in Issues  BY <1>1 DEF IInv, TypeOK
    <2>3. CardOf(k, jira[k]).title = jira[k].title  BY <2>2, ShownIs
    <2>4. Issue(k).title = k  BY DEF Issue, NoIssue
    <2> QED BY <2>1, <2>3, <2>4 DEF Keys
<1>4. Proper(board.cards)  BY <1>1, <1>2, <1>3 DEF Proper, Distinct
<1>5. Idle.undo = FALSE /\ Idle.acts = <<>> /\ Idle.required = FALSE /\ Idle.before = <<>>
      /\ Idle.answer = "none"
    BY DEF Idle
<1>6. Proper(<<>>)  BY DEF Proper
<1>7. ProperInv  BY <1>1, <1>4, <1>5, <1>6 DEF ProperInv
<1>8. \A c \in Callers : Told(call[c], NewestIsUndo) /\ GoesBack(call[c], board.cards, jira)
    BY <1>1, <1>5 DEF Told, GoesBack
<1> QED BY <1>7, <1>8 DEF BackInv

\* The one caller takes a step: what has to be shown of its new state.
LEMMA OneStep ==
    ASSUME \A c, d \in Callers : c = d, IInv, NEW c \in Callers, NEW n, call' = [call EXCEPT ![c] = n],
           Told(n, NewestIsUndo'), Untouched' => ProperInv',
           Untouched' /\ ~Recreated' =>
              GoesBack(n, board'.cards, jira') \/ (n.pc = "idle" /\ ~NewestIsUndo')
    PROVE  BackInv'
<1>1. \A x \in Callers : call'[x] = n  BY DEF IInv, TypeOK
<1> QED BY <1>1 DEF BackInv

\* The part of the invariant about titles and keys, when the step records
\* nothing and the board's cards stay proper.
LEMMA ProperKept ==
    ASSUME IInv, BackInv, NEW c \in Callers, NEW n, call' = [call EXCEPT ![c] = n],
           history' = history, Untouched' => Untouched,
           n.before \in {<<>>, call[c].before, board.cards},
           Proper(board.cards) => Proper(board'.cards)
    PROVE  Untouched' => ProperInv'
<1> SUFFICES ASSUME Untouched'
             PROVE  ProperInv'
    OBVIOUS
<1>1. ProperInv  BY DEF BackInv
<1>2. Proper(<<>>)  BY DEF Proper
<1>3. Proper(n.before)  BY <1>1, <1>2 DEF ProperInv
<1>4. \A x \in Callers : call'[x] = call[x] \/ call'[x] = n  BY DEF IInv, TypeOK
<1> QED BY <1>1, <1>3, <1>4 DEF ProperInv

LEMMA ConflictsKept ==
    ASSUME NEW more \in Seq(Conflicts), conflicts \in Seq(Conflicts),
           conflicts' = conflicts \o more, edits' = edits
    PROVE  Untouched' => Untouched
<1>1. /\ Len(conflicts) \in Nat /\ Len(more) \in Nat
      /\ DOMAIN conflicts = 1 .. Len(conflicts)
      /\ conflicts' \in Seq(Conflicts) /\ Len(conflicts') = Len(conflicts) + Len(more)
      /\ \A i \in 1 .. Len(conflicts) + Len(more) :
            conflicts'[i] = IF i <= Len(conflicts) THEN conflicts[i] ELSE more[i - Len(conflicts)]
    BY ConcatProperties, LenProperties
<1>2. DOMAIN conflicts' = 1 .. Len(conflicts) + Len(more)  BY <1>1, LenProperties
<1>3. \A i \in DOMAIN conflicts : i \in DOMAIN conflicts' /\ conflicts'[i] = conflicts[i]
    BY <1>1, <1>2
<1> QED BY <1>3 DEF Untouched

\* A tool call: it has nothing to do with an undo, and what it makes of the
\* board is proper.
LEMMA ApplyBack ==
    ASSUME \A c, d \in Callers : c = d, IInv, BackInv, NEW c \in Callers,
           NEW asked \in Seq(Args), asked # <<>>, NEW acts \in Seq(GoodActs(FALSE)),
           Apply(c, asked, acts), acts # <<>> => ~NewestIsUndo,
           UNCHANGED <<history, conflicts, edits, jira>>
    PROVE  BackInv'
<1> DEFINE a == Head(asked)
           rest == Tail(asked)
           r == Resolved(a)
           s == Stored(a)
           out == ApplyTool(board, r)
           made == <<Act(s, out)>>
           cards == board.cards
           next == [Idle EXCEPT !.asked = rest, !.acts = acts]
           recorded == [next EXCEPT !.pc = "record", !.before = cards, !.made = made]
           going == [next EXCEPT !.pc = "apply"]
           n == IF out.changed THEN recorded ELSE IF rest # <<>> THEN going ELSE Settled(next)
<1>1. board \in Boards /\ history \in Seq(Mutations)  BY DEF IInv, TypeOK
<1>2. a \in Args /\ rest \in Seq(Args)  BY HeadTailProperties
<1> HIDE DEF a, rest
<1>3. r \in Args  BY <1>1, <1>2, ResolvedTyped
<1> HIDE DEF r, s
<1>4. Proper(board.cards) => Proper(out.board.cards)
    BY <1>1, <1>3, ApplyToolGood DEF Good
<1> HIDE DEF out, made
<1>5. /\ next \in Calls /\ next.asked = rest /\ next.acts = acts /\ next.undo = FALSE
      /\ next.required = FALSE /\ next.before = <<>> /\ next.pc = "idle" /\ next.answer = "none"
    <2>1. acts \in Seq(Acts)  BY OfGoodActs
    <2>2. Idle.required = FALSE /\ Idle.before = <<>> /\ Idle.answer = "none"
        BY DEF Idle
    <2> QED BY <1>2, <2>1, <2>2, IdleShape DEF Calls
<1>6. board' = out.board /\ call' = [call EXCEPT ![c] = n]
    <2> HIDE DEF n
    <2>1. /\ board' = out.board
          /\ call' = [call EXCEPT ![c] = IF out.changed THEN recorded
                                         ELSE IF next.asked # <<>> THEN going ELSE Settled(next)]
        BY DEF Apply, a, rest, r, s, out, made
    <2> QED BY <1>5, <2>1 DEF n
<1> HIDE DEF next, cards
<1>7. /\ n.undo = FALSE /\ n.required = FALSE /\ n.acts \in {acts, <<>>}
      /\ n.before \in {<<>>, cards} /\ (n.pc = "idle" => n.answer # "api_confirmed")
    <2>1. CASE out.changed  BY <1>5, <2>1 DEF Calls
    <2>2. CASE ~out.changed /\ rest # <<>>  BY <1>5, <2>2 DEF Calls
    <2>3. CASE ~out.changed /\ rest = <<>>
        <3> DEFINE m == Settled(next)
        <3>1. /\ m.before \in {<<>>, next.before}
              /\ \/ m.pc = "sync" /\ m.undo = next.undo /\ m.acts = next.acts /\ m.required = next.required
                 \/ /\ m.pc = "idle" /\ m.undo = FALSE /\ m.acts = <<>> /\ m.required = FALSE
                    /\ m.answer = "api_confirmed" => next.required
            BY <1>5, SettledKeeps
        <3>2. n = m  BY <2>3
        <3> HIDE DEF m, n
        <3> QED BY <1>5, <3>1, <3>2
    <2> QED BY <2>1, <2>2, <2>3
<1> HIDE DEF n
<1>8. Untouched' => Untouched  BY DEF Untouched
<1>9. Untouched' => ProperInv'  BY <1>4, <1>6, <1>7, <1>8, ProperKept DEF cards
<1>10. Told(n, NewestIsUndo') /\ GoesBack(n, board'.cards, jira')
    BY <1>7 DEF Told, GoesBack, NewestIsUndo
<1> QED BY <1>6, <1>9, <1>10, OneStep

LEMMA BeginBack ==
    ASSUME \A c, d \in Callers : c = d, IInv, BackInv, NEW c \in Callers, Begin(c)
    PROVE  BackInv'
<1>1. PICK asked \in Asks : Apply(c, asked, <<>>)  BY DEF Begin
<1>2. asked \in Seq(Args) /\ asked # <<>> /\ <<>> \in Seq(GoodActs(FALSE))
    BY AsksAssumption, EmptySeq
<1>3. UNCHANGED <<history, conflicts, edits, jira>>  BY DEF Begin
<1> QED BY <1>1, <1>2, <1>3, ApplyBack

LEMMA ApplyNextBack ==
    ASSUME \A c, d \in Callers : c = d, IInv, BackInv, NEW c \in Callers, ApplyNext(c)
    PROVE  BackInv'
<1> DEFINE d == call[c]
<1>1. Shape(d) /\ d.pc = "apply" /\ Apply(c, d.asked, d.acts) /\ Told(d, NewestIsUndo)
    BY DEF IInv, BackInv, ApplyNext
<1>2. UNCHANGED <<history, conflicts, edits, jira>>  BY DEF ApplyNext, counters
<1> HIDE DEF d
<1>3. d.undo = FALSE  BY <1>1 DEF Shape, Loose, Calls
<1>4. /\ d.asked \in Seq(Args) /\ d.asked # <<>> /\ d.acts \in Seq(GoodActs(FALSE))
      /\ d.acts # <<>> => ~NewestIsUndo
    BY <1>1, <1>3 DEF Shape, Loose, Calls, Told
<1> QED BY <1>1, <1>2, <1>4, ApplyBack

LEMMA RecordBack ==
    ASSUME \A c, d \in Callers : c = d, IInv, BackInv, NEW c \in Callers, RecordMutation(c)
    PROVE  BackInv'
<1> DEFINE d == call[c]
           act == d.made[1]
           ids == ChangedCardIDs(d.before, board.cards, act.id)
           entry == [tool |-> act.a.tool, fresh |-> touched, undone |-> FALSE, ids |-> ids,
                     before |-> d.before, after |-> board.cards]
           acts == Append(d.acts, act)
           pc == IF d.asked # <<>> THEN "apply" ELSE "sync"
           n == [d EXCEPT !.acts = acts, !.made = <<>>, !.before = <<>>, !.pc = pc]
<1>1. /\ history \in Seq(Mutations) /\ d \in Calls /\ Shape(d) /\ d.pc = "record"
      /\ Told(d, NewestIsUndo)
    BY DEF IInv, TypeOK, BackInv, RecordMutation
<1>2. history' = Append(history, entry) /\ call' = [call EXCEPT ![c] = n]
    BY DEF RecordMutation, IInv, TypeOK
<1>3. Untouched => Proper(d.before)  BY DEF BackInv, ProperInv
<1> HIDE DEF d
<1>4. d.undo = FALSE /\ Len(d.made) = 1 /\ d.made \in Seq(GoodActs(FALSE))
    BY <1>1 DEF Shape, Loose, Calls
<1>5. act \in GoodActs(FALSE)
    <2> DEFINE S == GoodActs(FALSE)
    <2>1. Len(d.made) = 1 /\ d.made \in Seq(S)  BY <1>4
    <2> HIDE DEF S
    <2>2. d.made[1] \in S  BY <2>1, ElementOfSeq
    <2> QED BY <2>2 DEF S
<1> HIDE DEF act
<1>6. act.a.tool # "undo_last_mutation"  BY <1>5 DEF GoodActs, ActOK, Tools
<1>7. entry.tool = act.a.tool /\ entry.before = d.before  OBVIOUS
<1>8. pc # "idle"  OBVIOUS
<1> HIDE DEF ids, entry, acts, pc
<1>9. n.undo = FALSE /\ n.before = <<>> /\ n.pc # "idle"
    BY <1>1, <1>4, <1>8 DEF Calls
<1> HIDE DEF n
<1>10. /\ Len(history') = Len(history) + 1 /\ Len(history) \in Nat
       /\ DOMAIN history' = 1 .. Len(history) + 1 /\ DOMAIN history = 1 .. Len(history)
       /\ \A i \in 1 .. Len(history) : history'[i] = history[i]
       /\ history'[Len(history) + 1] = entry
    <2>1. Len(history) \in Nat /\ DOMAIN history = 1 .. Len(history)
        BY <1>1, LenProperties
    <2> HIDE DEF BackInv
    <2> QED BY <1>2, <2>1
<1>11. ~NewestIsUndo'  BY <1>6, <1>7, <1>10 DEF NewestIsUndo
<1>12. Told(n, NewestIsUndo') /\ GoesBack(n, board'.cards, jira')
    BY <1>9, <1>11 DEF Told, GoesBack
<1>13. Untouched' => Untouched /\ board' = board
    BY DEF Untouched, RecordMutation, counters
<1>14. ASSUME Untouched'
       PROVE  ProperInv'
    <2>1. ProperInv /\ board' = board /\ Proper(entry.before)
        BY <1>3, <1>7, <1>13, <1>14 DEF BackInv
    <2>2. \A i \in DOMAIN history' : Proper(history'[i].before)
        BY <1>10, <2>1 DEF ProperInv
    <2>3. Proper(<<>>)  BY DEF Proper
    <2>4. \A x \in Callers : call'[x] = n  BY <1>2 DEF IInv, TypeOK
    <2> QED BY <1>9, <2>1, <2>2, <2>3, <2>4 DEF ProperInv
<1> QED BY <1>2, <1>12, <1>14, OneStep

\* A step of a call that is no undo and is being written through.
LEMMA PlainStepBack ==
    ASSUME \A c, d \in Callers : c = d, IInv, BackInv, NEW c \in Callers, ~call[c].undo,
           call[c].acts # <<>>, NEW n, Keeps(call[c], n), call' = [call EXCEPT ![c] = n],
           history' = history, Untouched' => Untouched,
           Proper(board.cards) => Proper(board'.cards)
    PROVE  BackInv'
<1>1. ~NewestIsUndo /\ ~NewestIsUndo'
    <2>1. Told(call[c], NewestIsUndo)  BY DEF BackInv
    <2> QED BY <2>1 DEF Told, NewestIsUndo
<1>2. ~n.undo /\ n.before \in {<<>>, call[c].before}  BY DEF Keeps
<1>3. Untouched' => ProperInv'  BY <1>2, ProperKept
<1>4. Told(n, NewestIsUndo')  BY <1>1, <1>2 DEF Told
<1>5. GoesBack(n, board'.cards, jira') \/ (n.pc = "idle" /\ ~NewestIsUndo')
    BY <1>1, <1>2 DEF GoesBack
<1> QED BY <1>3, <1>4, <1>5, OneStep

\* A step of an undo that is being written through.
LEMMA UndoStepBack ==
    ASSUME \A c, d \in Callers : c = d, IInv, BackInv, NEW c \in Callers, call[c].undo,
           NEW n, Keeps(call[c], n), call' = [call EXCEPT ![c] = n],
           history' = history, Untouched' => Untouched, board' = board,
           Untouched /\ ~Recreated => GoesBack(n, board.cards, jira')
    PROVE  BackInv'
<1>1. n.before \in {<<>>, call[c].before} /\ (n.undo => n.required)  BY DEF Keeps
<1>2. Untouched' => ProperInv'  BY <1>1, ProperKept
<1>3. Told(n, NewestIsUndo')  BY DEF Keeps, Told
<1>4. Recreated' = Recreated  BY DEF Recreated
<1> QED BY <1>2, <1>3, <1>4, OneStep

LEMMA StartSyncBack ==
    ASSUME \A c, d \in Callers : c = d, IInv, BackInv, NEW c \in Callers, StartSync(c)
    PROVE  BackInv'
<1> DEFINE d == call[c]
           act == Head(d.acts)
           todo == IF RequiresSync(act) THEN Writes(act) ELSE <<>>
           required == d.required \/ RequiresSync(act)
           m == [d EXCEPT !.todo = todo, !.required = required]
           n == Progress(m)
<1>1. /\ board \in Boards /\ board.cards \in Seq(Cards) /\ jira \in [Keys -> Issues]
      /\ d \in Calls /\ Shape(d) /\ d.pc = "sync" /\ Told(d, NewestIsUndo)
    BY BoardParts DEF IInv, TypeOK, BackInv, StartSync
<1>2. call' = [call EXCEPT ![c] = n]  BY DEF StartSync, IInv, TypeOK, Calls
<1>3. UNCHANGED <<board, history, conflicts, jira, edits>>  BY DEF StartSync, counters
<1>4. ASSUME Untouched, ~Recreated, d.undo, ~d.failed
      PROVE  Proper(board.cards) /\ Due(board.cards, jira, d.acts, d.todo, FALSE)
    <2>1. GoesBack(d, board.cards, jira)  BY <1>1, <1>4 DEF BackInv
    <2> HIDE DEF d
    <2> QED BY <1>1, <1>4, <2>1 DEF GoesBack, BackInv, ProperInv
<1>5. call[c] = d  OBVIOUS
<1> HIDE DEF d
<1>6. /\ d.undo \in BOOLEAN /\ d.acts # <<>> /\ d.acts \in Seq(GoodActs(d.undo))
      /\ d.made \in Seq(GoodActs(d.undo)) /\ d.required \in BOOLEAN
      /\ d.undo => d.required
    BY <1>1 DEF Shape, Loose, Calls, Told
<1>7. act \in GoodActs(d.undo) /\ act = d.acts[1] /\ 1 \in DOMAIN d.acts
    <2> DEFINE S == GoodActs(d.undo)
    <2>1. d.acts \in Seq(S) /\ d.acts # <<>>  BY <1>6
    <2> HIDE DEF S
    <2>2. act \in S /\ act = d.acts[1]  BY <2>1, HeadTailProperties
    <2>3. 1 \in DOMAIN d.acts  BY <2>1, EmptySeq, LenProperties
    <2> QED BY <2>2, <2>3 DEF S
<1> HIDE DEF act
<1>8. todo \in Seq(GoodRequests)  BY <1>1, <1>6, <1>7, WritesTyped, EmptySeq
<1>9. todo \in Seq(Requests) /\ required \in BOOLEAN /\ (d.required => required)
    <2>1. GoodRequests \subseteq Requests  BY DEF GoodRequests
    <2>2. RequiresSync(act) \in BOOLEAN  BY DEF RequiresSync
    <2>3. todo \in Seq(Requests)  BY <1>8, <2>1, SeqOfSubset
    <2> QED BY <1>6, <2>2, <2>3
<1>10. act.a.tool = "restore" => todo = RestoreJiraCard(act.card)
    <2> SUFFICES ASSUME act.a.tool = "restore"
                 PROVE  Writes(act) = RestoreJiraCard(act.card)
        BY DEF RequiresSync
    <2> DEFINE a == [act.a EXCEPT !.card = ResolveReference(board, @),
                                  !.other = ResolveReference(board, @)]
               id == CardFor(act, a)
    <2>1. Writes(act) = RequestsOf(act, a, id)  BY DEF Writes
    <2>2. a.tool = "restore"  BY <1>7 DEF GoodActs, Acts, Args
    <2> HIDE DEF a, id
    <2> QED BY <2>1, <2>2, FieldNames DEF RequestsOf
<1> HIDE DEF todo, required
<1>11. /\ m \in Calls /\ m.acts = d.acts /\ m.made = d.made /\ m.todo = todo /\ m.undo = d.undo
       /\ m.required = required /\ m.failed = d.failed /\ m.before = d.before
    BY <1>1, <1>9 DEF Calls
<1> HIDE DEF m
<1>12. Loose(m) /\ m.acts # <<>> /\ (m.undo => m.required)
    BY <1>6, <1>8, <1>9, <1>11 DEF Loose
<1>13. Keeps(m, n)  BY <1>12, ProgressKeeps
<1>14. ASSUME Untouched, ~Recreated, d.undo
       PROVE  GoesBack(n, board.cards, jira)
    <2>1. ASSUME ~d.failed
          PROVE  Due(board.cards, jira, d.acts, todo, TRUE)
        <3> DEFINE cards == board.cards
                   acts == d.acts
        <3>1. Proper(cards) /\ Due(cards, jira, acts, d.todo, FALSE)
            BY <1>4, <1>14, <2>1
        <3>2. act.a.tool = "restore" /\ act.card \in Range(cards) /\ act = acts[1]
            BY <1>7, <3>1 DEF Due
        <3>3. \A card \in Range(cards) : card \in Cards /\ card.title # 0
            BY <1>1, <3>1, ElementOfSeq, LenProperties DEF Range, Proper
        <3>4. todo = RestoreJiraCard(act.card)  BY <1>10, <3>2
        <3> HIDE DEF cards, acts
        <3>5. ASSUME NEW s \in Issues
              PROVE  /\ \A w \in Range(todo) : w.op # "create" /\ w.id = act.card.id
                     /\ Coming(Range(todo), s, act.card, Back)
            BY <3>2, <3>3, <3>4, RestoreComes
        <3>6. \A card \in Range(cards) : IsKey(card.id) => jira[card.id.n] \in Issues
            BY <1>1, <3>3 DEF Cards, Ids, IsKey, Keys
        <3>7. \A w \in Range(todo) : w.op # "create" /\ w.id = act.card.id
            <4>1. FirstIssues \in Keys  BY BoundsAssumption DEF Keys
            <4>2. jira[FirstIssues] \in Issues  BY <1>1, <4>1
            <4> QED BY <3>5, <4>2
        <3>8. ASSUME NEW card \in Range(cards), IsKey(card.id)
              PROVE  IF TRUE /\ acts[1].card = card
                     THEN Coming(Range(todo), jira[card.id.n], card, Back)
                     ELSE \/ Like(jira[card.id.n], card, Back)
                          \/ \E j \in DOMAIN acts : acts[j].card = card
            <4>1. CASE acts[1].card = card  BY <3>2, <3>5, <3>6, <3>8, <4>1
            <4>2. CASE acts[1].card # card  BY <3>1, <3>8, <4>2 DEF Due
            <4> QED BY <4>1, <4>2
        <3>9. \A j \in DOMAIN acts : acts[j].a.tool = "restore" /\ acts[j].card \in Range(cards)
            BY <3>1 DEF Due
        <3> QED BY <3>2, <3>7, <3>8, <3>9 DEF Due, cards, acts
    <2> QED BY <1>11, <1>12, <1>14, <2>1, ProgressGoesBack
<1> HIDE DEF n
<1>15. Keeps(d, n)  BY <1>11, <1>13 DEF Keeps
<1>16. Untouched' => Untouched  BY <1>3 DEF Untouched
<1>17. CASE d.undo  BY <1>2, <1>3, <1>5, <1>14, <1>15, <1>16, <1>17, UndoStepBack
<1>18. CASE ~d.undo  BY <1>2, <1>3, <1>5, <1>6, <1>15, <1>16, <1>18, PlainStepBack
<1> QED BY <1>17, <1>18

LEMMA WriteBack ==
    ASSUME \A c, d \in Callers : c = d, IInv, BackInv, NEW c \in Callers, Write(c)
    PROVE  BackInv'
<1> DEFINE d == call[c]
           w == Head(d.todo)
           left == Tail(d.todo)
           sent == d.sent + 1
           s == [d EXCEPT !.sent = sent]
           k == Target(c).n
           edited == [jira EXCEPT ![k] = Edited(@, w)]
           failed == [d EXCEPT !.pc = "failed"]
           made == [s EXCEPT !.key = NewKey, !.pc = "rename"]
           m == [s EXCEPT !.todo = left]
           went == Progress(m)
<1>1. /\ board \in Boards /\ board.cards \in Seq(Cards) /\ jira \in [Keys -> Issues]
      /\ d \in Calls /\ Shape(d) /\ d.pc = "write" /\ Told(d, NewestIsUndo)
    BY BoardParts DEF IInv, TypeOK, BackInv, Write
<1>2. \/ call' = [call EXCEPT ![c] = failed]
      \/ w.op = "create" /\ call' = [call EXCEPT ![c] = made]
      \/ /\ w.op # "create" /\ Sendable(c) /\ jira' = edited
         /\ call' = [call EXCEPT ![c] = went]
    BY SMTT(30) DEF Write, IInv, TypeOK, Calls
<1>3. UNCHANGED <<board, history, conflicts, edits>>  BY DEF Write
<1>4. ASSUME Untouched, ~Recreated, d.undo, ~d.failed
      PROVE  Proper(board.cards) /\ Due(board.cards, jira, d.acts, d.todo, TRUE)
    <2>1. GoesBack(d, board.cards, jira)  BY <1>1, <1>4 DEF BackInv
    <2> HIDE DEF d
    <2> QED BY <1>1, <1>4, <2>1 DEF GoesBack, BackInv, ProperInv
<1>5. Sendable(c) /\ w.op # "create" =>
        /\ w.op # "refuse" /\ Target(c) \in Known
        /\ w.id # NoCard => Target(c) = w.id
    BY DEF Sendable, Target
<1>6. call[c] = d  OBVIOUS
<1> HIDE DEF d
<1>7. /\ d.undo \in BOOLEAN /\ d.acts # <<>> /\ d.acts \in Seq(GoodActs(d.undo))
      /\ d.made \in Seq(GoodActs(d.undo)) /\ d.todo \in Seq(GoodRequests) /\ d.todo # <<>>
      /\ d.undo => d.required
    BY <1>1 DEF Shape, Loose, Calls, Told
<1>8. /\ w \in GoodRequests /\ left \in Seq(GoodRequests)
      /\ Range(d.todo) = {w} \cup Range(left)
    BY <1>7, TodoRange
<1>9. Keeps(d, failed) /\ failed.pc = "failed"  BY <1>1, <1>7 DEF Keeps, Calls
<1>10. /\ s \in Calls /\ s.acts = d.acts /\ s.made = d.made /\ s.undo = d.undo
       /\ s.required = d.required /\ s.failed = d.failed /\ s.before = d.before
    <2>1. sent \in Nat  BY <1>1 DEF Calls
    <2> HIDE DEF sent
    <2> QED BY <1>1, <2>1 DEF Calls
<1> HIDE DEF s
<1>11. Keeps(d, made) /\ made.pc = "rename"  BY <1>7, <1>10 DEF Keeps, Calls
<1>12. /\ m \in Calls /\ m.acts = d.acts /\ m.made = d.made /\ m.todo = left /\ m.undo = d.undo
       /\ m.required = d.required /\ m.failed = d.failed /\ m.before = d.before
    <2>1. left \in Seq(Requests)
        <3>1. GoodRequests \subseteq Requests  BY DEF GoodRequests
        <3> HIDE DEF left
        <3> QED BY <1>8, <3>1, SeqOfSubset
    <2> HIDE DEF left
    <2> QED BY <1>10, <2>1 DEF Calls
<1> HIDE DEF m
<1>13. Loose(m) /\ m.acts # <<>> /\ (m.undo => m.required)
    BY <1>7, <1>8, <1>12 DEF Loose
<1>14. Keeps(d, went)
    <2>1. Keeps(m, went)  BY <1>13, ProgressKeeps
    <2> HIDE DEF went
    <2> QED BY <1>12, <2>1 DEF Keeps
<1>15. ASSUME Untouched, ~Recreated, d.undo, w.op # "create", Sendable(c)
       PROVE  GoesBack(went, board.cards, edited)
    <2>1. ASSUME ~d.failed
          PROVE  Due(board.cards, edited, d.acts, left, TRUE)
        <3> DEFINE cards == board.cards
                   acts == d.acts
        <3>1. Proper(cards) /\ Due(cards, jira, acts, d.todo, TRUE)
            BY <1>4, <1>15, <2>1
        <3>2. \A card \in Range(cards) : card \in Cards
            BY <1>1, ElementOfSeq, LenProperties DEF Range
        <3>3. \A x, y \in Range(cards) : IsKey(x.id) /\ x.id = y.id => x = y
            BY <3>1 DEF Proper, Range
        <3>4. acts[1].card \in Range(cards)
            <4>1. 1 \in DOMAIN acts
                <5> DEFINE S == GoodActs(d.undo)
                <5>1. acts \in Seq(S) /\ acts # <<>>  BY <1>7
                <5> HIDE DEF S, acts
                <5> QED BY <5>1, EmptySeq, LenProperties
            <4> QED BY <3>1, <4>1 DEF Due
        <3> HIDE DEF cards, acts, left, w
        <3>5. w.id = acts[1].card.id /\ \A r \in Range(left) : r.op # "create" /\ r.id = acts[1].card.id
            BY <1>8, <3>1 DEF Due
        <3>6. w.id # NoCard  BY <3>2, <3>4, <3>5, IdsAreRefs, NoCardIsRef DEF Cards
        <3>7. w.op # "refuse" /\ w.id \in Known /\ k = w.id.n  BY <1>5, <1>15, <3>6
        <3>8. k \in Keys /\ w.id = Key(k)  BY <3>7 DEF Known, Key, Ref
        <3>9. \A card \in Range(cards) : IsKey(card.id) => card.id.n \in Keys /\ card.id = Key(card.id.n)
            BY <3>2 DEF Cards, Ids, IsKey, Key, Ref, Keys
        <3> HIDE DEF k
        <3>10. /\ edited[k] = Edited(jira[k], w)
               /\ \A j \in Keys : j # k => edited[j] = jira[j]
            BY <1>1, <3>8
        <3> HIDE DEF edited
        <3>11. ASSUME NEW card \in Range(cards), IsKey(card.id)
               PROVE  IF TRUE /\ acts[1].card = card
                      THEN Coming(Range(left), edited[card.id.n], card, Back)
                      ELSE \/ Like(edited[card.id.n], card, Back)
                           \/ \E j \in DOMAIN acts : acts[j].card = card
            <4>1. CASE acts[1].card = card
                <5>1. card.id.n = k  BY <3>5, <3>7, <4>1
                <5>2. Coming({w} \cup Range(left), jira[k], card, Back)
                    BY <1>8, <3>1, <3>11, <4>1, <5>1 DEF Due
                <5>3. jira[k] \in Issues /\ card \in Cards /\ Back \subseteq CardFields
                    BY <1>1, <3>2, <3>8 DEF Back, CardFields, Single
                <5>4. Coming(Range(left), Edited(jira[k], w), card, Back)
                    BY <1>8, <1>15, <3>7, <5>2, <5>3, ComingStep
                <5> QED BY <3>10, <4>1, <5>1, <5>4
            <4>2. CASE acts[1].card # card
                <5>1. card.id # w.id  BY <3>3, <3>4, <3>5, <3>11, <4>2
                <5>2. card.id.n # k /\ card.id.n \in Keys  BY <3>8, <3>9, <3>11, <5>1
                <5>3. edited[card.id.n] = jira[card.id.n]  BY <3>10, <5>2
                <5> QED BY <3>1, <3>11, <4>2, <5>3 DEF Due
            <4> QED BY <4>1, <4>2
        <3>12. \A j \in DOMAIN acts : acts[j].a.tool = "restore" /\ acts[j].card \in Range(cards)
            BY <3>1 DEF Due
        <3> QED BY <3>5, <3>11, <3>12 DEF Due, cards, acts
    <2> HIDE DEF edited
    <2> QED BY <1>12, <1>13, <1>15, <2>1, ProgressGoesBack
<1>16. ASSUME Untouched, ~Recreated, d.undo, w.op = "create"
       PROVE  d.failed
    <2>1. ~d.failed => Due(board.cards, jira, d.acts, d.todo, TRUE)  BY <1>4, <1>16
    <2> HIDE DEF w
    <2> QED BY <1>8, <1>16, <2>1 DEF Due
<1>17. made.failed = d.failed  BY <1>10 DEF Calls
<1> HIDE DEF failed, made, went
<1>18. PICK n : /\ Keeps(d, n) /\ call' = [call EXCEPT ![c] = n]
                /\ d.undo /\ Untouched /\ ~Recreated => GoesBack(n, board.cards, jira')
    <2>1. CASE call' = [call EXCEPT ![c] = failed]
        <3>1. GoesBack(failed, board.cards, jira')  BY <1>9 DEF GoesBack
        <3> QED BY <1>9, <2>1, <3>1
    <2>2. CASE w.op = "create" /\ call' = [call EXCEPT ![c] = made]
        <3>1. d.undo /\ Untouched /\ ~Recreated => GoesBack(made, board.cards, jira')
            BY <1>11, <1>16, <1>17, <2>2 DEF GoesBack
        <3> QED BY <1>11, <2>2, <3>1
    <2>3. CASE w.op # "create" /\ Sendable(c) /\ jira' = edited /\ call' = [call EXCEPT ![c] = went]
        BY <1>14, <1>15, <2>3
    <2> QED BY <1>2, <2>1, <2>2, <2>3
<1>19. Untouched' => Untouched  BY <1>3 DEF Untouched
<1>20. CASE d.undo  BY <1>3, <1>6, <1>18, <1>19, <1>20, UndoStepBack
<1>21. CASE ~d.undo  BY <1>3, <1>6, <1>7, <1>18, <1>19, <1>21, PlainStepBack
<1> QED BY <1>20, <1>21

LEMMA RenameBack ==
    ASSUME \A c, d \in Callers : c = d, IInv, BackInv, NEW c \in Callers, Rename(c)
    PROVE  BackInv'
<1> DEFINE d == call[c]
           act == Head(d.acts)
           left == Tail(d.todo)
           m == [d EXCEPT !.todo = left]
           n == Progress(m)
<1>1. /\ board \in Boards /\ d \in Calls /\ Shape(d) /\ d.pc = "rename"
      /\ Told(d, NewestIsUndo)
    BY DEF IInv, TypeOK, BackInv, Rename
<1>2. /\ call' = [call EXCEPT ![c] = n]
      /\ board' = IF d.undo THEN board ELSE RenameCardID(board, act.card.id, Key(d.key))
    BY DEF Rename, IInv, TypeOK, Calls
<1>3. UNCHANGED <<history, conflicts, jira, edits>>  BY DEF Rename, counters
<1>4. ASSUME Untouched, ~Recreated, d.undo, ~d.failed
      PROVE  Due(board.cards, jira, d.acts, d.todo, FALSE)
    <2>1. GoesBack(d, board.cards, jira)  BY <1>1, <1>4 DEF BackInv
    <2> HIDE DEF d
    <2> QED BY <1>1, <1>4, <2>1 DEF GoesBack
<1>5. call[c] = d  OBVIOUS
<1> HIDE DEF d
<1>6. /\ d.undo \in BOOLEAN /\ d.acts # <<>> /\ d.acts \in Seq(GoodActs(d.undo))
      /\ d.made \in Seq(GoodActs(d.undo)) /\ d.todo \in Seq(GoodRequests) /\ d.todo # <<>>
      /\ d.undo \/ act.a.tool \in CreateTools \/ d.todo \in Seq(Plain)
      /\ Head(d.todo).op = "create" /\ d.key \in Keys /\ (d.undo => d.required)
    BY <1>1 DEF Shape, Loose, Calls, Keys, Told
<1>7. act \in GoodActs(d.undo)  BY <1>6, HeadTailProperties
<1>8. /\ Head(d.todo) \in GoodRequests /\ left \in Seq(GoodRequests)
      /\ Head(d.todo) \in Range(d.todo)
    BY <1>6, TodoRange
<1>9. d.undo \/ act.a.tool \in CreateTools
    <2>1. d.todo \in Seq(Plain) => Head(d.todo) \in Plain  BY <1>6, HeadTailProperties
    <2> QED BY <1>6, <2>1 DEF Plain
<1>10. ~d.undo => act.card.id \in Ids /\ act.card.id.kind = "local"
    BY <1>7, <1>9 DEF GoodActs, ActOK, Cards
<1>11. Proper(board.cards) => Proper(board'.cards)
    BY <1>1, <1>2, <1>6, <1>10, RenameTyped
<1>12. left \in Seq(Requests)
    <2>1. GoodRequests \subseteq Requests  BY DEF GoodRequests
    <2> QED BY <1>8, <2>1, SeqOfSubset
<1> HIDE DEF left, act
<1>13. /\ m \in Calls /\ m.acts = d.acts /\ m.made = d.made /\ m.todo = left /\ m.undo = d.undo
       /\ m.required = d.required /\ m.failed = d.failed /\ m.before = d.before
    BY <1>1, <1>12 DEF Calls
<1> HIDE DEF m
<1>14. Loose(m) /\ m.acts # <<>> /\ (m.undo => m.required)
    BY <1>6, <1>8, <1>13 DEF Loose
<1>15. Keeps(m, n)  BY <1>14, ProgressKeeps
<1>16. ASSUME Untouched, ~Recreated, d.undo
       PROVE  GoesBack(n, board.cards, jira)
    <2>1. d.failed  BY <1>4, <1>6, <1>8, <1>16 DEF Due
    <2> QED BY <1>13, <1>14, <1>16, <2>1, ProgressGoesBack
<1> HIDE DEF n
<1>17. Keeps(d, n)  BY <1>13, <1>15 DEF Keeps
<1>18. Untouched' => Untouched  BY <1>3 DEF Untouched
<1>19. CASE d.undo  BY <1>2, <1>3, <1>5, <1>16, <1>17, <1>18, <1>19, UndoStepBack
<1>20. CASE ~d.undo
    BY <1>2, <1>3, <1>5, <1>6, <1>11, <1>17, <1>18, <1>20, PlainStepBack
<1> QED BY <1>19, <1>20

LEMMA FailureBack ==
    ASSUME \A c, d \in Callers : c = d, IInv, BackInv, NEW c \in Callers,
           RecordJiraSyncFailure(c)
    PROVE  BackInv'
<1> DEFINE d == call[c]
           bad == d.bad + 1
           m == [d EXCEPT !.failed = TRUE, !.bad = bad]
           n == Finish(m)
<1>1. d \in Calls /\ Shape(d) /\ d.pc = "failed" /\ Told(d, NewestIsUndo)
    BY DEF IInv, TypeOK, BackInv, RecordJiraSyncFailure
<1>2. call' = [call EXCEPT ![c] = n] /\ conflicts' = conflicts \o FailureOf(c)
    BY DEF RecordJiraSyncFailure, IInv, TypeOK, Calls
<1>3. UNCHANGED <<board, history, jira, edits>>
    BY DEF RecordJiraSyncFailure, counters
<1>4. call[c] = d  OBVIOUS
<1>5. FailureOf(c) \in Seq(Conflicts) /\ conflicts \in Seq(Conflicts)
    BY <1>1, FailureTyped DEF IInv, TypeOK
<1>6. Untouched' => Untouched  BY <1>2, <1>3, <1>5, ConflictsKept
<1> HIDE DEF d
<1>7. /\ d.undo \in BOOLEAN /\ d.acts # <<>> /\ d.acts \in Seq(GoodActs(d.undo))
      /\ d.made \in Seq(GoodActs(d.undo)) /\ d.todo \in Seq(GoodRequests) /\ d.bad \in Nat
      /\ d.undo => d.required
    BY <1>1 DEF Shape, Loose, Calls, Told
<1>8. bad \in Nat  BY <1>7
<1> HIDE DEF bad
<1>9. /\ m \in Calls /\ m.acts = d.acts /\ m.made = d.made /\ m.todo = d.todo /\ m.undo = d.undo
      /\ m.required = d.required /\ m.failed = TRUE /\ m.before = d.before
    BY <1>1, <1>8 DEF Calls
<1> HIDE DEF m
<1>10. Loose(m) /\ m.acts # <<>> /\ (m.undo => m.required)  BY <1>7, <1>9 DEF Loose
<1>11. Keeps(m, n)  BY <1>10, ProgressKeeps
<1>12. d.undo => GoesBack(n, board.cards, jira)
    <2> SUFFICES ASSUME d.undo
                 PROVE  GoesBack(n, board.cards, jira)
        OBVIOUS
    <2>1. PICK r \in Calls : /\ Finish(m) = Settled(r) /\ r.todo = <<>>
                             /\ r.undo = m.undo /\ r.failed = m.failed
        BY <1>10, FinishIs
    <2> QED BY <1>9, <2>1, SettledGoesBack
<1> HIDE DEF n
<1>13. Keeps(d, n)  BY <1>9, <1>11 DEF Keeps
<1>14. CASE d.undo  BY <1>2, <1>3, <1>4, <1>6, <1>12, <1>13, <1>14, UndoStepBack
<1>15. CASE ~d.undo  BY <1>2, <1>3, <1>4, <1>6, <1>7, <1>13, <1>15, PlainStepBack
<1> QED BY <1>14, <1>15

LEMMA UndoBack ==
    ASSUME \A c, d \in Callers : c = d, IInv, BackInv, NEW c \in Callers, UndoLastMutation(c)
    PROVE  BackInv'
<1> DEFINE target == CHOOSE i \in Undoable : \A j \in Undoable : j <= i
           r == history[target]
           taken == [r EXCEPT !.undone = TRUE]
           old == [history EXCEPT ![target] = taken]
           ids == ChangedCardIDs(board.cards, r.before, NoCard)
           entry == [tool |-> "undo_last_mutation", fresh |-> TRUE, undone |-> FALSE,
                     ids |-> ids, before |-> board.cards, after |-> r.before]
           acts == UndoActs(r)
           before == r.before
           m == [Idle EXCEPT !.acts = acts, !.undo = TRUE, !.required = TRUE]
           n == Settled(m)
<1>1. /\ board \in Boards /\ board.cards \in Seq(Cards) /\ history \in Seq(Mutations)
      /\ call \in [Callers -> Calls]
    BY BoardParts DEF IInv, TypeOK
<1>2. Len(history) \in Nat /\ DOMAIN history = 1 .. Len(history)
    BY <1>1, LenProperties
<1>3. target \in DOMAIN history /\ r \in Mutations
    <2>1. Undoable # {}  BY DEF UndoLastMutation
    <2>2. Undoable \in SUBSET (0 .. Len(history)) /\ Undoable \subseteq DOMAIN history
        BY <1>2 DEF Undoable
    <2>3. target \in Undoable  BY <1>2, <2>1, <2>2, LargestExists
    <2> HIDE DEF target
    <2> QED BY <1>1, <1>2, <2>2, <2>3, ElementOfSeq
<1>4. /\ board' = [board EXCEPT !.cards = before]
      /\ history' = Append(old, entry)
      /\ call' = [call EXCEPT ![c] = n]
      /\ UNCHANGED <<conflicts, jira, edits>>
    <2>1. [history EXCEPT ![target].undone = TRUE] = old  BY <1>3
    <2> QED BY <2>1 DEF UndoLastMutation
<1> HIDE DEF target
<1>5. /\ before \in Seq(Cards) /\ taken \in Mutations /\ taken.before = before
      /\ taken.after = r.after /\ taken.undone = TRUE
    BY <1>3 DEF Mutations
<1>6. acts \in Seq(Acts)  BY <1>1, <1>3, UndoActsTyped, OfGoodActs
<1>7. entry.tool = "undo_last_mutation" /\ entry.before = board.cards  OBVIOUS
<1>8. IdsOf(r.before) = IdsOf(r.after) =>
        /\ DOMAIN acts = DOMAIN before
        /\ \A j \in DOMAIN before : acts[j].a.tool = "restore" /\ acts[j].card = before[j]
    BY <1>1, <1>3, UndoActsRestore
<1>9. r.before = before  OBVIOUS
<1>10. /\ m \in Calls /\ m.acts = acts /\ m.undo = TRUE /\ m.required = TRUE /\ m.todo = <<>>
       /\ m.before = <<>>
    <2> HIDE DEF acts
    <2>1. Idle.before = <<>>  BY DEF Idle
    <2> QED BY <1>6, <2>1, IdleShape DEF Calls
<1> HIDE DEF taken, ids, entry, acts, before, r, m
<1>11. /\ Len(old) = Len(history) /\ DOMAIN old = DOMAIN history
       /\ \A i \in DOMAIN history : old[i] = IF i = target THEN taken ELSE history[i]
       /\ old \in Seq(Mutations)
    BY <1>1, <1>2, <1>3, <1>5, ExceptSeq, LenProperties
<1> HIDE DEF old
<1>12. /\ Len(history') = Len(history) + 1 /\ DOMAIN history' = 1 .. Len(history) + 1
       /\ \A i \in 1 .. Len(history) : history'[i] = old[i]
       /\ history'[Len(history) + 1] = entry
    BY <1>2, <1>4, <1>11
<1>13. ASSUME Untouched'
       PROVE  Untouched /\ Proper(before) /\ Proper(board.cards)
    <2>1. Untouched /\ ProperInv  BY <1>4, <1>13 DEF Untouched, BackInv
    <2> QED BY <1>3, <1>9, <2>1 DEF ProperInv, r
<1>14. n.before = <<>> /\ (n.undo => n.required) /\ (n.undo \/ (n.acts = <<>> /\ ~n.required))
    BY <1>10, SettledKeeps
<1>15. board'.cards = before  BY <1>1, <1>4 DEF Boards
<1>16. ASSUME ~Recreated'
       PROVE  GoesBack(n, before, jira)
    <2>1. target \in DOMAIN history' /\ history'[target] = taken
        BY <1>2, <1>3, <1>11, <1>12
    <2>2. IdsOf(r.before) = IdsOf(r.after)  BY <1>5, <1>9, <1>16, <2>1 DEF Recreated
    <2>3. Due(before, jira, acts, <<>>, FALSE)
        <3>1. Range(<<>>) = {}  BY RangeFacts
        <3>2. \A j \in DOMAIN acts : acts[j].a.tool = "restore" /\ acts[j].card \in Range(before)
            BY <1>8, <2>2 DEF Range
        <3>3. \A card \in Range(before) : \E j \in DOMAIN acts : acts[j].card = card
            BY <1>8, <2>2 DEF Range
        <3> QED BY <3>1, <3>2, <3>3 DEF Due
    <2> QED BY <1>10, <2>3, SettledGoesBack
<1> HIDE DEF n
<1>17. ASSUME Untouched'
       PROVE  ProperInv'
    <2>1. ProperInv  BY <1>13, <1>17 DEF BackInv
    <2>2. \A i \in DOMAIN history' : Proper(history'[i].before)
        <3>1. \A i \in 1 .. Len(history) : Proper(old[i].before)
            BY <1>2, <1>5, <1>11, <1>13, <1>17, <2>1 DEF ProperInv
        <3>2. Proper(entry.before)  BY <1>7, <1>13, <1>17
        <3>3. \A i \in 1 .. Len(history) + 1 : i \in 1 .. Len(history) \/ i = Len(history) + 1
            BY <1>2
        <3> QED BY <1>12, <3>1, <3>2, <3>3
    <2>3. Proper(<<>>)  BY DEF Proper
    <2>4. \A x \in Callers : call'[x] = n  BY <1>1, <1>4
    <2> QED BY <1>13, <1>14, <1>15, <1>17, <2>2, <2>3, <2>4 DEF ProperInv
<1>18. Told(n, NewestIsUndo')  BY <1>14 DEF Told
<1>19. ~Recreated' => GoesBack(n, board'.cards, jira')  BY <1>4, <1>15, <1>16
<1> QED BY <1>4, <1>17, <1>18, <1>19, OneStep

LEMMA ResolveBack ==
    ASSUME IInv, BackInv, NEW i \in DOMAIN conflicts,
           NEW resolution \in {"keep_local", "use_jira"}, ResolveJiraConflict(i, resolution)
    PROVE  BackInv'
<1> DEFINE settled == [conflicts[i] EXCEPT !.resolution = resolution]
<1>1. conflicts \in Seq(Conflicts) /\ conflicts[i] \in Conflicts
    BY ElementOfSeq, LenProperties DEF IInv, TypeOK
<1>2. settled.resolution = resolution  BY <1>1 DEF Conflicts
<1>3. /\ conflicts' = [conflicts EXCEPT ![i] = settled]
      /\ conflicts[i].resolution = ""
      /\ resolution # "use_jira" => board' = board
      /\ UNCHANGED <<history, jira, call, edits>>
    BY <1>1 DEF ResolveJiraConflict
<1> HIDE DEF settled
<1>4. DOMAIN conflicts' = DOMAIN conflicts
      /\ \A j \in DOMAIN conflicts : conflicts'[j] = IF j = i THEN settled ELSE conflicts[j]
    BY <1>3
<1>5. Untouched' => Untouched /\ board' = board  BY <1>2, <1>3, <1>4 DEF Untouched
<1>6. Recreated' = Recreated /\ NewestIsUndo' = NewestIsUndo
    BY <1>3 DEF Recreated, NewestIsUndo
<1>7. \A c \in Callers : call'[c] = call[c]  BY <1>3
<1>8. Untouched' => ProperInv'  BY <1>3, <1>5 DEF BackInv, ProperInv
<1> QED BY <1>3, <1>5, <1>6, <1>7, <1>8 DEF BackInv

LEMMA EditInJiraBack ==
    ASSUME IInv, BackInv, NEW k \in Keys, NEW status, EditInJira(k, status)
    PROVE  BackInv'
<1>1. /\ edits \in Nat /\ edits' = edits + 1
      /\ UNCHANGED <<board, history, conflicts, call>>
    BY DEF EditInJira, IInv, TypeOK
<1>2. ~Untouched'  BY <1>1 DEF Untouched
<1> QED BY <1>1, <1>2 DEF BackInv, NewestIsUndo

LEMMA NextBack ==
    ASSUME \A c, d \in Callers : c = d, Refreshers = {}
    PROVE  IInv /\ BackInv /\ [Next]_vars => BackInv'
<1> SUFFICES ASSUME IInv, BackInv, [Next]_vars
             PROVE  BackInv'
    OBVIOUS
<1>1. CASE UNCHANGED vars
    BY <1>1 DEF vars, BackInv, ProperInv, Untouched, Recreated, NewestIsUndo
<1>2. ASSUME NEW c \in Callers, Begin(c) \/ UndoLastMutation(c) \/ Sync(c)
      PROVE  BackInv'
    BY <1>2, BeginBack, UndoBack, ApplyNextBack, RecordBack, StartSyncBack, WriteBack,
       RenameBack, FailureBack DEF Sync
<1>3. ASSUME NEW i \in DOMAIN conflicts, NEW resolution \in {"keep_local", "use_jira"},
             ResolveJiraConflict(i, resolution)
      PROVE  BackInv'
    BY <1>3, ResolveBack
<1>4. ASSUME NEW k \in Keys, NEW status \in {"In Progress"}, EditInJira(k, status)
      PROVE  BackInv'
    BY <1>4, EditInJiraBack, ZenonT(30)
<1> QED BY <1>1, <1>2, <1>3, <1>4 DEF Next

LEMMA BackShown ==
    ASSUME IInv, BackInv, edits = 0
    PROVE  UndoneInJira
<1> SUFFICES ASSUME NEW c \in Callers, Quiet, call[c].answer = "api_confirmed", ~Recreated,
                    NewestIsUndo,
                    \A i \in DOMAIN conflicts : conflicts[i].resolution # "use_jira",
                    NEW i \in DOMAIN board.cards, IsKey(board.cards[i].id)
             PROVE  LET d == board.cards[i]
                        shown == CardOf(d.id.n, jira[d.id.n])
                    IN /\ d.status = shown.status /\ d.title = shown.title
                       /\ d.f["assignee"] = shown.f["assignee"]
                       /\ d.f["due"] = shown.f["due"]
    BY DEF UndoneInJira, NewestIsUndo
<1> DEFINE d == board.cards[i]
           k == d.id.n
           issue == jira[k]
<1>1. board.cards \in Seq(Cards) /\ jira \in [Keys -> Issues]
    BY BoardParts DEF IInv, TypeOK
<1>2. d \in Cards /\ d \in Range(board.cards)
    BY <1>1, ElementOfSeq, LenProperties DEF Range
<1>3. k \in Keys  BY <1>2 DEF Cards, Ids, IsKey, Keys
<1>4. issue \in Issues  BY <1>1, <1>3
<1>5. Like(issue, d, Back)
    <2>1. GoesBack(call[c], board.cards, jira) /\ call[c].pc = "idle"
        BY DEF BackInv, Untouched, Quiet
    <2> QED BY <1>2, <2>1 DEF GoesBack, Restored
<1> HIDE DEF d, k, issue
<1>6. ShownStatus(issue) = d.status /\ issue.title = d.title /\ \A x \in Back : issue.f[x] = d.f[x]
    BY <1>2, <1>4, <1>5, LikeShows
<1>7. /\ CardOf(k, issue).status = ShownStatus(issue) /\ CardOf(k, issue).title = issue.title
      /\ \A x \in Single : CardOf(k, issue).f[x] = issue.f[x]
    BY <1>4, ShownIs
<1> QED BY <1>6, <1>7, ZenonT(30) DEF d, k, issue, Back, Single

\* One caller, no refresher: while nobody edits in Jira, an undo that is
\* answered "api_confirmed" has given every issue the column, title, assignee
\* and due date the board went back to, whatever tools, failed requests and
\* conflicts kept for the board's side went before it, unless it had to make an
\* issue again (jira_conflicts.go, ApplyUndo and restoreJiraCard; jira_ext.go,
\* RecordJiraSyncFailure).
THEOREM UndoIsInJira ==
    ASSUME \A c, d \in Callers : c = d, Refreshers = {}
    PROVE  Spec => [](edits = 0 => UndoneInJira)
<1>1. IInv /\ BackInv => (edits = 0 => UndoneInJira)  BY BackShown
<1>2. Init => IInv /\ BackInv  BY InitInv, InitBack
<1>3. IInv /\ BackInv /\ [Next]_vars => IInv' /\ BackInv'  BY NextInv, NextBack
<1> QED BY <1>1, <1>2, <1>3, PTL DEF Spec
-----------------------------------------------------------------------------
(* What a tool writes through.                                             *)

LEMMA OnBoard ==
    ASSUME NEW b \in Boards, AliasOK(b), NEW id \in IdsOf(b.cards)
    PROVE  ResolveAlias(b, id) = id /\ id \in Ids /\ id.kind \in {"local", "key"}
<1>1. PICK i \in DOMAIN b.cards : b.cards[i].id = id  BY DEF IdsOf
<1>2. id \in Ids /\ id.kind \in {"local", "key"} /\ b.alias \in [1 .. MaxLocal -> 0 .. MaxKey]
    BY <1>1, BoardParts, IdsAreRefs DEF Cards
<1>3. CASE id.kind = "local"
    <2>1. id.n \in 1 .. MaxLocal /\ id = LocalId(id.n)
        BY <1>2, <1>3 DEF Ids, LocalId, Ref
    <2>2. b.alias[id.n] = 0  BY <1>1, <2>1 DEF AliasOK
    <2> QED BY <1>2, <2>2 DEF ResolveAlias
<1>4. CASE id.kind # "local"  BY <1>2, <1>4 DEF ResolveAlias
<1> QED BY <1>2, <1>3, <1>4

\* What is called by its id is found by its id.
LEMMA ReferenceIs ==
    ASSUME NEW b, NEW r, r.kind # "title"
    PROVE  ResolveReference(b, r) =
             IF ResolveAlias(b, r) \in IdsOf(b.cards) THEN ResolveAlias(b, r) ELSE r
<1> DEFINE titled == {i \in DOMAIN b.cards : r.kind = "title" /\ b.cards[i].title = r.n}
<1>1. titled = {} /\ Cardinality({}) = 0  BY FS_EmptySet
<1>2. ResolveReference(b, r) =
        IF ResolveAlias(b, r) \in IdsOf(b.cards) THEN ResolveAlias(b, r)
        ELSE IF Cardinality(titled) = 1 THEN b.cards[CHOOSE i \in titled : TRUE].id ELSE r
    BY DEF ResolveReference
<1> HIDE DEF titled
<1> QED BY <1>1, <1>2

\* A reference resolves to the id of a card, or to itself when nothing is found.
LEMMA ReferenceFound ==
    ASSUME NEW b \in Boards, NEW r \in Refs
    PROVE  \/ ResolveReference(b, r) \in IdsOf(b.cards)
           \/ ResolveReference(b, r) = r /\ ResolveAlias(b, r) \notin IdsOf(b.cards)
<1> DEFINE titled == {i \in DOMAIN b.cards : r.kind = "title" /\ b.cards[i].title = r.n}
           some == CHOOSE i \in titled : TRUE
<1>1. ResolveReference(b, r) =
        IF ResolveAlias(b, r) \in IdsOf(b.cards) THEN ResolveAlias(b, r)
        ELSE IF Cardinality(titled) = 1 THEN b.cards[some].id ELSE r
    BY DEF ResolveReference
<1>2. ASSUME Cardinality(titled) = 1
      PROVE  b.cards[some].id \in IdsOf(b.cards)
    <2>1. titled # {}  BY <1>2, FS_EmptySet
    <2>2. some \in titled  BY <2>1
    <2> HIDE DEF some
    <2> QED BY <2>2 DEF IdsOf
<1> HIDE DEF titled, some
<1> QED BY <1>1, <1>2

\* References depend on the ids and titles of the cards only.
LEMMA SameNames ==
    ASSUME NEW b \in Boards, NEW n \in Boards, n.alias = b.alias, Len(n.cards) = Len(b.cards),
           \A j \in 1 .. Len(b.cards) :
              n.cards[j].id = b.cards[j].id /\ n.cards[j].title = b.cards[j].title,
           NEW r \in Refs
    PROVE  ResolveReference(n, r) = ResolveReference(b, r)
<1> DEFINE titled(x) == {i \in DOMAIN x.cards : r.kind = "title" /\ x.cards[i].title = r.n}
           some(x) == CHOOSE i \in titled(x) : TRUE
<1>1. \A x \in {b, n} : ResolveReference(x, r) =
        IF ResolveAlias(x, r) \in IdsOf(x.cards) THEN ResolveAlias(x, r)
        ELSE IF Cardinality(titled(x)) = 1 THEN x.cards[some(x)].id ELSE r
    BY DEF ResolveReference
<1>2. DOMAIN b.cards = 1 .. Len(b.cards) /\ DOMAIN n.cards = 1 .. Len(b.cards)
    BY BoardParts
<1>3. IdsOf(n.cards) = IdsOf(b.cards) /\ ResolveAlias(n, r) = ResolveAlias(b, r)
    BY <1>2 DEF IdsOf, ResolveAlias
<1>4. titled(n) = titled(b)  BY <1>2
<1>5. ASSUME Cardinality(titled(b)) = 1
      PROVE  n.cards[some(n)].id = b.cards[some(b)].id
    <2>1. titled(b) # {}
        <3> SUFFICES ASSUME titled(b) = {}
                     PROVE  FALSE
            OBVIOUS
        <3>1. Cardinality(titled(b)) = 0
            <4> HIDE DEF titled
            <4> QED BY FS_EmptySet, Zenon
        <3> HIDE DEF titled
        <3> QED BY <1>5, <3>1
    <2>2. some(b) \in titled(b) /\ some(n) = some(b)  BY <1>4, <2>1
    <2> HIDE DEF some
    <2> QED BY <1>2, <2>2
<1> HIDE DEF titled, some
<1> QED BY <1>1, <1>3, <1>4, <1>5

\* The card that a tool found is the one its arguments name, also when they are
\* resolved again.
LEMMA TargetFound ==
    ASSUME NEW b \in Boards, AliasOK(b), NEW a \in Args, NEW latest \in Refs,
           NEW r, r = Canonicalize(b, a, latest), Find(b, r.card) # 0
    PROVE  /\ r.card \in IdsOf(b.cards)
           /\ a.card # NoCard /\ a.card.kind # "title" => ResolveAlias(b, a.card) = r.card
           /\ a.card = NoCard =>
                /\ a.tool \in FallbackTools
                /\ a.other # NoCard => ResolveReference(b, a.other) = r.card
<1> DEFINE card == ResolveReference(b, a.card)
           other == ResolveReference(b, a.other)
           alias == ResolveAlias(b, latest)
<1>1. a.card \in Refs /\ a.other \in Refs  BY DEF Args
<1>2. /\ ~(a.tool \in FallbackTools /\ a.card = NoCard) => r.card = card
      /\ a.tool \in FallbackTools /\ a.card = NoCard =>
           r.card = IF other # NoCard THEN other ELSE alias
    BY DEF Canonicalize, Args
<1>3. ResolveAlias(b, r.card) \in IdsOf(b.cards)  BY FindFound, BoardParts DEF IdsOf
<1>4. \A id \in IdsOf(b.cards) : id # NoCard  BY OnBoard, NoCardIsRef
<1>5. ResolveReference(b, NoCard) = NoCard
    <2>1. ResolveAlias(b, NoCard) = NoCard /\ NoCard.kind # "title"
        BY DEF ResolveAlias, NoCard, Ref
    <2> QED BY <1>4, <2>1, ReferenceIs
<1>6. \A x \in Refs : ResolveReference(b, x) = r.card => r.card \in IdsOf(b.cards)
    BY <1>3, ReferenceFound
<1>7. r.card = alias => r.card \in IdsOf(b.cards)  BY <1>3, ResolveAliasTyped
<1>8. r.card \in IdsOf(b.cards)  BY <1>1, <1>2, <1>6, <1>7
<1>9. ASSUME a.card # NoCard, a.card.kind # "title"
      PROVE  ResolveAlias(b, a.card) = r.card
    <2>1. r.card = IF ResolveAlias(b, a.card) \in IdsOf(b.cards) THEN ResolveAlias(b, a.card)
                   ELSE a.card
        BY <1>2, <1>9, ReferenceIs
    <2> QED BY <1>3, <2>1
<1>10. ASSUME a.card = NoCard
       PROVE  /\ a.tool \in FallbackTools
              /\ a.other # NoCard => ResolveReference(b, a.other) = r.card
    <2>1. a.tool \in FallbackTools  BY <1>2, <1>4, <1>5, <1>8, <1>10
    <2>2. a.other # NoCard => other # NoCard  BY <1>1, <1>4, ReferenceFound
    <2> QED BY <1>2, <1>10, <2>1, <2>2
<1> QED BY <1>8, <1>9, <1>10

LEMMA ResolvedIs ==
    ASSUME NEW n, NEW a \in Args
    PROVE  /\ ResolvedOn(n, a).card = ResolveReference(n, a.card)
           /\ ResolvedOn(n, a).other = ResolveReference(n, a.other)
           /\ ResolvedOn(n, a).tool = a.tool
BY DEF Args, ResolvedOn

LEMMA AimsAt ==
    ASSUME NEW b, NEW n, NEW a, NEW latest, NEW r, NEW act, Aiming(b, n, a, latest, r, act)
    PROVE  About(n, act, r.card)
<1> DEFINE T == r.card
           w == ResolvedOn(n, act.a)
<1>a. /\ b \in Boards /\ AliasOK(b) /\ n \in Boards /\ n.alias = b.alias
      /\ a \in Args /\ latest \in Refs /\ r = Canonicalize(b, a, latest)
      /\ Find(b, r.card) # 0 /\ (a.tool \notin Confirmed => a.card.kind # "title")
      /\ act.a = (IF a.tool \in Confirmed THEN r ELSE a) /\ act.id = r.card
      /\ a.tool \in Confirmed \/ r.card \in IdsOf(n.cards)
      /\ a.tool \in FallbackTools \ Confirmed =>
            \A x \in Refs : ResolveReference(n, x) = ResolveReference(b, x)
    BY DEF Aiming
<1>1. /\ T \in IdsOf(b.cards)
      /\ a.card # NoCard /\ a.card.kind # "title" => ResolveAlias(b, a.card) = T
      /\ a.card = NoCard =>
           /\ a.tool \in FallbackTools
           /\ a.other # NoCard => ResolveReference(b, a.other) = T
    BY <1>a, TargetFound
<1>2. ResolveAlias(b, T) = T /\ T # NoCard /\ T.kind # "title"
    BY <1>a, <1>1, OnBoard, NoCardIsRef
<1>3. \A x : ResolveAlias(n, x) = ResolveAlias(b, x)  BY <1>a DEF ResolveAlias
<1>4. r \in Args /\ r.tool = a.tool /\ act.a \in Args  BY <1>a, CanonicalizeTyped
<1>5. /\ w.card = ResolveReference(n, act.a.card) /\ w.other = ResolveReference(n, act.a.other)
      /\ w.tool = a.tool
    BY <1>a, <1>4, ResolvedIs
<1>6. ResolveReference(n, T) = T  BY <1>2, <1>3, ReferenceIs
<1>7. ResolveReference(n, NoCard) = NoCard
    <2>1. ResolveAlias(n, NoCard) = NoCard /\ NoCard.kind # "title"
        BY DEF ResolveAlias, NoCard, Ref
    <2> QED BY <2>1, ReferenceIs
<1> HIDE DEF w
<1>8. /\ CardFor(act, w) = T
      /\ ResolveAlias(n, IF act.a.card # NoCard THEN act.a.card ELSE act.id) = T
    <2>1. CASE a.tool \in Confirmed
        <3>1. act.a.card = T /\ w.card = T  BY <1>a, <1>5, <1>6, <2>1
        <3> QED BY <1>a, <1>2, <1>3, <3>1 DEF CardFor
    <2>2. CASE a.tool \notin Confirmed /\ a.card # NoCard
        <3>1. ResolveAlias(n, a.card) = T /\ T \in IdsOf(n.cards)
            BY <1>a, <1>1, <1>3, <2>2
        <3>2. w.card = T  BY <1>a, <1>5, <2>2, <3>1, ReferenceIs
        <3> QED BY <1>a, <1>2, <2>2, <3>1, <3>2 DEF CardFor
    <2>3. CASE a.tool \notin Confirmed /\ a.card = NoCard
        <3>1. a.tool \in FallbackTools /\ a.tool \in UseResultCard
            BY <1>1, <2>3 DEF FallbackTools, UseResultCard
        <3>2. w.card = NoCard /\ act.id = T  BY <1>a, <1>5, <1>7, <2>3
        <3>3. a.other # NoCard => w.other = T
            BY <1>a, <1>1, <1>4, <1>5, <2>3, <3>1, ZenonT(30) DEF Args
        <3>4. a.other = NoCard => w.other = NoCard  BY <1>a, <1>5, <1>7, <2>3
        <3> QED BY <1>a, <1>2, <1>3, <1>5, <2>3, <3>1, <3>2, <3>3, <3>4 DEF CardFor
    <2> QED BY <2>1, <2>2, <2>3
<1> QED BY <1>8 DEF About, w

LEMMA GivesComes ==
    ASSUME NEW W, NEW old \in Cards, NEW d \in Cards, Gives(W, old, d),
           NEW s \in Issues, Like(s, old, Shown)
    PROVE  Coming(W, s, d, Shown)
<1>1. /\ ShownStatus(s) = old.status /\ s.title = old.title
      /\ \A x \in Shown : s.f[x] = old.f[x]
    BY LikeShows
<1>2. CASE \E w \in W : w.op = "refuse"  BY <1>2 DEF Coming
<1>3. CASE ~\E w \in W : w.op = "refuse"
    <2>1. /\ \A w \in W : Fits(w, d, Shown)
          /\ s.title = d.title \/ \E w \in W : w.op = "update" /\ w.title # 0
          /\ \A x \in Shown : s.f[x] = d.f[x] \/ \E w \in W : w.op = "set" /\ w.field = x
        BY <1>1, <1>3 DEF Gives
    <2>2. \/ ShownStatus(s) = d.status /\ \A w \in W : w.op \notin {"transition", "flag"}
          \/ /\ ~HasBlockedField \/ \E w \in W : w.op = "flag"
             /\ \/ \E w \in W : w.op = "transition"
                \/ d.status = "Blocked" /\ HasBlockedField
        BY <1>1, <1>3 DEF Gives
    <2> QED BY <2>1, <2>2 DEF Coming
<1> QED BY <1>2, <1>3

LEMMA MovedGives ==
    ASSUME NEW M, NEW V, NEW old, NEW d, NEW T, NEW W, W = M \cup V,
           MovesTo(M, T, d.status), Aimed(V, T), SeeTo(V, old, d)
    PROVE  Aimed(W, T) /\ Gives(W, old, d)
<1>a. /\ \A w \in V : Fits(w, d, Shown)
      /\ d.title = old.title
      /\ \A x \in Shown : d.f[x] = old.f[x] \/ \E w \in V : w.op = "set" /\ w.field = x
    BY DEF SeeTo
<1>1. \A w \in M : Fits(w, d, Shown) /\ w.op # "create" /\ w.id = T
    BY DEF MovesTo, Fits, Shown
<1>2. \/ \E w \in M : w.op = "refuse"
      \/ /\ HasBlockedField => \E w \in M : w.op = "flag"
         /\ (\E w \in M : w.op = "transition") \/ (d.status = "Blocked" /\ HasBlockedField)
    BY DEF MovesTo
<1>3. Aimed(M \cup V, T)  BY <1>1 DEF Aimed
<1> SUFFICES Gives(M \cup V, old, d)
    BY <1>3
<1>4. CASE \E w \in M : w.op = "refuse"  BY <1>3, <1>4 DEF Gives
<1>5. CASE ~\E w \in M : w.op = "refuse"
    <2>1. /\ \A w \in M \cup V : Fits(w, d, Shown)
          /\ \A x \in Shown : d.f[x] = old.f[x] \/ \E w \in M \cup V : w.op = "set" /\ w.field = x
        BY <1>a, <1>1
    <2>2. /\ HasBlockedField => \E w \in M \cup V : w.op = "flag"
          /\ (\E w \in M \cup V : w.op = "transition") \/ (d.status = "Blocked" /\ HasBlockedField)
        BY <1>2, <1>5
    <2> QED BY <1>a, <2>1, <2>2 DEF Gives
<1> QED BY <1>4, <1>5

\* The requests of a tool give an issue what the tool gave the card.
LEMMA RequestsGive ==
    ASSUME NEW act \in GoodActs(FALSE), NEW a \in Args, a.tool = act.a.tool,
           a.status = act.a.status, a.tool \notin CreateTools \cup {"delete_ticket"},
           NEW T \in Refs, T # NoCard, NEW old \in Cards, NEW d \in Cards,
           ShownAfter(a, act, old, d)
    PROVE  LET W == Range(RequestsOf(act, a, T)) IN Aimed(W, T) /\ Gives(W, old, d)
<1> DEFINE R == RequestsOf(act, a, T)
<1> SUFFICES Aimed(Range(R), T) /\ Gives(Range(R), old, d)
    OBVIOUS
<1>1. /\ act \in Acts /\ ActOK(act, FALSE) /\ act.tags \in SUBSET Tags
      /\ act.notes \in SUBSET Remarks /\ act.status \in Statuses \cup {""}
      /\ act.moved => act.status \in Statuses
    BY DEF GoodActs, Acts, ActOK
<1>2. a.tool \in Tools  BY <1>1 DEF ActOK
<1>3. /\ a.v \in Nat /\ a.tags \in SUBSET Tags /\ a.notes \in SUBSET Remarks
      /\ a.other \in Refs /\ a.status \in Statuses \cup {""}
    BY DEF Args
<1>4. /\ "assignee" \in CardFields /\ "links" \in CardFields /\ "comments" \in CardFields
      /\ "due" \in CardFields /\ "Blocked" \in Statuses
    BY DEF CardFields, Single, Lists, Statuses
<1> DEFINE Setting == DOMAIN FieldOf \cup {"set_priority", "unassign_ticket",
                                          "record_participant_update"}
           Moving == {"move_ticket", "set_blocked", "record_participant_update",
                      "prioritize_ticket"}
<1>5. a.tool \notin Setting => \A x \in Shown : d.f[x] = old.f[x]
    BY DEF ShownAfter, FieldAfter
<1>6. a.tool \notin Moving => d.status = old.status  BY DEF ShownAfter, StatusAfter
<1>7. a.tool # "update_ticket" => d.title = old.title  BY DEF ShownAfter
<1>8. "comments" \notin Shown /\ "links" \notin Shown
      /\ \A tool \in DOMAIN ListOf : ListOf[tool] \notin Shown
    BY DEF Shown, ListOf
<1>9. CASE a.tool = "move_ticket"
    <2>1. R = MoveIssue(T, a.status, FALSE)  BY <1>9, FieldNames DEF RequestsOf
    <2>2. a.status \in Statuses /\ d.status = a.status
        BY <1>1, <1>3, <1>9 DEF ActOK, ShownAfter, StatusAfter
    <2>3. MovesTo(Range(R), T, d.status)  BY <2>1, <2>2, MoveBrings
    <2>4. \A x \in Shown : d.f[x] = old.f[x]  BY <1>5, <1>9, FieldNames
    <2>5. Aimed({}, T) /\ SeeTo({}, old, d)  BY <1>7, <1>9, <2>4 DEF Aimed, SeeTo
    <2>6. Range(R) = Range(R) \cup {}  OBVIOUS
    <2> HIDE DEF R
    <2> QED BY <2>3, <2>5, <2>6, MovedGives
<1>10. CASE a.tool \in {"add_tags", "remove_tags"}
    <2>1. R = AddLabels(T, a.tags) \/ R = RemoveLabels(T, a.tags)
        BY <1>10, FieldNames DEF RequestsOf
    <2>2. \A w \in Range(R) : w.id = T /\ w.op \in {"addLabels", "removeLabels"}
        BY <2>1, RequestsAsk
    <2> HIDE DEF R
    <2> QED BY <1>5, <1>6, <1>7, <1>10, <2>2, FieldNames DEF Aimed, Gives, Fits
<1>11. CASE a.tool = "update_ticket"
    <2>1. R = UpdateIssue(T, a.title, a.notes)  BY <1>11, FieldNames DEF RequestsOf
    <2>2. /\ \A w \in Range(R) : w.id = T /\ w.op = "update" /\ w.title = a.title
          /\ a.title # 0 => Range(R) # {}
        BY <2>1, RequestsAsk
    <2>3. d.title = IF a.title # 0 THEN a.title ELSE old.title
        BY <1>11 DEF ShownAfter
    <2> HIDE DEF R
    <2>4. d.title = old.title \/ \E w \in Range(R) : w.op = "update" /\ w.title # 0
        BY <2>2, <2>3
    <2>5. \A w \in Range(R) : Fits(w, d, Shown)  BY <2>2, <2>3 DEF Fits
    <2> QED BY <1>5, <1>6, <1>11, <2>2, <2>4, <2>5, FieldNames DEF Aimed, Gives
<1>12. CASE a.tool = "append_notes"
    <2>1. R = UpdateIssue(T, 0, act.notes)  BY <1>12, FieldNames DEF RequestsOf
    <2>2. \A w \in Range(R) : w.id = T /\ w.op = "update" /\ w.title = 0
        BY <2>1, RequestsAsk
    <2> HIDE DEF R
    <2> QED BY <1>5, <1>6, <1>7, <1>12, <2>2, FieldNames DEF Aimed, Gives, Fits
<1>13. CASE a.tool \in DOMAIN FieldOf \cup {"set_priority", "unassign_ticket"}
    <2> DEFINE field == CASE a.tool = "set_priority" -> "priority"
                          [] a.tool = "unassign_ticket" -> "assignee"
                          [] OTHER -> FieldOf[a.tool]
               v == IF a.tool = "unassign_ticket" THEN 0 ELSE a.v
    <2>1. R = UpdateField(T, field, v)
        <3>1. CASE a.tool = "set_priority"
            <4>1. R = SetPriorityName(T, a.v) /\ a.v # 0
                BY <3>1, FieldNames DEF RequestsOf, ShownAfter
            <4> QED BY <3>1, <4>1 DEF SetPriorityName
        <3>2. CASE a.tool = "unassign_ticket"
            <4>1. R = UpdateField(T, "assignee", 0)
                BY <3>2, FieldNames DEF RequestsOf
            <4> QED BY <3>2, <4>1
        <3>3. CASE a.tool \in DOMAIN FieldOf
            <4>1. R = UpdateField(T, FieldOf[a.tool], a.v)
                BY <3>3, FieldNames DEF RequestsOf
            <4> QED BY <3>3, <4>1, FieldNames
        <3> QED BY <1>13, <3>1, <3>2, <3>3
    <2>2. \A x \in Shown : d.f[x] = IF x = field THEN v ELSE old.f[x]
        BY <1>13, FieldNames DEF ShownAfter, FieldAfter
    <2> HIDE DEF field, v
    <2>3. /\ \A w \in Range(R) : w.id = T /\ w.op = "set" /\ w.field = field /\ w.v = v
          /\ Range(R) # {}
        BY <2>1, RequestsAsk
    <2>4. d.status = old.status /\ d.title = old.title
        BY <1>6, <1>7, <1>13, FieldNames
    <2> HIDE DEF R
    <2>5. \A x \in Shown : d.f[x] = old.f[x] \/ \E w \in Range(R) : w.op = "set" /\ w.field = x
        BY <2>2, <2>3
    <2> QED BY <2>2, <2>3, <2>4, <2>5 DEF Aimed, Gives, Fits
<1>14. CASE a.tool \in DOMAIN ListOf \cup {"link_issues"}
    <2>1. (\E field : field \notin Shown /\ R = AddTo(T, field)) \/ R = Refuse(T)
        <3>1. CASE a.tool \in DOMAIN ListOf
            <4>1. R = AddTo(T, ListOf[a.tool])  BY <3>1, FieldNames DEF RequestsOf
            <4> QED BY <1>8, <3>1, <4>1
        <3>2. CASE a.tool = "link_issues"
            <4>1. R = AddTo(T, "links") \/ R = Refuse(T)
                BY <3>2, FieldNames DEF RequestsOf
            <4> QED BY <1>8, <4>1
        <3> QED BY <1>14, <3>1, <3>2
    <2>2. \A w \in Range(R) : w.id = T /\ (w.op = "refuse" \/ (w.op = "extend" /\ w.field \notin Shown))
        <3>1. CASE R = Refuse(T)  BY <3>1, RequestsAsk
        <3>2. CASE R # Refuse(T)
            <4>1. PICK field : field \notin Shown /\ R = AddTo(T, field)
                BY <2>1, <3>2
            <4> HIDE DEF R
            <4> QED BY <4>1, RequestsAsk
        <3> QED BY <3>1, <3>2
    <2>3. /\ d.status = old.status /\ d.title = old.title
          /\ \A x \in Shown : d.f[x] = old.f[x]
        BY <1>5, <1>6, <1>7, <1>14, FieldNames
    <2> HIDE DEF R
    <2> QED BY <2>2, <2>3 DEF Aimed, Gives, Fits
<1>15. \A x \in Refs : \A w \in Range(RankIssue(T, x)) : w.id = T /\ w.op \in {"rank", "refuse"}
    <2> SUFFICES ASSUME NEW x \in Refs
                 PROVE  \A w \in Range(RankIssue(T, x)) : w.id = T /\ w.op \in {"rank", "refuse"}
        OBVIOUS
    <2>1. RankIssue(T, x) \in {<<>>, Refuse(T), <<On(T, "rank")>>}  BY DEF RankIssue
    <2>2. \A w \in Range(<<On(T, "rank")>>) : w.id = T /\ w.op = "rank"
        BY RangeFacts, OnIs
    <2>3. \A w \in Range(Refuse(T)) : w.id = T /\ w.op = "refuse"  BY RequestsAsk
    <2> QED BY <2>1, <2>2, <2>3, RangeFacts
<1>16. CASE a.tool = "prioritize_ticket"
    <2> DEFINE move == IF act.moved THEN MoveIssue(T, act.status, FALSE) ELSE <<>>
               beside == IF a.other # NoCard THEN a.other ELSE act.other
               rank == IF beside = NoCard THEN <<>> ELSE RankIssue(T, beside)
    <2>1. R = move \o rank
        <3>1. R = Reprioritize(T, act, a)  BY <1>16, FieldNames DEF RequestsOf
        <3> QED BY <3>1 DEF Reprioritize
    <2>2. beside \in Refs  BY <1>3, NoCardIsRef DEF Acts, GoodActs
    <2> HIDE DEF beside
    <2>3. /\ rank \in Seq(Plain)
          /\ \A w \in Range(rank) : w.id = T /\ w.op \in {"rank", "refuse"}
        <3>1. CASE beside = NoCard  BY <3>1, RangeFacts, PlainLists
        <3>2. CASE beside # NoCard  BY <1>15, <2>2, <3>2, RankRequests
        <3> QED BY <3>1, <3>2
    <2>4. /\ d.title = old.title /\ \A x \in Shown : d.f[x] = old.f[x]
          /\ d.status = IF act.moved THEN act.status ELSE old.status
        <3>1. d.status = StatusAfter(a, act, old)  BY DEF ShownAfter
        <3>2. StatusAfter(a, act, old) = IF act.moved THEN act.status ELSE old.status
            BY <1>16 DEF StatusAfter
        <3> QED BY <1>5, <1>7, <1>16, <3>1, <3>2, FieldNames
    <2> HIDE DEF rank, R
    <2>5. CASE act.moved
        <3>1. move = MoveIssue(T, d.status, FALSE) /\ d.status \in Statuses
            BY <1>1, <2>4, <2>5
        <3>2. move \in Seq(Plain) /\ MovesTo(Range(move), T, d.status)
            BY <3>1, MoveBrings, MoveRequests
        <3>3. Range(R) = Range(move) \cup Range(rank)  BY <2>1, <2>3, <3>2, RangeFacts
        <3>4. Aimed(Range(rank), T) /\ SeeTo(Range(rank), old, d)
            BY <2>3, <2>4 DEF Aimed, Fits, SeeTo
        <3> HIDE DEF move
        <3> QED BY <3>2, <3>3, <3>4, MovedGives
    <2>6. CASE ~act.moved
        <3>1. R = rank  BY <2>1, <2>3, <2>6, ConcatEmptySeq
        <3> QED BY <2>3, <2>4, <2>6, <3>1 DEF Aimed, Gives, Fits
    <2> QED BY <2>5, <2>6
<1>17. CASE a.tool = "rank_issue"
    <2>1. R = RankIssue(T, a.other) \/ R = RankIssue(T, NoCard)
        BY <1>17, FieldNames DEF RequestsOf
    <2>2. \A w \in Range(R) : w.id = T /\ w.op \in {"rank", "refuse"}
        BY <1>3, <1>15, <2>1, NoCardIsRef
    <2>3. /\ d.status = old.status /\ d.title = old.title
          /\ \A x \in Shown : d.f[x] = old.f[x]
        BY <1>5, <1>6, <1>7, <1>17, FieldNames
    <2> HIDE DEF R
    <2> QED BY <2>2, <2>3 DEF Aimed, Gives, Fits
<1>18. CASE a.tool = "set_blocked"
    <2> DEFINE move == MoveIssue(T, "Blocked", FALSE)
               labels == AddLabels(T, act.tags \ {"blocked"})
               notes == UpdateIssue(T, 0, act.notes)
               comment == AddTo(T, "comments")
               V == Range(labels) \cup Range(notes) \cup Range(comment)
    <2>1. R = move \o labels \o notes \o comment  BY <1>18, FieldNames DEF RequestsOf
    <2>2. act.tags \ {"blocked"} \in SUBSET Tags  BY <1>1
    <2>3. /\ move \in Seq(Plain) /\ labels \in Seq(Plain) /\ notes \in Seq(Plain)
          /\ comment \in Seq(Plain)
        BY <1>1, <1>4, <2>2, MoveRequests, LabelRequests, UpdateRequests, FieldRequests
    <2>4. /\ MovesTo(Range(move), T, "Blocked")
          /\ \A w \in Range(labels) : w.id = T /\ w.op = "addLabels"
          /\ \A w \in Range(notes) : w.id = T /\ w.op = "update" /\ w.title = 0
          /\ \A w \in Range(comment) : w.id = T /\ w.op = "extend" /\ w.field = "comments"
        <3>1. MovesTo(Range(move), T, "Blocked")  BY <1>4, MoveBrings
        <3>2. \A w \in Range(labels) : w.id = T /\ w.op = "addLabels"  BY RequestsAsk
        <3>3. \A w \in Range(notes) : w.id = T /\ w.op = "update" /\ w.title = 0
            BY RequestsAsk
        <3>4. \A w \in Range(comment) : w.id = T /\ w.op = "extend" /\ w.field = "comments"
            BY RequestsAsk
        <3> QED BY <3>1, <3>2, <3>3, <3>4
    <2> HIDE DEF move, labels, notes, comment, R
    <2>5. move \o labels \in Seq(Plain) /\ move \o labels \o notes \in Seq(Plain)
        BY <2>3, PlainLists
    <2>6. Range(R) = Range(move) \cup V
        <3>1. Range(R) = Range(move \o labels \o notes) \cup Range(comment)
            BY <2>1, <2>3, <2>5, RangeFacts
        <3>2. Range(move \o labels \o notes) = Range(move \o labels) \cup Range(notes)
            BY <2>3, <2>5, RangeFacts
        <3>3. Range(move \o labels) = Range(move) \cup Range(labels)
            BY <2>3, RangeFacts
        <3> QED BY <3>1, <3>2, <3>3
    <2>7. /\ d.title = old.title /\ d.status = "Blocked" /\ \A x \in Shown : d.f[x] = old.f[x]
        BY <1>5, <1>7, <1>18, FieldNames DEF ShownAfter, StatusAfter
    <2>8. Aimed(V, T) /\ SeeTo(V, old, d)  BY <1>8, <2>4, <2>7 DEF Aimed, Fits, SeeTo
    <2>9. MovesTo(Range(move), T, d.status)  BY <2>4, <2>7
    <2> HIDE DEF V
    <2> QED BY <2>6, <2>8, <2>9, MovedGives
<1>19. CASE a.tool = "record_participant_update"
    <2> DEFINE move == IF a.status = "" THEN <<>> ELSE MoveIssue(T, a.status, a.blocker)
               due == IF a.v = 0 THEN <<>> ELSE UpdateField(T, "due", a.v)
               comment == AddTo(T, "comments")
               V == Range(due) \cup Range(comment)
    <2>1. R = move \o due \o comment
        <3>1. R = ParticipantUpdate(T, a)  BY <1>19, FieldNames DEF RequestsOf
        <3> QED BY <3>1 DEF ParticipantUpdate
    <2>2. a.blocker \in BOOLEAN  BY DEF Args
    <2>3. move \in Seq(Plain) /\ due \in Seq(Plain) /\ comment \in Seq(Plain)
        <3>1. a.status # "" => MoveIssue(T, a.status, a.blocker) \in Seq(Plain)
            BY <1>3, <2>2, MoveRequests
        <3>2. UpdateField(T, "due", a.v) \in Seq(Plain) /\ comment \in Seq(Plain)
            BY <1>3, <1>4, FieldRequests
        <3> QED BY <3>1, <3>2, PlainLists
    <2>4. /\ a.status # "" => MovesTo(Range(move), T, a.status)
          /\ a.status = "" => Range(move) = {}
        BY <1>3, <2>2, MoveBrings, RangeFacts
    <2>5. /\ \A w \in Range(due) : w.id = T /\ w.op = "set" /\ w.field = "due" /\ w.v = a.v
          /\ a.v # 0 => Range(due) # {}
          /\ a.v = 0 => Range(due) = {}
          /\ \A w \in Range(comment) : w.id = T /\ w.op = "extend" /\ w.field = "comments"
        BY RequestsAsk, RangeFacts
    <2> HIDE DEF move, due, comment, R
    <2>6. move \o due \in Seq(Plain)  BY <2>3, PlainLists
    <2>7. Range(R) = Range(move) \cup V  BY <2>1, <2>3, <2>6, RangeFacts, ZenonT(30)
    <2>8. /\ d.title = old.title
          /\ d.status = IF a.status # "" THEN a.status ELSE old.status
          /\ \A x \in Shown : d.f[x] = IF x = "due" /\ a.v # 0 THEN a.v ELSE old.f[x]
        BY <1>7, <1>19, FieldNames DEF ShownAfter, StatusAfter, FieldAfter
    <2>9. Aimed(V, T) /\ \A w \in V : Fits(w, d, Shown)
        <3>1. "due" \in Shown  BY DEF Shown
        <3> QED BY <1>8, <2>5, <2>8, <3>1 DEF Aimed, Fits
    <2>10. \A x \in Shown : d.f[x] = old.f[x] \/ \E w \in V : w.op = "set" /\ w.field = x
        BY <2>5, <2>8
    <2>11. \A w \in V : w.op \notin {"transition", "flag"}  BY <2>5
    <2> HIDE DEF V
    <2>12. CASE a.status # ""
        <3>1. SeeTo(V, old, d)  BY <2>8, <2>9, <2>10 DEF SeeTo
        <3>2. MovesTo(Range(move), T, d.status)  BY <2>4, <2>8, <2>12
        <3> QED BY <2>7, <2>9, <3>1, <3>2, MovedGives
    <2>13. CASE a.status = ""
        <3>1. Range(R) = V /\ d.status = old.status  BY <2>4, <2>7, <2>8, <2>13
        <3> QED BY <2>8, <2>9, <2>10, <2>11, <3>1 DEF Gives
    <2> QED BY <2>12, <2>13
<1> QED
    BY <1>2, <1>9, <1>10, <1>11, <1>12, <1>13, <1>14, <1>16, <1>17, <1>18, <1>19, FieldNames
    DEF Tools, CreateTools

----------------------------------------------------------------------------
\* What a tool does to the cards.

LEMMA EditTouches ==
    ASSUME NEW b \in Boards, Distinct(b.cards), NEW a \in Args, NEW out,
           ResolveAlias(b, a.card) = a.card, a.tool # "delete_ticket", EditsCard(b, a, out)
    PROVE  Touched(b, a, out)
<1> DEFINE i == Find(b, a.card)
<1>1. i \in 1 .. Len(b.cards) /\ b.cards[i].id = a.card  BY FindFound DEF EditsCard
<1>2. PICK d \in Cards : /\ out.board = [b EXCEPT !.cards[i] = d]
                         /\ d.id = a.card
                         /\ ShownAfter(a, out, b.cards[i], d)
    BY <1>1 DEF EditsCard
<1>3. out.id = a.card /\ i # 0  BY DEF EditsCard
<1> DEFINE n == out.board
<1> HIDE DEF i
<1>4. /\ n \in Boards /\ n.next = b.next /\ Len(n.cards) = Len(b.cards)
      /\ \A j \in 1 .. Len(b.cards) : n.cards[j] = IF j = i THEN d ELSE b.cards[j]
    BY <1>1, <1>2, CardReplaced
<1> HIDE DEF n
<1>5. DOMAIN n.cards = 1 .. Len(b.cards) /\ DOMAIN b.cards = 1 .. Len(b.cards)
    BY <1>4, BoardParts
<1>6. \A j \in 1 .. Len(b.cards) : n.cards[j].id = b.cards[j].id  BY <1>1, <1>2, <1>4
<1>7. a.card \in IdsOf(n.cards)  BY <1>1, <1>5, <1>6 DEF IdsOf
<1>8. ASSUME a.tool \in FallbackTools, NEW j \in 1 .. Len(b.cards)
      PROVE  n.cards[j].title = b.cards[j].title
    <2>1. a.tool # "update_ticket"  BY <1>8 DEF FallbackTools
    <2>2. d.title = b.cards[i].title  BY <1>2, <2>1 DEF ShownAfter
    <2> QED BY <1>4, <2>2
<1>9. ASSUME NEW e \in Range(n.cards)
      PROVE  \E old \in Range(b.cards) :
                /\ e.id = old.id
                /\ IF e.id = a.card THEN ShownAfter(a, out, old, e) ELSE e = old
    <2>1. PICK j \in 1 .. Len(b.cards) : e = n.cards[j]  BY <1>5, <1>9 DEF Range
    <2>2. b.cards[j] \in Range(b.cards) /\ b.cards[i] \in Range(b.cards)
        BY <1>1, <1>5 DEF Range
    <2>3. CASE j = i
        <3>1. e = d  BY <1>4, <2>1, <2>3
        <3> QED BY <1>1, <1>2, <2>2, <3>1
    <2>4. CASE j # i
        <3>1. e = b.cards[j]  BY <1>4, <2>1, <2>4
        <3>2. e.id # a.card  BY <1>1, <1>5, <2>4, <3>1 DEF Distinct
        <3> QED BY <2>2, <3>1, <3>2
    <2> QED BY <2>3, <2>4
<1> QED BY <1>3, <1>4, <1>6, <1>7, <1>8, <1>9 DEF Touched, n, i

LEMMA FieldIsSet ==
    ASSUME NEW b \in Boards, NEW a \in Args, NEW out, out = ApplyTool(b, a), out.changed,
           a.tool \in DOMAIN FieldOf \cup {"set_priority", "unassign_ticket"}
    PROVE  EditsCard(b, a, out)
<1> DEFINE field == CASE a.tool = "set_priority" -> "priority"
                      [] a.tool = "unassign_ticket" -> "assignee"
                      [] OTHER -> FieldOf[a.tool]
           v == IF a.tool = "unassign_ticket" THEN 0 ELSE a.v
           i == Find(b, a.card)
           c == b.cards[i]
           d == [c EXCEPT !.f[field] = v]
<1>1. ~Refused(b).changed  BY DEF Refused
<1>2. \E e \in Args : e.card = a.card /\ e.v = v /\ out = SetField(b, e, field)
    <2>1. CASE a.tool = "unassign_ticket"
        <3> DEFINE none == [a EXCEPT !.v = 0]
        <3>1. none \in Args /\ none.card = a.card /\ none.v = 0  BY DEF Args
        <3>2. out = SetField(b, none, "assignee")
            BY <2>1 DEF ApplyTool, UnassignTicket
        <3>3. field = "assignee" /\ v = 0  BY <2>1
        <3> HIDE DEF none, field, v
        <3> QED BY <3>1, <3>2, <3>3
    <2>2. CASE a.tool = "set_priority"
        <3>1. out = SetPriority(b, a)  BY <2>2 DEF ApplyTool
        <3> QED BY <1>1, <2>2, <3>1 DEF SetPriority
    <2>3. CASE a.tool \in DOMAIN FieldOf
        <3>1. field = FieldOf[a.tool] /\ v = a.v  BY <2>3, FieldNames
        <3>2. out = SetField(b, a, FieldOf[a.tool])
            <4>1. CASE a.tool \in {"assign_ticket", "set_eta", "set_story_points", "set_estimate"}
                <5>1. \/ a.tool = "assign_ticket" /\ out = AssignTicket(b, a)
                      \/ a.tool = "set_eta" /\ out = SetETA(b, a)
                      \/ a.tool = "set_story_points" /\ out = SetStoryPoints(b, a)
                      \/ a.tool = "set_estimate" /\ out = SetEstimate(b, a)
                    BY <4>1, ZenonT(30) DEF ApplyTool
                <5> QED
                    BY <1>1, <5>1 DEF AssignTicket, SetETA, SetStoryPoints, SetEstimate, FieldOf
            <4>2. CASE a.tool \in {"set_sprint", "set_components", "set_fix_versions",
                                   "set_custom_field", "set_reporter"}
                <5>1. \/ a.tool = "set_sprint" /\ out = SetSprint(b, a)
                      \/ a.tool = "set_components" /\ out = SetComponents(b, a)
                      \/ a.tool = "set_fix_versions" /\ out = SetFixVersions(b, a)
                      \/ a.tool = "set_custom_field" /\ out = SetCustomField(b, a)
                      \/ a.tool = "set_reporter" /\ out = SetReporter(b, a)
                    BY <4>2 DEF ApplyTool
                <5> QED
                    BY <1>1, <5>1 DEF SetSprint, SetComponents, SetFixVersions, SetCustomField,
                       SetReporter, FieldOf
            <4> QED BY <2>3, <4>1, <4>2, FieldNames
        <3> QED BY <3>1, <3>2
    <2> QED BY <2>1, <2>2, <2>3
<1>3. a.tool = "set_priority" => a.v # 0
    <2>1. a.tool = "set_priority" => out = SetPriority(b, a)  BY DEF ApplyTool
    <2> QED BY <1>1, <2>1 DEF SetPriority
<1>4. field \in CardFields /\ v \in Nat  BY FieldNames DEF Args, CardFields, Single
<1>5. \A old, x : FieldAfter(a, old, x) = IF x = field THEN v ELSE old.f[x]
    BY FieldNames DEF FieldAfter
<1>6. \A old : StatusAfter(a, out, old) = old.status  BY FieldNames DEF StatusAfter
<1>7. a.tool # "update_ticket"  BY FieldNames
<1> HIDE DEF field, v
<1>8. PICK e \in Args : e.card = a.card /\ e.v = v /\ out = SetField(b, e, field)
    BY <1>2
<1>9. i # 0 /\ out = Changed([b EXCEPT !.cards[i] = d], a.card)
    BY <1>1, <1>8 DEF SetField, OnCard
<1>10. c \in Cards  BY <1>9, FindFound
<1>11. /\ d \in Cards /\ d.id = c.id /\ d.title = c.title /\ d.status = c.status
       /\ \A x \in CardFields : d.f[x] = IF x = field THEN v ELSE c.f[x]
    BY <1>4, <1>10 DEF Cards
<1>12. Shown \subseteq CardFields  BY DEF Shown, CardFields, Single
<1>13. ShownAfter(a, out, c, d)
    <2> HIDE DEF d, c
    <2> QED BY <1>3, <1>5, <1>6, <1>7, <1>11, <1>12 DEF ShownAfter
<1>14. out.board = [b EXCEPT !.cards[i] = d] /\ out.id = a.card
    BY <1>9 DEF Changed, Refused
<1> HIDE DEF d
<1> QED BY <1>9, <1>11, <1>13, <1>14 DEF EditsCard

LEMMA ListIsExtended ==
    ASSUME NEW b \in Boards, NEW a \in Args, NEW out, out = ApplyTool(b, a), out.changed,
           a.tool \in DOMAIN ListOf \cup {"link_issues"}
    PROVE  EditsCard(b, a, out)
<1>1. ~Refused(b).changed  BY DEF Refused
<1>2. PICK field \in Lists : out = Extend(b, a, field)
    <2>1. \/ out = AddComment(b, a) \/ out = AddWorklog(b, a) \/ out = AddRemoteLink(b, a)
          \/ out = AddWatcher(b, a) \/ out = LinkIssues(b, a)
        BY FieldNames DEF ApplyTool
    <2> QED
        BY <1>1, <2>1 DEF AddComment, AddWorklog, AddRemoteLink, AddWatcher, LinkIssues, Lists
<1> DEFINE i == Find(b, a.card)
           c == b.cards[i]
           d == [c EXCEPT !.f[field] = @ + 1, !.own = TRUE]
<1>3. i # 0 /\ out = Changed([b EXCEPT !.cards[i] = d], a.card)
    BY <1>1, <1>2 DEF Extend, OnCard
<1>4. c \in Cards  BY <1>3, FindFound
<1>5. /\ field \in CardFields /\ field \notin Shown
      /\ \A x \in Shown : x \in CardFields /\ x # field
    BY DEF Shown, CardFields, Single, Lists
<1>6. /\ d \in Cards /\ d.id = c.id /\ d.title = c.title /\ d.status = c.status
      /\ \A x \in CardFields : x # field => d.f[x] = c.f[x]
    <2>1. c.f[field] + 1 \in Nat /\ c.f \in [CardFields -> Nat]
        BY <1>4, <1>5 DEF Cards
    <2> QED BY <1>4, <1>5, <2>1 DEF Cards
<1>7. /\ \A old, x : FieldAfter(a, old, x) = old.f[x]
      /\ \A old : StatusAfter(a, out, old) = old.status
      /\ a.tool \notin {"update_ticket", "set_priority"}
    BY FieldNames DEF FieldAfter, StatusAfter
<1>8. ShownAfter(a, out, c, d)
    <2> HIDE DEF d, c
    <2> QED BY <1>5, <1>6, <1>7 DEF ShownAfter
<1>9. out.board = [b EXCEPT !.cards[i] = d] /\ out.id = a.card
    BY <1>3 DEF Changed, Refused
<1> HIDE DEF d
<1> QED BY <1>3, <1>6, <1>8, <1>9 DEF EditsCard

LEMMA CardIsEdited ==
    ASSUME NEW b \in Boards, NEW a \in Args, NEW out, out = ApplyTool(b, a), out.changed,
           a.tool \in {"move_ticket", "add_tags", "remove_tags", "update_ticket"}
    PROVE  EditsCard(b, a, out)
<1>1. ~Refused(b).changed  BY DEF Refused
<1> DEFINE i == Find(b, a.card)
           c == b.cards[i]
           title == IF a.tool # "update_ticket" \/ a.title = 0 THEN c.title ELSE a.title
           status == IF a.tool = "move_ticket" THEN a.status ELSE c.status
<1>2. i # 0
    <2>1. \/ out = MoveTicket(b, a) \/ out = AddTags(b, a) \/ out = RemoveTags(b, a)
          \/ out = UpdateTicket(b, a)
        BY DEF ApplyTool
    <2> QED BY <1>1, <2>1 DEF MoveTicket, AddTags, RemoveTags, UpdateTicket, OnCard
<1>3. c \in Cards  BY <1>2, FindFound
<1>4. \E d \in Cards :
         /\ out = Changed([b EXCEPT !.cards[i] = d], a.card)
         /\ d.id = c.id /\ d.title = title /\ d.status = status /\ d.f = c.f
    <2>1. CASE a.tool = "move_ticket"
        <3> DEFINE d == [c EXCEPT !.status = a.status]
        <3>1. out = MoveTicket(b, a)  BY <2>1 DEF ApplyTool
        <3>2. a.status # "" /\ out = Changed([b EXCEPT !.cards[i] = d], a.card)
            BY <1>1, <1>2, <3>1 DEF MoveTicket, OnCard
        <3>3. d \in Cards /\ d.id = c.id /\ d.title = c.title /\ d.status = a.status /\ d.f = c.f
            BY <1>3, <3>2 DEF Cards, Args
        <3>4. title = c.title /\ status = a.status  BY <2>1
        <3> HIDE DEF d, title, status
        <3> QED BY <3>2, <3>3, <3>4
    <2>2. CASE a.tool = "add_tags"
        <3> DEFINE d == [c EXCEPT !.tags = @ \cup a.tags]
        <3>1. out = AddTags(b, a)  BY <2>2 DEF ApplyTool
        <3>2. out = Changed([b EXCEPT !.cards[i] = d], a.card)
            BY <1>2, <3>1 DEF AddTags, OnCard
        <3>3. c.tags \cup a.tags \in SUBSET Tags  BY <1>3 DEF Cards, Args
        <3>4. d \in Cards /\ d.id = c.id /\ d.title = c.title /\ d.status = c.status /\ d.f = c.f
            BY <1>3, <3>3 DEF Cards
        <3>5. title = c.title /\ status = c.status  BY <2>2
        <3> HIDE DEF d, title, status
        <3> QED BY <3>2, <3>4, <3>5
    <2>3. CASE a.tool = "remove_tags"
        <3> DEFINE d == [c EXCEPT !.tags = @ \ a.tags]
        <3>1. out = RemoveTags(b, a)  BY <2>3 DEF ApplyTool
        <3>2. out = Changed([b EXCEPT !.cards[i] = d], a.card)
            BY <1>1, <1>2, <3>1 DEF RemoveTags, OnCard
        <3>3. c.tags \ a.tags \in SUBSET Tags  BY <1>3 DEF Cards
        <3>4. d \in Cards /\ d.id = c.id /\ d.title = c.title /\ d.status = c.status /\ d.f = c.f
            BY <1>3, <3>3 DEF Cards
        <3>5. title = c.title /\ status = c.status  BY <2>3
        <3> HIDE DEF d, title, status
        <3> QED BY <3>2, <3>4, <3>5
    <2>4. CASE a.tool = "update_ticket"
        <3> DEFINE newTitle == IF a.title = 0 THEN c.title ELSE a.title
                   notes == IF a.notes = {} THEN c.notes ELSE a.notes
                   d == [c EXCEPT !.title = newTitle, !.notes = notes]
        <3>1. out = UpdateTicket(b, a)  BY <2>4 DEF ApplyTool
        <3>2. out = Changed([b EXCEPT !.cards[i] = d], a.card)
            BY <1>2, <3>1 DEF UpdateTicket, OnCard
        <3>3. newTitle \in Nat /\ notes \in SUBSET Remarks
            BY <1>3, TextAssumption DEF Cards, Args
        <3>4. title = newTitle /\ status = c.status  BY <2>4
        <3> HIDE DEF newTitle, notes, title, status
        <3>5. d \in Cards /\ d.id = c.id /\ d.title = newTitle /\ d.status = c.status /\ d.f = c.f
            BY <1>3, <3>3 DEF Cards
        <3> HIDE DEF d
        <3> QED BY <3>2, <3>4, <3>5
    <2> QED BY <2>1, <2>2, <2>3, <2>4
<1>5. PICK d \in Cards : /\ out = Changed([b EXCEPT !.cards[i] = d], a.card)
                         /\ d.id = c.id /\ d.title = title /\ d.status = status /\ d.f = c.f
    BY <1>4
<1>6. ShownAfter(a, out, c, d)
    <2>1. \A x : FieldAfter(a, c, x) = c.f[x]  BY FieldNames DEF FieldAfter
    <2>2. StatusAfter(a, out, c) = status  BY DEF StatusAfter
    <2> QED BY <1>5, <2>1, <2>2 DEF ShownAfter
<1>7. out.board = [b EXCEPT !.cards[i] = d] /\ out.id = a.card
    BY <1>5 DEF Changed, Refused
<1> QED BY <1>2, <1>5, <1>6, <1>7 DEF EditsCard

\* Results that say more of the card than that it changed.
LEMMA SaidSame ==
    ASSUME NEW n \in Boards, NEW id, NEW notes
    PROVE  LET out == Changed(n, id) IN
           /\ out.board = n /\ out.changed /\ out.id = id
           /\ [out EXCEPT !.notes = notes].board = n
           /\ [out EXCEPT !.notes = notes].id = id
BY DEF Changed, Refused

LEMMA NotesAreAdded ==
    ASSUME NEW b \in Boards, NEW a \in Args, NEW out, out = ApplyTool(b, a), out.changed,
           a.tool \in {"append_notes", "set_blocked"}
    PROVE  EditsCard(b, a, out)
<1> DEFINE i == Find(b, a.card)
           c == b.cards[i]
           added == [c EXCEPT !.notes = @ \cup a.notes]
           blocked == Block(c, a.notes, a.tags)
           d == IF a.tool = "append_notes" THEN added ELSE blocked
           n == [b EXCEPT !.cards[i] = d]
           made == Changed(n, a.card)
<1>1. ~Refused(b).changed  BY DEF Refused
<1>2. i # 0 /\ \E notes, tags :
         out = [made EXCEPT !.notes = notes] \/ out = [[made EXCEPT !.notes = notes] EXCEPT !.tags = tags]
    <2>1. CASE a.tool = "append_notes"
        <3>1. out = AppendNotes(b, a)  BY <2>1 DEF ApplyTool
        <3>2. i # 0  BY <1>1, <3>1 DEF AppendNotes, WithNotes, OnCard
        <3>3. a.notes # {} /\ d = added  BY <1>1, <2>1, <3>1 DEF AppendNotes
        <3>4. Changed([b EXCEPT !.cards[i] = added], a.card).changed
            BY DEF Changed, Refused
        <3>5. out = [Changed([b EXCEPT !.cards[i] = added], a.card) EXCEPT !.notes =
                        Changed([b EXCEPT !.cards[i] = added], a.card).board.cards[i].notes]
            BY <3>1, <3>2, <3>3, <3>4, ZenonT(30) DEF AppendNotes, WithNotes, OnCard
        <3> QED BY <3>2, <3>3, <3>5, Zenon
    <2>2. CASE a.tool = "set_blocked"
        <3> DEFINE said == WithNotes(b, a, LAMBDA x : Block(x, a.notes, a.tags))
                   tags == {"blocked"} \cup a.tags
        <3>1. out = [said EXCEPT !.tags = tags]  BY <2>2 DEF ApplyTool, SetBlocked
        <3>2. i = 0 => said = Refused(b)  BY DEF WithNotes, OnCard, Refused
        <3>3. [Refused(b) EXCEPT !.tags = tags].changed = FALSE  BY DEF Refused
        <3>4. i # 0
            <4> HIDE DEF said, tags
            <4> QED BY <3>1, <3>2, <3>3
        <3>5. d = blocked  BY <2>2
        <3>6. Changed([b EXCEPT !.cards[i] = blocked], a.card).changed
            BY DEF Changed, Refused
        <3>7. said = [Changed([b EXCEPT !.cards[i] = blocked], a.card) EXCEPT !.notes =
                        Changed([b EXCEPT !.cards[i] = blocked], a.card).board.cards[i].notes]
            BY <3>4, <3>6 DEF WithNotes, OnCard
        <3> HIDE DEF said, tags
        <3> QED BY <3>1, <3>4, <3>5, <3>7, ZenonT(30)
    <2> QED BY <2>1, <2>2
<1>3. i \in 1 .. Len(b.cards) /\ c \in Cards  BY <1>2, FindFound
<1>4. /\ d \in Cards /\ d.id = c.id /\ d.title = c.title
      /\ d.status = IF a.tool = "set_blocked" THEN "Blocked" ELSE c.status
      /\ \A x \in Shown : d.f[x] = c.f[x]
    <2>1. CASE a.tool = "append_notes"
        <3>1. c.notes \cup a.notes \in SUBSET Remarks  BY <1>3 DEF Cards, Args
        <3>2. /\ added \in Cards /\ added.id = c.id /\ added.title = c.title
              /\ added.status = c.status /\ added.f = c.f
            BY <1>3, <3>1 DEF Cards
        <3> HIDE DEF added
        <3> QED BY <2>1, <3>2
    <2>2. CASE a.tool = "set_blocked"
        <3> DEFINE f == [c.f EXCEPT !["comments"] = @ + 1]
                   newTags == c.tags \cup {"blocked"} \cup a.tags
                   notes == c.notes \cup a.notes
                   yes == TRUE
        <3>1. f \in [CardFields -> Nat] /\ \A x \in Shown : f[x] = c.f[x]
            <4>1. c.f \in [CardFields -> Nat] /\ "comments" \in CardFields
                BY <1>3 DEF Cards, CardFields, Lists
            <4>2. \A x \in Shown : x \in CardFields /\ x # "comments"
                BY DEF CardFields, Single, Shown
            <4> QED BY <4>1, <4>2
        <3>2. /\ newTags \in SUBSET Tags /\ notes \in SUBSET Remarks
              /\ "Blocked" \in Statuses /\ yes \in BOOLEAN
            BY <1>3 DEF Cards, Args, Tags, Statuses
        <3>3. blocked = [c EXCEPT !.status = "Blocked", !.tags = newTags, !.notes = notes,
                                  !.f = f, !.own = yes]
            BY <1>3 DEF Block, Cards
        <3> HIDE DEF blocked, f, newTags, notes, yes
        <3>4. /\ blocked \in Cards /\ blocked.id = c.id /\ blocked.title = c.title
              /\ blocked.status = "Blocked" /\ blocked.f = f
            BY <1>3, <3>1, <3>2, <3>3 DEF Cards
        <3> QED BY <2>2, <3>1, <3>4
    <2> QED BY <2>1, <2>2
<1> HIDE DEF d
<1>5. n \in Boards  BY <1>3, <1>4, CardReplaced
<1>6. out.board = n /\ out.id = a.card
    <2> HIDE DEF n
    <2>1. PICK notes, tags : \/ out = [made EXCEPT !.notes = notes]
                             \/ out = [[made EXCEPT !.notes = notes] EXCEPT !.tags = tags]
        BY <1>2
    <2> QED BY <2>1 DEF Changed, Refused
<1>7. ShownAfter(a, out, c, d)
    <2>1. \A x : FieldAfter(a, c, x) = c.f[x]  BY FieldNames DEF FieldAfter
    <2>2. StatusAfter(a, out, c) = IF a.tool = "set_blocked" THEN "Blocked" ELSE c.status
        BY DEF StatusAfter
    <2> HIDE DEF c
    <2> QED BY <1>4, <2>1, <2>2 DEF ShownAfter
<1> QED BY <1>2, <1>4, <1>6, <1>7 DEF EditsCard

LEMMA ParticipantIsNoted ==
    ASSUME NEW b \in Boards, NEW a \in Args, NEW out, out = ApplyTool(b, a),
           a.tool = "record_participant_update", a.blocker => a.status = "Blocked"
    PROVE  IF Find(b, a.card) = 0 THEN out.board = b /\ out.id = a.card
           ELSE EditsCard(b, a, out)
<1> DEFINE i == Find(b, a.card)
           c == b.cards[i]
           status == IF a.blocker THEN "Blocked" ELSE IF a.status = "" THEN c.status ELSE a.status
           tags == IF a.blocker THEN c.tags \cup {"blocked", "risk"} ELSE c.tags
           due == IF a.v = 0 THEN c.f["due"] ELSE a.v
           notes == c.notes \cup a.notes
           f == [c.f EXCEPT !["due"] = due]
           d == [c EXCEPT !.status = status, !.tags = tags, !.f["due"] = due, !.notes = notes]
<1>1. out = RecordParticipantUpdate(b, a)  BY DEF ApplyTool
<1>2. CASE i = 0
    <2>1. out = Changed(b, a.card)  BY <1>1, <1>2 DEF RecordParticipantUpdate
    <2> QED BY <1>2, <2>1, SaidSame
<1>3. CASE i # 0
    <2>1. i \in 1 .. Len(b.cards) /\ c \in Cards  BY <1>3, FindFound
    <2>2. status \in Statuses /\ status = IF a.status # "" THEN a.status ELSE c.status
        BY <2>1 DEF Cards, Args, Statuses
    <2>3. tags \in SUBSET Tags /\ notes \in SUBSET Remarks
        BY <2>1 DEF Cards, Args, Tags
    <2>4. /\ due \in Nat /\ f \in [CardFields -> Nat]
          /\ \A x \in CardFields : f[x] = IF x = "due" /\ a.v # 0 THEN a.v ELSE c.f[x]
        BY <2>1 DEF Cards, Args, CardFields, Single
    <2>5. out = Changed([b EXCEPT !.cards[i] = d], a.card)
        BY <1>1, <1>3 DEF RecordParticipantUpdate
    <2>6. d = [c EXCEPT !.status = status, !.tags = tags, !.f = f, !.notes = notes]
        BY <2>1 DEF Cards
    <2> HIDE DEF status, tags, due, notes, f
    <2>7. d \in Cards /\ d.id = c.id /\ d.title = c.title /\ d.status = status /\ d.f = f
        BY <2>1, <2>2, <2>3, <2>4, <2>6 DEF Cards
    <2> HIDE DEF d
    <2>8. ShownAfter(a, out, c, d)
        <3>1. \A x : FieldAfter(a, c, x) = IF x = "due" /\ a.v # 0 THEN a.v ELSE c.f[x]
            BY FieldNames DEF FieldAfter
        <3>2. StatusAfter(a, out, c) = IF a.status # "" THEN a.status ELSE c.status
            BY DEF StatusAfter
        <3>3. Shown \subseteq CardFields  BY DEF Shown, CardFields, Single
        <3> HIDE DEF c
        <3> QED BY <2>2, <2>4, <2>7, <3>1, <3>2, <3>3 DEF ShownAfter
    <2>9. out.board = [b EXCEPT !.cards[i] = d] /\ out.id = a.card
        BY <2>5 DEF Changed, Refused
    <2> QED BY <1>3, <2>7, <2>8, <2>9 DEF EditsCard
<1> QED BY <1>2, <1>3

LEMMA DeleteTouches ==
    ASSUME NEW b \in Boards, Distinct(b.cards), NEW a \in Args, NEW out,
           out = DeleteTicket(b, a), Succeeds(out), ResolveAlias(b, a.card) = a.card,
           a.tool = "delete_ticket"
    PROVE  Touched(b, a, out)
<1> DEFINE i == Position(b.cards, a.card)
           rest == RemoveAt(b.cards, i)
           n == [b EXCEPT !.cards = rest]
<1>1. i # 0 /\ out = Changed(n, a.card)  BY DEF DeleteTicket, Refused, Succeeds
<1>2. i \in 1 .. Len(b.cards) /\ b.cards \in Seq(Cards) /\ b.cards[i].id = a.card
    BY <1>1, BoardParts, PositionFound
<1>3. Find(b, a.card) # 0  BY <1>1 DEF Find
<1> HIDE DEF i
<1>4. DOMAIN rest = 1 .. Len(b.cards) - 1  BY <1>2, RemoveAtFacts, LenProperties
<1>5. \A j \in 1 .. Len(b.cards) - 1 : \E k \in 1 .. Len(b.cards) :
         rest[j] = b.cards[k] /\ b.cards[k].id # b.cards[i].id
    BY <1>2, RemoveDistinct, ZenonT(30)
<1> HIDE DEF rest
<1>6. n.cards = rest /\ n.next = b.next  BY BoardParts
<1>7. out.board = n /\ out.id = a.card  BY <1>1 DEF Changed, Refused
<1> HIDE DEF n
<1>8. \A d \in Range(rest) : d \in Range(b.cards) /\ d.id # a.card
    BY <1>2, <1>4, <1>5, BoardParts DEF Range
<1>9. a.card \notin IdsOf(rest)  BY <1>2, <1>4, <1>5 DEF IdsOf
<1>10. a.tool \notin FallbackTools  BY DEF FallbackTools
<1> QED BY <1>3, <1>6, <1>7, <1>8, <1>9, <1>10 DEF Touched

LEMMA ReorderTouches ==
    ASSUME NEW b \in Boards, Distinct(b.cards), NEW a \in Args, NEW out,
           a.tool \in {"prioritize_ticket", "rank_issue"}, CardPlaced(b, a, out)
    PROVE  Touched(b, a, out)
<1> DEFINE i == Find(b, a.card)
           d == [b.cards[i] EXCEPT !.status = out.status]
<1>1. /\ i \in 1 .. Len(b.cards) /\ b.cards[i].id = a.card /\ out.id = a.card
      /\ out.status \in Statuses
      /\ a.tool = "rank_issue" => out.status = b.cards[i].status
      /\ out.board.next = b.next
    BY DEF CardPlaced
<1>11. out.moved <=> out.status # b.cards[i].status  BY DEF CardPlaced
<1>2. \/ out.board = b /\ out.status = b.cards[i].status
      \/ \E to \in 1 .. Len(b.cards) :
            Moves(b.cards, i, to, d, RemoveAt(b.cards, i), out.board.cards)
    BY <1>1 DEF CardPlaced
<1>3. b.cards[i] \in Cards /\ DOMAIN b.cards = 1 .. Len(b.cards) /\ b.cards \in Seq(Cards)
    BY <1>1, BoardParts
<1>12. Len(b.cards) \in Nat  BY BoardParts
<1>4. /\ d.id = a.card /\ d.title = b.cards[i].title /\ d.status = out.status
      /\ d.f = b.cards[i].f /\ d \in Cards
      /\ out.status = b.cards[i].status => d = b.cards[i]
    BY <1>1, <1>3 DEF Cards
<1>5. ShownAfter(a, out, b.cards[i], d)
    <2>1. \A x : FieldAfter(a, b.cards[i], x) = b.cards[i].f[x]
        BY FieldNames DEF FieldAfter
    <2>2. StatusAfter(a, out, b.cards[i]) = out.status  BY <1>1, <1>11 DEF StatusAfter
    <2> HIDE DEF d, i
    <2> QED BY <1>4, <2>1, <2>2 DEF ShownAfter
<1> HIDE DEF d, i
<1>6. /\ b.cards[i] \in Range(b.cards)
      /\ \A j \in 1 .. Len(b.cards) : b.cards[j] \in Range(b.cards)
    BY <1>1, <1>3 DEF Range
<1>7. \A e \in Range(out.board.cards) : \E old \in Range(b.cards) :
         /\ e.id = old.id
         /\ IF e.id = a.card THEN ShownAfter(a, out, old, e) ELSE e = old
    <2>1. CASE out.board = b /\ out.status = b.cards[i].status
        <3> SUFFICES ASSUME NEW j \in 1 .. Len(b.cards)
                     PROVE  b.cards[j].id = a.card => ShownAfter(a, out, b.cards[j], b.cards[j])
            BY <1>3, <1>6, <2>1, ZenonT(30) DEF Range
        <3>1. b.cards[j].id = a.card => j = i  BY <1>1, <1>3 DEF Distinct
        <3> QED BY <1>4, <1>5, <2>1, <3>1
    <2>2. CASE ~(out.board = b /\ out.status = b.cards[i].status)
        <3>1. PICK to \in 1 .. Len(b.cards) :
                Moves(b.cards, i, to, d, RemoveAt(b.cards, i), out.board.cards)
            BY <1>2, <2>2
        <3> DEFINE rest == RemoveAt(b.cards, i)
                   new == out.board.cards
        <3>2. \A j \in 1 .. Len(b.cards) - 1 : \E k \in 1 .. Len(b.cards) :
                 rest[j] = b.cards[k] /\ b.cards[k].id # b.cards[i].id
            BY <1>1, <1>3, RemoveDistinct
        <3> HIDE DEF rest
        <3>3. /\ new \in Seq(Cards) /\ Len(new) = Len(b.cards)
              /\ \A j \in 1 .. Len(b.cards) :
                    new[j] = IF j < to THEN rest[j] ELSE IF j = to THEN d ELSE rest[j - 1]
            BY <3>1 DEF Moves, rest
        <3> HIDE DEF new
        <3> SUFFICES ASSUME NEW e \in Range(new)
                     PROVE  \E old \in Range(b.cards) :
                               /\ e.id = old.id
                               /\ IF e.id = a.card THEN ShownAfter(a, out, old, e) ELSE e = old
            BY DEF new
        <3>4. DOMAIN new = 1 .. Len(b.cards)  BY <3>3, LenProperties
        <3>5. PICK j \in 1 .. Len(b.cards) : e = new[j]  BY <3>4 DEF Range
        <3>6. CASE j = to
            <4>1. e = d  BY <3>3, <3>5, <3>6
            <4> QED BY <1>1, <1>4, <1>5, <1>6, <4>1
        <3>7. CASE j # to
            <4>1. PICK x \in 1 .. Len(b.cards) - 1 : e = rest[x]
                <5>1. CASE j < to
                    <6>1. j \in 1 .. Len(b.cards) - 1  BY <1>12, <5>1
                    <6> QED BY <3>3, <3>5, <5>1, <6>1
                <5>2. CASE j > to
                    <6>1. j - 1 \in 1 .. Len(b.cards) - 1 /\ ~(j < to)  BY <1>12, <5>2
                    <6> QED BY <3>3, <3>5, <3>7, <6>1
                <5> QED BY <1>12, <3>7, <5>1, <5>2
            <4> QED BY <1>1, <1>6, <3>2, <4>1
        <3> QED BY <3>6, <3>7
    <2> QED BY <2>1, <2>2
<1>8. a.tool \notin FallbackTools /\ a.tool # "delete_ticket"  BY DEF FallbackTools
<1>9. Find(b, a.card) # 0
    <2>1. i # 0  BY <1>1, <1>12
    <2> QED BY <2>1 DEF i
<1>10. a.card \in IdsOf(out.board.cards)
    <2>1. CASE out.board = b /\ out.status = b.cards[i].status
        BY <1>1, <1>3, <2>1 DEF IdsOf
    <2>2. CASE ~(out.board = b /\ out.status = b.cards[i].status)
        <3>1. PICK to \in 1 .. Len(b.cards) :
                Moves(b.cards, i, to, d, RemoveAt(b.cards, i), out.board.cards)
            BY <1>2, <2>2
        <3> DEFINE new == out.board.cards
        <3>a. ~(to < to)  BY <1>12
        <3>2. new \in Seq(Cards) /\ Len(new) = Len(b.cards) /\ new[to] = d
            BY <3>1, <3>a DEF Moves
        <3> HIDE DEF new
        <3>3. to \in DOMAIN new  BY <3>2, LenProperties
        <3>4. a.card \in IdsOf(new)  BY <1>4, <3>2, <3>3 DEF IdsOf
        <3> QED BY <3>4 DEF new
    <2> QED BY <2>1, <2>2
<1> QED BY <1>1, <1>7, <1>8, <1>9, <1>10 DEF Touched

LEMMA ReorderPlaces ==
    ASSUME NEW b \in Boards, NEW a \in Args, NEW out,
           out = ApplyTool(b, a), Succeeds(out),
           a.tool \in {"prioritize_ticket", "rank_issue"},
           Find(b, a.card) # 0 => ResolveAlias(b, a.card) = a.card, Filled(a)
    PROVE  CardPlaced(b, a, out)
<1> DEFINE id == ResolveAlias(b, a.card)
           i == Find(b, id)
           d == [b.cards[i] EXCEPT !.status = out.status]
<1>1. /\ i \in 1 .. Len(b.cards) /\ b.cards[i].id = id /\ out.id = id
      /\ out.status \in Statuses
      /\ out.moved <=> out.status # b.cards[i].status
      /\ a.tool = "rank_issue" => out.status = b.cards[i].status
      /\ out.board.next = b.next
      /\ \/ out.board = b /\ out.status = b.cards[i].status
         \/ \E to \in 1 .. Len(b.cards) :
               Moves(b.cards, i, to, d, RemoveAt(b.cards, i), out.board.cards)
    <2>1. CASE a.tool = "prioritize_ticket"
        <3>1. out = ReorderTicket(b, a, TRUE)  BY <2>1 DEF ApplyTool
        <3>2. out.changed => Reordered(b, a, TRUE, out)  BY <3>1, ReorderGood
        <3>3. Reordered(b, a, TRUE, out)  BY <3>2 DEF Succeeds
        <3> QED BY <2>1, <3>3 DEF Reordered
    <2>2. CASE a.tool = "rank_issue"
        <3>1. out = ReorderTicket(b, a, FALSE)  BY <2>2 DEF ApplyTool
        <3>2. out.changed => Reordered(b, a, FALSE, out)  BY <3>1, ReorderGood
        <3>3. Reordered(b, a, FALSE, out)  BY <3>2 DEF Succeeds
        <3>4. a.status = ""  BY <2>2 DEF Filled
        <3> QED BY <2>2, <3>3, <3>4 DEF Reordered
    <2> QED BY <2>1, <2>2
<1>2. id = a.card
    <2>1. a.card \in Refs  BY DEF Args
    <2>2. ResolveAlias(b, id) = id  BY <2>1, ResolveAliasTyped
    <2>3. Find(b, a.card) = i  BY <2>2 DEF Find
    <2>4. Len(b.cards) \in Nat  BY BoardParts
    <2>5. i \in 1 .. Len(b.cards)  BY <1>1
    <2> HIDE DEF i, id
    <2>6. i # 0  BY <2>4, <2>5
    <2> QED BY <2>3, <2>6 DEF id
<1> HIDE DEF id
<1> QED BY <1>1, <1>2 DEF CardPlaced

\* Every tool that changes a card.
LEMMA ToolTouches ==
    ASSUME NEW b \in Boards, AliasOK(b), Distinct(b.cards), NEW a \in Args, NEW out,
           out = ApplyTool(b, a), Succeeds(out), a.tool \notin CreateTools,
           Find(b, a.card) # 0 => ResolveAlias(b, a.card) = a.card, Filled(a)
    PROVE  Touched(b, a, out)
<1>1. ~Succeeds(Refused(b))  BY DEF Refused, Succeeds
<1>2. ASSUME EditsCard(b, a, out), a.tool # "delete_ticket"
      PROVE  Touched(b, a, out)
    <2>1. ResolveAlias(b, a.card) = a.card  BY <1>2 DEF EditsCard
    <2> QED BY <1>2, <2>1, EditTouches
<1>3. CASE a.tool \in DOMAIN FieldOf \cup {"set_priority", "unassign_ticket"}
    <2>1. EditsCard(b, a, out)  BY <1>3, FieldIsSet DEF Succeeds
    <2>2. a.tool # "delete_ticket"  BY <1>3, FieldNames
    <2> QED BY <1>2, <2>1, <2>2
<1>4. CASE a.tool \in DOMAIN ListOf \cup {"link_issues"}
    <2>1. EditsCard(b, a, out)  BY <1>4, ListIsExtended DEF Succeeds
    <2>2. a.tool # "delete_ticket"  BY <1>4, FieldNames
    <2> QED BY <1>2, <2>1, <2>2
<1>5. CASE a.tool \in {"move_ticket", "add_tags", "remove_tags", "update_ticket"}
    BY <1>2, <1>5, CardIsEdited DEF Succeeds
<1>6. CASE a.tool \in {"append_notes", "set_blocked"}
    BY <1>2, <1>6, NotesAreAdded DEF Succeeds
<1>7. CASE a.tool = "record_participant_update"
    <2>1. IF Find(b, a.card) = 0 THEN out.board = b /\ out.id = a.card
          ELSE EditsCard(b, a, out)
        BY <1>7, ParticipantIsNoted DEF Succeeds, Filled
    <2>2. CASE Find(b, a.card) # 0  BY <1>2, <1>7, <2>1, <2>2
    <2>3. CASE Find(b, a.card) = 0
        <3>1. a.card \notin IdsOf(b.cards)
            <4> SUFFICES ASSUME a.card \in IdsOf(b.cards)
                         PROVE  FALSE
                OBVIOUS
            <4>1. ResolveAlias(b, a.card) = a.card  BY OnBoard
            <4> QED BY <2>3, <4>1, FindFound, BoardParts DEF IdsOf
        <3>2. \A d \in Range(b.cards) : d.id # a.card  BY <3>1 DEF Range, IdsOf
        <3>3. a.tool \notin FallbackTools  BY <1>7 DEF FallbackTools
        <3> QED BY <1>7, <2>1, <2>3, <3>2, <3>3 DEF Touched
    <2> QED BY <2>2, <2>3
<1>8. CASE a.tool = "delete_ticket"
    <2>1. out = DeleteTicket(b, a)  BY <1>8 DEF ApplyTool
    <2>2. Position(b.cards, a.card) # 0  BY <1>1, <2>1 DEF DeleteTicket
    <2>3. a.card \in IdsOf(b.cards)
        <3>1. b.cards \in Seq(Cards) /\ DOMAIN b.cards = 1 .. Len(b.cards)
            BY BoardParts
        <3>2. /\ Position(b.cards, a.card) \in 1 .. Len(b.cards)
              /\ b.cards[Position(b.cards, a.card)].id = a.card
            BY <2>2, <3>1, PositionFound, LenProperties
        <3> QED BY <3>1, <3>2 DEF IdsOf
    <2>4. ResolveAlias(b, a.card) = a.card  BY <2>3, OnBoard
    <2> QED BY <1>8, <2>1, <2>4, DeleteTouches
<1>9. CASE a.tool \in {"prioritize_ticket", "rank_issue"}
    BY <1>2, <1>9, ReorderTouches, ReorderPlaces
<1>10. CASE a.tool \notin Tools  BY <1>1, <1>10 DEF ApplyTool, Tools
<1> QED
    BY <1>3, <1>4, <1>5, <1>6, <1>7, <1>8, <1>9, <1>10, FieldNames DEF Tools, CreateTools

----------------------------------------------------------------------------
\* What is owed to an issue, and to whom the requests of an action go.

LEMMA ShownSame ==
    ASSUME NEW a, NEW w, w.tool = a.tool, w.title = a.title, w.v = a.v, w.status = a.status,
           NEW out, NEW act, act.status = out.status, act.moved = out.moved,
           NEW old, NEW d, ShownAfter(a, out, old, d)
    PROVE  ShownAfter(w, act, old, d)
<1>1. \A x : FieldAfter(w, old, x) = FieldAfter(a, old, x)  BY DEF FieldAfter
<1>2. StatusAfter(w, act, old) = StatusAfter(a, out, old)  BY DEF StatusAfter
<1> QED BY <1>1, <1>2 DEF ShownAfter

LEMMA ResolvedSame ==
    ASSUME NEW b \in Boards, NEW a \in Args, NEW latest \in Refs
    PROVE  /\ SameBut(Canonicalize(b, a, latest), a)
           /\ SameBut(ResolvedOn(b, a), a)
<1> DEFINE card == ResolveReference(b, a.card)
           other == ResolveReference(b, a.other)
           resolved == [a EXCEPT !.card = card, !.other = other]
           fallback == IF other # NoCard THEN other ELSE ResolveAlias(b, latest)
<1>1. card \in Refs /\ other \in Refs  BY ResolveReferenceTyped DEF Args
<1>2. fallback \in Refs  BY <1>1, ResolveAliasTyped
<1>3. \/ Canonicalize(b, a, latest) = resolved
      \/ Canonicalize(b, a, latest) = [resolved EXCEPT !.card = fallback]
    BY DEF Canonicalize, Args
<1> HIDE DEF card, other, fallback
<1>4. SameBut(resolved, a) /\ SameBut([resolved EXCEPT !.card = fallback], a)
    BY <1>1, <1>2 DEF SameBut, Args
<1>5. ResolvedOn(b, a) = resolved  BY DEF ResolvedOn, card, other
<1> QED BY <1>3, <1>4, <1>5

LEMMA DoneTyped ==
    ASSUME NEW b, NEW a, NEW latest, NEW r, NEW out, NEW act, Done(b, a, latest, r, out, act)
    PROVE  KnownOf(b, a, r, out, act)
<1> DEFINE s == IF a.tool \in Confirmed THEN r ELSE a
<1>1. /\ b \in Boards /\ a \in Args /\ latest \in Refs /\ r = Canonicalize(b, a, latest)
      /\ out = ApplyTool(b, r) /\ act = Act(s, out) /\ Ordered(b)
    BY DEF Done
<1>2. SameBut(r, a)  BY <1>1, ResolvedSame
<1>3. r \in Args /\ s \in Args /\ s.tool = r.tool /\ s.status = r.status /\ SameBut(s, a)
    BY <1>1, <1>2 DEF SameBut
<1>4. Good(b, out) /\ (out.changed => Applied(r, out))  BY <1>1, <1>3, ApplyToolGood
<1>5. Applied(r, out)  BY <1>4 DEF Done, Succeeds
<1> HIDE DEF s
<1>6. act \in GoodActs(FALSE)  BY <1>1, <1>3, <1>4, <1>5, ActTyped
<1>7. act.a = s /\ act.id = out.id /\ act.status = out.status /\ act.moved = out.moved
    BY <1>1 DEF Act
<1>8. out.board \in Boards /\ out.board.alias = b.alias /\ Ordered(out.board)
    BY <1>1, <1>4 DEF Good, Outs, Ordered
<1>9. act.a = (IF a.tool \in Confirmed THEN r ELSE a)  BY <1>7 DEF s
<1> QED BY <1>2, <1>3, <1>6, <1>7, <1>8, <1>9 DEF KnownOf

\* The card was found and is still there: it is what the requests are for.
LEMMA CardPlanned ==
    ASSUME NEW b, NEW a, NEW latest, NEW r, NEW out, NEW act, Done(b, a, latest, r, out, act),
           a.tool \notin CreateTools, Find(b, r.card) # 0, Touched(b, r, out)
    PROVE  Planned(b, out.board, act)
<1> DEFINE n == out.board
           w == ResolvedOn(n, act.a)
           T == r.card
<1>1. /\ b \in Boards /\ AliasOK(b) /\ a \in Args /\ latest \in Refs
      /\ r = Canonicalize(b, a, latest) /\ Simple(a)
    BY DEF Done
<1>2. /\ r \in Args /\ SameBut(r, a) /\ act \in GoodActs(FALSE)
      /\ n \in Boards /\ n.alias = b.alias
      /\ act.id = out.id /\ act.status = out.status /\ act.moved = out.moved
      /\ act.a \in Args /\ SameBut(act.a, a) /\ act.a = (IF a.tool \in Confirmed THEN r ELSE a)
    <2>1. KnownOf(b, a, r, out, act)  BY DoneTyped
    <2> QED BY <2>1 DEF KnownOf
<1>3. r.tool = a.tool /\ act.a.tool = a.tool  BY <1>2 DEF SameBut
<1>4. /\ out.id = T /\ n.next = b.next
      /\ a.tool # "delete_ticket" => T \in IdsOf(n.cards)
      /\ a.tool \in FallbackTools =>
           /\ Len(n.cards) = Len(b.cards)
           /\ \A j \in 1 .. Len(b.cards) :
                 n.cards[j].id = b.cards[j].id /\ n.cards[j].title = b.cards[j].title
      /\ a.tool = "delete_ticket" => T \notin IdsOf(n.cards)
    BY <1>3 DEF Touched
<1>5. \A d \in Range(n.cards) : \E old \in Range(b.cards) :
          /\ d.id = old.id
          /\ IF d.id = T THEN ShownAfter(r, out, old, d) ELSE d = old
    BY DEF Touched
<1>6. w \in Args /\ SameBut(w, act.a)
    <2>1. SameBut(w, act.a)  BY <1>2, NoCardIsRef, ResolvedSame
    <2> QED BY <2>1 DEF SameBut
<1> HIDE DEF n
<1>7. T \in IdsOf(b.cards) /\ (a.card = NoCard => a.tool \in FallbackTools)
    BY <1>1, TargetFound
<1>8. T \in Refs /\ T # NoCard  BY <1>1, <1>7, OnBoard, NoCardIsRef, IdsAreRefs
<1>9. a.tool \notin Confirmed => a.card.kind # "title"  BY <1>1 DEF Simple
<1>10. a.tool \in FallbackTools => \A x \in Refs : ResolveReference(n, x) = ResolveReference(b, x)
    BY <1>1, <1>2, <1>4, SameNames
<1>11. a.tool \in Confirmed \/ T \in IdsOf(n.cards)  BY <1>4 DEF Confirmed
<1>12. CardFor(act, w) = T /\ ResolveAlias(n, IF act.a.card # NoCard THEN act.a.card ELSE act.id) = T
    <2>1. a.tool \in FallbackTools \ Confirmed =>
             \A x \in Refs : ResolveReference(n, x) = ResolveReference(b, x)
        BY <1>10
    <2>2. act.id = r.card  BY <1>2, <1>4
    <2>3. Aiming(b, n, a, latest, r, act)
        BY <1>1, <1>2, <1>9, <1>11, <2>1, <2>2 DEF Aiming
    <2> QED BY <2>3, AimsAt DEF About
<1>13. Goal(n, act, 0) = T  BY <1>3, <1>12 DEF Goal
<1>14. RequiresSync(act)
    <2>1. a.tool = "record_participant_update" => a.card # NoCard /\ a.tool \notin Confirmed
        BY <1>7 DEF FallbackTools, Confirmed
    <2> QED BY <1>2, <1>3, <2>1 DEF RequiresSync
<1>15. Plan(n, act) = RequestsOf(act, w, T)  BY <1>12, <1>14 DEF Plan, WritesOn
<1>16. w.tool = act.a.tool /\ w.status = act.a.status /\ w.tool = a.tool
       /\ w.title = r.title /\ w.v = r.v /\ w.status = r.status /\ w.tool = r.tool
    BY <1>2, <1>6 DEF SameBut
<1> HIDE DEF w, T
<1>17. CASE a.tool = "delete_ticket"
    <2>1. RequestsOf(act, w, T) = TransitionIssue(T, "Done")
        BY <1>16, <1>17, FieldNames DEF RequestsOf, CloseIssue
    <2>2. \A x \in Range(Plan(n, act)) : x.id = T /\ x.op = "transition"
        <3> DEFINE x == [On(T, "transition") EXCEPT !.status = "Done"]
        <3>1. x.id = T /\ x.op = "transition"  BY OnIs
        <3>2. Plan(n, act) = <<x>>  BY <1>15, <2>1 DEF TransitionIssue
        <3> HIDE DEF x
        <3> QED BY <3>1, <3>2, RangeFacts
    <2>3. Aimed(Range(Plan(n, act)), T)  BY <2>2 DEF Aimed
    <2>4. \A d \in Range(n.cards) : d.id # T  BY <1>4, <1>17 DEF Range, IdsOf
    <2> QED BY <1>2, <1>4, <1>5, <1>13, <2>3, <2>4 DEF Planned, n
<1>18. CASE a.tool # "delete_ticket"
    <2> DEFINE W == Range(Plan(n, act))
    <2>1. \A old, d \in Cards : ShownAfter(r, out, old, d) => Aimed(W, T) /\ Gives(W, old, d)
        <3> SUFFICES ASSUME NEW old \in Cards, NEW d \in Cards, ShownAfter(r, out, old, d)
                     PROVE  Aimed(W, T) /\ Gives(W, old, d)
            OBVIOUS
        <3>1. ShownAfter(w, act, old, d)  BY <1>2, <1>16, ShownSame
        <3>2. w.tool \notin CreateTools \cup {"delete_ticket"}  BY <1>16, <1>18
        <3> QED BY <1>2, <1>6, <1>8, <1>15, <1>16, <3>1, <3>2, RequestsGive
    <2> HIDE DEF W
    <2>2. Range(n.cards) \subseteq Cards /\ Range(b.cards) \subseteq Cards
        BY <1>1, <1>2, BoardParts DEF Range
    <2>3. PICK d \in Range(n.cards) : d.id = T  BY <1>4, <1>18 DEF Range, IdsOf
    <2>4. PICK old \in Range(b.cards) : ShownAfter(r, out, old, d)  BY <1>5, <2>3
    <2>5. Aimed(W, T)  BY <2>1, <2>2, <2>4
    <2>6. \A e \in Range(n.cards) : \E was \in Range(b.cards) :
             e.id = was.id /\ IF e.id = T THEN Gives(W, was, e) ELSE e = was
        BY <1>5, <2>1, <2>2
    <2> QED BY <1>2, <1>4, <1>13, <2>5, <2>6 DEF Planned, n, W
<1> QED BY <1>17, <1>18

\* An update of a participant whose card is not on the board is written through
\* to the issue its arguments name.
LEMMA ParticipantAims ==
    ASSUME NEW id \in Refs, NEW a \in Args
    PROVE  \A w \in Range(ParticipantUpdate(id, a)) : w.op # "create" /\ w.id = id
<1> DEFINE move == IF a.status = "" THEN <<>> ELSE MoveIssue(id, a.status, a.blocker)
           due == IF a.v = 0 THEN <<>> ELSE UpdateField(id, "due", a.v)
           comment == AddTo(id, "comments")
<1>1. ParticipantUpdate(id, a) = IF id = NoCard THEN <<>> ELSE move \o due \o comment
    BY DEF ParticipantUpdate
<1>2. /\ a.v \in Nat /\ a.status \in Statuses \cup {""} /\ a.blocker \in BOOLEAN
      /\ "comments" \in CardFields /\ "due" \in CardFields
    BY DEF Args, CardFields, Single, Lists
<1>3. move \in Seq(Plain) /\ due \in Seq(Plain) /\ comment \in Seq(Plain)
    <2>1. a.status # "" => MoveIssue(id, a.status, a.blocker) \in Seq(Plain)
        BY <1>2, MoveRequests
    <2>2. UpdateField(id, "due", a.v) \in Seq(Plain) /\ comment \in Seq(Plain)
        BY <1>2, FieldRequests
    <2> QED BY <2>1, <2>2, PlainLists
<1>4. \A w \in Range(move) : w.op # "create" /\ w.id = id
    <2>1. a.status # "" => MovesTo(Range(MoveIssue(id, a.status, a.blocker)), id, a.status)
        BY <1>2, MoveBrings
    <2> QED BY <2>1, RangeFacts DEF MovesTo
<1>5. /\ \A w \in Range(due) : w.op # "create" /\ w.id = id
      /\ \A w \in Range(comment) : w.op # "create" /\ w.id = id
    BY RequestsAsk, RangeFacts
<1> HIDE DEF move, due, comment
<1>6. move \o due \in Seq(Plain)  BY <1>3, PlainLists
<1>7. Range(move \o due \o comment) = Range(move) \cup Range(due) \cup Range(comment)
    BY <1>3, <1>6, RangeFacts
<1> QED BY <1>1, <1>4, <1>5, <1>7, RangeFacts

LEMMA UnseenPlanned ==
    ASSUME NEW b, NEW a, NEW latest, NEW r, NEW out, NEW act, Done(b, a, latest, r, out, act),
           Find(b, r.card) = 0, Touched(b, r, out)
    PROVE  Planned(b, out.board, act)
<1> DEFINE T == Goal(b, act, 0)
           w == ResolvedOn(b, act.a)
<1>1. /\ b \in Boards /\ AliasOK(b) /\ a \in Args /\ latest \in Refs
      /\ r = Canonicalize(b, a, latest) /\ Simple(a)
    BY DEF Done
<1>a. KnownOf(b, a, r, out, act)  BY DoneTyped
<1>2. /\ r \in Args /\ SameBut(r, a) /\ act.id = out.id
      /\ act.a \in Args /\ act.a = (IF a.tool \in Confirmed THEN r ELSE a)
    BY <1>a DEF KnownOf
<1>3. out.id = r.card /\ out.board = b /\ a.tool = "record_participant_update"
    BY <1>2 DEF Touched, SameBut
<1>4. act.a = a /\ act.id = r.card  BY <1>2, <1>3 DEF Confirmed
<1>5. a.card.kind # "title" /\ a.card \in Refs
    BY <1>1, <1>3 DEF Simple, Confirmed, Args
<1>6. r.card = ResolveReference(b, a.card)
    BY <1>1, <1>3 DEF Canonicalize, FallbackTools, Args
<1>7. r.card = IF ResolveAlias(b, a.card) \in IdsOf(b.cards) THEN ResolveAlias(b, a.card)
               ELSE a.card
    BY <1>5, <1>6, ReferenceIs
<1>8. ASSUME NEW id \in IdsOf(b.cards)
      PROVE  Find(b, id) # 0
    <2>1. ResolveAlias(b, id) = id  BY <1>1, OnBoard
    <2> QED BY <1>1, <2>1, FindFound, BoardParts DEF IdsOf
<1>9. ResolveAlias(b, a.card) \notin IdsOf(b.cards) /\ r.card = a.card  BY <1>7, <1>8
<1>10. T = ResolveAlias(b, a.card) /\ T \notin IdsOf(b.cards)
    BY <1>3, <1>4, <1>9 DEF Goal, CreateTools
<1>11. Aimed(Range(Plan(b, act)), T)
    <2>1. CASE a.card = NoCard
        <3>1. Plan(b, act) = <<>>  BY <1>3, <1>4, <2>1 DEF Plan, RequiresSync
        <3> QED BY <3>1, RangeFacts DEF Aimed
    <2>2. CASE a.card # NoCard
        <3>1. w.card = a.card /\ w.tool = a.tool
            BY <1>1, <1>4, <1>6, <1>9, ResolvedIs
        <3>2. CardFor(act, w) = a.card  BY <1>3, <3>1 DEF CardFor, UseResultCard
        <3>3. Plan(b, act) = RequestsOf(act, w, a.card)
            BY <1>4, <2>2, <3>2 DEF Plan, WritesOn, RequiresSync
        <3>4. w \in Args  BY <1>1, <1>4, ResolvedSame DEF SameBut
        <3> HIDE DEF w
        <3>5. Plan(b, act) = ParticipantUpdate(a.card, w)
            BY <1>3, <3>1, <3>3, FieldNames DEF RequestsOf
        <3>6. \A x \in Range(Plan(b, act)) : x.op # "create" /\ x.id = a.card
            BY <1>5, <3>4, <3>5, ParticipantAims
        <3>7. IsKey(a.card) => T = a.card  BY <1>10 DEF IsKey, ResolveAlias
        <3> QED BY <3>6, <3>7 DEF Aimed
    <2> QED BY <2>1, <2>2
<1> HIDE DEF T
<1>12. \A d \in Range(b.cards) : d.id # T  BY <1>10 DEF Range, IdsOf
<1> QED BY <1>3, <1>11, <1>12 DEF Planned, T

\* Every tool that changes a card.
LEMMA ToolPlanned ==
    ASSUME NEW b, NEW a, NEW latest, NEW r, NEW out, NEW act, Done(b, a, latest, r, out, act),
           a.tool \notin CreateTools
    PROVE  Planned(b, out.board, act)
<1>1. /\ b \in Boards /\ AliasOK(b) /\ Ordered(b) /\ a \in Args /\ latest \in Refs
      /\ r = Canonicalize(b, a, latest) /\ out = ApplyTool(b, r) /\ Succeeds(out) /\ Simple(a)
    BY DEF Done
<1>2. r \in Args /\ SameBut(r, a)
    <2>1. KnownOf(b, a, r, out, act)  BY DoneTyped
    <2> QED BY <2>1 DEF KnownOf
<1>3. Find(b, r.card) # 0 => ResolveAlias(b, r.card) = r.card
    BY <1>1, TargetFound, OnBoard
<1>4. Filled(r) /\ r.tool \notin CreateTools
    BY <1>1, <1>2 DEF Filled, Simple, SameBut
<1>5. Touched(b, r, out)  BY <1>1, <1>2, <1>3, <1>4, ToolTouches DEF Ordered
<1> QED BY <1>5, CardPlanned, UnseenPlanned

\* Requests that give the issue what the tool gave the card leave nothing owed.
LEMMA PlannedOwes ==
    ASSUME NEW b \in Boards, NEW n \in Boards, NEW act, Planned(b, n, act), AliasOK(b),
           act.a.tool \notin CreateTools, NEW list, NEW issues \in [Keys -> Issues],
           Owed(b, list, issues, NoCard, {})
    PROVE  AliasOK(n) /\ Begun(act, Plan(n, act), n, list, issues)
<1> DEFINE T == Goal(n, act, 0)
           W == Range(Plan(n, act))
<1>1. /\ n.alias = b.alias /\ n.next = b.next /\ Aimed(W, T)
      /\ \A d \in Range(n.cards) : \E old \in Range(b.cards) :
            d.id = old.id /\ IF d.id = T THEN Gives(W, old, d) ELSE d = old
    BY DEF Planned
<1> HIDE DEF T, W
<1>2. Range(n.cards) \subseteq Cards /\ Range(b.cards) \subseteq Cards
    BY BoardParts DEF Range
<1>3. \A id : ListedIn(b, list, id) => ListedIn(n, list, id)
    BY <1>1 DEF ListedIn, ResolveAlias
<1>4. ASSUME NEW d \in Range(n.cards), IsKey(d.id)
      PROVE  \/ ListedIn(n, list, d.id)
             \/ Coming(IF d.id = T THEN W ELSE {}, issues[d.id.n], d, Shown)
    <2>1. PICK old \in Range(b.cards) :
            d.id = old.id /\ IF d.id = T THEN Gives(W, old, d) ELSE d = old
        BY <1>1
    <2>2. ListedIn(b, list, d.id) \/ Like(issues[d.id.n], old, Shown)
        BY <1>4, <2>1 DEF Owed, Like
    <2>3. issues[d.id.n] \in Issues
        <3>1. d.id \in Ids /\ d.id.kind = "key"  BY <1>2, <1>4 DEF Cards, IsKey
        <3>2. d.id.n \in Keys  BY <3>1 DEF Ids, Keys
        <3> QED BY <3>2
    <2>4. CASE d.id = T  BY <1>2, <1>3, <2>1, <2>2, <2>3, <2>4, GivesComes
    <2>5. CASE d.id # T  BY <1>3, <2>1, <2>2, <2>5 DEF Like
    <2> QED BY <2>4, <2>5
<1>5. Owed(n, list, issues, T, W)  BY <1>4 DEF Owed
<1>6. \A i \in DOMAIN n.cards : \E j \in DOMAIN b.cards : n.cards[i].id = b.cards[j].id
    BY <1>1 DEF Range
<1>7. AliasOK(n)  BY <1>1, <1>6 DEF AliasOK
<1> QED BY <1>1, <1>5, <1>7 DEF Begun, T, W

-----------------------------------------------------------------------------
(* A card that is made, and the issue that is made for it.                 *)

LEMMA Consed ==
    ASSUME NEW w \in GoodRequests, NEW t \in Seq(GoodRequests)
    PROVE  LET s == <<w>> \o t IN s # <<>> /\ Head(s) = w /\ Tail(s) = t
<1> DEFINE s == <<w>> \o t
<1>1. <<w>> \in Seq(GoodRequests) /\ Len(<<w>>) = 1 /\ <<w>>[1] = w /\ Len(t) \in Nat
    BY LenProperties
<1>2. /\ s \in Seq(GoodRequests) /\ Len(s) = 1 + Len(t)
      /\ \A i \in 1 .. 1 + Len(t) : s[i] = IF i <= 1 THEN <<w>>[i] ELSE t[i - 1]
    BY <1>1, ConcatProperties
<1> HIDE DEF s
<1>3. s # <<>> /\ 1 \in 1 .. 1 + Len(t)  BY <1>1, <1>2, EmptySeq
<1>4. Head(s) = w  BY <1>1, <1>2, <1>3
<1>5. /\ Tail(s) \in Seq(GoodRequests) /\ Len(Tail(s)) = Len(t)
      /\ \A i \in 1 .. Len(t) : Tail(s)[i] = s[i + 1]
    <2>1. Len(s) - 1 = Len(t)  BY <1>1, <1>2
    <2> QED BY <1>2, <1>3, <2>1, HeadTailProperties
<1>6. ASSUME NEW i \in 1 .. Len(t)
      PROVE  Tail(s)[i] = t[i]
    <2>1. i + 1 \in 1 .. 1 + Len(t) /\ ~(i + 1 <= 1) /\ (i + 1) - 1 = i  BY <1>1
    <2> QED BY <1>2, <1>5, <2>1
<1>7. Tail(s) = t  BY <1>5, <1>6, SeqEqual
<1> QED BY <1>3, <1>4, <1>7 DEF s

\* An issue that was made shows the title of its card and no column yet.
LEMMA SentIs ==
    ASSUME NEW card \in Cards
    PROVE  /\ Sent(card).title = card.title /\ Sent(card).status = "Backlog"
           /\ Sent(card).flag = FALSE
           /\ \A x \in CardFields : card.f[x] = 0 => Sent(card).f[x] = 0
<1> DEFINE sent == {"assignee", "due", "priority", "points", "components", "fixVersions"}
           f == [x \in DOMAIN Empty |-> IF x \in sent THEN card.f[x] ELSE 0]
           base == Issue(card.title)
           notes == card.notes
           labels == card.tags
           parent == card.parent
<1>1. base = [status |-> "Backlog", flag |-> FALSE, title |-> card.title, notes |-> {},
              labels |-> {}, parent |-> NoCard, f |-> Empty]
    <2> DEFINE title == card.title
    <2>1. base = [NoIssue EXCEPT !.status = "Backlog", !.title = title]  BY DEF Issue
    <2> HIDE DEF base, title
    <2>2. base = [status |-> "Backlog", flag |-> FALSE, title |-> title, notes |-> {},
                  labels |-> {}, parent |-> NoCard, f |-> Empty]
        BY <2>1 DEF NoIssue
    <2> QED BY <2>2 DEF title
<1>2. \A x \in CardFields : card.f[x] = 0 => f[x] = 0  BY DEF Empty
<1>3. Sent(card) = [base EXCEPT !.notes = notes, !.labels = labels, !.parent = parent, !.f = f]
    BY DEF Sent
<1> HIDE DEF base, f, notes, labels, parent
<1> QED BY <1>1, <1>2, <1>3

\* The requests for a new card make its issue, and then move it.
LEMMA MakesIssue ==
    ASSUME NEW act, NEW w, NEW n, act.a.tool \in CreateTools,
           act.card \in Cards, \A x \in CardFields : act.card.f[x] = 0,
           w = ResolvedOn(n, act.a), w.tool = act.a.tool,
           act.a.tool = "create_subtask" => act.card.status = "Backlog",
           NEW cards, act.card \in Range(cards)
    PROVE  ToMake(cards, act, Plan(n, act))
<1> DEFINE card == act.card
           make == [On(NoCard, "create") EXCEPT !.card = card]
           moves == IF card.status = "Backlog" THEN <<>> ELSE MoveIssue(NoCard, card.status, FALSE)
<1>1. Plan(n, act) = CreateIssue(card) \o moves
    <2> DEFINE id == CardFor(act, w)
    <2>1. RequiresSync(act)  BY DEF RequiresSync, CreateTools
    <2>2. Plan(n, act) = RequestsOf(act, w, id)  BY <2>1 DEF Plan, WritesOn
    <2> HIDE DEF id
    <2>3. RequestsOf(act, w, id) = CreateIssue(card) \o moves
        BY FieldNames, Zenon DEF RequestsOf, CreateTools
    <2> QED BY <2>2, <2>3
<1>2. card.status \in Statuses /\ card.title \in Nat  BY DEF Cards
<1>3. CreateIssue(card) = <<make>> /\ make.op = "create" /\ make.card = card
    BY DEF CreateIssue, On, NoWrite
<1>4. make \in GoodRequests
    <2>1. CreateIssue(card) \in Seq(GoodRequests) /\ CreateIssue(card) # <<>>
          /\ Head(CreateIssue(card)) = make
        <3> HIDE DEF make
        <3>1. <<make>> # <<>> /\ Head(<<make>>) = make  OBVIOUS
        <3> QED BY <1>3, <3>1, CreateRequests
    <2> QED BY <2>1, HeadTailProperties
<1>5. moves \in Seq(Plain) /\ moves \in Seq(GoodRequests)
    <2>1. MoveIssue(NoCard, card.status, FALSE) \in Seq(Plain)
        BY <1>2, NoCardIsRef, MoveRequests
    <2> QED BY <2>1, PlainLists, PlainAreGood
<1> HIDE DEF make
<1>6. \/ card.status = "Backlog" /\ moves = <<>> /\ Range(moves) = {}
      \/ card.status # "Backlog" /\ MovesTo(Range(moves), NoCard, card.status)
    <2>1. MovesTo(Range(MoveIssue(NoCard, card.status, FALSE)), NoCard, card.status)
        BY <1>2, NoCardIsRef, MoveBrings
    <2> QED BY <2>1, RangeFacts
<1> HIDE DEF moves
<1>7. Plan(n, act) # <<>> /\ Head(Plan(n, act)) = make /\ Tail(Plan(n, act)) = moves
    BY <1>1, <1>3, <1>4, <1>5, Consed
<1>8. Aimed(Range(moves), NoCard)
    <2>1. \A x \in Range(moves) : x.op # "create" /\ x.id = NoCard
        BY <1>6 DEF MovesTo
    <2> QED BY <2>1 DEF Aimed
<1>9. Coming(Range(moves), Sent(card), card, Shown)
    <2> DEFINE s == Sent(card)
    <2>1. /\ s.title = card.title /\ s.status = "Backlog" /\ s.flag = FALSE
          /\ \A x \in CardFields : card.f[x] = 0 => s.f[x] = 0
        BY SentIs
    <2> HIDE DEF s
    <2>2. \A x \in Shown : s.f[x] = card.f[x]  BY <2>1 DEF Shown, CardFields, Single
    <2>3. Range(moves) = {} /\ card.status = "Backlog" => Coming(Range(moves), s, card, Shown)
        BY <2>1, <2>2 DEF Coming, ShownStatus
    <2>4. ASSUME MovesTo(Range(moves), NoCard, card.status)
          PROVE  Coming(Range(moves), s, card, Shown)
        <3>1. \A x \in Range(moves) : Fits(x, card, Shown)
            BY <2>4 DEF MovesTo, Fits, Shown
        <3> QED BY <2>1, <2>2, <2>4, <3>1 DEF Coming, MovesTo
    <2>5. Coming(Range(moves), s, card, Shown)  BY <1>6, <2>3, <2>4
    <2> QED BY <2>5 DEF s
<1>10. act.a.tool = "create_subtask" => moves = <<>>  BY <1>6
<1> QED BY <1>3, <1>7, <1>8, <1>9, <1>10 DEF ToMake

LEMMA CardAdded ==
    ASSUME NEW b, NEW a, NEW latest, NEW r, NEW out, NEW act, Done(b, a, latest, r, out, act),
           a.tool \in CreateTools
    PROVE  Making(b, a, r, out, act)
<1>1. /\ b \in Boards /\ out = ApplyTool(b, r) /\ Succeeds(out) /\ Simple(a)
      /\ act = Act(IF a.tool \in Confirmed THEN r ELSE a, out)
    BY DEF Done
<1>2. r \in Args /\ SameBut(r, a)
    <2>1. KnownOf(b, a, r, out, act)  BY DoneTyped
    <2> QED BY <2>1 DEF KnownOf
<1>3. r.tool = a.tool /\ r.status = a.status  BY <1>2 DEF SameBut
<1>4. out = CreateTicket(b, r) \/ out = Refused(b)
    BY <1>1, <1>3 DEF ApplyTool, CreateTools, CreateSubtask
<1>5. ~Succeeds(Refused(b))  BY DEF Succeeds, Refused
<1>6. Added(b, r, out)
    <2>1. out = CreateTicket(b, r) /\ out.changed  BY <1>1, <1>4, <1>5 DEF Succeeds
    <2> QED BY <1>1, <1>2, <2>1, CreateTicketGood
<1>7. act = Act(a, out)  BY <1>1 DEF CreateTools, Confirmed
<1>8. act.a = a /\ act.card = Of(out.board.cards, out.id)
    BY <1>7 DEF Act, CreateTools
<1>9. a.tool = "create_subtask" => r.status = ""  BY <1>1, <1>3 DEF Simple
<1> QED BY <1>3, <1>6, <1>8, <1>9 DEF Making

LEMMA CreateOwes ==
    ASSUME NEW b, NEW a, NEW latest, NEW r, NEW out, NEW act, Done(b, a, latest, r, out, act),
           a.tool \in CreateTools, NEW list, NEW issues, Owed(b, list, issues, NoCard, {})
    PROVE  AliasOK(out.board) /\ Begun(act, Plan(out.board, act), out.board, list, issues)
<1> DEFINE n == out.board
<1>1. b \in Boards /\ AliasOK(b)  BY DEF Done
<1>2. n \in Boards /\ Ordered(n) /\ act.a \in Args
    <2>1. KnownOf(b, a, r, out, act)  BY DoneTyped
    <2> QED BY <2>1 DEF KnownOf
<1>3. /\ Added(b, r, out) /\ r.tool = a.tool /\ act.a = a
      /\ act.card = Of(n.cards, out.id) /\ (a.tool = "create_subtask" => r.status = "")
    <2>1. Making(b, a, r, out, act)  BY CardAdded
    <2> QED BY <2>1 DEF Making
<1>12. PICK k \in b.next .. MaxLocal, card \in Cards :
        /\ card.id = LocalId(k) /\ card.title = r.title
        /\ card.status = (IF r.status = "" THEN "Backlog" ELSE r.status)
        /\ \A x \in CardFields : card.f[x] = 0
        /\ n.cards = Append(b.cards, card) /\ n.next = k + 1
        /\ n.alias = b.alias /\ out.id = card.id
    BY <1>3 DEF Added
<1>13. r.status = "" => card.status = "Backlog"  BY <1>12
<1>14. n.next = k + 1  BY <1>12
<1>4. /\ card.id = LocalId(k) /\ (\A x \in CardFields : card.f[x] = 0)
      /\ n.cards = Append(b.cards, card) /\ n.alias = b.alias /\ out.id = card.id
    BY <1>12
<1> HIDE DEF n
<1>5. /\ DOMAIN b.cards = 1 .. Len(b.cards) /\ DOMAIN n.cards = 1 .. Len(b.cards) + 1
      /\ Len(b.cards) \in Nat /\ n.cards[Len(b.cards) + 1] = card
      /\ \A j \in 1 .. Len(b.cards) : n.cards[j] = b.cards[j]
    BY <1>1, <1>4, BoardParts, AppendProperties, LenProperties
<1>6. Range(n.cards) = Range(b.cards) \cup {card} /\ card \in Range(n.cards)
    <2>1. \A j \in 1 .. Len(b.cards) + 1 : j \in 1 .. Len(b.cards) \/ j = Len(b.cards) + 1
        BY <1>5
    <2>2. \A j \in 1 .. Len(b.cards) : j \in 1 .. Len(b.cards) + 1  BY <1>5
    <2>3. Len(b.cards) + 1 \in 1 .. Len(b.cards) + 1  BY <1>5
    <2> QED BY <1>5, <2>1, <2>2, <2>3 DEF Range
<1>7. act.card = card
    <2> DEFINE i == CHOOSE i \in DOMAIN n.cards : n.cards[i].id = out.id
    <2>1. Len(b.cards) + 1 \in DOMAIN n.cards /\ n.cards[Len(b.cards) + 1].id = out.id
        BY <1>4, <1>5
    <2>2. i \in DOMAIN n.cards /\ n.cards[i].id = out.id  BY <2>1
    <2>3. act.card = n.cards[i]  BY <1>3 DEF Of
    <2> HIDE DEF i
    <2>4. i = Len(b.cards) + 1  BY <1>2, <2>1, <2>2 DEF Ordered, Distinct
    <2> QED BY <1>5, <2>3, <2>4
<1>8. b.next \in Nat /\ k \in Nat /\ b.next <= k  BY <1>1, BoardParts, IdsAssumption
<1>9. AliasOK(n)
    <2> SUFFICES ASSUME NEW m \in 1 .. MaxLocal, n.alias[m] # 0
                 PROVE  m < n.next /\ \A i \in DOMAIN n.cards : n.cards[i].id # LocalId(m)
        BY DEF AliasOK
    <2>1. m < b.next /\ \A i \in DOMAIN b.cards : b.cards[i].id # LocalId(m)
        BY <1>1, <1>4 DEF AliasOK
    <2>2. m < n.next /\ m # k  BY <1>14, <1>8, <2>1
    <2>3. LocalId(k) # LocalId(m)  BY <2>2 DEF LocalId, Ref
    <2>4. \A i \in 1 .. Len(b.cards) + 1 : i \in 1 .. Len(b.cards) \/ i = Len(b.cards) + 1
        BY <1>5
    <2> QED BY <1>4, <1>5, <2>1, <2>2, <2>3, <2>4
<1>10. Owed(n, list, issues, Goal(n, act, 0), Range(Plan(n, act)))
    <2>1. Goal(n, act, 0) = Key(0)  BY <1>3 DEF Goal
    <2>2. \A d \in Cards : d.id # Key(0) /\ d.id # NoCard
        BY DEF Cards, Ids, Key, NoCard, Ref
    <2>3. \A d \in Range(n.cards) : IsKey(d.id) => d \in Range(b.cards)
        BY <1>4, <1>6 DEF IsKey, LocalId, Ref
    <2>4. Range(b.cards) \subseteq Cards  BY <1>1, BoardParts DEF Range
    <2>5. \A id : ListedIn(b, list, id) => ListedIn(n, list, id)
        BY <1>4 DEF ListedIn, ResolveAlias
    <2>6. \A d \in Range(b.cards) : IsKey(d.id) =>
             ListedIn(b, list, d.id) \/ Coming({}, issues[d.id.n], d, Shown)
        BY DEF Owed
    <2> QED BY <2>1, <2>2, <2>3, <2>4, <2>5, <2>6 DEF Owed
<1>11. ToMake(n.cards, act, Plan(n, act))
    <2> DEFINE w == ResolvedOn(n, act.a)
    <2>1. w.tool = act.a.tool  BY <1>2, NoCardIsRef, ResolvedSame DEF SameBut
    <2>2. act.card \in Cards /\ (\A x \in CardFields : act.card.f[x] = 0)
          /\ act.card \in Range(n.cards)
        BY <1>4, <1>6, <1>7
    <2>3. act.a.tool = "create_subtask" => act.card.status = "Backlog"
        BY <1>3, <1>7, <1>13
    <2>4. act.a.tool \in CreateTools  BY <1>3
    <2> HIDE DEF w
    <2> QED BY <2>1, <2>2, <2>3, <2>4, MakesIssue DEF w
<1> QED BY <1>3, <1>9, <1>10, <1>11 DEF Begun, n

\* Every tool that succeeds.
LEMMA ToolOwes ==
    ASSUME NEW b, NEW a, NEW latest, NEW r, NEW out, NEW act, Done(b, a, latest, r, out, act),
           NEW list, NEW issues \in [Keys -> Issues], Owed(b, list, issues, NoCard, {})
    PROVE  AliasOK(out.board) /\ Begun(act, Plan(out.board, act), out.board, list, issues)
<1>1. b \in Boards /\ AliasOK(b)  BY DEF Done
<1>2. out.board \in Boards /\ act.a.tool = a.tool
    <2>1. KnownOf(b, a, r, out, act)  BY DoneTyped
    <2> QED BY <2>1 DEF KnownOf, SameBut
<1>3. CASE a.tool \in CreateTools  BY <1>3, CreateOwes
<1>4. CASE a.tool \notin CreateTools
    <2>1. Planned(b, out.board, act)  BY <1>4, ToolPlanned
    <2> DEFINE n == out.board
    <2>2. n \in Boards /\ Planned(b, n, act) /\ act.a.tool \notin CreateTools
        BY <1>2, <1>4, <2>1
    <2> HIDE DEF n
    <2>3. AliasOK(n) /\ Begun(act, Plan(n, act), n, list, issues)
        BY <1>1, <2>2, PlannedOwes
    <2> QED BY <2>3 DEF n
<1> QED BY <1>3, <1>4

-----------------------------------------------------------------------------
(* A tool that fails.                                                      *)

LEMMA UnhurtParts ==
    ASSUME NEW b
    PROVE  /\ Unhurt(b, Refused(b))
           /\ \A n, id : Unhurt(b, Changed(n, id))
BY DEF Unhurt, Succeeds, Changed, Refused

LEMMA EditUnhurt ==
    ASSUME NEW b, NEW a, NEW out, EditOf(b, a, out)
    PROVE  Unhurt(b, out)
<1>1. CASE out = Refused(b)  BY <1>1, UnhurtParts
<1>2. ASSUME NEW i \in 1 .. Len(b.cards), NEW d \in Cards,
             out = Changed([b EXCEPT !.cards[i] = d], a.card)
      PROVE  Unhurt(b, out)
    <2> DEFINE n == [b EXCEPT !.cards[i] = d]
    <2>1. out = Changed(n, a.card)  BY <1>2
    <2> HIDE DEF n
    <2> QED BY <2>1, UnhurtParts
<1> QED BY <1>1, <1>2 DEF EditOf

LEMMA OthersUnhurt ==
    ASSUME NEW b, NEW a, NEW follow
    PROVE  /\ Unhurt(b, CreateTicket(b, a)) /\ Unhurt(b, DeleteTicket(b, a))
           /\ Unhurt(b, RecordParticipantUpdate(b, a)) /\ Unhurt(b, ReorderTicket(b, a, follow))
<1>1. Unhurt(b, CreateTicket(b, a)) /\ Unhurt(b, DeleteTicket(b, a))
    BY UnhurtParts DEF CreateTicket, DeleteTicket
<1>2. Unhurt(b, RecordParticipantUpdate(b, a))
    BY UnhurtParts DEF RecordParticipantUpdate
<1>3. Unhurt(b, ReorderTicket(b, a, follow))
    <2> DEFINE id == ResolveAlias(b, a.card)
               target == ResolveAlias(b, a.other)
               i == Find(b, id)
               t == Find(b, target)
               old == b.cards[i].status
               status == IF a.place \in Relative
                         THEN IF a.status # "" THEN a.status
                              ELSE IF follow THEN b.cards[t].status ELSE old
                         ELSE IF a.status # "" THEN a.status ELSE old
               rest == RemoveAt(b.cards, i)
               at == Position(rest, target)
               to == CASE a.place = "above" -> at
                       [] a.place = "below" -> at + 1
                       [] OTHER -> InsertionIndex(rest, status, a.place)
               beside == IF a.place \in Relative THEN target
                         ELSE Neighbour(rest, status, a.place)
               d == [b.cards[i] EXCEPT !.status = status]
               new == InsertAt(rest, to, d)
               n == [b EXCEPT !.cards = new]
               no == \/ i = 0
                     \/ a.place = "" /\ follow
                     \/ a.place \in Relative /\ (t = 0 \/ target = id)
                     \/ a.place \in Relative /\ a.status \notin {"", b.cards[t].status}
               moved == status # old
               stays == [Changed(b, id) EXCEPT !.status = status, !.moved = moved]
               side == IF a.place \in {"above", "top"} THEN "above" ELSE "below"
               goes == [Changed(n, id) EXCEPT !.other = beside, !.status = status,
                                              !.moved = moved, !.place = side]
               out == ReorderTicket(b, a, follow)
    <2>1. out = IF no THEN Refused(b) ELSE IF a.place = "" THEN stays ELSE goes
        BY DEF ReorderTicket
    <2> HIDE DEF id, n, status, moved, beside, side, no, out
    <2>2. Succeeds(stays) /\ Succeeds(goes)  BY DEF Succeeds, Changed, Refused
    <2> HIDE DEF stays, goes
    <2>3. out = Refused(b) \/ out = stays \/ out = goes  BY <2>1, Zenon
    <2>4. Unhurt(b, out)  BY <2>2, <2>3, UnhurtParts, Zenon DEF Unhurt
    <2> QED BY <2>4 DEF out
<1> QED BY <1>1, <1>2, <1>3

LEMMA NotesUnhurt ==
    ASSUME NEW b, NEW a
    PROVE  Unhurt(b, AppendNotes(b, a)) /\ Unhurt(b, SetBlocked(b, a))
<1> DEFINE i == Find(b, a.card)
<1>1. ASSUME NEW n, NEW id, NEW notes, NEW tags
      PROVE  /\ Succeeds([Changed(n, id) EXCEPT !.notes = notes])
             /\ Succeeds([[Changed(n, id) EXCEPT !.notes = notes] EXCEPT !.tags = tags])
             /\ [Refused(b) EXCEPT !.tags = tags].board = b
             /\ Changed(n, id).changed /\ ~Refused(b).changed
    BY DEF Succeeds, Changed, Refused
<1>2. Unhurt(b, AppendNotes(b, a))
    <2>1. CASE a.notes = {} \/ i = 0
        <3>1. AppendNotes(b, a) = Refused(b)
            BY <1>1, <2>1 DEF AppendNotes, WithNotes, OnCard
        <3> QED BY <3>1, UnhurtParts
    <2>2. CASE ~(a.notes = {} \/ i = 0)
        <3> DEFINE c == b.cards[i]
                   d == [c EXCEPT !.notes = @ \cup a.notes]
                   n == [b EXCEPT !.cards[i] = d]
                   out == Changed(n, a.card)
        <3>0. a.notes # {} /\ i # 0  BY <2>2
        <3>1. AppendNotes(b, a) = IF out.changed THEN [out EXCEPT !.notes = out.board.cards[i].notes]
                                  ELSE out
            BY <3>0 DEF AppendNotes, WithNotes, OnCard
        <3>2. out.changed  BY <1>1, Zenon
        <3> DEFINE notes == out.board.cards[i].notes
        <3>3. AppendNotes(b, a) = [out EXCEPT !.notes = notes]  BY <3>1, <3>2
        <3> HIDE DEF notes, n
        <3>4. Succeeds([out EXCEPT !.notes = notes])  BY <1>1, Zenon
        <3> QED BY <3>3, <3>4, Zenon DEF Unhurt
    <2> QED BY <2>1, <2>2
<1>3. Unhurt(b, SetBlocked(b, a))
    <2> DEFINE said == WithNotes(b, a, LAMBDA x : Block(x, a.notes, a.tags))
               tags == {"blocked"} \cup a.tags
    <2>1. SetBlocked(b, a) = [said EXCEPT !.tags = tags]  BY DEF SetBlocked
    <2>2. CASE i = 0
        <3>1. said = Refused(b)  BY <1>1, <2>2 DEF WithNotes, OnCard
        <3> HIDE DEF said, tags
        <3>2. SetBlocked(b, a).board = b  BY <1>1, <2>1, <3>1, Zenon
        <3> QED BY <3>2 DEF Unhurt
    <2>3. CASE i # 0
        <3> DEFINE n == [b EXCEPT !.cards[i] = Block(@, a.notes, a.tags)]
                   out == Changed(n, a.card)
                   notes == out.board.cards[i].notes
        <3>1. said = IF out.changed THEN [out EXCEPT !.notes = notes] ELSE out
            BY <2>3 DEF WithNotes, OnCard
        <3>2. out.changed  BY <1>1, Zenon
        <3>3. said = [out EXCEPT !.notes = notes]  BY <3>1, <3>2
        <3> HIDE DEF notes, n, said, tags
        <3>4. Succeeds([[out EXCEPT !.notes = notes] EXCEPT !.tags = tags])
            BY <1>1, Zenon
        <3>5. SetBlocked(b, a) = [[out EXCEPT !.notes = notes] EXCEPT !.tags = tags]
            BY <2>1, <3>3, Zenon
        <3> QED BY <3>4, <3>5, Zenon DEF Unhurt
    <2> QED BY <2>2, <2>3
<1> QED BY <1>2, <1>3

LEMMA ToolUnhurt ==
    ASSUME NEW b \in Boards, NEW a \in Args
    PROVE  Unhurt(b, ApplyTool(b, a))
<1> DEFINE out == ApplyTool(b, a)
<1>1. /\ EditOf(b, a, MoveTicket(b, a)) /\ EditOf(b, a, AddTags(b, a))
      /\ EditOf(b, a, RemoveTags(b, a)) /\ EditOf(b, a, UpdateTicket(b, a))
    BY MoveTicketEdits, AddTagsEdits, RemoveTagsEdits, UpdateTicketEdits
<1>2. \A field \in CardFields : EditOf(b, a, SetField(b, a, field)) /\ EditOf(b, a, Extend(b, a, field))
    BY SetFieldEdits, ExtendEdits
<1>3. Single \subseteq CardFields /\ Lists \subseteq CardFields  BY DEF CardFields
<1>4. \A field \in CardFields : Unhurt(b, SetField(b, a, field)) /\ Unhurt(b, Extend(b, a, field))
    BY <1>2, EditUnhurt
<1>5. Unhurt(b, Refused(b))  BY UnhurtParts
<1>6. Unhurt(b, UnassignTicket(b, a))
    <2> DEFINE none == [a EXCEPT !.v = 0]
    <2>1. none \in Args  BY DEF Args
    <2> HIDE DEF none
    <2>2. EditOf(b, none, SetField(b, none, "assignee"))
        BY <2>1, SetFieldEdits DEF CardFields, Single
    <2>3. Unhurt(b, SetField(b, none, "assignee"))  BY <2>2, EditUnhurt
    <2> QED BY <2>3 DEF UnassignTicket, none
<1>7. CASE a.tool \in {"create_ticket", "create_subtask", "delete_ticket", "prioritize_ticket",
                       "rank_issue", "record_participant_update"}
    <2>1. \/ out = CreateTicket(b, a) \/ out = DeleteTicket(b, a) \/ out = Refused(b)
          \/ out = RecordParticipantUpdate(b, a) \/ (\E follow \in BOOLEAN : out = ReorderTicket(b, a, follow))
        BY <1>7 DEF ApplyTool, CreateSubtask
    <2> QED BY <1>5, <2>1, OthersUnhurt
<1>8. CASE a.tool \in {"append_notes", "set_blocked", "move_ticket", "add_tags", "remove_tags",
                       "update_ticket", "unassign_ticket"}
    <2>1. out \in {AppendNotes(b, a), SetBlocked(b, a), MoveTicket(b, a), AddTags(b, a),
                   RemoveTags(b, a), UpdateTicket(b, a), UnassignTicket(b, a)}
        BY <1>8, Zenon DEF ApplyTool
    <2> QED BY <1>1, <1>6, <2>1, EditUnhurt, NotesUnhurt
<1>9. CASE a.tool \in {"add_comment", "add_worklog", "link_issues", "add_remote_link", "add_watcher"}
    <2>1. \/ out = Refused(b)
          \/ \E field \in Lists : out = Extend(b, a, field)
        BY <1>9, Zenon DEF ApplyTool, AddComment, AddWorklog, LinkIssues, AddRemoteLink, AddWatcher, Lists
    <2> QED BY <1>3, <1>4, <1>5, <2>1
<1>10. CASE a.tool \in {"assign_ticket", "set_eta", "set_priority", "set_story_points",
                        "set_estimate", "set_sprint", "set_components", "set_fix_versions",
                        "set_custom_field", "set_reporter"}
    <2>1. \/ out = Refused(b)
          \/ \E field \in Single : out = SetField(b, a, field)
        BY <1>10, Zenon DEF ApplyTool, AssignTicket, SetETA, SetPriority, SetStoryPoints, SetEstimate,
                     SetSprint, SetComponents, SetFixVersions, SetCustomField, SetReporter, Single
    <2> QED BY <1>3, <1>4, <1>5, <2>1
<1>11. CASE a.tool \notin Tools
    <2>1. out = Refused(b)  BY <1>11 DEF ApplyTool, Tools
    <2> QED BY <1>5, <2>1
<1> QED BY <1>7, <1>8, <1>9, <1>10, <1>11 DEF Tools

-----------------------------------------------------------------------------
(* The steps of a call, as far as Jira shows what the board has.           *)

LEMMA OwedNone ==
    ASSUME NEW b, NEW list, NEW issues, NEW T, NEW U, Owed(b, list, issues, T, {})
    PROVE  Owed(b, list, issues, U, {})
BY DEF Owed

\* What is given up is owed by a request that is refused.
LEMMA RefusedOwes ==
    ASSUME NEW b, NEW list, NEW issues, NEW T, NEW W, Owed(b, list, issues, T, W)
    PROVE  Owed(b, list, issues, T, Range(Refuse(T)))
<1> DEFINE w == On(T, "refuse")
<1>1. w.op = "refuse" /\ Range(Refuse(T)) = {w}  BY RangeFacts DEF On, NoWrite, Refuse
<1> HIDE DEF w
<1>2. \A s, d : Coming({w}, s, d, Shown)  BY <1>1 DEF Coming
<1> QED BY <1>1, <1>2 DEF Owed

\* One request to the issue k, of those it is owed.
LEMMA EditedOwes ==
    ASSUME NEW b \in Boards, NEW list, NEW issues \in [Keys -> Issues], NEW k \in Keys,
           NEW w \in GoodRequests, w.op \notin {"refuse", "create"}, NEW V,
           Owed(b, list, issues, Key(k), {w} \cup V)
    PROVE  Owed(b, list, [issues EXCEPT ![k] = Edited(@, w)], Key(k), V)
<1> DEFINE edited == [issues EXCEPT ![k] = Edited(@, w)]
<1>1. edited[k] = Edited(issues[k], w) /\ \A j \in Keys : j # k => edited[j] = issues[j]
    OBVIOUS
<1> HIDE DEF edited
<1>2. Range(b.cards) \subseteq Cards  BY BoardParts DEF Range
<1>3. ASSUME NEW d \in Range(b.cards), IsKey(d.id)
      PROVE  \/ ListedIn(b, list, d.id)
             \/ Coming(IF d.id = Key(k) THEN V ELSE {}, edited[d.id.n], d, Shown)
    <2>1. \/ ListedIn(b, list, d.id)
          \/ Coming(IF d.id = Key(k) THEN {w} \cup V ELSE {}, issues[d.id.n], d, Shown)
        BY <1>3 DEF Owed
    <2>2. d.id.n \in Keys /\ d.id = Key(d.id.n)
        BY <1>2, <1>3 DEF Cards, Ids, IsKey, Key, Ref, Keys
    <2>3. CASE d.id = Key(k)
        <3>1. d.id.n = k  BY <2>3 DEF Key, Ref
        <3>2. issues[k] \in Issues /\ d \in Cards /\ Shown \subseteq CardFields
            BY <1>2 DEF Shown, CardFields, Single
        <3>3. Coming({w} \cup V, issues[k], d, Shown) => Coming(V, edited[k], d, Shown)
            BY <1>1, <3>2, ComingStep
        <3> QED BY <2>1, <2>3, <3>1, <3>3
    <2>4. CASE d.id # Key(k)  BY <1>1, <2>1, <2>2, <2>4
    <2> QED BY <2>3, <2>4
<1> QED BY <1>3 DEF Owed, edited

\* An issue that was not there is made: no card showed it before.
LEMMA MadeOwes ==
    ASSUME NEW b \in Boards, NEW list, NEW issues \in [Keys -> Issues], NEW k \in Keys,
           issues[k] = NoIssue, NEW W, Owed(b, list, issues, Key(0), W), NEW x
    PROVE  /\ Key(k) \in IdsOf(b.cards) => ListedIn(b, list, Key(k))
           /\ Owed(b, list, [issues EXCEPT ![k] = x], NoCard, {})
<1> DEFINE after == [issues EXCEPT ![k] = x]
<1>1. \A j \in Keys : j # k => after[j] = issues[j]  OBVIOUS
<1> HIDE DEF after
<1>2. Range(b.cards) \subseteq Cards  BY BoardParts DEF Range
<1>3. \A d \in Cards : d.id # Key(0) /\ d.id # NoCard
    BY DEF Cards, Ids, Key, NoCard, Ref
<1>4. ASSUME NEW d \in Range(b.cards), IsKey(d.id)
      PROVE  /\ ListedIn(b, list, d.id) \/ Coming({}, after[d.id.n], d, Shown)
             /\ d.id = Key(k) => ListedIn(b, list, d.id)
    <2>1. ListedIn(b, list, d.id) \/ Coming({}, issues[d.id.n], d, Shown)
        BY <1>2, <1>3, <1>4 DEF Owed
    <2>2. d.id.n \in Keys /\ d.id = Key(d.id.n)
        BY <1>2, <1>4 DEF Cards, Ids, IsKey, Key, Ref, Keys
    <2>3. CASE d.id.n = k
        <3>1. ShownStatus(NoIssue) = "" /\ NoIssue \in Issues
            <4>1. NoIssue.flag = FALSE /\ NoIssue.status = ""  BY DEF NoIssue
            <4>2. issues[k] \in Issues  OBVIOUS
            <4> QED BY <4>1, <4>2 DEF ShownStatus
        <3>2. d \in Cards /\ d.status # ""  BY <1>2 DEF Cards, Statuses
        <3>3. ~Like(NoIssue, d, Shown)  BY <3>1, <3>2, LikeShows
        <3> QED BY <2>1, <2>3, <3>3 DEF Like
    <2>4. CASE d.id.n # k
        <3>1. d.id # Key(k)  BY <2>4 DEF Key, Ref
        <3> QED BY <1>1, <2>1, <2>2, <2>4, <3>1
    <2> QED BY <2>3, <2>4
<1>5. Owed(b, list, after, NoCard, {})  BY <1>4 DEF Owed
<1>6. ASSUME Key(k) \in IdsOf(b.cards)
      PROVE  ListedIn(b, list, Key(k))
    <2>1. PICK d \in Range(b.cards) : d.id = Key(k)  BY <1>6 DEF IdsOf, Range
    <2>2. IsKey(d.id)  BY <2>1 DEF IsKey, Key, Ref
    <2> QED BY <1>4, <2>1, <2>2
<1> QED BY <1>5, <1>6 DEF after

LEMMA FinishOwes ==
    ASSUME NEW d, Loose(d), Len(d.acts) = 1,
           NEW b, NEW list, NEW issues, Owed(b, list, issues, NoCard, {})
    PROVE  Owing(Finish(d), b, list, issues)
<1> DEFINE S == GoodActs(d.undo)
           acts == d.acts
<1>1. acts \in Seq(S) /\ Len(acts) = 1  BY DEF Loose
<1> HIDE DEF S, acts
<1>2. acts # <<>> /\ Tail(acts) = <<>>
    <2>0. Len(<<>>) = 0  OBVIOUS
    <2>1. acts # <<>>  BY <1>1, <2>0
    <2>2. Tail(acts) \in Seq(S) /\ Len(Tail(acts)) = 0
        BY <1>1, <2>1, HeadTailProperties
    <2> QED BY <2>1, <2>2, EmptySeq
<1>3. PICK m \in Calls : Finish(d) = Settled(m) /\ m.acts = <<>>
    BY <1>2, FinishIs DEF acts
<1>4. Settled(m).pc = "idle" /\ Settled(m).asked = <<>> /\ Settled(m).undo = FALSE
    <2> DEFINE answer == IF ~m.required THEN "local_only"
                         ELSE IF m.failed THEN "api_failed" ELSE "api_confirmed"
    <2>1. Settled(m) = [Idle EXCEPT !.answer = answer, !.sent = m.sent, !.bad = m.bad]
        BY <1>3 DEF Settled
    <2> HIDE DEF answer
    <2> QED BY <2>1 DEF Idle
<1> QED BY <1>3, <1>4 DEF Owing

LEMMA ProgressOwes ==
    ASSUME NEW d, Loose(d), Len(d.acts) = 1, d.asked = <<>>, ~d.undo,
           NEW b, NEW list, NEW issues, Left(d, b, list, issues)
    PROVE  Owing(Progress(d), b, list, issues)
<1>1. CASE d.todo = <<>>
    <2>1. Range(d.todo) = {}  BY <1>1, RangeFacts
    <2>2. Owed(b, list, issues, NoCard, {})  BY <1>1, <2>1, OwedNone DEF Left, Begun
    <2> QED BY <1>1, <2>2, FinishOwes DEF Progress
<1>2. CASE d.todo # <<>>
    <2> DEFINE n == [d EXCEPT !.pc = "write"]
    <2>1. Progress(d) = n  BY <1>2 DEF Progress
    <2>2. /\ n.pc = "write" /\ n.asked = d.asked /\ n.undo = d.undo /\ n.acts = d.acts
          /\ n.todo = d.todo /\ n.key = d.key
        BY DEF Loose, Calls
    <2> HIDE DEF n
    <2> QED BY <1>2, <2>1, <2>2 DEF Left, Owing
<1> QED BY <1>1, <1>2

\* The one caller takes a step.
LEMMA OneShown ==
    ASSUME \A c, d \in Callers : c = d, IInv, NEW c \in Callers, NEW n,
           call' = [call EXCEPT ![c] = n], AliasOK(board'), Owing(n, board', conflicts', jira')
    PROVE  ShownInv'
<1>1. \A x \in Callers : call'[x] = n  BY DEF IInv, TypeOK
<1> QED BY <1>1 DEF ShownInv

LEMMA BeginShown ==
    ASSUME \A c, d \in Callers : c = d, PlainAsks, IInv, ShownInv,
           edits = 0 /\ resolves = 0 /\ undos = 0, NEW c \in Callers, Begin(c)
    PROVE  ShownInv'
<1>1. /\ board \in Boards /\ jira \in [Keys -> Issues] /\ Ordered(board)
      /\ history \in Seq(Mutations) /\ call[c].pc = "idle"
      /\ UNCHANGED <<conflicts, jira>>
    BY DEF IInv, TypeOK, Begin
<1>2. AliasOK(board) /\ Owed(board, conflicts, jira, NoCard, {})
    BY <1>1 DEF ShownInv, Owing
<1>3. PICK asked \in Asks : Apply(c, asked, <<>>)  BY DEF Begin
<1>4. asked \in Seq(Args) /\ asked # <<>> /\ Len(asked) = 1 /\ Simple(asked[1])
    BY AsksAssumption DEF PlainAsks
<1> DEFINE a == Head(asked)
           rest == Tail(asked)
           latest == Latest
           r == Canonicalize(board, a, latest)
           s == IF a.tool \in Confirmed THEN r ELSE a
           out == ApplyTool(board, r)
           act == Act(s, out)
           made == <<act>>
           cards == board.cards
           next == [Idle EXCEPT !.asked = rest, !.acts = <<>>]
           recorded == [next EXCEPT !.pc = "record", !.before = cards, !.made = made]
           going == [next EXCEPT !.pc = "apply"]
           n == IF out.changed THEN recorded ELSE IF rest # <<>> THEN going ELSE Settled(next)
<1>5. a \in Args /\ Simple(a) /\ rest = <<>>
    <2>1. a = asked[1] /\ a \in Args /\ rest \in Seq(Args) /\ Len(rest) = 0
        BY <1>4, HeadTailProperties
    <2> HIDE DEF a, rest
    <2> QED BY <1>4, <2>1, EmptySeq
<1>6. latest \in Refs  BY <1>1, LatestTyped
<1>7. /\ next.pc = "idle" /\ next.asked = rest /\ next.acts = <<>> /\ next.undo = FALSE
      /\ next.key = 0
      /\ recorded.pc = "record" /\ recorded.asked = rest /\ recorded.acts = <<>>
      /\ recorded.undo = FALSE /\ recorded.key = 0 /\ recorded.made = made
    <2> HIDE DEF rest, cards, made
    <2> QED BY DEF Idle
<1>8. /\ board' = out.board
      /\ call' = [call EXCEPT ![c] = IF out.changed THEN recorded
                                     ELSE IF next.asked # <<>> THEN going ELSE Settled(next)]
    BY <1>3 DEF Apply, Resolved, Stored
<1>9. board' = out.board /\ call' = [call EXCEPT ![c] = n]
    <2> HIDE DEF out, recorded, going, next, rest
    <2> QED BY <1>7, <1>8 DEF n
<1>10. made[1] = act  OBVIOUS
<1>11. r \in Args  BY <1>1, <1>5, <1>6, ResolvedSame DEF SameBut
<1> HIDE DEF a, rest, latest, out, act, made, recorded, going
<1>12. CASE out.changed
    <2>1. Succeeds(out) /\ n = recorded  BY <1>12 DEF Succeeds
    <2>2. Done(board, a, latest, r, out, act)
        BY <1>1, <1>2, <1>5, <1>6, <2>1 DEF Done, out, act
    <2> HIDE DEF n, r
    <2>3. AliasOK(out.board) /\ Begun(act, Plan(out.board, act), out.board, conflicts, jira)
        BY <1>1, <1>2, <2>2, ToolOwes
    <2>4. AliasOK(board') /\ Begun(act, Plan(board', act), board', conflicts', jira')
        BY <1>1, <1>9, <2>3
    <2>5. Owing(recorded, board', conflicts', jira')
        BY <1>5, <1>7, <1>10, <2>4 DEF Owing
    <2> QED BY <1>9, <2>1, <2>4, <2>5, OneShown
<1>13. CASE ~out.changed
    <2>1. n = Settled(next)  BY <1>5, <1>13
    <2>2. board' = board
        <3>1. Unhurt(board, out)  BY <1>1, <1>11, ToolUnhurt DEF out
        <3> QED BY <1>9, <1>13, <3>1 DEF Unhurt, Succeeds
    <2> HIDE DEF n, next
    <2>3. n.pc = "idle" /\ n.asked = <<>> /\ n.undo = FALSE
        <3> DEFINE answer == IF ~next.required THEN "local_only"
                             ELSE IF next.failed THEN "api_failed" ELSE "api_confirmed"
        <3>1. n = [Idle EXCEPT !.answer = answer, !.sent = next.sent, !.bad = next.bad]
            BY <1>7, <2>1 DEF Settled
        <3> HIDE DEF answer
        <3> QED BY <3>1 DEF Idle
    <2>4. Owing(n, board', conflicts', jira')  BY <1>1, <1>2, <2>2, <2>3 DEF Owing
    <2> QED BY <1>2, <1>9, <2>2, <2>4, OneShown
<1> QED BY <1>12, <1>13

LEMMA RecordShown ==
    ASSUME \A c, d \in Callers : c = d, IInv, ShownInv,
           edits = 0 /\ resolves = 0 /\ undos = 0, NEW c \in Callers, RecordMutation(c)
    PROVE  ShownInv'
<1> DEFINE d == call[c]
           act == d.made[1]
           acts == Append(d.acts, act)
           pc == IF d.asked # <<>> THEN "apply" ELSE "sync"
           n == [d EXCEPT !.acts = acts, !.made = <<>>, !.before = <<>>, !.pc = pc]
<1>1. d \in Calls /\ d.pc = "record" /\ Owing(d, board, conflicts, jira) /\ AliasOK(board)
    BY DEF IInv, TypeOK, ShownInv, RecordMutation
<1>2. call' = [call EXCEPT ![c] = n] /\ UNCHANGED <<board, conflicts, jira>>
    BY DEF RecordMutation, IInv, TypeOK
<1> HIDE DEF d
<1>3. /\ d.asked = <<>> /\ ~d.undo /\ d.acts = <<>> /\ d.key = 0
      /\ Begun(act, Plan(board, act), board, conflicts, jira)
    BY <1>1 DEF Owing
<1> HIDE DEF act
<1>4. Len(acts) = 1 /\ acts[1] = act /\ pc = "sync"  BY <1>3
<1> HIDE DEF acts, pc
<1>5. n.acts = acts /\ n.pc = pc /\ n.key = d.key /\ n.asked = d.asked /\ n.undo = d.undo
    BY <1>1 DEF Calls
<1> HIDE DEF n
<1>6. Owing(n, board, conflicts, jira)  BY <1>3, <1>4, <1>5 DEF Owing
<1>7. AliasOK(board') /\ Owing(n, board', conflicts', jira')  BY <1>1, <1>2, <1>6
<1> QED BY <1>2, <1>7, OneShown

LEMMA StartSyncShown ==
    ASSUME \A c, d \in Callers : c = d, IInv, ShownInv,
           edits = 0 /\ resolves = 0 /\ undos = 0, NEW c \in Callers, StartSync(c)
    PROVE  ShownInv'
<1> DEFINE d == call[c]
           act == Head(d.acts)
           todo == IF RequiresSync(act) THEN Writes(act) ELSE <<>>
           required == d.required \/ RequiresSync(act)
           m == [d EXCEPT !.todo = todo, !.required = required]
           n == Progress(m)
<1>1. /\ board \in Boards /\ d \in Calls /\ Shape(d) /\ d.pc = "sync"
      /\ Owing(d, board, conflicts, jira) /\ AliasOK(board)
    BY DEF IInv, TypeOK, ShownInv, StartSync
<1>2. call' = [call EXCEPT ![c] = n] /\ UNCHANGED <<board, conflicts, jira>>
    BY DEF StartSync, IInv, TypeOK, Calls
<1> HIDE DEF d
<1>3. /\ d.undo \in BOOLEAN /\ d.acts # <<>> /\ d.acts \in Seq(GoodActs(d.undo))
      /\ d.made \in Seq(GoodActs(d.undo)) /\ d.required \in BOOLEAN
    BY <1>1 DEF Shape, Loose, Calls
<1>4. act \in GoodActs(d.undo) /\ act = d.acts[1]
    <2> DEFINE S == GoodActs(d.undo)
    <2>1. d.acts \in Seq(S) /\ d.acts # <<>>  BY <1>3
    <2> HIDE DEF S
    <2>2. act \in S /\ act = d.acts[1]  BY <2>1, HeadTailProperties
    <2> QED BY <2>2 DEF S
<1>5. /\ d.asked = <<>> /\ ~d.undo /\ Len(d.acts) = 1 /\ d.key = 0
      /\ Begun(act, Plan(board, act), board, conflicts, jira)
    BY <1>1, <1>4 DEF Owing
<1> HIDE DEF act
<1>6. todo \in Seq(GoodRequests)  BY <1>1, <1>3, <1>4, WritesTyped, EmptySeq
<1>7. todo = Plan(board, act)  BY DEF Plan, WritesOn, ResolvedOn, Writes
<1>8. todo \in Seq(Requests) /\ required \in BOOLEAN
    <2>1. GoodRequests \subseteq Requests  BY DEF GoodRequests
    <2>2. RequiresSync(act) \in BOOLEAN  BY DEF RequiresSync
    <2>3. todo \in Seq(Requests)  BY <1>6, <2>1, SeqOfSubset
    <2> QED BY <1>3, <2>2, <2>3
<1> HIDE DEF todo, required
<1>9. /\ m \in Calls /\ m.acts = d.acts /\ m.made = d.made /\ m.todo = todo /\ m.undo = d.undo
      /\ m.asked = d.asked /\ m.key = d.key
    BY <1>1, <1>8 DEF Calls
<1> HIDE DEF m
<1>10. Loose(m)  BY <1>3, <1>6, <1>9 DEF Loose
<1>11. Left(m, board, conflicts, jira)  BY <1>4, <1>5, <1>7, <1>9 DEF Left
<1>12. Owing(n, board, conflicts, jira)  BY <1>5, <1>9, <1>10, <1>11, ProgressOwes
<1> HIDE DEF n
<1>13. AliasOK(board') /\ Owing(n, board', conflicts', jira')  BY <1>1, <1>2, <1>12
<1> QED BY <1>2, <1>13, OneShown

LEMMA WriteSends ==
    ASSUME NEW d, Shape(d), d.pc = "write",
           NEW b, NEW list, NEW issues, Owing(d, b, list, issues)
    PROVE  Sending(d, b, list, issues)
<1> DEFINE w == Head(d.todo)
           act == d.acts[1]
           T == Goal(b, act, d.key)
<1>1. d.todo \in Seq(GoodRequests) /\ d.todo # <<>>  BY DEF Shape, Loose
<1>2. w \in Range(d.todo)  BY <1>1, TodoRange
<1>3. d.asked = <<>> /\ ~d.undo /\ Len(d.acts) = 1  BY DEF Owing
<1> HIDE DEF w
<1>4. CASE d.key = 0
    <2>1. Begun(act, d.todo, b, list, issues) /\ T = Goal(b, act, 0)
        BY <1>4 DEF Owing
    <2> HIDE DEF act, T
    <2>2. Owed(b, list, issues, T, Range(d.todo))  BY <2>1 DEF Begun
    <2>3. CASE act.a.tool \in CreateTools
        <3>1. ToMake(b.cards, act, d.todo) /\ T = Key(0)
            BY <2>1, <2>3 DEF Begun, Goal
        <3>2. w.op = "create"  BY <3>1 DEF ToMake, w
        <3> QED BY <1>3, <1>4, <2>2, <3>1, <3>2 DEF Sending, w, act, T
    <2>4. CASE act.a.tool \notin CreateTools
        <3>1. Aimed(Range(d.todo), T)  BY <2>1, <2>4 DEF Begun
        <3>2. w.op # "create"  BY <1>2, <3>1 DEF Aimed
        <3> QED BY <1>3, <1>4, <2>2, <2>4, <3>1, <3>2 DEF Sending, w, act, T
    <2> QED BY <2>3, <2>4
<1>5. CASE d.key # 0
    <2>1. /\ act.a.tool = "create_ticket" /\ Aimed(Range(d.todo), NoCard)
          /\ Owed(b, list, issues, Key(d.key), Range(d.todo))
        BY <1>5 DEF Owing
    <2> HIDE DEF act
    <2>2. T = Key(d.key)  BY <2>1 DEF Goal, CreateTools
    <2> HIDE DEF T
    <2>3. w.op # "create"  BY <1>2, <2>1 DEF Aimed
    <2> QED BY <1>3, <1>5, <2>1, <2>2, <2>3 DEF Sending, w, act, T
<1> QED BY <1>4, <1>5

\* A request is not made, or fails.
LEMMA FailedOwes ==
    ASSUME NEW d \in Calls, NEW b, NEW list, NEW issues, NEW W,
           d.asked = <<>>, ~d.undo, Len(d.acts) = 1,
           d.acts[1].a.tool = "create_subtask" => d.key = 0,
           Owed(b, list, issues, Goal(b, d.acts[1], d.key), W)
    PROVE  Owing([d EXCEPT !.pc = "failed"], b, list, issues)
<1> DEFINE n == [d EXCEPT !.pc = "failed"]
           T == Goal(b, d.acts[1], d.key)
<1>1. Owed(b, list, issues, T, Range(Refuse(T)))  BY RefusedOwes
<1>2. n.pc = "failed" /\ n.asked = d.asked /\ n.undo = d.undo /\ n.acts = d.acts /\ n.key = d.key
    BY DEF Calls
<1> HIDE DEF n
<1> QED BY <1>1, <1>2 DEF Owing

\* A request that is made and answered, and one that makes no issue.
LEMMA SentOwes ==
    ASSUME NEW d \in Calls, Loose(d), d.todo # <<>>, NEW b \in Boards, NEW list,
           NEW issues \in [Keys -> Issues], Sending(d, b, list, issues), NEW k \in Keys,
           NEW w, w = Head(d.todo), w.op \notin {"create", "refuse"},
           Key(k) = IF w.id = NoCard /\ d.key # 0 THEN Key(d.key) ELSE w.id
    PROVE  LET after == [issues EXCEPT ![k] = Edited(@, w)]
               T == Goal(b, d.acts[1], d.key)
           IN /\ T = Key(k) /\ Owed(b, list, after, T, Range(Tail(d.todo)))
              /\ \A m : /\ m.acts = d.acts /\ m.key = d.key /\ m.todo = Tail(d.todo)
                        => Left(m, b, list, after)
<1> DEFINE after == [issues EXCEPT ![k] = Edited(@, w)]
           act == d.acts[1]
           T == Goal(b, act, d.key)
           left == Tail(d.todo)
<1>1. d.todo \in Seq(GoodRequests)  BY DEF Loose
<1>2. w \in GoodRequests /\ Range(d.todo) = {w} \cup Range(left)  BY <1>1, TodoRange
<1>3. /\ Owed(b, list, issues, T, Range(d.todo))
      /\ d.key = 0 => act.a.tool \notin CreateTools /\ Aimed(Range(d.todo), T)
      /\ d.key # 0 =>
           act.a.tool = "create_ticket" /\ T = Key(d.key) /\ Aimed(Range(d.todo), NoCard)
    BY DEF Sending
<1> HIDE DEF act, T, left
<1>4. Key(k) # NoCard /\ IsKey(Key(k))  BY DEF Key, NoCard, Ref, IsKey
<1>5. T = Key(k)
    <2>1. CASE d.key = 0
        <3>1. w.id = Key(k)  BY <2>1
        <3> QED BY <1>2, <1>3, <1>4, <2>1, <3>1 DEF Aimed
    <2>2. CASE d.key # 0
        <3>1. ~IsKey(w.id) \/ w.id = NoCard  BY <1>2, <1>3, <2>2 DEF Aimed
        <3> QED BY <1>3, <1>4, <2>2, <3>1
    <2> QED BY <2>1, <2>2
<1>6. Owed(b, list, after, T, Range(left))
    <2>1. Owed(b, list, issues, Key(k), {w} \cup Range(left))  BY <1>2, <1>3, <1>5
    <2> DEFINE V == Range(left)
    <2> HIDE DEF V
    <2>2. Owed(b, list, after, Key(k), V)  BY <1>2, <2>1, EditedOwes DEF V
    <2> QED BY <1>5, <2>2 DEF V
<1> HIDE DEF after
<1>7. Range(left) \subseteq Range(d.todo)  BY <1>2
<1>8. ASSUME NEW m, m.acts = d.acts, m.key = d.key, m.todo = left
      PROVE  Left(m, b, list, after)
    <2>1. m.acts[1] = act  BY <1>8 DEF act
    <2>2. CASE d.key = 0
        <3>1. T = Goal(b, act, 0)  BY <2>2 DEF T
        <3>2. Aimed(Range(left), T) /\ act.a.tool \notin CreateTools
            BY <1>3, <1>7, <2>2 DEF Aimed
        <3>3. Begun(act, left, b, list, after)  BY <1>6, <3>1, <3>2 DEF Begun
        <3> QED BY <1>8, <2>1, <2>2, <3>3 DEF Left
    <2>3. CASE d.key # 0
        <3>1. Aimed(Range(left), NoCard)  BY <1>3, <1>7, <2>3 DEF Aimed
        <3> QED BY <1>3, <1>6, <1>8, <2>1, <2>3, <3>1 DEF Left
    <2> QED BY <2>2, <2>3
<1> QED BY <1>5, <1>6, <1>8 DEF after, T, left, act

\* The issue of a new card is made.
LEMMA IssueOwes ==
    ASSUME NEW d \in Calls, NEW b \in Boards, NEW list, NEW issues \in [Keys -> Issues],
           Sending(d, b, list, issues), NEW w, w = Head(d.todo), w.op = "create",
           NEW k \in Keys, issues[k] = NoIssue
    PROVE  LET after == [issues EXCEPT ![k] = Sent(w.card)]
           IN /\ Owed(b, list, after, Goal(b, d.acts[1], d.key), {})
              /\ \A n : /\ n.pc = "rename" /\ n.key = k /\ n.acts = d.acts
                        /\ n.todo = d.todo /\ n.asked = d.asked /\ n.undo = d.undo
                        => Owing(n, b, list, after)
<1> DEFINE new == Sent(w.card)
           after == [issues EXCEPT ![k] = new]
           act == d.acts[1]
           T == Goal(b, act, d.key)
<1>1. /\ d.asked = <<>> /\ ~d.undo /\ Len(d.acts) = 1
      /\ Owed(b, list, issues, Key(0), Range(d.todo)) /\ ToMake(b.cards, act, d.todo)
    BY DEF Sending
<1>2. w.card = act.card  BY <1>1 DEF ToMake
<1>3. after[k] = new  OBVIOUS
<1> HIDE DEF new, act, T
<1>4. /\ Key(k) \in IdsOf(b.cards) => ListedIn(b, list, Key(k))
      /\ Owed(b, list, after, NoCard, {})
    BY <1>1, MadeOwes
<1> HIDE DEF after
<1>5. Owed(b, list, after, T, {})  BY <1>4, OwedNone
<1>6. ASSUME NEW n, n.pc = "rename", n.key = k, n.acts = d.acts, n.todo = d.todo,
             n.asked = d.asked, n.undo = d.undo
      PROVE  Owing(n, b, list, after)
    <2>1. n.acts[1] = act /\ new = Sent(act.card)  BY <1>2, <1>6 DEF act, new
    <2> QED BY <1>1, <1>3, <1>4, <1>6, <2>1 DEF Owing
<1> QED BY <1>5, <1>6 DEF after, new, T, act

LEMMA WriteShown ==
    ASSUME \A c, d \in Callers : c = d, IInv, ShownInv,
           edits = 0 /\ resolves = 0 /\ undos = 0, NEW c \in Callers, Write(c)
    PROVE  ShownInv'
<1> DEFINE d == call[c]
           w == Head(d.todo)
           left == Tail(d.todo)
           sent == d.sent + 1
           s == [d EXCEPT !.sent = sent]
           k == Target(c).n
           edited == [jira EXCEPT ![k] = Edited(@, w)]
           created == [jira EXCEPT ![NewKey] = Sent(w.card)]
           done == IF w.op = "create" THEN created ELSE edited
           failed == [d EXCEPT !.pc = "failed"]
           made == [s EXCEPT !.key = NewKey, !.pc = "rename"]
           m == [s EXCEPT !.todo = left]
           went == Progress(m)
           T == Goal(board, d.acts[1], d.key)
<1>1. /\ board \in Boards /\ jira \in [Keys -> Issues] /\ d \in Calls /\ Shape(d)
      /\ Owing(d, board, conflicts, jira) /\ d.pc = "write" /\ AliasOK(board)
    BY DEF IInv, TypeOK, ShownInv, Write
<1>2. UNCHANGED <<board, conflicts>> /\ (w.op = "create" => \E x \in Keys : ~Exists(x))
    BY DEF Write
<1>3. /\ \/ jira' = jira
         \/ Sendable(c) /\ jira' = done
      /\ \/ call' = [call EXCEPT ![c] = failed]
         \/ /\ Sendable(c) /\ jira' = done
            /\ call' = [call EXCEPT ![c] = IF w.op = "create" THEN made ELSE went]
    <2> HIDE DEF went
    <2>1. call[c].sent + 1 = sent /\ [call[c] EXCEPT !.sent = @ + 1] = s
        BY <1>1 DEF Calls
    <2> QED BY <2>1, SMTT(30) DEF Write, went
<1>4. Sendable(c) /\ w.op # "create" =>
        /\ w.op # "refuse" /\ Target(c) \in Known
        /\ Target(c) = IF w.id = NoCard /\ d.key # 0 THEN Key(d.key) ELSE w.id
    BY DEF Sendable, Target
<1> HIDE DEF d
<1>5. Sending(d, board, conflicts, jira) /\ Loose(d) /\ d.todo # <<>>
    BY <1>1, WriteSends DEF Shape
<1>6. /\ d.asked = <<>> /\ ~d.undo /\ Len(d.acts) = 1
      /\ d.acts[1].a.tool = "create_subtask" => d.key = 0
      /\ Owed(board, conflicts, jira, T, Range(d.todo))
    BY <1>5 DEF Sending
<1>7. /\ s \in Calls /\ s.acts = d.acts /\ s.made = d.made /\ s.undo = d.undo
      /\ s.asked = d.asked /\ s.key = d.key /\ s.todo = d.todo
    <2>1. sent \in Nat  BY <1>1 DEF Calls
    <2> HIDE DEF sent
    <2> QED BY <1>1, <2>1 DEF Calls
<1> HIDE DEF s
<1>8. /\ made.pc = "rename" /\ made.key = NewKey /\ made.acts = d.acts /\ made.todo = d.todo
      /\ made.asked = d.asked /\ made.undo = d.undo
    BY <1>7 DEF Calls
<1>9. left \in Seq(GoodRequests) /\ left \in Seq(Requests)
    <2>1. d.todo \in Seq(GoodRequests) /\ GoodRequests \subseteq Requests
        BY <1>5 DEF Loose, GoodRequests
    <2>2. left \in Seq(GoodRequests)  BY <1>5, <2>1, TodoRange
    <2> HIDE DEF left
    <2> QED BY <2>1, <2>2, SeqOfSubset
<1>10. /\ m \in Calls /\ m.acts = d.acts /\ m.made = d.made /\ m.todo = left
       /\ m.undo = d.undo /\ m.asked = d.asked /\ m.key = d.key
    <2> HIDE DEF left
    <2> QED BY <1>7, <1>9 DEF Calls
<1> HIDE DEF m, made
<1>11. Loose(m)  BY <1>5, <1>9, <1>10 DEF Loose
<1>12. ASSUME Sendable(c)
       PROVE  /\ \E W : Owed(board, conflicts, done, T, W)
              /\ Owing(IF w.op = "create" THEN made ELSE went, board, conflicts, done)
    <2>1. CASE w.op = "create"
        <3>1. NewKey \in Keys /\ jira[NewKey] = NoIssue
            BY <1>2, <2>1, NewKeyFree DEF Exists
        <3> DEFINE new == NewKey
        <3> HIDE DEF new, w
        <3>2. /\ Owed(board, conflicts, [jira EXCEPT ![new] = Sent(w.card)], T, {})
              /\ \A n : /\ n.pc = "rename" /\ n.key = new /\ n.acts = d.acts
                        /\ n.todo = d.todo /\ n.asked = d.asked /\ n.undo = d.undo
                        => Owing(n, board, conflicts, [jira EXCEPT ![new] = Sent(w.card)])
            BY <1>1, <1>5, <2>1, <3>1, IssueOwes DEF new, w
        <3>3. created = [jira EXCEPT ![new] = Sent(w.card)] /\ done = created
            BY <2>1 DEF new
        <3> HIDE DEF created, done, T
        <3> QED BY <1>8, <2>1, <3>2, <3>3 DEF new
    <2>2. CASE w.op # "create"
        <3>1. /\ w.op \notin {"create", "refuse"} /\ Target(c) \in Known
              /\ Target(c) = IF w.id = NoCard /\ d.key # 0 THEN Key(d.key) ELSE w.id
            BY <1>4, <1>12, <2>2
        <3>2. k \in Keys /\ Target(c) = Key(k)
            <4>1. PICK j \in Keys : Target(c) = Key(j)  BY <3>1 DEF Known
            <4>2. Key(j).n = j  BY DEF Key, Ref
            <4> QED BY <4>1, <4>2
        <3> HIDE DEF k, w
        <3>3. /\ Owed(board, conflicts, edited, T, Range(left))
              /\ \A x : /\ x.acts = d.acts /\ x.key = d.key /\ x.todo = left
                        => Left(x, board, conflicts, edited)
            BY <1>1, <1>5, <3>1, <3>2, SentOwes DEF w
        <3>4. done = edited  BY <2>2
        <3> HIDE DEF edited, done, T, left
        <3>5. Owing(went, board, conflicts, edited)
            BY <1>6, <1>10, <1>11, <3>3, ProgressOwes
        <3> HIDE DEF went
        <3> QED BY <2>2, <3>3, <3>4, <3>5
    <2> QED BY <2>1, <2>2
<1> HIDE DEF done, w, went
<1>13. CASE call' = [call EXCEPT ![c] = failed]
    <2>1. PICK W : Owed(board, conflicts, jira', T, W)  BY <1>3, <1>6, <1>12
    <2> DEFINE issues == jira'
    <2> HIDE DEF issues
    <2>2. Owing(failed, board, conflicts, issues)
        BY <1>1, <1>6, <2>1, FailedOwes DEF issues
    <2> HIDE DEF failed
    <2>3. AliasOK(board') /\ Owing(failed, board', conflicts', jira')
        BY <1>1, <1>2, <2>2 DEF issues
    <2> QED BY <1>13, <2>3, OneShown
<1>14. CASE /\ Sendable(c) /\ jira' = done
            /\ call' = [call EXCEPT ![c] = IF w.op = "create" THEN made ELSE went]
    <2> DEFINE n == IF w.op = "create" THEN made ELSE went
    <2>1. Owing(n, board, conflicts, done)  BY <1>12, <1>14
    <2>2. call' = [call EXCEPT ![c] = n]  BY <1>14
    <2> HIDE DEF n
    <2>3. AliasOK(board') /\ Owing(n, board', conflicts', jira')
        BY <1>1, <1>2, <1>14, <2>1
    <2> QED BY <2>2, <2>3, OneShown
<1> QED BY <1>3, <1>13, <1>14

LEMMA RenameIs ==
    ASSUME NEW b \in Boards, AliasOK(b), NEW old \in IdsOf(b.cards), old.kind = "local",
           NEW k \in Keys
    PROVE  LET n == RenameCardID(b, old, Key(k))
           IN \/ n = b /\ Key(k) \in IdsOf(b.cards)
              \/ \E i, d : Renamed(b, n, i, d, old, k)
<1> DEFINE i == Find(b, old)
           new == Key(k)
           d == [b.cards[i] EXCEPT !.id = new]
           m == [b EXCEPT !.cards[i] = d]
           alias == [b.alias EXCEPT ![old.n] = k]
           n == [m EXCEPT !.alias = alias]
<1>1. ResolveAlias(b, old) = old /\ old \in Ids  BY OnBoard
<1>2. new \in Ids /\ new.kind = "key" /\ new.n = k /\ k \in 1 .. MaxKey /\ old.n \in 1 .. MaxLocal
    BY <1>1 DEF Key, Ref, Ids, Keys
<1>3. ResolveAlias(b, new) = new  BY <1>2 DEF ResolveAlias
<1>4. DOMAIN b.cards = 1 .. Len(b.cards)  BY BoardParts
<1>5. i # 0  BY <1>1, <1>4, FindFound DEF IdsOf
<1>6. CASE Find(b, new) # 0
    <2>1. RenameCardID(b, old, new) = b  BY <1>6 DEF RenameCardID
    <2>2. new \in IdsOf(b.cards)  BY <1>3, <1>4, <1>6, FindFound DEF IdsOf
    <2> QED BY <2>1, <2>2
<1>7. CASE Find(b, new) = 0
    <2>1. i \in 1 .. Len(b.cards) /\ b.cards[i] \in Cards /\ b.cards[i].id = old
        BY <1>1, <1>5, FindFound
    <2>2. \A j \in 1 .. Len(b.cards) : b.cards[j].id # new  BY <1>3, <1>7, FindFound
    <2>3. RenameCardID(b, old, new) = n
        <3>1. RenameCardID(b, old, new) = [b EXCEPT !.cards[i].id = new, !.alias[old.n] = new.n]
            BY <1>5, <1>7 DEF RenameCardID
        <3>2. b = [cards |-> b.cards, alias |-> b.alias, next |-> b.next]
            BY BoardParts
        <3> HIDE DEF i, new
        <3> QED BY <1>2, <2>1, <3>1, <3>2
    <2> HIDE DEF new
    <2>4. /\ d \in Cards /\ d.id = new /\ d.title = b.cards[i].title
          /\ d.status = b.cards[i].status /\ d.f = b.cards[i].f
        BY <1>2, <2>1 DEF Cards
    <2> HIDE DEF d, i
    <2>5. /\ m \in Boards /\ m.alias = b.alias /\ m.next = b.next /\ Len(m.cards) = Len(b.cards)
          /\ \A j \in 1 .. Len(b.cards) : m.cards[j] = IF j = i THEN d ELSE b.cards[j]
        BY <2>1, <2>4, CardReplaced
    <2>6. DOMAIN m.cards = 1 .. Len(b.cards)  BY <2>5, BoardParts
    <2> HIDE DEF m
    <2>7. \A x \in 1 .. MaxLocal : alias[x] = IF x = old.n THEN k ELSE b.alias[x]
        BY BoardParts
    <2> HIDE DEF alias
    <2>8. n.cards = m.cards /\ n.next = m.next /\ n.alias = alias  BY <2>5 DEF Boards
    <2> HIDE DEF n
    <2>9. Renamed(b, n, i, d, old, k)
        BY <2>1, <2>2, <2>4, <2>5, <2>6, <2>7, <2>8 DEF Renamed, new
    <2> QED BY <2>3, <2>9 DEF new
<1> QED BY <1>6, <1>7

\* A card that gets the key of its issue is owed what is left of its requests.
LEMMA RenameOwes ==
    ASSUME NEW b \in Boards, AliasOK(b), Ordered(b), NEW card \in Range(b.cards),
           card.id.kind = "local", NEW k \in Keys, NEW list, NEW issues, NEW W,
           \A i \in DOMAIN list : list[i].id \in Refs,
           Key(k) \in IdsOf(b.cards) => ListedIn(b, list, Key(k)),
           Owed(b, list, issues, NoCard, {}), Coming(W, issues[k], card, Shown)
    PROVE  LET n == RenameCardID(b, card.id, Key(k))
           IN AliasOK(n) /\ Owed(n, list, issues, Key(k), W)
<1> DEFINE n == RenameCardID(b, card.id, Key(k))
           old == card.id
<1>1. /\ DOMAIN b.cards = 1 .. Len(b.cards) /\ Range(b.cards) \subseteq Cards
      /\ old \in IdsOf(b.cards)
    BY BoardParts DEF Range, IdsOf
<1>2. \A d \in Cards : d.id # NoCard  BY DEF Cards, Ids, NoCard, Ref
<1>3. \A d \in Range(b.cards) : IsKey(d.id) =>
        ListedIn(b, list, d.id) \/ Coming({}, issues[d.id.n], d, Shown)
    BY <1>1, <1>2 DEF Owed
<1>4. \/ n = b /\ Key(k) \in IdsOf(b.cards)
      \/ \E i, d : Renamed(b, n, i, d, old, k)
    BY <1>1, RenameIs
<1>5. CASE n = b /\ Key(k) \in IdsOf(b.cards)
    <2>1. Owed(b, list, issues, Key(k), W)  BY <1>3, <1>5 DEF Owed
    <2> QED BY <1>5, <2>1
<1>6. ASSUME NEW i, NEW d, Renamed(b, n, i, d, old, k)
      PROVE  AliasOK(n) /\ Owed(n, list, issues, Key(k), W)
    <2> HIDE DEF n
    <2>1. /\ i \in 1 .. Len(b.cards) /\ b.cards[i].id = old
          /\ d \in Cards /\ d.id = Key(k) /\ d.title = b.cards[i].title
          /\ d.status = b.cards[i].status /\ d.f = b.cards[i].f
        BY <1>6 DEF Renamed
    <2>2. /\ DOMAIN n.cards = 1 .. Len(b.cards) /\ n.next = b.next
          /\ \A j \in 1 .. Len(b.cards) : n.cards[j] = IF j = i THEN d ELSE b.cards[j]
          /\ \A m \in 1 .. MaxLocal : n.alias[m] = IF m = old.n THEN k ELSE b.alias[m]
        BY <1>6 DEF Renamed
    <2>3. \A j \in 1 .. Len(b.cards) : b.cards[j].id # Key(k)  BY <1>6 DEF Renamed
    <2>4. \A j \in 1 .. Len(b.cards) : b.cards[j].id = old => j = i
        BY <1>1, <2>1 DEF Ordered, Distinct
    <2>5. b.cards[i] = card  BY <1>1, <2>4 DEF Range
    <2>6. old \in Ids /\ old = LocalId(old.n) /\ old.n \in 1 .. MaxLocal /\ old.n < b.next
        <3>1. old \in Ids  BY <1>1 DEF Cards
        <3>2. old = LocalId(old.n) /\ old.n \in 1 .. MaxLocal
            BY <3>1 DEF Ids, LocalId, Ref
        <3>3. old.n < b.next  BY <1>1, <2>1 DEF Ordered, HandedOut
        <3> QED BY <3>1, <3>2, <3>3
    <2>7. b.alias[old.n] = 0  BY <1>1, <2>1, <2>6 DEF AliasOK
    <2>8. AliasOK(n)
        <3> SUFFICES ASSUME NEW m \in 1 .. MaxLocal, n.alias[m] # 0
                     PROVE  m < n.next /\ \A j \in DOMAIN n.cards : n.cards[j].id # LocalId(m)
            BY DEF AliasOK
        <3>1. Key(k) # LocalId(m)  BY DEF Key, LocalId, Ref
        <3>2. CASE m = old.n  BY <2>1, <2>2, <2>4, <2>6, <3>1, <3>2
        <3>3. CASE m # old.n
            <4>1. m < b.next /\ \A j \in DOMAIN b.cards : b.cards[j].id # LocalId(m)
                BY <2>2, <3>3 DEF AliasOK
            <4> QED BY <1>1, <2>1, <2>2, <3>1, <4>1
        <3> QED BY <3>2, <3>3
    <2>9. ASSUME NEW id, IsKey(id), ListedIn(b, list, id)
          PROVE  ListedIn(n, list, id)
        <3>1. PICK j \in DOMAIN list : ResolveAlias(b, list[j].id) = id
            BY <2>9 DEF ListedIn
        <3> DEFINE x == list[j].id
        <3>2. x \in Refs  OBVIOUS
        <3> HIDE DEF x
        <3>3. CASE x.kind = "local"
            <4>1. x.n \in 1 .. MaxLocal  BY <3>2, <3>3 DEF Refs, Ids
            <4>2. b.alias[x.n] # 0 /\ id = Key(b.alias[x.n])
                BY <2>9, <3>1, <3>3 DEF ResolveAlias, IsKey, x
            <4>3. x.n # old.n  BY <2>7, <4>2
            <4>4. n.alias[x.n] = b.alias[x.n]  BY <2>2, <4>1, <4>3
            <4>5. ResolveAlias(n, x) = id  BY <3>3, <4>2, <4>4 DEF ResolveAlias
            <4> QED BY <4>5 DEF ListedIn, x
        <3>4. CASE x.kind # "local"
            <4>1. ResolveAlias(n, x) = id  BY <3>1, <3>4 DEF ResolveAlias, x
            <4> QED BY <4>1 DEF ListedIn, x
        <3> QED BY <3>3, <3>4
    <2>10. Coming(W, issues[k], d, Shown)
        <3>1. \A w : Fits(w, d, Shown) <=> Fits(w, card, Shown)
            BY <2>1, <2>5 DEF Fits
        <3> QED BY <2>1, <2>5, <3>1 DEF Coming
    <2>11. ASSUME NEW e \in Range(n.cards), IsKey(e.id)
           PROVE  \/ ListedIn(n, list, e.id)
                  \/ Coming(IF e.id = Key(k) THEN W ELSE {}, issues[e.id.n], e, Shown)
        <3>1. PICK j \in 1 .. Len(b.cards) : e = n.cards[j]  BY <2>2 DEF Range
        <3>2. CASE j = i
            <4>1. e = d /\ e.id.n = k  BY <2>1, <2>2, <3>1, <3>2 DEF Key, Ref
            <4> QED BY <2>1, <2>10, <4>1
        <3>3. CASE j # i
            <4>1. e = b.cards[j] /\ e \in Range(b.cards) /\ e.id # Key(k)
                BY <1>1, <2>2, <2>3, <3>1, <3>3 DEF Range
            <4> QED BY <1>3, <2>9, <2>11, <4>1
        <3> QED BY <3>2, <3>3
    <2>12. Owed(n, list, issues, Key(k), W)  BY <2>11 DEF Owed
    <2> QED BY <2>8, <2>12
<1> QED BY <1>4, <1>5, <1>6

LEMMA RenameShown ==
    ASSUME \A c, d \in Callers : c = d, IInv, ShownInv,
           edits = 0 /\ resolves = 0 /\ undos = 0, NEW c \in Callers, Rename(c)
    PROVE  ShownInv'
<1> DEFINE d == call[c]
           act == Head(d.acts)
           card == act.card
           left == Tail(d.todo)
           m == [d EXCEPT !.todo = left]
           n == Progress(m)
           named == RenameCardID(board, card.id, Key(d.key))
<1>1. /\ board \in Boards /\ Ordered(board) /\ conflicts \in Seq(Conflicts)
      /\ d \in Calls /\ Shape(d) /\ d.pc = "rename"
      /\ Owing(d, board, conflicts, jira) /\ AliasOK(board)
    BY DEF IInv, TypeOK, ShownInv, Rename
<1>2. /\ call' = [call EXCEPT ![c] = n]
      /\ board' = IF d.undo THEN board ELSE named
      /\ UNCHANGED <<conflicts, jira>>
    BY DEF Rename, IInv, TypeOK, Calls
<1> HIDE DEF d
<1>3. /\ d.acts # <<>> /\ d.acts \in Seq(GoodActs(d.undo))
      /\ d.made \in Seq(GoodActs(d.undo)) /\ d.todo \in Seq(GoodRequests) /\ d.todo # <<>>
    BY <1>1 DEF Shape, Loose
<1>4. act \in GoodActs(d.undo) /\ act = d.acts[1]
    <2> DEFINE S == GoodActs(d.undo)
    <2>1. d.acts \in Seq(S) /\ d.acts # <<>>  BY <1>3
    <2> HIDE DEF S
    <2>2. act \in S /\ act = d.acts[1]  BY <2>1, HeadTailProperties
    <2> QED BY <2>2 DEF S
<1> HIDE DEF act
<1>5. /\ d.asked = <<>> /\ ~d.undo /\ Len(d.acts) = 1
      /\ ToMake(board.cards, act, d.todo) /\ d.key \in Keys /\ jira[d.key] = Sent(card)
      /\ Key(d.key) \in IdsOf(board.cards) => ListedIn(board, conflicts, Key(d.key))
      /\ Owed(board, conflicts, jira, NoCard, {})
    BY <1>1, <1>4 DEF Owing
<1>6. /\ act.a.tool \in CreateTools /\ card \in Range(board.cards)
      /\ Aimed(Range(left), NoCard) /\ Coming(Range(left), jira[d.key], card, Shown)
      /\ act.a.tool = "create_subtask" => left = <<>>
    BY <1>5 DEF ToMake
<1>7. card.id.kind = "local"  BY <1>4, <1>5, <1>6 DEF GoodActs, ActOK, Cards
<1>8. \A i \in DOMAIN conflicts : conflicts[i].id \in Refs
    <2>1. conflicts \in Seq(Conflicts)  BY <1>1
    <2>2. \A i \in DOMAIN conflicts : conflicts[i] \in Conflicts
        BY <2>1, ElementOfSeq, LenProperties
    <2> QED BY <2>2 DEF Conflicts
<1>9. left \in Seq(GoodRequests) /\ left \in Seq(Requests)
    <2>1. GoodRequests \subseteq Requests  BY DEF GoodRequests
    <2>2. left \in Seq(GoodRequests)  BY <1>3, TodoRange
    <2> HIDE DEF left
    <2> QED BY <2>1, <2>2, SeqOfSubset
<1> HIDE DEF left, card
<1>10. AliasOK(named) /\ Owed(named, conflicts, jira, Key(d.key), Range(left))
    <2> DEFINE W == Range(left)
               k == d.key
    <2>1. k \in Keys /\ Coming(W, jira[k], card, Shown)
          /\ (Key(k) \in IdsOf(board.cards) => ListedIn(board, conflicts, Key(k)))
        BY <1>5, <1>6
    <2> HIDE DEF W, k, named
    <2>2. named = RenameCardID(board, card.id, Key(k))  BY DEF named, k
    <2>3. AliasOK(named) /\ Owed(named, conflicts, jira, Key(k), W)
        BY <1>1, <1>5, <1>6, <1>7, <1>8, <2>1, <2>2, RenameOwes
    <2> QED BY <2>3 DEF W, k
<1> HIDE DEF named
<1>11. /\ m \in Calls /\ m.acts = d.acts /\ m.made = d.made /\ m.todo = left
       /\ m.undo = d.undo /\ m.asked = d.asked /\ m.key = d.key
    BY <1>1, <1>9 DEF Calls
<1> HIDE DEF m
<1>12. Loose(m)  BY <1>3, <1>9, <1>11 DEF Loose
<1>13. Left(m, named, conflicts, jira)
    <2>1. m.key # 0 /\ m.acts[1] = act  BY <1>4, <1>5, <1>11 DEF Keys
    <2>2. left # <<>> => act.a.tool = "create_ticket"  BY <1>6 DEF CreateTools
    <2> QED BY <1>6, <1>10, <1>11, <2>1, <2>2 DEF Left
<1>14. Owing(n, named, conflicts, jira)  BY <1>5, <1>11, <1>12, <1>13, ProgressOwes
<1> HIDE DEF n
<1>15. AliasOK(board') /\ Owing(n, board', conflicts', jira')
    BY <1>2, <1>5, <1>10, <1>14
<1> QED BY <1>2, <1>15, OneShown

\* A failure is listed under the card that its requests were for.
LEMMA FailureListed ==
    ASSUME IInv, NEW c \in Callers, call[c].pc = "failed", ~call[c].undo,
           NEW act, act = Head(call[c].acts), act.a.tool = "create_subtask" => call[c].key = 0,
           Goal(board, act, call[c].key) \in IdsOf(board.cards)
    PROVE  ListedIn(board, FailureOf(c), Goal(board, act, call[c].key))
<1> DEFINE d == call[c]
           T == Goal(board, act, d.key)
           created == act.a.tool = "create_ticket" /\ d.key # 0
           named == CASE act.a.tool = "create_ticket" -> NoCard
                      [] act.a.tool = "create_subtask" -> act.a.other
                      [] OTHER -> act.a.card
           id == IF named # NoCard THEN named
                 ELSE IF created THEN Key(d.key) ELSE act.id
           i == Find(board, id)
           failure == Conflict(id, board.cards[i], board.cards[i])
<1>1. board \in Boards  BY DEF IInv, TypeOK
<1>2. FailureOf(c) = IF d.undo \/ i = 0 THEN <<>> ELSE <<failure>>  BY DEF FailureOf
<1>3. failure.id = id  BY DEF Conflict
<1>4. ResolveAlias(board, id) = T
    <2>1. CASE act.a.tool \in CreateTools
        <3>1. T = Key(d.key)  BY <2>1 DEF Goal
        <3>2. d.key # 0
            <4>1. \A e \in Cards : e.id # Key(0)  BY DEF Cards, Ids, Key, Ref
            <4>2. \E e \in Cards : e.id = T  BY <1>1, BoardParts DEF IdsOf
            <4> HIDE DEF T, d
            <4> QED BY <3>1, <4>1, <4>2
        <3>3. act.a.tool = "create_ticket"  BY <2>1, <3>2 DEF CreateTools
        <3>4. id = T  BY <3>1, <3>2, <3>3
        <3>5. Key(d.key).kind # "local"  BY DEF Key, Ref
        <3> HIDE DEF id, T, d
        <3> QED BY <3>1, <3>4, <3>5 DEF ResolveAlias
    <2>2. CASE act.a.tool \notin CreateTools
        <3>1. T = ResolveAlias(board, IF act.a.card # NoCard THEN act.a.card ELSE act.id)
            BY <2>2 DEF Goal
        <3>2. act.a.tool # "create_ticket" /\ act.a.tool # "create_subtask"
            BY <2>2 DEF CreateTools
        <3>3. named = act.a.card /\ ~created  BY <3>2
        <3> HIDE DEF named, created
        <3>4. id = IF act.a.card # NoCard THEN act.a.card ELSE act.id  BY <3>3
        <3> QED BY <3>1, <3>4
    <2> QED BY <2>1, <2>2
<1> HIDE DEF T, id
<1>5. i # 0
    <2>1. T \in IdsOf(board.cards)  BY DEF T
    <2>2. \E j \in 1 .. Len(board.cards) : board.cards[j].id = T
        BY <1>1, <2>1, BoardParts DEF IdsOf
    <2> QED BY <1>1, <1>4, <2>2, FindFound
<1>6. FailureOf(c) = <<failure>>  BY <1>2, <1>5
<1> HIDE DEF failure
<1>7. 1 \in DOMAIN FailureOf(c) /\ FailureOf(c)[1] = failure  BY <1>6
<1> QED BY <1>3, <1>4, <1>7 DEF ListedIn, T

LEMMA FailureShown ==
    ASSUME \A c, d \in Callers : c = d, IInv, ShownInv,
           edits = 0 /\ resolves = 0 /\ undos = 0, NEW c \in Callers,
           RecordJiraSyncFailure(c)
    PROVE  ShownInv'
<1> DEFINE d == call[c]
           act == Head(d.acts)
           bad == d.bad + 1
           m == [d EXCEPT !.failed = TRUE, !.bad = bad]
           n == Finish(m)
           T == Goal(board, act, d.key)
           more == FailureOf(c)
<1>1. /\ board \in Boards /\ conflicts \in Seq(Conflicts)
      /\ d \in Calls /\ Shape(d) /\ d.pc = "failed"
      /\ Owing(d, board, conflicts, jira) /\ AliasOK(board)
    BY DEF IInv, TypeOK, ShownInv, RecordJiraSyncFailure
<1>2. /\ call' = [call EXCEPT ![c] = n] /\ conflicts' = conflicts \o more
      /\ UNCHANGED <<board, jira>>
    BY DEF RecordJiraSyncFailure, IInv, TypeOK, Calls
<1>3. more \in Seq(Conflicts)  BY <1>1, FailureTyped
<1>4. ~d.undo /\ (act.a.tool = "create_subtask" => d.key = 0) /\ T \in IdsOf(board.cards)
         => ListedIn(board, more, T)
    BY <1>1, FailureListed
<1> HIDE DEF d, more
<1>5. /\ d.acts # <<>> /\ d.acts \in Seq(GoodActs(d.undo)) /\ d.bad \in Nat
      /\ d.made \in Seq(GoodActs(d.undo)) /\ d.todo \in Seq(GoodRequests)
    BY <1>1 DEF Shape, Loose, Calls
<1>6. act = d.acts[1]
    <2> DEFINE S == GoodActs(d.undo)
    <2>1. d.acts \in Seq(S) /\ d.acts # <<>>  BY <1>5
    <2> HIDE DEF S
    <2> QED BY <2>1, HeadTailProperties
<1> HIDE DEF act
<1>7. /\ ~d.undo /\ Len(d.acts) = 1 /\ d.asked = <<>>
      /\ Owed(board, conflicts, jira, T, Range(Refuse(T)))
      /\ act.a.tool = "create_subtask" => d.key = 0
    BY <1>1, <1>6 DEF Owing
<1> HIDE DEF T
<1>8. \A id : ListedIn(board, conflicts, id) \/ ListedIn(board, more, id)
                => ListedIn(board, conflicts', id)
    <2>1. /\ Len(conflicts) \in Nat /\ Len(more) \in Nat
          /\ DOMAIN conflicts = 1 .. Len(conflicts) /\ DOMAIN more = 1 .. Len(more)
          /\ conflicts' \in Seq(Conflicts) /\ Len(conflicts') = Len(conflicts) + Len(more)
          /\ \A i \in 1 .. Len(conflicts) + Len(more) :
                conflicts'[i] = IF i <= Len(conflicts) THEN conflicts[i]
                                ELSE more[i - Len(conflicts)]
        BY <1>1, <1>2, <1>3, ConcatProperties, LenProperties
    <2>2. DOMAIN conflicts' = 1 .. Len(conflicts) + Len(more)  BY <2>1, LenProperties
    <2>3. \A i \in DOMAIN conflicts : i \in DOMAIN conflicts' /\ conflicts'[i] = conflicts[i]
        BY <2>1, <2>2
    <2>4. ASSUME NEW i \in DOMAIN more
          PROVE  \E j \in DOMAIN conflicts' : conflicts'[j] = more[i]
        <3>1. /\ Len(conflicts) + i \in 1 .. Len(conflicts) + Len(more)
              /\ ~(Len(conflicts) + i <= Len(conflicts))
              /\ (Len(conflicts) + i) - Len(conflicts) = i
            BY <2>1
        <3> QED BY <2>1, <2>2, <3>1
    <2> QED BY <2>3, <2>4 DEF ListedIn
<1>9. Owed(board, conflicts', jira, NoCard, {})
    <2> SUFFICES ASSUME NEW card \in Range(board.cards), IsKey(card.id)
                 PROVE  ListedIn(board, conflicts', card.id) \/ Coming({}, jira[card.id.n], card, Shown)
        BY DEF Owed
    <2>1. CASE card.id = T
        <3>1. T \in IdsOf(board.cards)  BY <2>1 DEF IdsOf, Range
        <3> QED BY <1>4, <1>7, <1>8, <2>1, <3>1
    <2>2. CASE card.id # T  BY <1>7, <1>8, <2>2 DEF Owed
    <2> QED BY <2>1, <2>2
<1>10. bad \in Nat  BY <1>5
<1> HIDE DEF bad
<1>11. /\ m \in Calls /\ m.acts = d.acts /\ m.made = d.made /\ m.todo = d.todo
       /\ m.undo = d.undo
    BY <1>1, <1>10 DEF Calls
<1> HIDE DEF m
<1>12. Loose(m)  BY <1>5, <1>11 DEF Loose
<1> DEFINE list == conflicts'
<1> HIDE DEF list
<1>13. Owed(board, list, jira, NoCard, {}) /\ Len(m.acts) = 1
    BY <1>7, <1>9, <1>11 DEF list
<1>14. Owing(n, board, list, jira)  BY <1>12, <1>13, FinishOwes
<1> HIDE DEF n
<1>15. AliasOK(board') /\ Owing(n, board', conflicts', jira')
    BY <1>1, <1>2, <1>14 DEF list
<1> QED BY <1>2, <1>15, OneShown

LEMMA InitShown == Init => ShownInv
<1> SUFFICES ASSUME Init
             PROVE  ShownInv
    OBVIOUS
<1>1. /\ board = Board(SearchKanbanCards) /\ IInv /\ jira \in [Keys -> Issues]
      /\ \A c \in Callers : call[c] = Idle
    BY InitInv DEF Init, IInv, TypeOK
<1>2. /\ board.cards = SearchKanbanCards /\ \A n \in 1 .. MaxLocal : board.alias[n] = 0
    BY <1>1 DEF Board
<1>3. AliasOK(board)  BY <1>2 DEF AliasOK
<1>4. /\ DOMAIN SearchKanbanCards = 1 .. Len(SearchKanbanCards)
      /\ SearchKanbanCards \in Seq(Cards)
      /\ \A i \in DOMAIN SearchKanbanCards : \E k \in Keys :
           Exists(k) /\ SearchKanbanCards[i] = CardOf(k, jira[k])
    BY <1>1, SearchTyped, LenProperties DEF IInv, TypeOK
<1>5. ASSUME NEW card \in Range(board.cards), IsKey(card.id)
      PROVE  Coming({}, jira[card.id.n], card, Shown)
    <2>1. PICK k \in Keys : card = CardOf(k, jira[k])  BY <1>2, <1>4, <1>5 DEF Range
    <2>2. card.id = Key(k) /\ card.id.n = k
        <3>1. card.id = Key(k)  BY <2>1 DEF CardOf, Card
        <3> QED BY <3>1 DEF Key, Ref
    <2>3. card \in Cards  BY <1>2, <1>4 DEF Range
    <2> DEFINE s == jira[k]
    <2>4. s \in Issues  BY <1>1
    <2> HIDE DEF s
    <2>5. /\ card.status = ShownStatus(s) /\ card.title = s.title
          /\ \A x \in Single : card.f[x] = s.f[x]
        BY <2>1, <2>4, ShownIs DEF s
    <2>6. Like(s, card, Shown)  BY <2>3, <2>4, <2>5, LikeShows DEF Shown, Single
    <2> QED BY <2>2, <2>6 DEF Like, s
<1>6. Owed(board, conflicts, jira, NoCard, {})  BY <1>5 DEF Owed
<1>7. Idle.pc = "idle" /\ Idle.asked = <<>> /\ Idle.undo = FALSE  BY DEF Idle
<1> QED BY <1>1, <1>3, <1>6, <1>7 DEF ShownInv, Owing

LEMMA NextShown ==
    ASSUME \A c, d \in Callers : c = d, Refreshers = {}, PlainAsks
    PROVE  IInv /\ ShownInv /\ [Next]_vars => ShownInv'
<1> SUFFICES ASSUME IInv, ShownInv, [Next]_vars, edits' = 0, resolves' = 0, undos' = 0
             PROVE  ShownInv'
    BY DEF ShownInv
<1>1. edits \in Nat /\ resolves \in Nat /\ undos \in Nat  BY DEF IInv, TypeOK
<1>a. edits' # edits + 1 /\ resolves' # resolves + 1  BY <1>1
<1>2. CASE UNCHANGED vars  BY <1>2 DEF vars, ShownInv
<1>3. ASSUME NEW c \in Callers, Begin(c)
      PROVE  ShownInv'
    BY <1>3, BeginShown DEF Begin
<1>4. ASSUME NEW c \in Callers, UndoLastMutation(c)
      PROVE  ShownInv'
    BY <1>1, <1>4 DEF UndoLastMutation
<1>5. ASSUME NEW c \in Callers, ApplyNext(c)
      PROVE  ShownInv'
    BY <1>5 DEF ApplyNext, counters, ShownInv, Owing
<1>6. ASSUME NEW c \in Callers, RecordMutation(c)
      PROVE  ShownInv'
    BY <1>6, RecordShown, Zenon DEF RecordMutation, counters
<1>7. ASSUME NEW c \in Callers, StartSync(c)
      PROVE  ShownInv'
    BY <1>7, StartSyncShown, ZenonT(30) DEF StartSync, counters
<1>8. ASSUME NEW c \in Callers, Write(c)
      PROVE  ShownInv'
    BY <1>8, WriteShown, Zenon DEF Write
<1>9. ASSUME NEW c \in Callers, Rename(c)
      PROVE  ShownInv'
    BY <1>9, RenameShown DEF Rename, counters
<1>10. ASSUME NEW c \in Callers, RecordJiraSyncFailure(c)
       PROVE  ShownInv'
    BY <1>10, FailureShown DEF RecordJiraSyncFailure, counters
<1>11. ASSUME NEW i \in DOMAIN conflicts, NEW resolution \in {"keep_local", "use_jira"},
              ResolveJiraConflict(i, resolution)
       PROVE  ShownInv'
    BY <1>a, <1>11, Zenon DEF ResolveJiraConflict
<1>12. ASSUME NEW k \in Keys, NEW status \in {"In Progress"}, EditInJira(k, status)
       PROVE  ShownInv'
    BY <1>a, <1>12, Zenon DEF EditInJira
<1>13. CASE Next
    <2>1. ASSUME NEW c \in Callers, Begin(c) \/ UndoLastMutation(c) \/ Sync(c)
          PROVE  ShownInv'
        BY <1>3, <1>4, <1>5, <1>6, <1>7, <1>8, <1>9, <1>10, <2>1, Zenon DEF Sync
    <2> QED BY <1>11, <1>12, <1>13, <2>1, Zenon DEF Next
<1> QED BY <1>2, <1>13

\* What is owed to nobody is shown or listed.
LEMMA OwedShown ==
    ASSUME IInv, ShownInv, edits = 0, resolves = 0, Callers # {}
    PROVE  ShownOrListed
<1> SUFFICES ASSUME Quiet, undos = 0, NEW i \in DOMAIN board.cards, IsKey(board.cards[i].id)
             PROVE  \/ Agrees(board.cards[i], jira[board.cards[i].id.n])
                    \/ Listed(board.cards[i].id)
    BY DEF ShownOrListed
<1> DEFINE d == board.cards[i]
           k == d.id.n
           issue == jira[k]
<1>1. board.cards \in Seq(Cards) /\ jira \in [Keys -> Issues]
    BY BoardParts DEF IInv, TypeOK
<1>2. d \in Cards /\ d \in Range(board.cards)
    BY <1>1, ElementOfSeq, LenProperties DEF Range
<1>3. k \in Keys  BY <1>2 DEF Cards, Ids, IsKey, Keys
<1>4. issue \in Issues  BY <1>1, <1>3
<1>5. Owed(board, conflicts, jira, NoCard, {})  BY DEF ShownInv, Owing, Quiet
<1>6. ListedIn(board, conflicts, d.id) \/ Like(issue, d, Shown)
    BY <1>2, <1>5 DEF Owed, Like
<1>7. CASE ListedIn(board, conflicts, d.id)  BY <1>7 DEF ListedIn, Listed
<1> HIDE DEF d, k, issue
<1>8. CASE Like(issue, d, Shown)
    <2>1. ShownStatus(issue) = d.status /\ issue.title = d.title /\ \A x \in Shown : issue.f[x] = d.f[x]
        BY <1>2, <1>4, <1>8, LikeShows
    <2>2. /\ CardOf(k, issue).status = ShownStatus(issue) /\ CardOf(k, issue).title = issue.title
          /\ \A x \in Single : CardOf(k, issue).f[x] = issue.f[x]
        BY <1>4, ShownIs
    <2>3. Agrees(d, issue)  BY <2>1, <2>2 DEF Agrees, k, Shown, Single
    <2> QED BY <2>3 DEF d, k, issue
<1> QED BY <1>6, <1>7, <1>8 DEF d

\* One caller, no refresher, calls of one action: whatever tools it calls in
\* whatever order, and whichever of their requests fail, are refused or lose
\* their answer, a card that Jira shows otherwise when no call is in progress
\* is listed as a conflict, while nobody edits in Jira and no conflict is
\* resolved (jira.go and jira_ext.go, ApplyToolCall and RecordJiraSyncFailure;
\* board.go, applyToolCall and renameCardID).
THEOREM CardsShownOrListed ==
    ASSUME NEW a, Callers = {a}, Refreshers = {}, PlainAsks
    PROVE  Spec => [](edits = 0 /\ resolves = 0 => ShownOrListed)
<1>1. (\A c, d \in Callers : c = d) /\ Callers # {}  OBVIOUS
<1>2. IInv /\ ShownInv => (edits = 0 /\ resolves = 0 => ShownOrListed)
    BY <1>1, OwedShown
<1>3. Init => IInv /\ ShownInv  BY InitInv, InitShown
<1>4. IInv /\ ShownInv /\ [Next]_vars => IInv' /\ ShownInv'
    BY <1>1, NextInv, NextShown
<1> QED BY <1>2, <1>3, <1>4, PTL DEF Spec
=============================================================================
