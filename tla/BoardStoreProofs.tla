--------------------------- MODULE BoardStoreProofs ---------------------------
(***************************************************************************)
(* Proofs about BoardStore, for any callers, cards and bounds.             *)
(***************************************************************************)
EXTENDS BoardStore, SequenceTheorems, FiniteSetTheorems, WellFoundedInduction, TLAPS

USE WritesAssumption, HistoryAssumption, FaultsAssumption, CardsAssumption

-----------------------------------------------------------------------------
(* The history and the rows it is reloaded from.                           *)

LEMMA FunctionSeq ==
    ASSUME NEW S, NEW n \in Nat, NEW f \in [1 .. n -> S]
    PROVE  f \in Seq(S) /\ Len(f) = n
<1>1. f \in Seq(S)
  BY SeqDef
<1>2. 1 .. Len(f) = 1 .. n /\ Len(f) \in Nat
  BY <1>1, LenProperties
<1> QED
  BY <1>1, <1>2

\* What Newest keeps is the tail of the sequence.
LEMMA NewestTail ==
    ASSUME NEW S, NEW s \in Seq(S), NEW n \in Nat \ {0}
    PROVE  /\ Newest(n, s) \in Seq(S)
           /\ Len(Newest(n, s)) = IF Len(s) <= n THEN Len(s) ELSE n
           /\ \A i \in 1 .. Len(Newest(n, s)) :
                 /\ i + (Len(s) - Len(Newest(n, s))) \in 1 .. Len(s)
                 /\ Newest(n, s)[i] = s[i + (Len(s) - Len(Newest(n, s)))]
<1>1. Len(s) \in Nat /\ \A i \in 1 .. Len(s) : s[i] \in S
  BY LenProperties, ElementOfSeq
<1>2. CASE Len(s) <= n
  BY <1>1, <1>2 DEF Newest
<1>3. CASE Len(s) > n
  <2> DEFINE m == Len(s) - n + 1
  <2>1. m \in 1 .. Len(s) /\ Newest(n, s) = SubSeq(s, m, Len(s))
    BY <1>1, <1>3 DEF Newest
  <2>2. /\ SubSeq(s, m, Len(s)) \in Seq(S)
        /\ Len(SubSeq(s, m, Len(s))) = IF m <= Len(s) THEN Len(s) - m + 1 ELSE 0
        /\ \A i \in 1 .. Len(s) - m + 1 : SubSeq(s, m, Len(s))[i] = s[m + i - 1]
    <3>1. m \in Int /\ Len(s) \in Int /\ \A i \in m .. Len(s) : s[i] \in S
      BY <1>1, <2>1
    <3> QED
      BY <1>1, <2>1, <3>1, SubSeqProperties
  <2>3. Len(s) - m + 1 = n
    BY <1>1
  <2>4. Len(Newest(n, s)) = n
    BY <1>1, <2>1, <2>2
  <2>5. \A i \in 1 .. n : m + i - 1 = i + (Len(s) - n) /\ m + i - 1 \in 1 .. Len(s)
    BY <1>1, <1>3
  <2> QED
    BY <1>3, <2>1, <2>2, <2>3, <2>4, <2>5
<1> QED
  BY <1>1, <1>2, <1>3

Sorted(h) == \A i, j \in 1 .. Len(h) : i < j => h[i].event < h[j].event

\* The newest elements, when the sequence has become longer by one.
LEMMA NewestLast ==
    ASSUME NEW S, NEW h \in Seq(S), NEW s \in Seq(S), NEW n \in Nat \ {0},
           Len(h) <= n, Len(s) = Len(h) + 1, \A i \in 1 .. Len(h) : s[i] = h[i],
           NEW g, g = Newest(n, s)
    PROVE  /\ g \in Seq(S) /\ Len(g) \in 1 .. n
           /\ g[Len(g)] = s[Len(h) + 1]
           /\ \E k \in {0, 1} :
                 /\ k = 1 => Len(g) = n /\ Len(h) = n
                 /\ k = 0 => Len(g) = Len(h) + 1
                 /\ \A i \in 1 .. Len(g) - 1 : i + k \in 1 .. Len(h) /\ g[i] = h[i + k]
<1>1. Len(h) \in Nat
  BY LenProperties
<1>2. /\ Newest(n, s) \in Seq(S)
      /\ Len(Newest(n, s)) = IF Len(s) <= n THEN Len(s) ELSE n
      /\ \A i \in 1 .. Len(Newest(n, s)) :
            /\ i + (Len(s) - Len(Newest(n, s))) \in 1 .. Len(s)
            /\ Newest(n, s)[i] = s[i + (Len(s) - Len(Newest(n, s)))]
  BY NewestTail
<1>3. /\ g \in Seq(S)
      /\ Len(g) = IF Len(s) <= n THEN Len(s) ELSE n
      /\ \A i \in 1 .. Len(g) : /\ i + (Len(s) - Len(g)) \in 1 .. Len(s)
                                /\ g[i] = s[i + (Len(s) - Len(g))]
  BY <1>2
<1>4. Len(g) \in 1 .. n /\ Len(g) = IF Len(h) < n THEN Len(h) + 1 ELSE n
  BY <1>1, <1>3
<1>5. g[Len(g)] = s[Len(h) + 1]
  <2>1. Len(g) \in 1 .. Len(g) /\ Len(g) + (Len(s) - Len(g)) = Len(h) + 1
    BY <1>1, <1>4
  <2>2. g[Len(g)] = s[Len(g) + (Len(s) - Len(g))]
    BY <1>3, <2>1
  <2>3. s[Len(g) + (Len(s) - Len(g))] = s[Len(h) + 1]
    BY <2>1
  <2> QED
    BY <2>2, <2>3
<1>6. ASSUME NEW i \in 1 .. Len(g) - 1
      PROVE  /\ i + (Len(h) + 1 - Len(g)) \in 1 .. Len(h)
             /\ g[i] = h[i + (Len(h) + 1 - Len(g))]
  <2>1. /\ i \in 1 .. Len(g) /\ i + (Len(h) + 1 - Len(g)) \in 1 .. Len(h)
        /\ i + (Len(s) - Len(g)) = i + (Len(h) + 1 - Len(g))
    BY <1>1, <1>4
  <2>2. g[i] = s[i + (Len(s) - Len(g))]
    BY <1>3, <2>1
  <2>3. s[i + (Len(s) - Len(g))] = s[i + (Len(h) + 1 - Len(g))]
    BY <2>1
  <2> QED
    BY <2>1, <2>2, <2>3
<1>7. \E k \in {0, 1} :
         /\ k = 1 => Len(g) = n /\ Len(h) = n
         /\ k = 0 => Len(g) = Len(h) + 1
         /\ \A i \in 1 .. Len(g) - 1 : i + k \in 1 .. Len(h) /\ g[i] = h[i + k]
  <2> DEFINE d == Len(h) + 1 - Len(g)
  <2>1. d \in {0, 1} /\ (d = 1 => Len(g) = n /\ Len(h) = n) /\ (d = 0 => Len(g) = Len(h) + 1)
    BY <1>1, <1>4
  <2>2. \A i \in 1 .. Len(g) - 1 : i + d \in 1 .. Len(h) /\ g[i] = h[i + d]
    BY <1>6
  <2> HIDE DEF d
  <2> QED
    BY <2>1, <2>2
<1> QED
  BY <1>3, <1>4, <1>5, <1>7

\* The rows in the order of their events: each of them once.
LEMMA ByTimeSorts ==
    ASSUME NEW rows \in SUBSET Records, IsFiniteSet(rows),
           \A r, s \in rows : r.event = s.event => r = s
    PROVE  /\ ByTime(rows) \in Seq(rows) /\ ByTime(rows) \in Seq(Records)
           /\ Len(ByTime(rows)) = Cardinality(rows) /\ Cardinality(rows) \in Nat
           /\ Sorted(ByTime(rows))
           /\ \A r \in rows : \E i \in 1 .. Len(ByTime(rows)) : ByTime(rows)[i] = r
<1> DEFINE n == Cardinality(rows)
           upTo(r) == {s \in rows : s.event <= r.event}
           rank == [r \in rows |-> Cardinality(upTo(r))]
<1>1. n \in Nat
  BY FS_CardinalityType
<1>2. \A r \in rows : r.event \in Nat
  BY DEF Records, Events
<1>3. ASSUME NEW r \in rows
      PROVE  IsFiniteSet(upTo(r)) /\ rank[r] \in 1 .. n
  <2>1. upTo(r) \in SUBSET rows /\ r \in upTo(r)
    BY <1>2
  <2>2. IsFiniteSet(upTo(r)) /\ Cardinality(upTo(r)) <= n
    BY <2>1, FS_Subset
  <2>3. Cardinality(upTo(r)) \in Nat /\ Cardinality(upTo(r)) # 0
    BY <2>1, <2>2, FS_CardinalityType, FS_EmptySet
  <2> QED
    BY <1>1, <2>2, <2>3
<1>4. ASSUME NEW r \in rows, NEW s \in rows, r.event < s.event
      PROVE  rank[r] < rank[s]
  <2>1. upTo(r) \subseteq upTo(s)
    BY <1>2, <1>4
  <2>2. s \in upTo(s) /\ s \notin upTo(r)
    BY <1>2, <1>4
  <2>3. Cardinality(upTo(r)) <= Cardinality(upTo(s)) /\ Cardinality(upTo(s)) # Cardinality(upTo(r))
    BY <1>3, <2>1, <2>2, FS_Subset
  <2>4. Cardinality(upTo(r)) \in Nat /\ Cardinality(upTo(s)) \in Nat
    BY <1>3, FS_CardinalityType
  <2> QED
    BY <2>3, <2>4
<1>5. \A r, s \in rows : rank[r] = rank[s] => r = s
  <2> SUFFICES ASSUME NEW r \in rows, NEW s \in rows, rank[r] = rank[s], r.event # s.event
               PROVE  FALSE
    OBVIOUS
  <2>1. r.event < s.event \/ s.event < r.event
    BY <1>2
  <2>2. rank[r] \in Int /\ rank[s] \in Int
    BY <1>3
  <2> QED
    BY <1>4, <2>1, <2>2
<1>6. \A i \in 1 .. n : \E r \in rows : rank[r] = i
  <2>1. rank \in Injection(rows, 1 .. n)
    BY <1>3, <1>5 DEF Injection, IsInjective
  <2>2. IsFiniteSet(1 .. n) /\ Cardinality(1 .. n) = n
    <3>1. 1 \in Int /\ n \in Int
      BY <1>1
    <3> QED
      BY <1>1, <3>1, FS_Interval
  <2>3. rank \in Surjection(rows, 1 .. n)
    BY <2>1, <2>2, FS_Injection
  <2> QED
    BY <2>3 DEF Surjection
<1> DEFINE b == ByTime(rows)
<1>7. ASSUME NEW i \in 1 .. n
      PROVE  LET c == CHOOSE q \in rows : Cardinality({s \in rows : s.event <= q.event}) = i
             IN  c \in rows /\ Cardinality({s \in rows : s.event <= c.event}) = i
  <2>1. PICK r \in rows : rank[r] = i
    BY <1>6
  <2>2. r \in rows /\ Cardinality({s \in rows : s.event <= r.event}) = i
    BY <2>1
  <2> QED
    BY <2>2
<1>8. b = [i \in 1 .. n |-> CHOOSE q \in rows : Cardinality({s \in rows : s.event <= q.event}) = i]
  BY DEF ByTime
<1>9. \A i \in 1 .. n : b[i] \in rows /\ rank[b[i]] = i
  <2> HIDE DEF b
  <2> TAKE i \in 1 .. n
  <2>1. b[i] = CHOOSE q \in rows : Cardinality({s \in rows : s.event <= q.event}) = i
    BY <1>8
  <2> QED
    BY <1>7, <2>1
<1>10. b \in [1 .. n -> rows]
  <2> HIDE DEF b
  <2> QED
    BY <1>7, <1>8
<1> HIDE DEF n, rank, b
<1>11. b \in Seq(rows) /\ Len(b) = n
  BY <1>1, <1>10, FunctionSeq
<1>12. b \in Seq(Records)
  <2>1. b \in [1 .. n -> Records]
    BY <1>10
  <2> QED
    BY <1>1, <2>1, FunctionSeq
<1>13. ASSUME NEW i \in 1 .. n, NEW j \in 1 .. n, i < j
       PROVE  b[i].event < b[j].event
  <2>1. b[i] \in rows /\ b[j] \in rows /\ rank[b[i]] = i /\ rank[b[j]] = j
    BY <1>9
  <2>2. ~(b[j].event < b[i].event)
    <3> SUFFICES ASSUME b[j].event < b[i].event
                 PROVE  FALSE
      OBVIOUS
    <3>1. rank[b[j]] < rank[b[i]]
      BY <1>4, <2>1
    <3> QED
      BY <1>13, <2>1, <3>1, <1>1
  <2>3. b[j].event # b[i].event
    <3> SUFFICES ASSUME b[j].event = b[i].event
                 PROVE  FALSE
      OBVIOUS
    <3>1. i = j
      BY <2>1
    <3> QED
      BY <1>13, <3>1, <1>1
  <2> QED
    BY <1>2, <2>1, <2>2, <2>3
<1>14. \A r \in rows : \E i \in 1 .. n : b[i] = r
  <2> SUFFICES ASSUME NEW r \in rows
               PROVE  \E i \in 1 .. n : b[i] = r
    OBVIOUS
  <2>1. rank[r] \in 1 .. n
    BY <1>3
  <2>2. b[rank[r]] = r
    BY <1>5, <1>9, <2>1
  <2> QED
    BY <2>1, <2>2
<1> QED
  BY <1>1, <1>11, <1>12, <1>13, <1>14 DEF b, n, Sorted

-----------------------------------------------------------------------------
(* The target of an undo.                                                  *)

LEMMA LargestExists ==
    ASSUME NEW n \in Nat, NEW S \in SUBSET (1 .. n), S # {}
    PROVE  \E i \in S : \A j \in S : j <= i
<1> DEFINE T == {n - i : i \in S}
<1>1. T \subseteq Nat /\ T # {}
  <2>1. \A i \in S : n - i \in Nat /\ n - i \in T
    OBVIOUS
  <2> QED
    BY <2>1
<1>2. \E x \in T : \A y \in T : <<y, x>> \notin OpToRel(<, Nat)
  BY <1>1, NatLessThanWellFounded, WFMin
<1>3. PICK i \in S : \A y \in T : <<y, n - i>> \notin OpToRel(<, Nat)
  BY <1>2
<1>4. ASSUME NEW j \in S
      PROVE  j <= i
  <2>1. n - j \in T /\ n - j \in Nat /\ n - i \in Nat
    OBVIOUS
  <2>2. ~(n - j < n - i)
    BY <1>3, <2>1 DEF OpToRel
  <2> QED
    BY <2>1, <2>2
<1> QED
  BY <1>4

LEMMA TargetIsNewest ==
    ASSUME history \in Seq(Records), NEW e, Undoable(e) # {}
    PROVE  /\ Target(e) \in Undoable(e) /\ Target(e) \in 1 .. Len(history)
           /\ \A j \in Undoable(e) : j <= Target(e)
<1>1. Len(history) \in Nat /\ DOMAIN history = 1 .. Len(history)
  BY LenProperties
<1>2. Undoable(e) \in SUBSET (1 .. Len(history))
  BY <1>1 DEF Undoable
<1>3. \E i \in Undoable(e) : \A j \in Undoable(e) : j <= i
  BY <1>1, <1>2, LargestExists
<1> QED
  BY <1>2, <1>3 DEF Target

-----------------------------------------------------------------------------
(* Types.                                                                  *)

Calls == [pc : Pcs, before : Boards, after : Boards,
          undoOf : Events \cup {NoEvent}, event : Events \cup {NoEvent},
          attached : BOOLEAN, reverted : BOOLEAN, state : States]

\* The calls whose change is made and not recorded yet, and those being saved.
Unrecorded == {c \in Callers : call[c].pc \in {"after", "record"}}
Saving == {"snapshot", "ledger", "external"}

\* Every event was a change or an undo.
Counted ==
    /\ cards \in Boards
    /\ writes \in 0 .. MaxWrites /\ undos \in 0 .. MaxUndos
    /\ sequenceNumber \in 1 .. 1 + writes + undos
    /\ IsFiniteSet(Unrecorded) /\ events \in Nat
    /\ events + Cardinality(Unrecorded) <= writes + undos

CallsTyped ==
    /\ call \in [Callers -> Calls]
    /\ \A c \in Callers : call[c].pc \in Saving => call[c].event \in 1 .. events
    /\ \A c \in Callers : call[c].state.seq <= 1 + writes + undos

HistoryTyped ==
    /\ history \in Seq(Records) /\ Len(history) <= MaxHistory
    /\ Sorted(history)
    /\ \A i \in 1 .. Len(history) : history[i].event <= events

StoreTyped ==
    /\ snapshot \in States /\ snapshot.seq <= 1 + writes + undos
    /\ ledger \subseteq Records /\ IsFiniteSet(ledger)
    /\ \A r, s \in ledger : r.event = s.event => r = s
    /\ \A r \in ledger : r.event <= events
    /\ restarts \in 0 .. MaxRestarts
    /\ lost \subseteq 1 .. events
    /\ answered \subseteq (1 .. events) \X BOOLEAN

TypesOK == Counted /\ CallsTyped /\ HistoryTyped /\ StoreTyped

LEMMA SumGrows == \A s, a, b, c, d \in Nat : s <= 1 + a + b /\ a + b <= c + d => s <= 1 + c + d
OBVIOUS

LEMMA SumStep ==
    \A s, k, a, b, c, d \in Nat :
        c + d = a + b + 1 => /\ s \in 1 .. 1 + a + b => s + 1 \in 1 .. 1 + c + d
                             /\ s + k <= a + b => s + (k + 1) <= c + d
OBVIOUS

LEMMA IdleTyped == Idle \in Calls /\ FirstState \in States /\ FirstBoard \in Boards
<1>1. FirstBoard \in Boards /\ 1 \in Seqs
  BY DEF FirstBoard, Boards, Contents, Seqs
<1> QED
  BY <1>1 DEF Idle, Calls, Pcs, FirstState, States

LEMMA TypesInit == Init => TypesOK
<1> SUFFICES ASSUME Init
             PROVE  TypesOK
  OBVIOUS
<1>1. Unrecorded = {}
  BY DEF Init, Idle, Unrecorded
<1>2. Counted
  BY <1>1, IdleTyped, FS_EmptySet DEF Init, Counted
<1>3. CallsTyped
  BY IdleTyped DEF Init, CallsTyped, Idle, Saving, FirstState
<1>4. HistoryTyped
  <2>1. history = <<>> /\ history \in Seq(Records) /\ Len(history) = 0
    BY EmptySeq DEF Init
  <2> QED
    BY <2>1 DEF HistoryTyped, Sorted
<1>5. StoreTyped
  BY IdleTyped, FS_EmptySet DEF Init, StoreTyped, FirstState
<1> QED
  BY <1>2, <1>3, <1>4, <1>5 DEF TypesOK

\* A caller's steps: its tool call, its record, what it saves, its undo.
CallStep(c) ==
    \/ Begin(c) \/ EditCard(c) \/ DeleteTicket(c) \/ UnknownCard(c)
    \/ After(c) \/ RecordMutation(c)
    \/ SaveSnapshot(c) \/ SaveMutationRecord(c) \/ StoreError(c)
    \/ AttachExternalConfirmations(c) \/ Answer(c)
Undo(c) == \E e : UndoLastMutation(c, e)

LEMMA NextSteps == Next => Restart \/ \E c \in Callers : CallStep(c) \/ Undo(c)
BY DEF Next, CallStep, Undo, UndoLatest, UndoEvent

\* A change of one part of the board.
Changes(c) == \E p \in Parts, content \in Contents : Change(c, p, content)

LEMMA ChangesContent ==
    ASSUME Counted, NEW c, EditCard(c) \/ DeleteTicket(c)
    PROVE  Changes(c)
<1>1. CASE EditCard(c)
  <2>1. PICK p \in Parts : Change(c, p, writes + 1)
    BY <1>1 DEF EditCard
  <2>2. writes + 1 \in Contents
    BY <2>1 DEF Change, Counted, Contents
  <2> QED
    BY <2>1, <2>2 DEF Changes
<1>2. CASE DeleteTicket(c)
  BY <1>2 DEF DeleteTicket, Changes, Contents, Parts, Gone
<1> QED
  BY <1>1, <1>2

LEMMA CallStepCalls ==
    ASSUME TypesOK, NEW c \in Callers, CallStep(c) \/ Undo(c)
    PROVE  /\ call' = [call EXCEPT ![c] = call'[c]]
           /\ call'[c] \in Calls
           /\ events' \in {events, events + 1}
           /\ call'[c].pc \in Saving => call'[c].event \in 1 .. events'
           /\ writes + undos <= writes' + undos'
           /\ call'[c].state.seq <= 1 + writes' + undos'
<1>1. /\ call \in [Callers -> Calls] /\ call[c] \in Calls
      /\ call[c].pc \in Saving => call[c].event \in 1 .. events
      /\ cards \in Boards /\ events \in Nat
      /\ SnapshotState \in States
  <2>1. sequenceNumber \in Seqs
    BY DEF TypesOK, Counted, Seqs
  <2> QED
    BY <2>1 DEF TypesOK, Counted, CallsTyped, SnapshotState, States
<1>9. writes + undos <= writes' + undos' /\ call'[c].state.seq <= 1 + writes' + undos'
  <2>1. /\ writes \in Nat /\ undos \in Nat /\ sequenceNumber \in Nat
        /\ sequenceNumber <= 1 + writes + undos /\ call[c].state.seq <= 1 + writes + undos
        /\ call[c].state.seq \in Nat
    BY <1>1 DEF TypesOK, Counted, CallsTyped, Calls, States, Seqs
  <2>2. CASE call'[c].state = call[c].state /\ writes' \in {writes, writes + 1} /\ undos' = undos
    BY <2>1, <2>2
  <2>3. CASE Begin(c) \/ UnknownCard(c) \/ Answer(c)
    <3>1. call'[c].state = FirstState
      <4>1. call'[c] = Idle \/ call'[c] = [Idle EXCEPT !.pc = "apply", !.before = cards]
        BY <1>1, <2>3 DEF Begin, UnknownCard, Answer
      <4>2. Idle.state = FirstState /\ [Idle EXCEPT !.pc = "apply", !.before = cards].state = FirstState
        BY DEF Idle
      <4> QED
        BY <4>1, <4>2
    <3>2. UNCHANGED <<writes, undos>>
      BY <2>3 DEF Begin, UnknownCard, Answer
    <3> QED
      BY <2>1, <3>1, <3>2 DEF FirstState
  <2>4. CASE EditCard(c) \/ DeleteTicket(c)
    <3>1. PICK p, content : Change(c, p, content)
      BY <2>4 DEF EditCard, DeleteTicket
    <3>2. call'[c].state = call[c].state /\ writes' = writes + 1 /\ undos' = undos
      BY <1>1, <3>1 DEF Change, Calls
    <3> QED
      BY <2>2, <3>2
  <2>5. CASE RecordMutation(c) \/ SaveSnapshot(c) \/ SaveMutationRecord(c) \/ StoreError(c)
    <3>1. UNCHANGED <<writes, undos>>
      BY <2>5 DEF RecordMutation, SaveSnapshot, SaveMutationRecord, StoreError
    <3>2. call'[c].state = call[c].state
      BY <1>1, <2>5 DEF RecordMutation, SaveSnapshot, SaveMutationRecord, StoreError, Calls
    <3> QED
      BY <2>2, <3>1, <3>2
  <2>6. CASE After(c) \/ AttachExternalConfirmations(c)
    <3>1. UNCHANGED <<writes, undos>>
      BY <2>6 DEF After, AttachExternalConfirmations
    <3>4. call'[c].state = SnapshotState
      <4>1. CASE After(c)
        BY <1>1, <4>1 DEF After, Calls
      <4>2. CASE AttachExternalConfirmations(c)
        BY <1>1, <4>2 DEF AttachExternalConfirmations, Calls
      <4> QED
        BY <2>6, <4>1, <4>2
    <3> QED
      BY <2>1, <3>1, <3>4 DEF SnapshotState
  <2>7. CASE Undo(c)
    <3> PICK e : UndoLastMutation(c, e)
      BY <2>7 DEF Undo
    <3>1. call'[c].state.seq = sequenceNumber + 1 /\ writes' = writes /\ undos' = undos + 1
      BY <1>1 DEF UndoLastMutation, Idle
    <3> QED
      BY <2>1, <3>1
  <2> QED
    BY <2>3, <2>4, <2>5, <2>6, <2>7 DEF CallStep
<1> SUFFICES /\ call' = [call EXCEPT ![c] = call'[c]]
             /\ call'[c] \in Calls
             /\ events' \in {events, events + 1}
             /\ call'[c].pc \in Saving => call'[c].event \in 1 .. events'
  BY <1>9
<1> USE DEF Calls, Pcs
<1>2. CASE Begin(c) \/ UnknownCard(c) \/ Answer(c)
  <2>1. [Idle EXCEPT !.pc = "apply", !.before = cards] \in Calls
    BY <1>1, IdleTyped
  <2> HIDE DEF Calls, Pcs
  <2>2. events' = events /\ (call' = [call EXCEPT ![c] = [Idle EXCEPT !.pc = "apply", !.before = cards]]
                             \/ call' = [call EXCEPT ![c] = Idle])
    BY <1>2 DEF Begin, UnknownCard, Answer
  <2>3. Idle.pc \notin Saving /\ [Idle EXCEPT !.pc = "apply", !.before = cards].pc \notin Saving
    BY DEF Idle, Saving
  <2> QED
    BY <1>1, <2>1, <2>2, <2>3, IdleTyped
<1>3. CASE EditCard(c) \/ DeleteTicket(c)
  <2>1. PICK p, content : Change(c, p, content)
    BY <1>3 DEF EditCard, DeleteTicket
  <2>2. call' = [call EXCEPT ![c].pc = "after"] /\ events' = events
    BY <2>1 DEF Change
  <2> QED
    BY <1>1, <2>2 DEF Saving
<1>4. CASE After(c)
  <2>1. /\ call' = [call EXCEPT ![c].pc = "record", ![c].after = cards, ![c].state = SnapshotState]
        /\ events' = events
    BY <1>4 DEF After
  <2> QED
    BY <1>1, <2>1 DEF Saving
<1>5. CASE RecordMutation(c)
  <2>1. /\ call' = [call EXCEPT ![c].pc = "snapshot", ![c].event = events + 1]
        /\ events' = events + 1 /\ call[c].pc = "record"
    BY <1>5 DEF RecordMutation
  <2>2. c \in Unrecorded /\ events + 1 <= writes + undos
    <3>1. c \in Unrecorded
      BY <2>1 DEF Unrecorded
    <3>2. Cardinality(Unrecorded) \in Nat /\ Cardinality(Unrecorded) # 0
      BY <3>1, FS_CardinalityType, FS_EmptySet DEF TypesOK, Counted
    <3> QED
      BY <3>1, <3>2 DEF TypesOK, Counted
  <2>3. events + 1 \in Events
    BY <1>1, <2>2 DEF Events, TypesOK, Counted
  <2>4. call'[c] = [call[c] EXCEPT !.pc = "snapshot", !.event = events + 1]
    BY <1>1, <2>1
  <2>5. call'[c] \in Calls /\ call'[c].event = events + 1
    BY <1>1, <2>3, <2>4
  <2>6. call' = [call EXCEPT ![c] = call'[c]]
    BY <1>1, <2>1, <2>4
  <2>7. events + 1 \in 1 .. events + 1
    BY <1>1
  <2> HIDE DEF Calls, Pcs
  <2> QED
    BY <2>1, <2>5, <2>6, <2>7
<1>6. CASE SaveSnapshot(c) \/ SaveMutationRecord(c) \/ StoreError(c)
  <2>1. /\ \/ call' = [call EXCEPT ![c].pc = "ledger"]
           \/ call' = [call EXCEPT ![c].pc = "external"]
        /\ call[c].pc \in {"snapshot", "ledger"} /\ events' = events
    BY <1>6 DEF SaveSnapshot, SaveMutationRecord, StoreError
  <2> QED
    BY <1>1, <2>1 DEF Saving
<1>7. CASE AttachExternalConfirmations(c)
  <2>1. PICK i \in DOMAIN history :
          call' = [call EXCEPT ![c].pc = "snapshot", ![c].attached = TRUE,
                               ![c].reverted = history[i].reverted,
                               ![c].state = SnapshotState]
    BY <1>7 DEF AttachExternalConfirmations
  <2>2. history[i].reverted \in BOOLEAN
    <3>1. history[i] \in Records
      BY LenProperties, ElementOfSeq DEF TypesOK, HistoryTyped
    <3> QED
      BY <3>1 DEF Records
  <2>3. events' = events /\ call[c].pc = "external"
    BY <1>7 DEF AttachExternalConfirmations
  <2> QED
    BY <1>1, <2>1, <2>2, <2>3 DEF Saving
<1>8. CASE Undo(c)
  <2>1. PICK e : UndoLastMutation(c, e)
    BY <1>8 DEF Undo
  <2> DEFINE t == history[Target(e)]
             s == [cards |-> t.before, seq |-> sequenceNumber + 1]
             k == [Idle EXCEPT !.pc = "record", !.before = cards, !.after = t.before,
                               !.undoOf = t.event, !.state = s]
  <2>2. call' = [call EXCEPT ![c] = k] /\ events' = events /\ undos < MaxUndos
    BY <2>1 DEF UndoLastMutation
  <2>3. t \in Records
    <3>1. Target(e) \in 1 .. Len(history)
      BY <2>1, TargetIsNewest DEF UndoLastMutation, TypesOK, HistoryTyped
    <3> QED
      BY <3>1, ElementOfSeq DEF TypesOK, HistoryTyped
  <2>4. t.before \in Boards /\ t.event \in Events
    BY <2>3 DEF Records
  <2>5. s \in States
    <3>1. sequenceNumber + 1 \in Seqs
      BY <2>2 DEF TypesOK, Counted, Seqs
    <3> QED
      BY <2>4, <3>1 DEF States
  <2> HIDE DEF t, s
  <2>6. k \in Calls /\ k.pc = "record"
    BY <1>1, <2>4, <2>5, IdleTyped
  <2> HIDE DEF k, Calls
  <2> QED
    BY <1>1, <2>2, <2>6 DEF Saving
<1> QED
  BY <1>2, <1>3, <1>4, <1>5, <1>6, <1>7, <1>8 DEF CallStep

\* A change that is recorded, or one that begins to wait for its record.
LEMMA CountedNext == TypesOK /\ [Next]_vars => Counted'
<1> SUFFICES ASSUME TypesOK, [Next]_vars
             PROVE  Counted'
  OBVIOUS
<1>1. /\ cards \in Boards /\ writes \in Nat /\ undos \in Nat /\ events \in Nat
      /\ writes \in 0 .. MaxWrites /\ undos \in 0 .. MaxUndos
      /\ sequenceNumber \in 1 .. 1 + writes + undos
      /\ IsFiniteSet(Unrecorded) /\ events + Cardinality(Unrecorded) <= writes + undos
      /\ Cardinality(Unrecorded) \in Nat
  BY FS_CardinalityType DEF TypesOK, Counted
<1>2. ASSUME NEW c \in Callers, CallStep(c) \/ Undo(c)
      PROVE  Unrecorded' = IF call'[c].pc \in {"after", "record"} THEN Unrecorded \cup {c}
                           ELSE Unrecorded \ {c}
  <2>1. call' = [call EXCEPT ![c] = call'[c]] /\ call \in [Callers -> Calls]
    BY <1>2, CallStepCalls DEF TypesOK, CallsTyped
  <2>2. \A d \in Callers \ {c} : call'[d] = call[d]
    BY <2>1
  <2> QED
    BY <2>2 DEF Unrecorded
<1>3. ASSUME NEW c \in Callers, EditCard(c) \/ DeleteTicket(c) \/ Undo(c)
      PROVE  Counted'
  <2>1. c \notin Unrecorded /\ cards' \in Boards /\ sequenceNumber' = sequenceNumber + 1
        /\ events' = events /\ call'[c].pc \in {"after", "record"}
        /\ \/ writes' = writes + 1 /\ undos' = undos /\ writes < MaxWrites
           \/ undos' = undos + 1 /\ writes' = writes /\ undos < MaxUndos
    <3>1. call \in [Callers -> Calls]
      BY DEF TypesOK, CallsTyped
    <3>2. CASE EditCard(c) \/ DeleteTicket(c)
      <4>1. PICK p \in Parts, content \in Contents : Change(c, p, content)
        BY <3>2, ChangesContent DEF Changes, TypesOK
      <4>2. call'[c].pc = "after"
        BY <3>1, <4>1 DEF Change, Calls
      <4> QED
        BY <1>1, <4>1, <4>2 DEF Change, Unrecorded, Boards
    <3>3. CASE Undo(c)
      <4>1. PICK e : UndoLastMutation(c, e)
        BY <3>3 DEF Undo
      <4>2. history[Target(e)].before \in Boards
        <5>1. Target(e) \in 1 .. Len(history)
          BY <4>1, TargetIsNewest DEF UndoLastMutation, TypesOK, HistoryTyped
        <5>2. history[Target(e)] \in Records
          BY <5>1, ElementOfSeq DEF TypesOK, HistoryTyped
        <5> QED
          BY <5>2 DEF Records
      <4>3. call'[c].pc = "record"
        BY <3>1, <4>1 DEF UndoLastMutation
      <4> QED
        BY <4>1, <4>2, <4>3 DEF UndoLastMutation, Unrecorded
    <3> QED
      BY <1>3, <3>2, <3>3
  <2>2. Unrecorded' = Unrecorded \cup {c}
    <3>1. CallStep(c) \/ Undo(c)
      BY <1>3 DEF CallStep
    <3> QED
      BY <1>2, <2>1, <3>1
  <2>3. IsFiniteSet(Unrecorded') /\ Cardinality(Unrecorded') = Cardinality(Unrecorded) + 1
    BY <1>1, <2>1, <2>2, FS_AddElement
  <2>4. writes' \in 0 .. MaxWrites /\ undos' \in 0 .. MaxUndos /\ writes' + undos' = writes + undos + 1
    BY <1>1, <2>1
  <2>5. sequenceNumber' \in 1 .. 1 + writes' + undos' /\ events' + Cardinality(Unrecorded') <= writes' + undos'
    <3>1. writes' \in Nat /\ undos' \in Nat
      BY <2>4
    <3>2. sequenceNumber' \in 1 .. 1 + writes' + undos'
      <4>1. sequenceNumber \in Nat
        BY <1>1
      <4> QED
        BY <1>1, <2>1, <2>4, <3>1, <4>1, SumStep
    <3>3. Cardinality(Unrecorded') = Cardinality(Unrecorded) + 1 /\ events' = events
      BY <2>1, <2>3
    <3>4. events' + Cardinality(Unrecorded') <= writes' + undos'
      BY <1>1, <2>4, <3>1, <3>3, SumStep
    <3> QED
      BY <3>2, <3>4
  <2> QED
    BY <1>1, <2>1, <2>3, <2>4, <2>5 DEF Counted
<1>4. ASSUME NEW c \in Callers, RecordMutation(c)
      PROVE  Counted'
  <2>1. c \in Unrecorded /\ events' = events + 1 /\ UNCHANGED <<cards, sequenceNumber, writes, undos>>
    BY <1>4 DEF RecordMutation, Unrecorded
  <2>2. call'[c].pc = "snapshot"
    BY <1>4 DEF RecordMutation, TypesOK, CallsTyped, Calls
  <2>3. Unrecorded' = Unrecorded \ {c}
    BY <1>2, <1>4, <2>2 DEF CallStep
  <2>4. IsFiniteSet(Unrecorded') /\ Cardinality(Unrecorded') = Cardinality(Unrecorded) - 1
    BY <1>1, <2>1, <2>3, FS_RemoveElement
  <2>5. events' \in Nat /\ events' + Cardinality(Unrecorded') <= writes' + undos'
    BY <1>1, <2>1, <2>4
  <2> QED
    BY <1>1, <2>1, <2>4, <2>5 DEF Counted
<1>5. ASSUME Unrecorded' \subseteq Unrecorded, UNCHANGED <<cards, sequenceNumber, writes, undos, events>>
      PROVE  Counted'
  <2>1. IsFiniteSet(Unrecorded') /\ Cardinality(Unrecorded') <= Cardinality(Unrecorded)
    BY <1>1, <1>5, FS_Subset
  <2>2. Cardinality(Unrecorded') \in Nat
    BY <2>1, FS_CardinalityType
  <2>3. events' + Cardinality(Unrecorded') <= writes' + undos'
    BY <1>1, <1>5, <2>1, <2>2
  <2> QED
    BY <1>1, <1>5, <2>1, <2>3 DEF Counted
<1>6. ASSUME NEW c \in Callers,
             \/ Begin(c) \/ UnknownCard(c) \/ After(c) \/ SaveSnapshot(c) \/ SaveMutationRecord(c)
             \/ StoreError(c) \/ AttachExternalConfirmations(c) \/ Answer(c)
      PROVE  Counted'
  <2>1. UNCHANGED <<cards, sequenceNumber, writes, undos, events>>
    BY <1>6 DEF Begin, UnknownCard, After, SaveSnapshot, SaveMutationRecord, StoreError,
         AttachExternalConfirmations, Answer
  <2>2. Unrecorded' = IF call'[c].pc \in {"after", "record"} THEN Unrecorded \cup {c}
                      ELSE Unrecorded \ {c}
    BY <1>2, <1>6 DEF CallStep
  <2>3. call'[c].pc \in {"after", "record"} => c \in Unrecorded
    <3>1. call \in [Callers -> Calls]
      BY DEF TypesOK, CallsTyped
    <3>2. CASE Begin(c) \/ UnknownCard(c) \/ Answer(c)
      <4>1. call'[c] = Idle \/ call'[c] = [Idle EXCEPT !.pc = "apply", !.before = cards]
        BY <3>1, <3>2 DEF Begin, UnknownCard, Answer
      <4>2. Idle.pc = "idle" /\ [Idle EXCEPT !.pc = "apply", !.before = cards].pc = "apply"
        BY DEF Idle
      <4> QED
        BY <4>1, <4>2
    <3>3. CASE After(c)
      BY <3>1, <3>3 DEF After, Unrecorded
    <3>4. CASE SaveSnapshot(c) \/ SaveMutationRecord(c) \/ StoreError(c)
      BY <3>1, <3>4 DEF SaveSnapshot, SaveMutationRecord, StoreError, Calls
    <3>5. CASE AttachExternalConfirmations(c)
      BY <3>1, <3>5 DEF AttachExternalConfirmations, Calls
    <3> QED
      BY <1>6, <3>2, <3>3, <3>4, <3>5
  <2>4. Unrecorded' \subseteq Unrecorded
    BY <2>2, <2>3
  <2> QED
    BY <1>5, <2>1, <2>4
<1>7. CASE Restart
  <2>1. Unrecorded' = {}
    BY <1>7 DEF Restart, Unrecorded, Idle
  <2>2. /\ UNCHANGED <<writes, undos, events>>
        /\ cards' = snapshot.cards /\ sequenceNumber' = snapshot.seq
    BY <1>7 DEF Restart
  <2>3. cards' \in Boards /\ sequenceNumber' \in 1 .. 1 + writes + undos
    BY <1>1, <2>2 DEF TypesOK, StoreTyped, States, Seqs
  <2>4. IsFiniteSet(Unrecorded') /\ Cardinality(Unrecorded') = 0
    BY <2>1, FS_EmptySet
  <2>5. events + 0 <= writes + undos
    BY <1>1
  <2> QED
    BY <1>1, <2>2, <2>3, <2>4, <2>5 DEF Counted
<1>8. CASE UNCHANGED vars
  <2>1. Unrecorded' = Unrecorded
    BY <1>8 DEF vars, Unrecorded
  <2> QED
    BY <1>5, <1>8, <2>1 DEF vars
<1> QED
  BY <1>3, <1>4, <1>6, <1>7, <1>8, NextSteps DEF CallStep

LEMMA CallsTypedNext == TypesOK /\ [Next]_vars => CallsTyped'
<1> SUFFICES ASSUME TypesOK, [Next]_vars
             PROVE  CallsTyped'
  OBVIOUS
<1>1. ASSUME NEW c \in Callers, CallStep(c) \/ Undo(c)
      PROVE  CallsTyped'
  <2>1. /\ call' = [call EXCEPT ![c] = call'[c]]
        /\ call'[c] \in Calls /\ events' \in {events, events + 1}
        /\ call'[c].pc \in Saving => call'[c].event \in 1 .. events'
        /\ writes + undos <= writes' + undos'
        /\ call'[c].state.seq <= 1 + writes' + undos'
    BY <1>1, CallStepCalls
  <2>2. call \in [Callers -> Calls] /\ events \in Nat
    BY DEF TypesOK, CallsTyped, Counted
  <2>5. ASSUME NEW d \in Callers \ {c}
        PROVE  call[d].state.seq <= 1 + writes' + undos'
    <3>1. call[d].state.seq \in Nat /\ call[d].state.seq <= 1 + writes + undos
      BY <2>2 DEF TypesOK, CallsTyped, Calls, States, Seqs
    <3>2. writes \in Nat /\ undos \in Nat /\ writes' \in Nat /\ undos' \in Nat
      BY CountedNext DEF TypesOK, Counted
    <3>3. writes + undos <= writes' + undos'
      BY <2>1
    <3> QED
      BY <3>1, <3>2, <3>3, SumGrows
  <2>3. \A d \in Callers \ {c} : call'[d] = call[d]
    BY <2>1, <2>2
  <2>4. \A d \in Callers \ {c} : call[d].pc \in Saving => call[d].event \in 1 .. events'
    BY <2>1, <2>2 DEF TypesOK, CallsTyped
  <2> QED
    BY <2>1, <2>2, <2>3, <2>4, <2>5 DEF CallsTyped
<1>2. CASE Restart
  <2>1. /\ call' = [c \in Callers |-> Idle] /\ Idle.pc \notin Saving /\ Idle.state.seq = 1
        /\ UNCHANGED <<writes, undos>>
    BY <1>2 DEF Restart, Idle, Saving, FirstState
  <2>2. writes \in Nat /\ undos \in Nat
    BY DEF TypesOK, Counted
  <2> QED
    BY <2>1, <2>2, IdleTyped DEF CallsTyped
<1>3. CASE UNCHANGED vars
  BY <1>3 DEF vars, TypesOK, CallsTyped
<1> QED
  BY <1>1, <1>2, <1>3, NextSteps

-----------------------------------------------------------------------------
(* What a step does to the history.                                        *)

\* The entries are those that were there; one may have been marked.
Amended ==
    /\ history' \in Seq(Records) /\ Len(history') = Len(history)
    /\ \A i \in 1 .. Len(history) :
          /\ history'[i].event = history[i].event
          /\ history'[i].before = history[i].before
          /\ history'[i].after = history[i].after
          /\ history'[i].undoOf = history[i].undoOf
          /\ history[i].attached => history'[i].attached
          /\ history[i].reverted => history'[i].reverted

LEMMA MarkAmends ==
    ASSUME history \in Seq(Records), NEW k \in 1 .. Len(history),
           \/ history' = [history EXCEPT ![k].attached = TRUE]
           \/ history' = [history EXCEPT ![k].reverted = TRUE]
    PROVE  Amended
<1>1. DOMAIN history = 1 .. Len(history) /\ Len(history) \in Nat
  BY LenProperties
<1>2. \A i \in 1 .. Len(history) : history[i] \in Records
  BY ElementOfSeq
<1>3. DOMAIN history' = 1 .. Len(history)
  BY <1>1
<1>4. ASSUME NEW i \in 1 .. Len(history)
      PROVE  /\ history'[i] \in Records
             /\ history'[i].event = history[i].event
             /\ history'[i].before = history[i].before
             /\ history'[i].after = history[i].after
             /\ history'[i].undoOf = history[i].undoOf
             /\ history[i].attached => history'[i].attached
             /\ history[i].reverted => history'[i].reverted
  <2>1. \/ history'[i] = history[i]
        \/ history'[i] = [history[i] EXCEPT !.attached = TRUE]
        \/ history'[i] = [history[i] EXCEPT !.reverted = TRUE]
    BY <1>1
  <2>2. history[i] \in Records
    BY <1>2
  <2> QED
    BY <2>1, <2>2 DEF Records
<1>5. history' \in [1 .. Len(history) -> Records]
  <2>1. history' = [i \in 1 .. Len(history) |-> history'[i]]
    BY <1>1
  <2> QED
    BY <1>4, <2>1
<1>6. history' \in Seq(Records) /\ Len(history') = Len(history)
  BY <1>1, <1>5, FunctionSeq
<1> QED
  BY <1>4, <1>6 DEF Amended

\* The record a call makes.
LEMMA RecordMade ==
    ASSUME TypesOK, NEW c \in Callers, RecordMutation(c)
    PROVE  LET r == RecordOf(call'[c]) IN
           /\ r \in Records /\ r.event = events + 1
           /\ call'[c] = [call[c] EXCEPT !.pc = "snapshot", !.event = events + 1]
           /\ history' = Newest(MaxHistory, Append(history, r))
           /\ \A d \in Callers \ {c} : call'[d] = call[d]
<1>1. call \in [Callers -> Calls] /\ call'[c] \in Calls /\ events' = events + 1 /\ events \in Nat
  BY CallStepCalls DEF TypesOK, CallsTyped, CallStep, RecordMutation, Counted
<1>2. /\ call' = [call EXCEPT ![c].pc = "snapshot", ![c].event = events + 1]
      /\ history' = Newest(MaxHistory, Append(history, RecordOf(call'[c])))
  BY DEF RecordMutation
<1>3. call'[c] = [call[c] EXCEPT !.pc = "snapshot", !.event = events + 1]
  BY <1>1, <1>2
<1>4. call'[c].event = events + 1 /\ call'[c].pc = "snapshot"
  BY <1>1, <1>3 DEF Calls
<1>5. call'[c].event \in Events
  <2>1. call'[c].event # NoEvent
    BY <1>1, <1>4 DEF NoEvent
  <2> QED
    BY <1>1, <2>1 DEF Calls
<1>6. RecordOf(call'[c]) \in Records
  BY <1>1, <1>5 DEF RecordOf, Records, Calls
<1>7. \A d \in Callers \ {c} : call'[d] = call[d]
  BY <1>1, <1>2
<1>8. RecordOf(call'[c]).event = events + 1
  BY <1>4 DEF RecordOf
<1> QED
  BY <1>2, <1>3, <1>6, <1>7, <1>8

LEMMA Appended ==
    ASSUME history \in Seq(Records), Len(history) <= MaxHistory, NEW r \in Records,
           history' = Newest(MaxHistory, Append(history, r))
    PROVE  /\ history' \in Seq(Records) /\ Len(history') \in 1 .. MaxHistory
           /\ history'[Len(history')] = r
           /\ \E k \in {0, 1} :
                 /\ k = 1 => Len(history') = MaxHistory /\ Len(history) = MaxHistory
                 /\ k = 0 => Len(history') = Len(history) + 1
                 /\ \A i \in 1 .. Len(history') - 1 :
                       i + k \in 1 .. Len(history) /\ history'[i] = history[i + k]
<1> DEFINE s == Append(history, r)
<1>1. /\ s \in Seq(Records) /\ Len(s) = Len(history) + 1 /\ s[Len(history) + 1] = r
      /\ \A i \in 1 .. Len(history) : s[i] = history[i]
  BY AppendProperties
<1>2. history' = Newest(MaxHistory, s)
  OBVIOUS
<1> HIDE DEF s
<1>3. history' \in Seq(Records) /\ Len(history') \in 1 .. MaxHistory
  BY <1>1, <1>2, NewestLast
<1>4. history'[Len(history')] = r
  BY <1>1, <1>2, NewestLast
<1>5. \E k \in {0, 1} :
         /\ k = 1 => Len(history') = MaxHistory /\ Len(history) = MaxHistory
         /\ k = 0 => Len(history') = Len(history) + 1
         /\ \A i \in 1 .. Len(history') - 1 :
               i + k \in 1 .. Len(history) /\ history'[i] = history[i + k]
  BY <1>1, <1>2, NewestLast
<1> QED
  BY <1>3, <1>4, <1>5

LEMMA HistoryStep ==
    ASSUME TypesOK, NEW c \in Callers, CallStep(c) \/ Undo(c), ~RecordMutation(c)
    PROVE  Amended
<1>1. history \in Seq(Records)
  BY DEF TypesOK, HistoryTyped
<1>2. CASE UNCHANGED history
  <2>1. \A i \in 1 .. Len(history) : history'[i] = history[i]
    BY <1>2
  <2> QED
    BY <1>1, <1>2, <2>1 DEF Amended
<1>3. CASE AttachExternalConfirmations(c)
  <2>1. PICK k \in DOMAIN history : history' = [history EXCEPT ![k].attached = TRUE]
    BY <1>3 DEF AttachExternalConfirmations
  <2>2. k \in 1 .. Len(history)
    BY <1>1, LenProperties
  <2> QED
    BY <1>1, <2>1, <2>2, MarkAmends
<1>4. CASE Undo(c)
  <2>1. PICK e : UndoLastMutation(c, e)
    BY <1>4 DEF Undo
  <2>2. Target(e) \in 1 .. Len(history) /\ history' = [history EXCEPT ![Target(e)].reverted = TRUE]
    BY <1>1, <2>1, TargetIsNewest DEF UndoLastMutation
  <2> QED
    BY <1>1, <2>2, MarkAmends
<1>5. CASE \/ Begin(c) \/ EditCard(c) \/ DeleteTicket(c) \/ UnknownCard(c) \/ After(c)
           \/ SaveSnapshot(c) \/ SaveMutationRecord(c) \/ StoreError(c) \/ Answer(c)
  BY <1>2, <1>5 DEF Begin, EditCard, DeleteTicket, Change, UnknownCard, After, SaveSnapshot,
       SaveMutationRecord, StoreError, Answer
<1> QED
  BY <1>3, <1>4, <1>5 DEF CallStep

LEMMA HistoryTypedNext == TypesOK /\ [Next]_vars => HistoryTyped'
<1> SUFFICES ASSUME TypesOK, [Next]_vars
             PROVE  HistoryTyped'
  OBVIOUS
<1>1. /\ history \in Seq(Records) /\ Len(history) <= MaxHistory /\ Len(history) \in Nat
      /\ Sorted(history) /\ events \in Nat
      /\ \A i \in 1 .. Len(history) : history[i].event <= events /\ history[i].event \in Nat
  <2>1. \A i \in 1 .. Len(history) : history[i].event \in Nat
    <3> TAKE i \in 1 .. Len(history)
    <3>1. history[i] \in Records
      BY ElementOfSeq DEF TypesOK, HistoryTyped
    <3> QED
      BY <3>1 DEF Records, Events
  <2> QED
    BY <2>1, LenProperties DEF TypesOK, HistoryTyped, Counted
<1>2. ASSUME NEW c \in Callers, RecordMutation(c)
      PROVE  HistoryTyped'
  <2> DEFINE r == RecordOf(call'[c])
             n == Len(history')
  <2>1. /\ r \in Records /\ r.event = events + 1 /\ events' = events + 1
        /\ history' = Newest(MaxHistory, Append(history, r))
    BY <1>2, RecordMade DEF RecordMutation
  <2> HIDE DEF r
  <2>2. /\ history' \in Seq(Records) /\ n \in 1 .. MaxHistory /\ history'[n] = r
        /\ \E k \in {0, 1} : \A i \in 1 .. n - 1 :
              i + k \in 1 .. Len(history) /\ history'[i] = history[i + k]
    BY <1>1, <2>1, Appended
  <2> HIDE DEF n
  <2> PICK k \in {0, 1} : \A i \in 1 .. n - 1 :
              i + k \in 1 .. Len(history) /\ history'[i] = history[i + k]
    BY <2>2
  <2>3. \A i \in 1 .. n - 1 : history'[i].event <= events /\ history'[i].event \in Nat
    BY <1>1
  <2>4. ASSUME NEW i \in 1 .. n, NEW j \in 1 .. n, i < j
        PROVE  history'[i].event < history'[j].event
    <3>1. i \in 1 .. n - 1
      BY <2>2, <2>4
    <3>2. CASE j = n
      <4>1. history'[j].event = events + 1
        BY <2>1, <2>2, <3>2
      <4>2. history'[i].event <= events /\ history'[i].event \in Nat
        BY <2>3, <3>1
      <4> QED
        BY <1>1, <4>1, <4>2
    <3>3. CASE j # n
      <4>1. j \in 1 .. n - 1
        BY <2>2, <3>3
      <4>2. i + k \in 1 .. Len(history) /\ j + k \in 1 .. Len(history) /\ i + k < j + k
        BY <2>4, <3>1, <4>1
      <4>3. history'[i] = history[i + k] /\ history'[j] = history[j + k]
        BY <3>1, <4>1
      <4> QED
        BY <1>1, <4>2, <4>3 DEF Sorted
    <3> QED
      BY <3>2, <3>3
  <2>5. \A i \in 1 .. n : history'[i].event <= events'
    <3> SUFFICES ASSUME NEW i \in 1 .. n
                 PROVE  history'[i].event <= events + 1
      BY <2>1
    <3>1. CASE i = n
      BY <1>1, <2>1, <2>2, <3>1
    <3>2. CASE i # n
      <4>1. i \in 1 .. n - 1
        BY <2>2, <3>2
      <4> QED
        BY <1>1, <2>3, <4>1
    <3> QED
      BY <3>1, <3>2
  <2>6. n <= MaxHistory
    BY <2>2
  <2>7. /\ history' \in Seq(Records) /\ Len(history') <= MaxHistory
        /\ \A i, j \in 1 .. Len(history') : i < j => history'[i].event < history'[j].event
        /\ \A i \in 1 .. Len(history') : history'[i].event <= events'
    BY <2>2, <2>4, <2>5, <2>6 DEF n
  <2> QED
    BY <2>7 DEF HistoryTyped, Sorted
<1>3. ASSUME Amended, events' \in {events, events + 1}
      PROVE  HistoryTyped'
  <2>1. /\ history' \in Seq(Records) /\ Len(history') = Len(history)
        /\ \A i \in 1 .. Len(history) : history'[i].event = history[i].event
    BY <1>3 DEF Amended
  <2>2. \A i \in 1 .. Len(history) : history'[i].event <= events'
    BY <1>1, <1>3, <2>1
  <2> QED
    BY <1>1, <2>1, <2>2 DEF HistoryTyped, Sorted
<1>4. ASSUME NEW c \in Callers, CallStep(c) \/ Undo(c)
      PROVE  HistoryTyped'
  BY <1>2, <1>3, <1>4, HistoryStep, CallStepCalls
<1>5. CASE Restart
  <2>1. history' = Newest(MaxHistory, ByTime(ledger)) /\ events' = events
    BY <1>5 DEF Restart
  <2>2. /\ ledger \in SUBSET Records /\ IsFiniteSet(ledger)
        /\ \A r, s \in ledger : r.event = s.event => r = s
        /\ \A r \in ledger : r.event <= events
    BY DEF TypesOK, StoreTyped
  <2> DEFINE b == ByTime(ledger)
             k == Len(b) - Len(history')
  <2>3. b \in Seq(ledger) /\ b \in Seq(Records) /\ Sorted(b) /\ Len(b) \in Nat
    BY <2>2, ByTimeSorts
  <2> HIDE DEF b
  <2>4. /\ history' \in Seq(Records)
        /\ Len(history') = IF Len(b) <= MaxHistory THEN Len(b) ELSE MaxHistory
        /\ \A i \in 1 .. Len(history') : i + k \in 1 .. Len(b) /\ history'[i] = b[i + k]
    BY <2>1, <2>3, NewestTail DEF b
  <2>5. Len(history') <= MaxHistory /\ k \in Nat /\ Len(history') \in Nat
    BY <2>3, <2>4
  <2> HIDE DEF k
  <2>6. \A i \in 1 .. Len(history') : history'[i] \in ledger
    BY <2>3, <2>4, ElementOfSeq
  <2>7. ASSUME NEW i \in 1 .. Len(history'), NEW j \in 1 .. Len(history'), i < j
        PROVE  history'[i].event < history'[j].event
    <3>1. i + k \in 1 .. Len(b) /\ j + k \in 1 .. Len(b) /\ i + k < j + k
      BY <2>4, <2>5, <2>7
    <3> QED
      BY <2>3, <2>4, <3>1 DEF Sorted
  <2> QED
    BY <2>1, <2>2, <2>4, <2>5, <2>6, <2>7 DEF HistoryTyped, Sorted
<1>6. CASE UNCHANGED vars
  BY <1>1, <1>6 DEF vars, HistoryTyped, Sorted
<1> QED
  BY <1>4, <1>5, <1>6, NextSteps

-----------------------------------------------------------------------------
(* What is saved.                                                          *)

\* The row of an event is inserted, or replaced.
LEMMA RowSaved ==
    ASSUME TypesOK, NEW c \in Callers, SaveMutationRecord(c)
    PROVE  LET r == RecordOf(call[c]) IN
           /\ r \in Records /\ r.event \in 1 .. events /\ r.event = call[c].event
           /\ ledger' = {s \in ledger : s.event # r.event} \cup {r}
<1>1. call[c] \in Calls /\ call[c].event \in 1 .. events
  BY DEF SaveMutationRecord, TypesOK, CallsTyped, Saving
<1>2. call[c].event \in Events
  <2>1. call[c].event # NoEvent
    BY <1>1 DEF NoEvent, TypesOK, Counted
  <2> QED
    BY <1>1, <2>1 DEF Calls
<1>3. RecordOf(call[c]) \in Records /\ RecordOf(call[c]).event = call[c].event
  BY <1>1, <1>2 DEF RecordOf, Records, Calls
<1> QED
  BY <1>1, <1>3 DEF SaveMutationRecord

LEMMA StoreTypedNext == TypesOK /\ [Next]_vars => StoreTyped'
<1> SUFFICES ASSUME TypesOK, [Next]_vars
             PROVE  StoreTyped'
  OBVIOUS
<1>1. /\ writes \in Nat /\ undos \in Nat /\ events \in Nat /\ events' \in Nat
      /\ writes' \in Nat /\ undos' \in Nat
  BY CountedNext DEF TypesOK, Counted
<1>2. ASSUME events <= events', writes + undos <= writes' + undos'
      PROVE  /\ snapshot.seq <= 1 + writes' + undos'
             /\ \A r \in ledger : r.event <= events'
             /\ 1 .. events \subseteq 1 .. events'
  <2>1. snapshot.seq \in Nat /\ snapshot.seq <= 1 + writes + undos
    BY DEF TypesOK, StoreTyped, States, Seqs
  <2>2. \A r \in ledger : r.event \in Nat /\ r.event <= events
    BY DEF TypesOK, StoreTyped, Records, Events
  <2>3. snapshot.seq <= 1 + writes' + undos'
    BY <1>1, <1>2, <2>1, SumGrows
  <2>4. \A r \in ledger : r.event <= events'
    BY <1>1, <1>2, <2>2
  <2> QED
    BY <1>1, <1>2, <2>3, <2>4
<1>3. ASSUME NEW c \in Callers, CallStep(c) \/ Undo(c)
      PROVE  StoreTyped'
  <2>1. events <= events' /\ writes + undos <= writes' + undos'
    BY <1>1, <1>3, CallStepCalls
  <2>2. CASE UNCHANGED storeVars
    BY <1>2, <2>1, <2>2 DEF TypesOK, StoreTyped, storeVars
  <2>3. CASE SaveSnapshot(c)
    <3>1. snapshot' = call[c].state /\ UNCHANGED <<ledger, restarts, lost, answered, writes, undos, events>>
      BY <2>3 DEF SaveSnapshot
    <3>2. call[c].state \in States /\ call[c].state.seq <= 1 + writes + undos
      BY DEF TypesOK, CallsTyped, Calls
    <3> QED
      BY <3>1, <3>2 DEF TypesOK, StoreTyped
  <2>4. CASE SaveMutationRecord(c)
    <3> DEFINE r == RecordOf(call[c])
               kept == {s \in ledger : s.event # r.event}
    <3>1. /\ r \in Records /\ r.event \in 1 .. events
          /\ ledger' = kept \cup {r}
          /\ UNCHANGED <<snapshot, restarts, lost, answered, writes, undos, events>>
      BY <2>4, RowSaved DEF SaveMutationRecord
    <3> HIDE DEF r
    <3>2. IsFiniteSet(kept)
      BY FS_Subset DEF TypesOK, StoreTyped
    <3>3. IsFiniteSet(ledger')
      BY <3>1, <3>2, FS_AddElement
    <3>4. \A s, q \in ledger' : s.event = q.event => s = q
      BY <3>1 DEF TypesOK, StoreTyped
    <3>5. \A s \in ledger' : s.event <= events
      BY <1>1, <3>1 DEF TypesOK, StoreTyped
    <3> QED
      BY <3>1, <3>3, <3>4, <3>5 DEF TypesOK, StoreTyped
  <2>5. CASE StoreError(c)
    <3>1. /\ lost' = lost \cup {call[c].event} /\ call[c].event \in 1 .. events
          /\ UNCHANGED <<snapshot, ledger, restarts, answered, writes, undos, events>>
      BY <2>5 DEF StoreError, TypesOK, CallsTyped, Saving
    <3> QED
      BY <3>1 DEF TypesOK, StoreTyped
  <2>6. CASE Answer(c)
    <3>1. /\ answered' = answered \cup {<<call[c].event, call[c].attached>>}
          /\ call[c].event \in 1 .. events /\ call[c].attached \in BOOLEAN
          /\ UNCHANGED <<snapshot, ledger, restarts, lost, writes, undos, events>>
      BY <2>6 DEF Answer, TypesOK, CallsTyped, Saving, Calls
    <3> QED
      BY <3>1 DEF TypesOK, StoreTyped
  <2>7. CASE \/ Begin(c) \/ EditCard(c) \/ DeleteTicket(c) \/ UnknownCard(c) \/ After(c)
             \/ RecordMutation(c) \/ AttachExternalConfirmations(c) \/ Undo(c)
    BY <2>2, <2>7 DEF Begin, EditCard, DeleteTicket, Change, UnknownCard, After, RecordMutation,
         AttachExternalConfirmations, Undo, UndoLastMutation
  <2> QED
    BY <1>3, <2>3, <2>4, <2>5, <2>6, <2>7 DEF CallStep
<1>4. CASE Restart
  <2>1. /\ restarts' = restarts + 1 /\ restarts < MaxRestarts
        /\ UNCHANGED <<writes, undos, events, snapshot, ledger, lost, answered>>
    BY <1>4 DEF Restart
  <2>2. restarts' \in 0 .. MaxRestarts
    BY <2>1 DEF TypesOK, StoreTyped
  <2> QED
    BY <2>1, <2>2 DEF TypesOK, StoreTyped
<1>5. CASE UNCHANGED vars
  BY <1>5 DEF vars, TypesOK, StoreTyped
<1> QED
  BY <1>3, <1>4, <1>5, NextSteps

LEMMA TypesInvariant == Spec => []TypesOK
<1>1. TypesOK /\ [Next]_vars => TypesOK'
  BY CountedNext, CallsTypedNext, HistoryTypedNext, StoreTypedNext DEF TypesOK
<1> QED
  BY <1>1, TypesInit, PTL DEF Spec

\* However calls interleave and restarts cut them short, every event is a
\* change or an undo, the history stays within its limit, and a mutation has
\* one row in the ledger (recordMutation, SaveMutationRecord).
THEOREM BoardTypes == Spec => []TypeOK
<1> SUFFICES ASSUME TypesOK
             PROVE  TypeOK
  BY TypesInvariant, PTL
<1>1. sequenceNumber \in Seqs /\ events \in 0 .. MaxWrites + MaxUndos /\ 1 .. events \subseteq Events
  <2>1. /\ writes \in 0 .. MaxWrites /\ undos \in 0 .. MaxUndos
        /\ sequenceNumber \in 1 .. 1 + writes + undos
        /\ Cardinality(Unrecorded) \in Nat /\ events \in Nat
        /\ events + Cardinality(Unrecorded) <= writes + undos
    BY FS_CardinalityType DEF TypesOK, Counted
  <2> QED
    BY <2>1 DEF Seqs, Events
<1>2. lost \subseteq Events /\ answered \subseteq Events \X BOOLEAN
  BY <1>1 DEF TypesOK, StoreTyped
<1> QED
  BY <1>1, <1>2 DEF TypesOK, Counted, CallsTyped, HistoryTyped, StoreTyped, TypeOK, Calls

-----------------------------------------------------------------------------
(* What was answered is kept.                                              *)

\* The event is in the history, or newer ones pushed it out; it has a row.
InHistory(h, e, attached) ==
    \/ \E i \in 1 .. Len(h) : h[i].event = e /\ (attached => h[i].attached)
    \/ Len(h) = MaxHistory /\ h[1].event > e
HasRow(rows, e, attached) == \E r \in rows : r.event = e /\ (attached => r.attached)

\* A call being saved is in the history, has its event to itself, and its row
\* is there once it comes to its answer, unless SQLite refused it.
KeptInv ==
    /\ \A a \in answered : a[1] \notin lost => HasRow(ledger, a[1], a[2]) /\ InHistory(history, a[1], a[2])
    /\ \A c \in Callers : call[c].pc \in Saving =>
          /\ InHistory(history, call[c].event, call[c].attached)
          /\ call[c].pc = "external" /\ call[c].event \notin lost
                => HasRow(ledger, call[c].event, call[c].attached)
          /\ \A d \in Callers \ {c} : call[d].pc \in Saving => call[d].event # call[c].event
          /\ \A a \in answered : a[1] # call[c].event

LEMMA AmendedKeeps ==
    ASSUME TypesOK, Amended, NEW e \in Nat, NEW attached \in BOOLEAN, InHistory(history, e, attached)
    PROVE  InHistory(history', e, attached)
<1>1. Len(history) \in Nat /\ MaxHistory \in Nat /\ MaxHistory >= 1
  BY LenProperties DEF TypesOK, HistoryTyped
<1>2. Len(history') = Len(history)
  BY DEF Amended
<1>3. CASE \E i \in 1 .. Len(history) : history[i].event = e /\ (attached => history[i].attached)
  BY <1>2, <1>3 DEF Amended, InHistory
<1>4. CASE Len(history) = MaxHistory /\ history[1].event > e
  <2>1. history'[1].event = history[1].event
    BY <1>1, <1>4 DEF Amended
  <2> QED
    BY <1>2, <1>4, <2>1 DEF InHistory
<1> QED
  BY <1>3, <1>4 DEF InHistory

LEMMA AppendedKeeps ==
    ASSUME TypesOK, NEW c \in Callers, RecordMutation(c),
           NEW e \in 1 .. events, NEW attached \in BOOLEAN, InHistory(history, e, attached)
    PROVE  InHistory(history', e, attached)
<1> DEFINE r == RecordOf(call'[c])
           n == Len(history')
           m == Len(history)
<1>1. /\ r \in Records /\ r.event = events + 1
      /\ history' = Newest(MaxHistory, Append(history, r))
  BY RecordMade
<1> HIDE DEF r
<1>2. /\ history \in Seq(Records) /\ m <= MaxHistory /\ m \in Nat /\ events \in Nat /\ Sorted(history)
      /\ \A i \in 1 .. m : history[i].event \in Nat
  <2>1. \A i \in 1 .. m : history[i].event \in Nat
    <3> TAKE i \in 1 .. m
    <3>1. history[i] \in Records
      BY ElementOfSeq DEF TypesOK, HistoryTyped
    <3> QED
      BY <3>1 DEF Records, Events
  <2> QED
    BY <2>1, LenProperties DEF TypesOK, HistoryTyped, Counted
<1>3. /\ n \in 1 .. MaxHistory /\ history'[n] = r
      /\ \E k \in {0, 1} :
            /\ k = 1 => n = MaxHistory /\ m = MaxHistory
            /\ k = 0 => n = m + 1
            /\ \A i \in 1 .. n - 1 : i + k \in 1 .. m /\ history'[i] = history[i + k]
  BY <1>1, <1>2, Appended
<1>4. PICK k \in {0, 1} :
            /\ k = 1 => n = MaxHistory /\ m = MaxHistory
            /\ k = 0 => n = m + 1
            /\ \A i \in 1 .. n - 1 : i + k \in 1 .. m /\ history'[i] = history[i + k]
  BY <1>3
<1>5. SUFFICES \/ \E i \in 1 .. n : history'[i].event = e /\ (attached => history'[i].attached)
               \/ n = MaxHistory /\ history'[1].event > e
  BY DEF InHistory
<1> HIDE DEF n
\* What was pushed out, or the entry before it, is older than what is first now.
<1>6. ASSUME k = 1, NEW x \in Nat, x = history[1].event, x >= e
      PROVE  n = MaxHistory /\ history'[1].event > e
  <2>1. CASE n = 1
    <3>1. history'[1].event = events + 1
      BY <1>1, <1>3, <2>1
    <3> QED
      BY <1>2, <1>4, <1>6, <3>1
  <2>2. CASE n # 1
    <3>1. 1 \in 1 .. n - 1 /\ history'[1] = history[2] /\ 2 \in 1 .. m
      BY <1>3, <1>4, <1>6, <2>2
    <3>2. history[2].event > history[1].event /\ history[2].event \in Nat
      BY <1>2, <3>1 DEF Sorted
    <3> QED
      BY <1>4, <1>6, <3>1, <3>2
  <2> QED
    BY <2>1, <2>2
<1>7. ASSUME NEW i \in 1 .. m, history[i].event = e, attached => history[i].attached
      PROVE  \/ \E j \in 1 .. n : history'[j].event = e /\ (attached => history'[j].attached)
             \/ n = MaxHistory /\ history'[1].event > e
  <2>1. CASE k = 0
    <3>1. i \in 1 .. n /\ i \in 1 .. n - 1 /\ i + k = i
      BY <1>2, <1>4, <2>1
    <3>2. history'[i] = history[i]
      BY <1>4, <3>1
    <3> QED
      BY <1>7, <3>1, <3>2
  <2>2. CASE k = 1 /\ i = 1
    BY <1>6, <1>7, <2>2
  <2>3. CASE k = 1 /\ i # 1
    <3>1. i - 1 \in 1 .. n /\ i - 1 \in 1 .. n - 1 /\ (i - 1) + k = i
      BY <1>2, <1>4, <2>3
    <3>2. history'[i - 1] = history[i]
      BY <1>4, <3>1
    <3> QED
      BY <1>7, <3>1, <3>2
  <2> QED
    BY <2>1, <2>2, <2>3
<1>8. CASE m = MaxHistory /\ history[1].event > e
  <2>1. k = 1
    BY <1>3, <1>4, <1>8
  <2>2. 1 \in 1 .. m
    BY <1>8
  <2> QED
    BY <1>2, <1>6, <1>8, <2>1, <2>2
<1> QED
  BY <1>7, <1>8 DEF InHistory

LEMMA KeptInit == Init => KeptInv
BY DEF Init, KeptInv, Idle, Saving

\* A restart reloads what has a row, or newer rows push it out.
LEMMA ReloadedKeeps ==
    ASSUME TypesOK, Restart, NEW e \in Nat, NEW attached \in BOOLEAN, HasRow(ledger, e, attached)
    PROVE  InHistory(history', e, attached)
<1> DEFINE b == ByTime(ledger)
           n == Len(history')
           k == Len(b) - n
<1>1. PICK r \in ledger : r.event = e /\ (attached => r.attached)
  BY DEF HasRow
<1>2. /\ b \in Seq(Records) /\ Sorted(b) /\ Len(b) \in Nat
      /\ \E j \in 1 .. Len(b) : b[j] = r
  BY ByTimeSorts, LenProperties DEF TypesOK, StoreTyped
<1>3. PICK j \in 1 .. Len(b) : b[j] = r
  BY <1>2
<1>4. \A i \in 1 .. Len(b) : b[i].event \in Nat
  <2> HIDE DEF b
  <2> TAKE i \in 1 .. Len(b)
  <2>1. b[i] \in Records
    BY <1>2, ElementOfSeq
  <2> QED
    BY <2>1 DEF Records, Events
<1>5. history' = Newest(MaxHistory, b)
  BY DEF Restart
<1> HIDE DEF b
<1>6. /\ n = IF Len(b) <= MaxHistory THEN Len(b) ELSE MaxHistory
      /\ \A i \in 1 .. n : i + k \in 1 .. Len(b) /\ history'[i] = b[i + k]
  BY <1>2, <1>5, NewestTail
<1>7. SUFFICES \/ \E i \in 1 .. n : history'[i].event = e /\ (attached => history'[i].attached)
               \/ n = MaxHistory /\ history'[1].event > e
  BY DEF InHistory
<1>8. n \in Nat /\ k \in Nat /\ (k > 0 => n = MaxHistory) /\ (k = 0 => n = Len(b))
  BY <1>2, <1>6
<1>9. k + n = Len(b)
  BY <1>2, <1>8
<1> HIDE DEF n, k
<1>10. CASE j > k
  <2>1. j - k \in 1 .. n /\ (j - k) + k = j
    BY <1>2, <1>8, <1>9, <1>10
  <2>2. history'[j - k] = b[j]
    BY <1>6, <2>1
  <2> QED
    BY <1>1, <1>3, <2>1, <2>2
<1>11. CASE j <= k
  <2>1. n = MaxHistory /\ 1 \in 1 .. n /\ 1 + k \in 1 .. Len(b) /\ j < 1 + k
    BY <1>2, <1>8, <1>9, <1>11
  <2>2. history'[1] = b[1 + k]
    BY <1>6, <2>1
  <2>3. b[j].event < b[1 + k].event
    BY <1>2, <2>1 DEF Sorted
  <2> QED
    BY <1>1, <1>3, <1>4, <2>1, <2>2, <2>3
<1> QED
  BY <1>8, <1>10, <1>11

\* What a caller's step does to the rows, the answers and the other calls.
LEMMA StepKeeps ==
    ASSUME TypesOK, NEW c \in Callers, CallStep(c) \/ Undo(c)
    PROVE  /\ \A e \in 1 .. events, attached \in BOOLEAN :
                 InHistory(history, e, attached) => InHistory(history', e, attached)
           /\ \A e \in 1 .. events, attached \in BOOLEAN :
                 HasRow(ledger, e, attached) /\ ~(SaveMutationRecord(c) /\ e = call[c].event)
                    => HasRow(ledger', e, attached)
           /\ lost \subseteq lost'
           /\ answered' = answered \/ Answer(c)
           /\ \A d \in Callers \ {c} : call'[d] = call[d]
<1>1. ASSUME NEW e \in 1 .. events, NEW attached \in BOOLEAN, InHistory(history, e, attached)
      PROVE  InHistory(history', e, attached)
  <2>1. e \in Nat
    BY DEF TypesOK, Counted
  <2>2. CASE RecordMutation(c)
    BY <1>1, <2>2, AppendedKeeps
  <2>3. CASE ~RecordMutation(c)
    BY <1>1, <2>1, <2>3, HistoryStep, AmendedKeeps
  <2> QED
    BY <2>2, <2>3
<1>2. /\ ledger' = ledger \/ SaveMutationRecord(c)
      /\ lost \subseteq lost'
      /\ answered' = answered \/ Answer(c)
  BY DEF CallStep, Undo, Begin, EditCard, DeleteTicket, Change, UnknownCard, After, RecordMutation,
       SaveSnapshot, SaveMutationRecord, StoreError, AttachExternalConfirmations, Answer,
       UndoLastMutation, storeVars
<1>3. ASSUME NEW e \in 1 .. events, NEW attached \in BOOLEAN, HasRow(ledger, e, attached),
             ~(SaveMutationRecord(c) /\ e = call[c].event)
      PROVE  HasRow(ledger', e, attached)
  <2>1. PICK r \in ledger : r.event = e /\ (attached => r.attached)
    BY <1>3 DEF HasRow
  <2>2. r \in ledger'
    BY <1>2, <1>3, <2>1, RowSaved
  <2> QED
    BY <2>1, <2>2 DEF HasRow
<1>4. \A d \in Callers \ {c} : call'[d] = call[d]
  BY CallStepCalls DEF TypesOK, CallsTyped
<1> QED
  BY <1>1, <1>2, <1>3, <1>4

\* The event of a call that is being saved is its own: it had it before, or
\* it has just been given.
LEMMA OwnEvent ==
    ASSUME TypesOK, NEW c \in Callers, CallStep(c) \/ Undo(c), call'[c].pc \in Saving
    PROVE  \/ RecordMutation(c) /\ call'[c].event = events + 1 /\ call'[c].pc = "snapshot"
           \/ /\ call[c].pc \in Saving /\ call'[c].event = call[c].event
              /\ \/ call'[c].attached = call[c].attached
                 \/ AttachExternalConfirmations(c)
<1>1. call \in [Callers -> Calls]
  BY DEF TypesOK, CallsTyped
<1>2. CASE Begin(c) \/ UnknownCard(c) \/ Answer(c)
  <2>1. call'[c] = Idle \/ call'[c] = [Idle EXCEPT !.pc = "apply", !.before = cards]
    BY <1>1, <1>2 DEF Begin, UnknownCard, Answer
  <2>2. Idle.pc \notin Saving /\ [Idle EXCEPT !.pc = "apply", !.before = cards].pc \notin Saving
    BY DEF Idle, Saving
  <2> QED
    BY <2>1, <2>2
<1>3. CASE EditCard(c) \/ DeleteTicket(c) \/ After(c)
  <2>1. call'[c].pc \in {"after", "record"}
    BY <1>1, <1>3 DEF EditCard, DeleteTicket, Change, After, Calls
  <2> QED
    BY <2>1 DEF Saving
<1>4. CASE RecordMutation(c)
  <2>1. call'[c] = [call[c] EXCEPT !.pc = "snapshot", !.event = events + 1]
    BY <1>4, RecordMade
  <2> QED
    BY <1>1, <1>4, <2>1 DEF Calls
<1>5. CASE SaveSnapshot(c) \/ SaveMutationRecord(c) \/ StoreError(c)
  <2>1. call[c].pc \in Saving
    BY <1>5 DEF SaveSnapshot, SaveMutationRecord, StoreError, Saving
  <2>2. PICK pc \in {"ledger", "external"} : call' = [call EXCEPT ![c].pc = pc]
    BY <1>5 DEF SaveSnapshot, SaveMutationRecord, StoreError
  <2> QED
    BY <1>1, <2>1, <2>2 DEF Calls
<1>6. CASE AttachExternalConfirmations(c)
  <2>1. call[c].pc = "external" /\ call'[c].event = call[c].event
    BY <1>1, <1>6 DEF AttachExternalConfirmations, Calls
  <2> QED
    BY <1>6, <2>1 DEF Saving
<1>7. CASE Undo(c)
  <2>1. \E u : call' = [call EXCEPT ![c] = u] /\ u.pc = "record"
    <3>1. PICK e : UndoLastMutation(c, e)
      BY <1>7 DEF Undo
    <3> DEFINE t == history[Target(e)]
               u == [Idle EXCEPT !.pc = "record", !.before = cards, !.after = t.before,
                                 !.undoOf = t.event,
                                 !.state = [cards |-> t.before, seq |-> sequenceNumber + 1]]
    <3>2. call' = [call EXCEPT ![c] = u]
      BY <3>1 DEF UndoLastMutation
    <3>3. u.pc = "record"
      BY DEF Idle
    <3> QED
      BY <3>2, <3>3
  <2>2. call'[c].pc = "record"
    BY <1>1, <2>1
  <2> QED
    BY <2>2 DEF Saving
<1> QED
  BY <1>2, <1>3, <1>4, <1>5, <1>6, <1>7 DEF CallStep

LEMMA KeptInvNext == TypesOK /\ KeptInv /\ [Next]_vars => KeptInv'
<1> SUFFICES ASSUME TypesOK, KeptInv, [Next]_vars
             PROVE  KeptInv'
  OBVIOUS
<1>1. /\ call \in [Callers -> Calls] /\ events \in Nat
      /\ \A c \in Callers : call[c].pc \in Saving =>
            call[c].event \in 1 .. events /\ call[c].attached \in BOOLEAN
      /\ \A a \in answered : a[1] \in 1 .. events /\ a[2] \in BOOLEAN
  BY DEF TypesOK, CallsTyped, Counted, StoreTyped, Calls
<1>2. ASSUME NEW c \in Callers, CallStep(c) \/ Undo(c)
      PROVE  KeptInv'
  <2>1. /\ \A e \in 1 .. events, attached \in BOOLEAN :
              InHistory(history, e, attached) => InHistory(history', e, attached)
        /\ \A e \in 1 .. events, attached \in BOOLEAN :
              HasRow(ledger, e, attached) /\ ~(SaveMutationRecord(c) /\ e = call[c].event)
                 => HasRow(ledger', e, attached)
        /\ lost \subseteq lost'
        /\ answered' = answered \/ Answer(c)
        /\ \A d \in Callers \ {c} : call'[d] = call[d]
    BY <1>2, StepKeeps
  <2>2. call'[c].pc \in Saving =>
          /\ \A d \in Callers \ {c} : call[d].pc \in Saving => call[d].event # call'[c].event
          /\ \A a \in answered : a[1] # call'[c].event
    <3>1. CASE call'[c].event = events + 1
      BY <1>1, <3>1
    <3>2. CASE call[c].pc \in Saving /\ call'[c].event = call[c].event
      BY <3>2 DEF KeptInv
    <3> QED
      BY <1>2, <3>1, <3>2, OwnEvent
  <2>3. Answer(c) => /\ answered' = answered \cup {<<call[c].event, call[c].attached>>}
                     /\ call[c].pc \in Saving /\ call[c].pc = "external"
                     /\ call'[c].pc \notin Saving
                     /\ lost' = lost /\ ledger' = ledger
    BY <1>1 DEF Answer, Saving, Idle
  <2>4. SaveMutationRecord(c) => call[c].pc \in Saving
    BY DEF SaveMutationRecord, Saving
  \* The answers.
  <2>5. ASSUME NEW a \in answered, a[1] \notin lost'
        PROVE  HasRow(ledger', a[1], a[2]) /\ InHistory(history', a[1], a[2])
    <3>1. HasRow(ledger, a[1], a[2]) /\ InHistory(history, a[1], a[2])
      BY <2>1, <2>5 DEF KeptInv
    <3>2. ~(SaveMutationRecord(c) /\ a[1] = call[c].event)
      BY <2>4 DEF KeptInv
    <3> QED
      BY <1>1, <2>1, <3>1, <3>2
  <2>6. ASSUME Answer(c), call[c].event \notin lost'
        PROVE  HasRow(ledger', call[c].event, call[c].attached) /\ InHistory(history', call[c].event, call[c].attached)
    <3>1. HasRow(ledger, call[c].event, call[c].attached) /\ InHistory(history, call[c].event, call[c].attached)
      BY <2>3, <2>6 DEF KeptInv
    <3>2. ~SaveMutationRecord(c)
      BY <2>3, <2>6 DEF SaveMutationRecord
    <3> QED
      BY <1>1, <2>1, <2>3, <2>6, <3>1, <3>2
  <2>7. \A a \in answered' : a[1] \notin lost' => HasRow(ledger', a[1], a[2]) /\ InHistory(history', a[1], a[2])
    <3> SUFFICES ASSUME NEW a \in answered', a[1] \notin lost'
                 PROVE  HasRow(ledger', a[1], a[2]) /\ InHistory(history', a[1], a[2])
      OBVIOUS
    <3>1. CASE a \in answered
      BY <2>5, <3>1
    <3>2. CASE a \notin answered
      <4>1. Answer(c) /\ a = <<call[c].event, call[c].attached>>
        BY <2>1, <2>3, <3>2
      <4>2. a[1] = call[c].event /\ a[2] = call[c].attached
        BY <4>1
      <4> QED
        BY <2>6, <4>1, <4>2
    <3> QED
      BY <3>1, <3>2
  \* The other calls.
  <2>8. ASSUME NEW d \in Callers \ {c}, call'[d].pc \in Saving
        PROVE  /\ InHistory(history', call'[d].event, call'[d].attached)
               /\ call'[d].pc = "external" /\ call'[d].event \notin lost'
                     => HasRow(ledger', call'[d].event, call'[d].attached)
               /\ \A o \in Callers \ {d} : call'[o].pc \in Saving => call'[o].event # call'[d].event
               /\ \A a \in answered' : a[1] # call'[d].event
    <3>1. call'[d] = call[d] /\ call[d].pc \in Saving
      BY <2>1, <2>8
    <3>2. /\ InHistory(history, call[d].event, call[d].attached)
          /\ call[d].pc = "external" /\ call[d].event \notin lost => HasRow(ledger, call[d].event, call[d].attached)
          /\ \A o \in Callers \ {d} : call[o].pc \in Saving => call[o].event # call[d].event
          /\ \A a \in answered : a[1] # call[d].event
      BY <3>1 DEF KeptInv
    <3>3. call[d].event \in 1 .. events /\ call[d].attached \in BOOLEAN
      BY <1>1, <3>1
    <3>4. InHistory(history', call'[d].event, call'[d].attached)
      BY <2>1, <3>1, <3>2, <3>3
    <3>5. ASSUME call'[d].pc = "external", call'[d].event \notin lost'
          PROVE  HasRow(ledger', call'[d].event, call'[d].attached)
      <4>1. HasRow(ledger, call[d].event, call[d].attached)
        BY <2>1, <3>1, <3>2, <3>5
      <4>2. ~(SaveMutationRecord(c) /\ call[d].event = call[c].event)
        BY <2>4, <3>2
      <4> QED
        BY <2>1, <3>1, <3>3, <4>1, <4>2
    <3>6. ASSUME NEW o \in Callers \ {d}, call'[o].pc \in Saving
          PROVE  call'[o].event # call'[d].event
      BY <2>1, <2>2, <3>1, <3>2, <3>6
    <3>7. \A a \in answered' : a[1] # call'[d].event
      BY <2>1, <2>3, <3>1, <3>2
    <3> QED
      BY <3>4, <3>5, <3>6, <3>7
  \* The caller itself.
  <2>9. ASSUME call'[c].pc \in Saving
        PROVE  /\ InHistory(history', call'[c].event, call'[c].attached)
               /\ call'[c].pc = "external" /\ call'[c].event \notin lost'
                     => HasRow(ledger', call'[c].event, call'[c].attached)
    <3>1. CASE RecordMutation(c) /\ call'[c].event = events + 1 /\ call'[c].pc = "snapshot"
      <4> DEFINE r == RecordOf(call'[c])
      <4>1. r \in Records /\ history' = Newest(MaxHistory, Append(history, r))
        BY <3>1, RecordMade
      <4>2. r.event = call'[c].event /\ r.attached = call'[c].attached
        BY DEF RecordOf
      <4> HIDE DEF r
      <4>3. Len(history') \in 1 .. MaxHistory /\ history'[Len(history')] = r
        BY <4>1, Appended DEF TypesOK, HistoryTyped
      <4>4. Len(history') \in 1 .. Len(history')
        BY <4>3
      <4>5. InHistory(history', call'[c].event, call'[c].attached)
        BY <4>2, <4>3, <4>4 DEF InHistory
      <4> QED
        BY <3>1, <4>5
    <3>2. CASE call[c].pc \in Saving /\ call'[c].event = call[c].event
                 /\ call'[c].attached = call[c].attached
      <4>1. InHistory(history, call[c].event, call[c].attached)
        BY <3>2 DEF KeptInv
      <4>2. InHistory(history', call'[c].event, call'[c].attached)
        BY <1>1, <2>1, <3>2, <4>1
      <4>3. ASSUME call'[c].pc = "external", call'[c].event \notin lost'
            PROVE  SaveMutationRecord(c)
        <5>1. ~StoreError(c)
          BY <3>2, <4>3 DEF StoreError
        <5>2. ~SaveSnapshot(c) /\ ~AttachExternalConfirmations(c)
          <6>1. call'[c].pc \notin {"ledger", "snapshot"}
            BY <4>3
          <6>2. SaveSnapshot(c) => call'[c].pc = "ledger"
            BY <1>1 DEF SaveSnapshot, Calls
          <6>3. AttachExternalConfirmations(c) => call'[c].pc = "snapshot"
            BY <1>1 DEF AttachExternalConfirmations, Calls
          <6> QED
            BY <6>1, <6>2, <6>3
        <5>3. ~Begin(c) /\ ~EditCard(c) /\ ~DeleteTicket(c) /\ ~UnknownCard(c) /\ ~After(c)
              /\ ~RecordMutation(c) /\ ~Undo(c)
          <6>1. call[c].pc \notin {"idle", "apply", "after", "record"}
            BY <3>2 DEF Saving
          <6>2. ~Begin(c) /\ ~UnknownCard(c)
            BY <6>1 DEF Begin, UnknownCard
          <6>3. ~EditCard(c) /\ ~DeleteTicket(c)
            BY <6>1 DEF EditCard, DeleteTicket, Change
          <6>4. ~After(c) /\ ~RecordMutation(c) /\ ~Undo(c)
            BY <6>1 DEF After, RecordMutation, Undo, UndoLastMutation
          <6> QED
            BY <6>2, <6>4, <6>3
        <5>4. ~Answer(c)
          BY <2>3, <2>9
        <5> QED
          BY <1>2, <5>1, <5>2, <5>3, <5>4 DEF CallStep
      <4>4. ASSUME SaveMutationRecord(c)
            PROVE  HasRow(ledger', call'[c].event, call'[c].attached)
        <5> DEFINE r == RecordOf(call[c])
        <5>1. r \in ledger' /\ r.event = call'[c].event /\ r.attached = call'[c].attached
          BY <3>2, <4>4, RowSaved DEF RecordOf
        <5> QED
          BY <5>1 DEF HasRow
      <4> QED
        BY <4>2, <4>3, <4>4
    <3>3. CASE AttachExternalConfirmations(c)
      <4>1. PICK i \in DOMAIN history :
              /\ history[i].event = call[c].event
              /\ history' = [history EXCEPT ![i].attached = TRUE]
              /\ call' = [call EXCEPT ![c].pc = "snapshot", ![c].attached = TRUE,
                                      ![c].reverted = history[i].reverted,
                                      ![c].state = SnapshotState]
        BY <3>3 DEF AttachExternalConfirmations
      <4>2. call'[c].pc = "snapshot" /\ call'[c].event = call[c].event
        BY <1>1, <4>1 DEF Calls
      <4>3. /\ history \in Seq(Records) /\ history[i] \in Records /\ i \in 1 .. Len(history)
            /\ Len(history') = Len(history)
        <5>1. history \in Seq(Records)
          BY DEF TypesOK, HistoryTyped
        <5>2. i \in 1 .. Len(history)
          BY <5>1, LenProperties
        <5> QED
          BY <4>1, <5>1, <5>2, MarkAmends, ElementOfSeq DEF Amended
      <4>4. history'[i] = [history[i] EXCEPT !.attached = TRUE]
        BY <4>1
      <4>5. history'[i].event = call'[c].event /\ history'[i].attached
        BY <4>1, <4>2, <4>3, <4>4 DEF Records
      <4>6. InHistory(history', call'[c].event, call'[c].attached)
        BY <4>3, <4>5 DEF InHistory
      <4> QED
        BY <4>2, <4>6
    <3> QED
      BY <1>2, <2>9, <3>1, <3>2, <3>3, OwnEvent
  <2>10. call'[c].pc \in Saving =>
          /\ \A d \in Callers \ {c} : call'[d].pc \in Saving => call'[d].event # call'[c].event
          /\ \A a \in answered' : a[1] # call'[c].event
    BY <2>1, <2>2, <2>3
  <2> QED
    BY <2>7, <2>8, <2>9, <2>10 DEF KeptInv
<1>3. CASE Restart
  <2>1. UNCHANGED <<ledger, lost, answered>> /\ \A c \in Callers : call'[c].pc \notin Saving
    BY <1>3 DEF Restart, Idle, Saving
  <2>2. ASSUME NEW a \in answered, a[1] \notin lost
        PROVE  HasRow(ledger', a[1], a[2]) /\ InHistory(history', a[1], a[2])
    <3>1. HasRow(ledger, a[1], a[2])
      BY <2>2 DEF KeptInv
    <3>2. InHistory(history', a[1], a[2])
      BY <1>1, <1>3, <3>1, ReloadedKeeps
    <3> QED
      BY <2>1, <3>1, <3>2 DEF HasRow
  <2> QED
    BY <2>1, <2>2 DEF KeptInv
<1>4. CASE UNCHANGED vars
  BY <1>4 DEF vars, KeptInv, InHistory, HasRow
<1> QED
  BY <1>2, <1>3, <1>4, NextSteps

\* Whatever happens between the answer and the question, an answered mutation
\* has its row and is in the history, or newer ones pushed it out: the row is
\* written before the answer, and a new process reloads what has a row
\* (persistMutationRecord, ListMutationRecords).
THEOREM AnsweredAreKept == Spec => []AnsweredKept
<1>1. Init => TypesOK /\ KeptInv
  BY TypesInit, KeptInit
<1>2. TypesOK /\ KeptInv /\ [Next]_vars => KeptInv'
  BY KeptInvNext
<1>3. TypesOK /\ KeptInv => AnsweredKept
  <2> SUFFICES ASSUME TypesOK, KeptInv
               PROVE  AnsweredKept
    OBVIOUS
  <2>1. DOMAIN history = 1 .. Len(history)
    BY LenProperties DEF TypesOK, HistoryTyped
  <2> QED
    BY <2>1 DEF KeptInv, AnsweredKept, HasRow, InHistory
<1> QED
  BY <1>1, <1>2, <1>3, TypesInvariant, PTL DEF Spec

-----------------------------------------------------------------------------
(* Nothing is undone twice within one process.                             *)

\* The events that are known from the history or the ledger, each with the
\* event it undoes.
Known ==
    {<<r.event, r.undoOf>> : r \in ledger}
      \cup {<<history[i].event, history[i].undoOf>> : i \in 1 .. Len(history)}

\* What an undo claimed is marked in the history, and no other undo claims it:
\* neither one that is known nor one that a caller is at.
OnceInv ==
    restarts = 0 =>
      /\ \A k, m \in Known : k[2] # NoEvent /\ k[2] = m[2] => k[1] = m[1]
      /\ \A c \in Callers : call[c].pc \notin Saving \cup {"record"} => call[c].undoOf = NoEvent
      /\ \A c, d \in Callers :
            call[c].undoOf # NoEvent /\ call[c].undoOf = call[d].undoOf => c = d
      /\ \A c \in Callers, k \in Known :
            call[c].undoOf # NoEvent /\ call[c].undoOf = k[2] =>
              call[c].pc \in Saving /\ call[c].event = k[1]
      /\ \A k \in Known : k[2] <= events
      /\ \A c \in Callers : call[c].undoOf <= events
      /\ \A i \in 1 .. Len(history) :
            (\E k \in Known : k[2] = history[i].event)
              \/ (\E c \in Callers : call[c].undoOf = history[i].event)
              => history[i].reverted

LEMMA OnceInit == Init => OnceInv
<1> SUFFICES ASSUME Init
             PROVE  OnceInv
  OBVIOUS
<1>1. Known = {} /\ Len(history) = 0
  <2>1. history = <<>> /\ Len(history) = 0
    BY EmptySeq DEF Init
  <2> QED
    BY <2>1 DEF Init, Known
<1> QED
  BY <1>1 DEF Init, OnceInv, Idle, NoEvent

LEMMA KnownTyped ==
    ASSUME TypesOK
    PROVE  /\ \A k \in Known : k[1] \in 1 .. events /\ k[2] \in Nat
           /\ \A i \in 1 .. Len(history) :
                 /\ history[i] \in Records /\ history[i].event \in 1 .. events
                 /\ history[i].undoOf \in Nat
                 /\ <<history[i].event, history[i].undoOf>> \in Known
<1>1. \A i \in 1 .. Len(history) : history[i] \in Records /\ history[i].event <= events
  BY ElementOfSeq DEF TypesOK, HistoryTyped
<1>2. \A r \in ledger : r \in Records /\ r.event <= events
  BY DEF TypesOK, StoreTyped
<1>3. \A r \in Records : r.event \in Nat /\ r.event >= 1 /\ r.undoOf \in Nat
  BY DEF Records, Events, NoEvent
<1>4. events \in Nat
  BY DEF TypesOK, Counted
<1> QED
  BY <1>1, <1>2, <1>3, <1>4 DEF Known

\* A step makes one event known at most: that of the call being saved.
LEMMA KnownStep ==
    ASSUME TypesOK, NEW c \in Callers, CallStep(c) \/ Undo(c)
    PROVE  \A k \in Known' :
              \/ k \in Known
              \/ /\ RecordMutation(c) \/ SaveMutationRecord(c)
                 /\ k = <<call'[c].event, call'[c].undoOf>>
                 /\ call'[c].undoOf = call[c].undoOf
<1>1. call \in [Callers -> Calls]
  BY DEF TypesOK, CallsTyped
<1>2. CASE RecordMutation(c)
  <2> DEFINE r == RecordOf(call'[c])
             n == Len(history')
  <2>1. /\ r \in Records /\ history' = Newest(MaxHistory, Append(history, r))
        /\ ledger' = ledger
    BY <1>2, RecordMade DEF RecordMutation, storeVars
  <2>2. /\ r.event = call'[c].event /\ r.undoOf = call'[c].undoOf
        /\ call'[c].undoOf = call[c].undoOf
    <3>1. call'[c] = [call[c] EXCEPT !.pc = "snapshot", !.event = events + 1]
      BY <1>2, RecordMade
    <3> QED
      BY <1>1, <3>1 DEF RecordOf, Calls
  <2> HIDE DEF r
  <2>3. /\ history \in Seq(Records) /\ n \in 1 .. MaxHistory /\ history'[n] = r
        /\ \E k \in {0, 1} : \A i \in 1 .. n - 1 :
              i + k \in 1 .. Len(history) /\ history'[i] = history[i + k]
    BY <2>1, Appended DEF TypesOK, HistoryTyped
  <2>4. ASSUME NEW i \in 1 .. n
        PROVE  history'[i] = r \/ \E j \in 1 .. Len(history) : history'[i] = history[j]
    <3> HIDE DEF n
    <3>1. CASE i = n
      BY <2>3, <3>1
    <3>2. CASE i # n
      <4>1. i \in 1 .. n - 1
        BY <2>3, <3>2
      <4> QED
        BY <2>3, <4>1
    <3> QED
      BY <3>1, <3>2
  <2> SUFFICES ASSUME NEW k \in Known', k \notin Known
               PROVE  k = <<call'[c].event, call'[c].undoOf>>
    BY <1>2, <2>2
  <2>5. PICK i \in 1 .. n : k = <<history'[i].event, history'[i].undoOf>>
    BY <2>1 DEF Known
  <2>6. history'[i] = r
    BY <2>4, <2>5 DEF Known
  <2> QED
    BY <2>2, <2>5, <2>6
<1>3. CASE ~RecordMutation(c)
  <2>1. Amended
    BY <1>3, HistoryStep
  <2>2. \A i \in 1 .. Len(history') : <<history'[i].event, history'[i].undoOf>> \in Known
    BY <2>1 DEF Amended, Known
  <2>3. CASE SaveMutationRecord(c)
    <3>1. \A r \in ledger' : r \in ledger \/ r = RecordOf(call[c])
      BY <2>3, RowSaved
    <3>2. call'[c].event = call[c].event /\ call'[c].undoOf = call[c].undoOf
      BY <1>1, <2>3 DEF SaveMutationRecord, Calls
    <3>3. RecordOf(call[c]).event = call[c].event /\ RecordOf(call[c]).undoOf = call[c].undoOf
      BY DEF RecordOf
    <3> QED
      BY <2>2, <2>3, <3>1, <3>2, <3>3 DEF Known
  <2>4. CASE ~SaveMutationRecord(c)
    <3>1. ledger' = ledger
      BY <1>3, <2>4 DEF CallStep, Undo, Begin, EditCard, DeleteTicket, Change, UnknownCard, After,
           SaveSnapshot, StoreError, AttachExternalConfirmations, Answer, UndoLastMutation, storeVars
    <3> QED
      BY <2>2, <3>1 DEF Known
  <2> QED
    BY <2>3, <2>4
<1> QED
  BY <1>2, <1>3

\* What an undo claims, of the caller: the event it had claimed or, at the
\* beginning of the undo, one that is in the history and not marked.
LEMMA ClaimStep ==
    ASSUME TypesOK, NEW c \in Callers, CallStep(c)
    PROVE  \/ call'[c].undoOf = NoEvent
           \/ /\ call'[c].undoOf = call[c].undoOf
              /\ call[c].pc \in Saving \cup {"record"} => call'[c].pc \in Saving
<1>1. call \in [Callers -> Calls]
  BY DEF TypesOK, CallsTyped
<1>2. CASE Begin(c) \/ UnknownCard(c) \/ Answer(c)
  <2>1. call'[c] = Idle \/ call'[c] = [Idle EXCEPT !.pc = "apply", !.before = cards]
    BY <1>1, <1>2 DEF Begin, UnknownCard, Answer
  <2>2. Idle.undoOf = NoEvent /\ [Idle EXCEPT !.pc = "apply", !.before = cards].undoOf = NoEvent
    BY DEF Idle
  <2> QED
    BY <2>1, <2>2
<1>3. CASE EditCard(c) \/ DeleteTicket(c) \/ After(c)
  BY <1>1, <1>3 DEF EditCard, DeleteTicket, Change, After, Calls, Saving
<1>4. CASE RecordMutation(c)
  <2>1. call'[c] = [call[c] EXCEPT !.pc = "snapshot", !.event = events + 1]
    BY <1>4, RecordMade
  <2> QED
    BY <1>1, <2>1 DEF Calls, Saving
<1>5. CASE SaveSnapshot(c) \/ SaveMutationRecord(c) \/ StoreError(c)
  BY <1>1, <1>5 DEF SaveSnapshot, SaveMutationRecord, StoreError, Saving, Calls
<1>6. CASE AttachExternalConfirmations(c)
  BY <1>1, <1>6 DEF AttachExternalConfirmations, Calls, Saving
<1> QED
  BY <1>2, <1>3, <1>4, <1>5, <1>6 DEF CallStep

LEMMA OnceCallStep ==
    ASSUME TypesOK, OnceInv, NEW c \in Callers, CallStep(c)
    PROVE  OnceInv'
<1>1. restarts' = restarts
  BY DEF CallStep, Begin, EditCard, DeleteTicket, Change, UnknownCard, After, RecordMutation,
       SaveSnapshot, SaveMutationRecord, StoreError, AttachExternalConfirmations, Answer, storeVars
<1> SUFFICES ASSUME restarts = 0
             PROVE  OnceInv'
  BY <1>1 DEF OnceInv
<1>2. /\ \A k, m \in Known : k[2] # NoEvent /\ k[2] = m[2] => k[1] = m[1]
      /\ \A d \in Callers : call[d].pc \notin Saving \cup {"record"} => call[d].undoOf = NoEvent
      /\ \A d, o \in Callers :
            call[d].undoOf # NoEvent /\ call[d].undoOf = call[o].undoOf => d = o
      /\ \A d \in Callers, k \in Known :
            call[d].undoOf # NoEvent /\ call[d].undoOf = k[2] =>
              call[d].pc \in Saving /\ call[d].event = k[1]
      /\ \A k \in Known : k[2] <= events
      /\ \A d \in Callers : call[d].undoOf <= events
      /\ \A i \in 1 .. Len(history) :
            (\E k \in Known : k[2] = history[i].event)
              \/ (\E d \in Callers : call[d].undoOf = history[i].event)
              => history[i].reverted
  BY DEF OnceInv
<1>3. \A d \in Callers \ {c} : call'[d] = call[d]
  BY StepKeeps
<1>4. /\ \A d \in Callers : call[d].undoOf \in Nat /\ call'[d].undoOf \in Nat
      /\ events \in Nat /\ events' \in {events, events + 1}
  <2>1. call \in [Callers -> Calls] /\ call'[c] \in Calls
    BY CallStepCalls DEF TypesOK, CallsTyped
  <2>2. \A x \in Calls : x.undoOf \in Nat
    BY DEF Calls, Events, NoEvent
  <2> QED
    BY <1>3, <2>1, <2>2, CallStepCalls DEF TypesOK, Counted
<1>5. \A k \in Known' :
         \/ k \in Known
         \/ /\ RecordMutation(c) \/ SaveMutationRecord(c)
            /\ k = <<call'[c].event, call'[c].undoOf>>
            /\ call'[c].undoOf = call[c].undoOf
  BY KnownStep
<1>6. call'[c].undoOf # NoEvent =>
        /\ call'[c].undoOf = call[c].undoOf
        /\ call[c].pc \in Saving \cup {"record"} /\ call'[c].pc \in Saving
  BY <1>2, ClaimStep
<1>7. call[c].pc \in Saving /\ call'[c].pc \in Saving => call'[c].event = call[c].event
  BY OwnEvent DEF RecordMutation, Saving
<1>8. ~(RecordMutation(c) /\ call[c].pc \in Saving)
  BY DEF RecordMutation, Saving
\* What becomes known has the event of the call that knew it, if any did.
<1>9. ASSUME NEW k \in Known', k \notin Known, NEW m \in Known, k[2] # NoEvent, k[2] = m[2]
      PROVE  k[1] = m[1]
  <2>1. /\ k[1] = call'[c].event /\ k[2] = call'[c].undoOf
        /\ call'[c].undoOf = call[c].undoOf
    BY <1>5, <1>9
  <2>2. call[c].pc \in Saving /\ call[c].event = m[1]
    BY <1>2, <1>9, <2>1
  <2>3. call'[c].event = call[c].event
    BY <1>6, <1>7, <1>9, <2>1, <2>2
  <2> QED
    BY <2>1, <2>2, <2>3
<1>10. \A k, m \in Known' : k[2] # NoEvent /\ k[2] = m[2] => k[1] = m[1]
  <2> SUFFICES ASSUME NEW k \in Known', NEW m \in Known', k[2] # NoEvent, k[2] = m[2]
               PROVE  k[1] = m[1]
    OBVIOUS
  <2>1. CASE k \in Known /\ m \in Known
    BY <1>2, <2>1
  <2>2. CASE k \notin Known /\ m \in Known
    BY <1>9, <2>2
  <2>3. CASE k \in Known /\ m \notin Known
    BY <1>9, <2>3
  <2>4. CASE k \notin Known /\ m \notin Known
    BY <1>5, <2>4
  <2> QED
    BY <2>1, <2>2, <2>3, <2>4
<1>11. \A d \in Callers : call'[d].pc \notin Saving \cup {"record"} => call'[d].undoOf = NoEvent
  BY <1>2, <1>3, <1>6
<1>12. \A d, o \in Callers :
          call'[d].undoOf # NoEvent /\ call'[d].undoOf = call'[o].undoOf => d = o
  <2> SUFFICES ASSUME NEW d \in Callers, NEW o \in Callers,
                      call'[d].undoOf # NoEvent, call'[d].undoOf = call'[o].undoOf
               PROVE  d = o
    OBVIOUS
  <2>1. call'[d].undoOf = call[d].undoOf /\ call'[o].undoOf = call[o].undoOf
    BY <1>3, <1>6
  <2> QED
    BY <1>2, <2>1
<1>13. ASSUME NEW d \in Callers, NEW k \in Known', call'[d].undoOf # NoEvent,
              call'[d].undoOf = k[2]
       PROVE  call'[d].pc \in Saving /\ call'[d].event = k[1]
  <2>1. call'[d].undoOf = call[d].undoOf
    BY <1>3, <1>6, <1>13
  <2>2. CASE k \in Known
    <3>1. call[d].pc \in Saving /\ call[d].event = k[1]
      BY <1>2, <1>13, <2>1, <2>2
    <3> QED
      BY <1>3, <1>6, <1>7, <1>13, <3>1
  <2>3. CASE k \notin Known
    <3>1. k = <<call'[c].event, call'[c].undoOf>> /\ call'[c].undoOf = call[c].undoOf
      BY <1>5, <2>3
    <3>2. d = c
      BY <1>2, <1>13, <2>1, <3>1
    <3> QED
      BY <1>6, <1>13, <3>1, <3>2
  <2> QED
    BY <2>2, <2>3
<1>14. \A k \in Known' : k[2] <= events'
  <2> SUFFICES ASSUME NEW k \in Known'
               PROVE  k[2] <= events'
    OBVIOUS
  <2>1. k[2] \in Nat /\ k[2] <= events
    <3>1. CASE k \in Known
      BY <1>2, <3>1, KnownTyped
    <3>2. CASE k \notin Known
      BY <1>2, <1>4, <1>5, <3>2
    <3> QED
      BY <3>1, <3>2
  <2> QED
    BY <1>4, <2>1
<1>15. \A d \in Callers : call'[d].undoOf <= events'
  <2> SUFFICES ASSUME NEW d \in Callers
               PROVE  call'[d].undoOf <= events'
    OBVIOUS
  <2>1. call'[d].undoOf = NoEvent \/ call'[d].undoOf = call[d].undoOf
    BY <1>3, <1>6
  <2> QED
    BY <1>2, <1>4, <2>1 DEF NoEvent
\* Who claims an event after the step did so before it.
<1>16. ASSUME NEW e \in Nat \ {NoEvent},
              \/ \E k \in Known' : k[2] = e
              \/ \E d \in Callers : call'[d].undoOf = e
       PROVE  \/ \E k \in Known : k[2] = e
              \/ \E d \in Callers : call[d].undoOf = e
  <2>1. CASE \E k \in Known' : k[2] = e
    BY <1>5, <2>1
  <2>2. CASE \E d \in Callers : call'[d].undoOf = e
    BY <1>3, <1>6, <2>2
  <2> QED
    BY <1>16, <2>1, <2>2
<1>17. ASSUME NEW i \in 1 .. Len(history'),
              \/ \E k \in Known' : k[2] = history'[i].event
              \/ \E d \in Callers : call'[d].undoOf = history'[i].event
       PROVE  history'[i].reverted
  <2>1. CASE ~RecordMutation(c)
    <3>1. Amended
      BY <2>1, HistoryStep
    <3>2. i \in 1 .. Len(history) /\ history'[i].event = history[i].event
          /\ (history[i].reverted => history'[i].reverted)
      BY <3>1 DEF Amended
    <3>3. history[i].event \in Nat \ {NoEvent}
      <4>1. history[i].event \in 1 .. events
        BY <3>2, KnownTyped
      <4> QED
        BY <1>4, <4>1 DEF NoEvent
    <3> QED
      BY <1>2, <1>16, <1>17, <3>2, <3>3
  <2>2. CASE RecordMutation(c)
    <3> DEFINE r == RecordOf(call'[c])
               n == Len(history')
    <3>1. /\ r \in Records /\ history' = Newest(MaxHistory, Append(history, r))
          /\ r.event = events + 1
      BY <2>2, RecordMade
    <3> HIDE DEF r
    <3>2. /\ n \in 1 .. MaxHistory /\ history'[n] = r
          /\ \E k \in {0, 1} : \A j \in 1 .. n - 1 :
                j + k \in 1 .. Len(history) /\ history'[j] = history[j + k]
      BY <3>1, Appended DEF TypesOK, HistoryTyped
    <3> HIDE DEF n
    <3>3. CASE i = n
      <4>1. history'[i].event = events + 1 /\ events + 1 \in Nat \ {NoEvent}
        BY <1>4, <3>1, <3>2, <3>3 DEF NoEvent
      <4>2. \/ \E k \in Known : k[2] = events + 1
            \/ \E d \in Callers : call[d].undoOf = events + 1
        BY <1>16, <1>17, <4>1
      <4> QED
        BY <1>2, <1>4, <4>2, KnownTyped
    <3>4. CASE i # n
      <4>1. i \in 1 .. n - 1
        BY <3>2, <3>4 DEF n
      <4>2. PICK j \in 1 .. Len(history) : history'[i] = history[j]
        BY <3>2, <4>1
      <4>3. history[j].event \in Nat \ {NoEvent}
        <5>1. history[j].event \in 1 .. events
          BY KnownTyped
        <5> QED
          BY <1>4, <5>1 DEF NoEvent
      <4> QED
        BY <1>2, <1>16, <1>17, <4>2, <4>3
    <3> QED
      BY <3>3, <3>4
  <2> QED
    BY <2>1, <2>2
<1> QED
  BY <1>10, <1>11, <1>12, <1>13, <1>14, <1>15, <1>17 DEF OnceInv

LEMMA OnceUndo ==
    ASSUME TypesOK, OnceInv, NEW c \in Callers, Undo(c)
    PROVE  OnceInv'
<1> PICK e : UndoLastMutation(c, e)
  BY DEF Undo
<1> DEFINE k == Target(e)
<1>1. /\ k \in 1 .. Len(history) /\ k \in Undoable(e)
      /\ history \in Seq(Records) /\ Sorted(history)
  BY TargetIsNewest DEF UndoLastMutation, TypesOK, HistoryTyped
<1>2. ~history[k].reverted /\ history' = [history EXCEPT ![k].reverted = TRUE]
  BY <1>1 DEF Undoable, UndoLastMutation
<1>3. /\ call'[c].pc = "record" /\ call'[c].undoOf = history[k].event
      /\ events' = events /\ restarts' = restarts
  BY DEF UndoLastMutation, TypesOK, CallsTyped, Idle, storeVars
<1>4. \A d \in Callers \ {c} : call'[d] = call[d]
  BY StepKeeps
<1>5. \A m \in Known' : m \in Known
  BY KnownStep DEF UndoLastMutation, RecordMutation, SaveMutationRecord
<1> HIDE DEF k
<1> SUFFICES ASSUME restarts = 0
             PROVE  OnceInv'
  BY <1>3 DEF OnceInv
<1>6. /\ \A m \in Known : m[2] # history[k].event
      /\ \A d \in Callers : call[d].undoOf # history[k].event
  BY <1>1, <1>2 DEF OnceInv
<1>7. history[k].event \in 1 .. events /\ history[k].event # NoEvent
  <2>1. history[k].event \in 1 .. events /\ events \in Nat
    BY <1>1, KnownTyped DEF TypesOK, Counted
  <2> QED
    BY <2>1 DEF NoEvent
<1>8. ASSUME NEW i \in 1 .. Len(history'),
             \/ \E m \in Known' : m[2] = history'[i].event
             \/ \E d \in Callers : call'[d].undoOf = history'[i].event
      PROVE  history'[i].reverted
  <2>1. /\ i \in 1 .. Len(history) /\ history'[i].event = history[i].event
        /\ history[i].reverted => history'[i].reverted
    BY <1>1, <1>2, MarkAmends DEF Amended
  <2>2. CASE i = k
    <3>1. history'[k] = [history[k] EXCEPT !.reverted = TRUE] /\ history[k] \in Records
      BY <1>1, <1>2, LenProperties, ElementOfSeq
    <3> QED
      BY <2>2, <3>1 DEF Records
  <2>3. CASE i # k
    <3>1. history[i].event # history[k].event
      <4>1. i < k \/ k < i
        BY <1>1, <2>1, <2>3, LenProperties
      <4>2. history[i].event \in Nat /\ history[k].event \in Nat
        <5>1. history[i].event \in 1 .. events /\ events \in Nat
          BY <2>1, KnownTyped DEF TypesOK, Counted
        <5> QED
          BY <1>7, <5>1
      <4> QED
        BY <1>1, <2>1, <4>1, <4>2 DEF Sorted
    <3>2. \/ \E m \in Known : m[2] = history[i].event
          \/ \E d \in Callers : call[d].undoOf = history[i].event
      BY <1>3, <1>4, <1>5, <1>8, <2>1, <3>1
    <3> QED
      BY <2>1, <3>2 DEF OnceInv
  <2> QED
    BY <2>2, <2>3
<1>9. \A m, q \in Known' : m[2] # NoEvent /\ m[2] = q[2] => m[1] = q[1]
  BY <1>5 DEF OnceInv
<1>10. \A d \in Callers : call'[d].pc \notin Saving \cup {"record"} => call'[d].undoOf = NoEvent
  BY <1>3, <1>4 DEF OnceInv
<1>11. \A d, o \in Callers :
          call'[d].undoOf # NoEvent /\ call'[d].undoOf = call'[o].undoOf => d = o
  BY <1>3, <1>4, <1>6 DEF OnceInv
<1>12. \A d \in Callers, m \in Known' :
          call'[d].undoOf # NoEvent /\ call'[d].undoOf = m[2] =>
            call'[d].pc \in Saving /\ call'[d].event = m[1]
  BY <1>3, <1>4, <1>5, <1>6 DEF OnceInv
<1>13. /\ \A m \in Known' : m[2] <= events'
       /\ \A d \in Callers : call'[d].undoOf <= events'
  BY <1>3, <1>4, <1>5, <1>7 DEF OnceInv
<1> QED
  BY <1>8, <1>9, <1>10, <1>11, <1>12, <1>13 DEF OnceInv

\* Within one process an undo marks its target before it lets go of the lock,
\* so that whoever asks next, and in whatever order the records of the undos
\* are made and saved, no mutation is undone twice (undoLastMutation).
THEOREM NothingUndoneTwice == Spec => []NeverUndoneTwice
<1>1. TypesOK /\ OnceInv /\ [Next]_vars => OnceInv'
  <2> SUFFICES ASSUME TypesOK, OnceInv, [Next]_vars
               PROVE  OnceInv'
    OBVIOUS
  <2>1. CASE Restart
    <3>1. restarts' # 0
      BY <2>1 DEF Restart, TypesOK, StoreTyped
    <3> QED
      BY <3>1 DEF OnceInv
  <2>2. CASE UNCHANGED vars
    BY <2>2 DEF vars, OnceInv, Known
  <2> QED
    BY <2>1, <2>2, NextSteps, OnceCallStep, OnceUndo
<1>2. TypesOK /\ OnceInv => NeverUndoneTwice
  <2> SUFFICES ASSUME TypesOK, OnceInv, restarts = 0
               PROVE  UndoneOnce
    BY DEF NeverUndoneTwice
  <2>1. DOMAIN history = 1 .. Len(history)
    BY LenProperties DEF TypesOK, HistoryTyped
  <2>2. \A r \in ledger \cup Range(history) : <<r.event, r.undoOf>> \in Known
    BY <2>1 DEF Range, Known
  <2>3. \A r, s \in ledger \cup Range(history) :
           r.undoOf # NoEvent /\ r.undoOf = s.undoOf => r.event = s.event
    BY <2>2 DEF OnceInv
  <2> QED
    BY <2>3 DEF UndoneOnce
<1> QED
  BY <1>1, <1>2, TypesInvariant, OnceInit, PTL DEF Spec

-----------------------------------------------------------------------------
(* One caller at a time.  (With two, BoardStoreStale finds SnapshotCurrent *)
(* violated, and so are the two properties after it.)                      *)

OneCaller == \A c, d \in Callers : c = d

\* What is saved, or about to be, is the board.
SavedInv ==
    lost = {} =>
      /\ Quiet => snapshot = SnapshotState
      /\ \A c \in Callers :
            /\ call[c].pc \in {"apply", "ledger", "external"} => snapshot = SnapshotState
            /\ call[c].pc \in {"record", "snapshot"} => call[c].state = SnapshotState

LEMMA SavedNext ==
    ASSUME OneCaller, TypesOK, SavedInv, [Next]_vars
    PROVE  SavedInv'
<1>1. call \in [Callers -> Calls]
  BY DEF TypesOK, CallsTyped
<1>2. ASSUME NEW c \in Callers, CallStep(c) \/ Undo(c), lost' = {},
             NEW pc, pc = call'[c].pc,
             pc \in {"idle", "apply", "ledger", "external"} => snapshot' = SnapshotState',
             pc \in {"record", "snapshot"} => call'[c].state = SnapshotState'
      PROVE  SavedInv'
  <2>1. \A d \in Callers : d = c
    BY DEF OneCaller
  <2> QED
    BY <1>2, <2>1 DEF SavedInv, Quiet
<1>3. ASSUME NEW c \in Callers, CallStep(c) \/ Undo(c), lost = {}
      PROVE  /\ call[c].pc \in {"idle", "apply", "ledger", "external"} => snapshot = SnapshotState
             /\ call[c].pc \in {"record", "snapshot"} => call[c].state = SnapshotState
  <2>1. call[c].pc = "idle" => Quiet
    BY DEF OneCaller, Quiet
  <2> QED
    BY <1>3, <2>1 DEF SavedInv
<1>4. ASSUME NEW c \in Callers, CallStep(c) \/ Undo(c)
      PROVE  SavedInv'
  <2>1. CASE lost' # {}
    BY <2>1 DEF SavedInv
  <2>2. CASE lost' = {}
    <3>1. lost = {} /\ ~StoreError(c)
      BY <1>4, <2>2, StepKeeps DEF StoreError
    <3>2. CASE Begin(c) \/ UnknownCard(c) \/ Answer(c)
      <4>1. call'[c] = Idle \/ call'[c] = [Idle EXCEPT !.pc = "apply", !.before = cards]
        BY <1>1, <3>2 DEF Begin, UnknownCard, Answer
      <4>2. call'[c].pc \in {"idle", "apply"}
        <5>1. Idle.pc = "idle" /\ [Idle EXCEPT !.pc = "apply", !.before = cards].pc = "apply"
          BY DEF Idle
        <5> QED
          BY <4>1, <5>1
      <4>3. UNCHANGED <<snapshot, cards, sequenceNumber>>
            /\ call[c].pc \in {"idle", "apply", "external"}
        BY <3>2 DEF Begin, UnknownCard, Answer, storeVars
      <4> QED
        BY <1>2, <1>3, <1>4, <2>2, <3>1, <4>2, <4>3 DEF SnapshotState
    <3>3. CASE EditCard(c) \/ DeleteTicket(c)
      <4>1. call'[c].pc = "after"
        BY <1>1, <3>3 DEF EditCard, DeleteTicket, Change, Calls
      <4> QED
        BY <1>2, <1>4, <2>2, <4>1
    <3>4. CASE After(c)
      <4>1. call'[c].pc = "record" /\ call'[c].state = SnapshotState
            /\ UNCHANGED <<cards, sequenceNumber>>
        BY <1>1, <3>4 DEF After, Calls
      <4> QED
        BY <1>2, <1>4, <2>2, <4>1 DEF SnapshotState
    <3>5. CASE RecordMutation(c)
      <4>1. call'[c] = [call[c] EXCEPT !.pc = "snapshot", !.event = events + 1]
        BY <3>5, RecordMade
      <4>2. call'[c].pc = "snapshot" /\ call'[c].state = call[c].state
            /\ UNCHANGED <<cards, sequenceNumber>> /\ call[c].pc = "record"
        BY <1>1, <3>5, <4>1 DEF RecordMutation, Calls
      <4> QED
        BY <1>2, <1>3, <1>4, <2>2, <3>1, <4>2 DEF SnapshotState
    <3>6. CASE SaveSnapshot(c)
      <4>1. call'[c].pc = "ledger" /\ snapshot' = call[c].state
            /\ UNCHANGED <<cards, sequenceNumber>> /\ call[c].pc = "snapshot"
        BY <1>1, <3>6 DEF SaveSnapshot, Calls
      <4> QED
        BY <1>2, <1>3, <1>4, <2>2, <3>1, <4>1 DEF SnapshotState
    <3>7. CASE SaveMutationRecord(c)
      <4>1. call'[c].pc = "external"
            /\ UNCHANGED <<snapshot, cards, sequenceNumber>> /\ call[c].pc = "ledger"
        BY <1>1, <3>7 DEF SaveMutationRecord, Calls
      <4> QED
        BY <1>2, <1>3, <1>4, <2>2, <3>1, <4>1 DEF SnapshotState
    <3>8. CASE AttachExternalConfirmations(c)
      <4>1. call'[c].pc = "snapshot" /\ call'[c].state = SnapshotState
            /\ UNCHANGED <<cards, sequenceNumber>>
        BY <1>1, <3>8 DEF AttachExternalConfirmations, Calls
      <4> QED
        BY <1>2, <1>4, <2>2, <4>1 DEF SnapshotState
    <3>9. CASE Undo(c)
      <4> PICK e : UndoLastMutation(c, e)
        BY <3>9 DEF Undo
      <4>1. call'[c].pc = "record"
            /\ call'[c].state = [cards |-> cards', seq |-> sequenceNumber']
        BY <1>1 DEF UndoLastMutation, Idle
      <4> QED
        BY <1>2, <1>4, <2>2, <4>1 DEF SnapshotState
    <3> QED
      BY <1>4, <3>1, <3>2, <3>3, <3>4, <3>5, <3>6, <3>7, <3>8, <3>9 DEF CallStep
  <2> QED
    BY <2>1, <2>2
<1>5. CASE Restart
  <2>1. \A c \in Callers : call'[c].pc = "idle"
    BY <1>5 DEF Restart, Idle
  <2>2. snapshot' = SnapshotState'
    <3>1. snapshot \in States
      BY DEF TypesOK, StoreTyped
    <3> QED
      BY <1>5, <3>1 DEF Restart, SnapshotState, States
  <2> QED
    BY <2>1, <2>2 DEF SavedInv
<1>6. CASE UNCHANGED vars
  BY <1>6 DEF vars, SavedInv, Quiet, SnapshotState
<1> QED
  BY <1>4, <1>5, <1>6, NextSteps

\* While calls come one after the other, the saved board is the board whenever
\* no call is in progress, also after a crash in the middle of one
\* (persistMutationRecord).
THEOREM SavedIsCurrent == ASSUME OneCaller PROVE Spec => []SnapshotCurrent
<1>1. Init => SavedInv
  BY DEF Init, SavedInv, SnapshotState, FirstState, Idle
<1>2. TypesOK /\ SavedInv /\ [Next]_vars => SavedInv'
  BY SavedNext
<1>3. SavedInv => SnapshotCurrent
  BY DEF SavedInv, SnapshotCurrent
<1> QED
  BY <1>1, <1>2, <1>3, TypesInvariant, PTL DEF Spec

\* The board that the newest record leads to: the one before the change that
\* is not recorded yet, if there is one.
Story == IF Unrecorded = {} THEN cards ELSE call[CHOOSE c \in Unrecorded : TRUE].before

\* The history and the ledger both tell one story up to there, and the ledger
\* has every event but the one that is being saved.
ChainInv ==
    lost = {} =>
      /\ \A i \in 1 .. Len(history) - 1 : history[i].after = history[i + 1].before
      /\ Len(history) # 0 => history[Len(history)].after = Story
      /\ \A r, s \in ledger : s.event = r.event + 1 => r.after = s.before
      /\ \A r \in ledger : r.event = events => r.after = Story
      /\ \A e \in 1 .. events :
            \/ \E r \in ledger : r.event = e
            \/ e = events /\ \E c \in Callers : call[c].pc \in {"snapshot", "ledger"}
      /\ \A c \in Callers :
            /\ call[c].pc = "apply" => call[c].before = cards
            /\ call[c].pc = "record" => call[c].after = cards
            /\ call[c].pc \in Saving =>
                  /\ call[c].event = events /\ call[c].after = cards
                  /\ \A r \in ledger : r.event + 1 = events => r.after = call[c].before

LEMMA StoryIs ==
    ASSUME OneCaller, NEW c \in Callers
    PROVE  /\ Story = IF call[c].pc \in {"after", "record"} THEN call[c].before ELSE cards
           /\ Story' = IF call'[c].pc \in {"after", "record"} THEN call'[c].before ELSE cards'
<1>1. \A d \in Callers : d = c
  BY DEF OneCaller
<1>2. Unrecorded = IF call[c].pc \in {"after", "record"} THEN {c} ELSE {}
  BY <1>1 DEF Unrecorded
<1>3. Unrecorded' = IF call'[c].pc \in {"after", "record"} THEN {c} ELSE {}
  BY <1>1 DEF Unrecorded
<1>4. (CHOOSE d \in {c} : TRUE) = c
  OBVIOUS
<1> QED
  BY <1>2, <1>3, <1>4 DEF Story

\* What each step makes of the caller, and of the story.
LEMMA CallerStep ==
    ASSUME OneCaller, TypesOK, ChainInv, lost = {}, NEW c \in Callers, CallStep(c) \/ Undo(c),
           ~RecordMutation(c), ~StoreError(c)
    PROVE  /\ Story' = Story
           /\ call'[c].pc = "apply" => call'[c].before = cards'
           /\ call'[c].pc = "record" => call'[c].after = cards'
           /\ call'[c].pc \in Saving =>
                 /\ call[c].pc \in Saving /\ cards' = cards
                 /\ call'[c].event = call[c].event /\ call'[c].after = call[c].after
                 /\ call'[c].before = call[c].before
           /\ events' = events
           /\ call[c].pc \in {"snapshot", "ledger"} =>
                 call'[c].pc \in {"snapshot", "ledger"} \/ SaveMutationRecord(c)
<1>1. call \in [Callers -> Calls]
  BY DEF TypesOK, CallsTyped
<1>2. CASE Begin(c) \/ UnknownCard(c) \/ Answer(c)
  <2>1. \/ call'[c] = Idle
        \/ Begin(c) /\ call'[c] = [Idle EXCEPT !.pc = "apply", !.before = cards]
    BY <1>1, <1>2 DEF Begin, UnknownCard, Answer
  <2>2. /\ Idle.pc = "idle"
        /\ [Idle EXCEPT !.pc = "apply", !.before = cards].pc = "apply"
        /\ [Idle EXCEPT !.pc = "apply", !.before = cards].before = cards
    BY DEF Idle
  <2>3. /\ UNCHANGED <<cards, events>>
        /\ call[c].pc \in {"idle", "apply", "external"}
    BY <1>2 DEF Begin, UnknownCard, Answer
  <2>4. call'[c].pc \in {"idle", "apply"} /\ (call'[c].pc = "apply" => call'[c].before = cards)
    BY <2>1, <2>2
  <2> QED
    BY <2>3, <2>4, StoryIs DEF Saving
<1>3. CASE EditCard(c) \/ DeleteTicket(c)
  <2>1. /\ call[c].pc = "apply" /\ call'[c].pc = "after" /\ call'[c].before = call[c].before
        /\ events' = events
    BY <1>1, <1>3 DEF EditCard, DeleteTicket, Change, Calls
  <2>2. call[c].before = cards
    BY <2>1 DEF ChainInv
  <2> QED
    BY <2>1, <2>2, StoryIs DEF Saving
<1>4. CASE After(c)
  <2>1. /\ call[c].pc = "after" /\ call'[c].pc = "record" /\ call'[c].before = call[c].before
        /\ call'[c].after = cards /\ UNCHANGED <<cards, events>>
    BY <1>1, <1>4 DEF After, Calls
  <2> QED
    BY <2>1, StoryIs DEF Saving
<1>5. CASE SaveSnapshot(c) \/ SaveMutationRecord(c)
  <2>1. /\ (call[c].pc = "snapshot" /\ call'[c].pc = "ledger") \/ SaveMutationRecord(c)
        /\ call[c].pc \in Saving /\ call'[c].pc \in Saving
        /\ UNCHANGED <<cards, events>>
        /\ call'[c].event = call[c].event /\ call'[c].after = call[c].after
        /\ call'[c].before = call[c].before
    BY <1>1, <1>5 DEF SaveSnapshot, SaveMutationRecord, Saving, Calls
  <2> QED
    BY <2>1, StoryIs DEF Saving
<1>6. CASE AttachExternalConfirmations(c)
  <2>1. /\ call[c].pc = "external" /\ call'[c].pc = "snapshot"
        /\ UNCHANGED <<cards, events>>
        /\ call'[c].event = call[c].event /\ call'[c].after = call[c].after
        /\ call'[c].before = call[c].before
    BY <1>1, <1>6 DEF AttachExternalConfirmations, Calls
  <2> QED
    BY <2>1, StoryIs DEF Saving
<1>7. CASE Undo(c)
  <2> PICK e : UndoLastMutation(c, e)
    BY <1>7 DEF Undo
  <2>1. /\ call[c].pc = "idle" /\ call'[c].pc = "record" /\ call'[c].before = cards
        /\ call'[c].after = cards' /\ events' = events
    BY <1>1 DEF UndoLastMutation, Idle
  <2> QED
    BY <2>1, StoryIs DEF Saving
<1> QED
  BY <1>2, <1>3, <1>4, <1>5, <1>6, <1>7 DEF CallStep

LEMMA ChainCallStep ==
    ASSUME OneCaller, TypesOK, ChainInv, NEW c \in Callers, CallStep(c) \/ Undo(c)
    PROVE  ChainInv'
<1> SUFFICES ASSUME lost' = {}
             PROVE  ChainInv'
  BY DEF ChainInv
<1>1. lost = {} /\ ~StoreError(c)
  BY StepKeeps DEF StoreError
<1>2. /\ call \in [Callers -> Calls] /\ history \in Seq(Records) /\ Len(history) \in Nat
      /\ Len(history) <= MaxHistory /\ events \in Nat
      /\ \A r \in ledger : r.event \in 1 .. events
  <2>1. \A r \in Records : r.event \in Nat /\ r.event >= 1
    BY DEF Records, Events
  <2> QED
    BY <2>1, LenProperties DEF TypesOK, CallsTyped, HistoryTyped, StoreTyped, Counted
<1>3. \A d \in Callers : d = c
  BY DEF OneCaller
<1>4. /\ \A i \in 1 .. Len(history) - 1 : history[i].after = history[i + 1].before
      /\ Len(history) # 0 => history[Len(history)].after = Story
      /\ \A r, s \in ledger : s.event = r.event + 1 => r.after = s.before
      /\ \A r \in ledger : r.event = events => r.after = Story
      /\ \A e \in 1 .. events :
            \/ \E r \in ledger : r.event = e
            \/ e = events /\ call[c].pc \in {"snapshot", "ledger"}
      /\ call[c].pc = "record" => call[c].after = cards
      /\ call[c].pc \in Saving =>
            /\ call[c].event = events /\ call[c].after = cards
            /\ \A r \in ledger : r.event + 1 = events => r.after = call[c].before
  BY <1>1, <1>3 DEF ChainInv
<1>5. CASE RecordMutation(c)
  <2> DEFINE r == RecordOf(call'[c])
             n == Len(history')
  <2>1. /\ r \in Records /\ history' = Newest(MaxHistory, Append(history, r))
        /\ ledger' = ledger /\ events' = events + 1 /\ cards' = cards /\ call[c].pc = "record"
    BY <1>5, RecordMade DEF RecordMutation, storeVars
  <2>2. /\ r.before = call[c].before /\ r.after = call[c].after
        /\ call'[c].pc = "snapshot" /\ call'[c].event = events + 1
        /\ call'[c].before = call[c].before /\ call'[c].after = call[c].after
    <3>1. call'[c] = [call[c] EXCEPT !.pc = "snapshot", !.event = events + 1]
      BY <1>5, RecordMade
    <3> QED
      BY <1>2, <3>1 DEF RecordOf, Calls
  <2> HIDE DEF r
  <2>3. Story = call[c].before /\ Story' = cards /\ call[c].after = cards
    BY <1>4, <2>1, <2>2, StoryIs
  <2>4. /\ n \in 1 .. MaxHistory /\ history'[n] = r
        /\ \E k \in {0, 1} :
              /\ k = 1 => n = MaxHistory /\ Len(history) = MaxHistory
              /\ k = 0 => n = Len(history) + 1
              /\ \A i \in 1 .. n - 1 : i + k \in 1 .. Len(history) /\ history'[i] = history[i + k]
    BY <1>2, <2>1, Appended
  <2> HIDE DEF n
  <2>5. PICK k \in {0, 1} :
              /\ k = 1 => n = MaxHistory /\ Len(history) = MaxHistory
              /\ k = 0 => n = Len(history) + 1
              /\ \A i \in 1 .. n - 1 : i + k \in 1 .. Len(history) /\ history'[i] = history[i + k]
    BY <2>4
  <2>6. ASSUME NEW i \in 1 .. n - 1
        PROVE  history'[i].after = history'[i + 1].before
    <3>1. history'[i] = history[i + k] /\ i + k \in 1 .. Len(history)
      BY <2>5
    <3>2. CASE i + 1 = n
      <4>1. i + k = Len(history)
        BY <1>2, <2>4, <2>5, <3>2
      <4>2. history[Len(history)].after = Story
        BY <1>4, <3>1, <4>1
      <4> QED
        BY <2>2, <2>3, <2>4, <3>1, <3>2, <4>1, <4>2
    <3>3. CASE i + 1 # n
      <4>1. i + 1 \in 1 .. n - 1 /\ i + k \in 1 .. Len(history) - 1 /\ (i + 1) + k = (i + k) + 1
        BY <1>2, <2>4, <2>5, <3>1, <3>3
      <4>2. history'[i + 1] = history[(i + k) + 1]
        BY <2>5, <4>1
      <4> QED
        BY <1>4, <3>1, <4>1, <4>2
    <3> QED
      BY <3>2, <3>3
  <2>7. history'[n].after = Story'
    BY <2>2, <2>3, <2>4
  <2>8. \A q \in ledger : q.event # events + 1 /\ (q.event + 1 = events + 1 => q.after = call[c].before)
    BY <1>2, <1>4, <2>3
  <2>9. \A e \in 1 .. events + 1 : (\E q \in ledger : q.event = e) \/ e = events + 1
    BY <1>2, <1>4, <2>1
  <2>10. /\ \A q, s \in ledger' : s.event = q.event + 1 => q.after = s.before
         /\ \A q \in ledger' : q.event = events' => q.after = Story'
         /\ \A e \in 1 .. events' :
               \/ \E q \in ledger' : q.event = e
               \/ e = events' /\ \E d \in Callers : call'[d].pc \in {"snapshot", "ledger"}
    BY <1>4, <2>1, <2>2, <2>8, <2>9
  <2>11. \A d \in Callers :
            /\ call'[d].pc = "apply" => call'[d].before = cards'
            /\ call'[d].pc = "record" => call'[d].after = cards'
            /\ call'[d].pc \in Saving =>
                  /\ call'[d].event = events' /\ call'[d].after = cards'
                  /\ \A q \in ledger' : q.event + 1 = events' => q.after = call'[d].before
    BY <1>3, <2>1, <2>2, <2>3, <2>8
  <2> QED
    BY <2>6, <2>7, <2>10, <2>11 DEF ChainInv, n
<1>6. CASE ~RecordMutation(c)
  <2>1. /\ Story' = Story /\ events' = events
        /\ call'[c].pc = "apply" => call'[c].before = cards'
        /\ call'[c].pc = "record" => call'[c].after = cards'
        /\ call'[c].pc \in Saving =>
              /\ call[c].pc \in Saving /\ cards' = cards
              /\ call'[c].event = call[c].event /\ call'[c].after = call[c].after
              /\ call'[c].before = call[c].before
        /\ call[c].pc \in {"snapshot", "ledger"} =>
              call'[c].pc \in {"snapshot", "ledger"} \/ SaveMutationRecord(c)
    BY <1>1, <1>6, CallerStep
  <2>2. /\ Len(history') = Len(history)
        /\ \A i \in 1 .. Len(history) :
              history'[i].before = history[i].before /\ history'[i].after = history[i].after
    BY <1>6, HistoryStep DEF Amended
  <2>3. /\ \A i \in 1 .. Len(history') - 1 : history'[i].after = history'[i + 1].before
        /\ Len(history') # 0 => history'[Len(history')].after = Story'
    <3>1. \A i \in 1 .. Len(history) - 1 : i \in 1 .. Len(history) /\ i + 1 \in 1 .. Len(history)
      BY <1>2
    <3>2. Len(history) # 0 => Len(history) \in 1 .. Len(history)
      BY <1>2
    <3> QED
      BY <1>4, <2>1, <2>2, <3>1, <3>2
  <2>4. CASE SaveMutationRecord(c)
    <3> DEFINE r == RecordOf(call[c])
    <3>1. /\ call[c].pc = "ledger" /\ call[c].pc \in Saving /\ cards' = cards
          /\ call'[c].pc = "external" /\ call'[c].pc \in Saving
      BY <1>2, <2>4 DEF SaveMutationRecord, Saving, Calls
    <3>2. /\ r.event = events /\ r.after = cards /\ r.before = call[c].before
      BY <1>4, <3>1 DEF RecordOf
    <3>3. /\ ledger' = {s \in ledger : s.event # r.event} \cup {r}
          /\ r.event \in 1 .. events
      BY <2>4, RowSaved
    <3> HIDE DEF r
    <3>4. Story = cards
      BY <3>1, StoryIs
    <3>5. ASSUME NEW q \in ledger', NEW s \in ledger', s.event = q.event + 1
          PROVE  q.after = s.before
      <4>1. CASE q = r
        BY <1>2, <3>2, <3>3, <3>5, <4>1
      <4>2. CASE q # r /\ s = r
        BY <1>4, <3>1, <3>2, <3>3, <3>5, <4>2
      <4>3. CASE q # r /\ s # r
        BY <1>4, <3>3, <3>5, <4>3
      <4> QED
        BY <4>1, <4>2, <4>3
    <3>6. \A q \in ledger' : q.event = events' => q.after = Story'
      BY <2>1, <3>2, <3>3, <3>4
    <3>7. \A e \in 1 .. events' : \E q \in ledger' : q.event = e
      BY <1>4, <2>1, <3>2, <3>3
    <3>8. \A q \in ledger' : q.event + 1 = events => q.after = call[c].before
      BY <1>2, <1>4, <3>1, <3>2, <3>3
    <3>9. \A d \in Callers :
             /\ call'[d].pc = "apply" => call'[d].before = cards'
             /\ call'[d].pc = "record" => call'[d].after = cards'
             /\ call'[d].pc \in Saving =>
                   /\ call'[d].event = events' /\ call'[d].after = cards'
                   /\ \A q \in ledger' : q.event + 1 = events' => q.after = call'[d].before
      BY <1>3, <1>4, <2>1, <3>1, <3>8
    <3> QED
      BY <2>3, <3>5, <3>6, <3>7, <3>9 DEF ChainInv
  <2>5. CASE ~SaveMutationRecord(c)
    <3>1. ledger' = ledger
      BY <1>6, <2>5 DEF CallStep, Undo, Begin, EditCard, DeleteTicket, Change, UnknownCard, After,
           SaveSnapshot, StoreError, AttachExternalConfirmations, Answer, UndoLastMutation, storeVars
    <3>2. /\ \A q, s \in ledger' : s.event = q.event + 1 => q.after = s.before
          /\ \A q \in ledger' : q.event = events' => q.after = Story'
          /\ \A e \in 1 .. events' :
                \/ \E q \in ledger' : q.event = e
                \/ e = events' /\ \E d \in Callers : call'[d].pc \in {"snapshot", "ledger"}
      BY <1>4, <2>1, <2>5, <3>1
    <3>3. \A d \in Callers :
             /\ call'[d].pc = "apply" => call'[d].before = cards'
             /\ call'[d].pc = "record" => call'[d].after = cards'
             /\ call'[d].pc \in Saving =>
                   /\ call'[d].event = events' /\ call'[d].after = cards'
                   /\ \A q \in ledger' : q.event + 1 = events' => q.after = call'[d].before
      BY <1>3, <1>4, <2>1, <3>1
    <3> QED
      BY <2>3, <3>2, <3>3 DEF ChainInv
  <2> QED
    BY <2>4, <2>5
<1> QED
  BY <1>5, <1>6

\* When the ledger has every event, a new process loads them without a gap,
\* up to the newest.
LEMMA ReloadedChain ==
    ASSUME TypesOK, Restart, \A e \in 1 .. events : \E r \in ledger : r.event = e
    PROVE  /\ Len(history') \in Nat
           /\ \A i \in 1 .. Len(history') : history'[i] \in ledger
           /\ \A i \in 1 .. Len(history') - 1 : history'[i + 1].event = history'[i].event + 1
           /\ Len(history') # 0 => history'[Len(history')].event = events
<1> DEFINE b == ByTime(ledger)
           n == Len(history')
           k == Len(b) - n
<1>1. /\ b \in Seq(ledger) /\ b \in Seq(Records) /\ Sorted(b) /\ Len(b) \in Nat
      /\ \A r \in ledger : \E j \in 1 .. Len(b) : b[j] = r
  BY ByTimeSorts, LenProperties DEF TypesOK, StoreTyped
<1>2. history' = Newest(MaxHistory, b)
  BY DEF Restart
<1>3. events \in Nat /\ \A r \in ledger : r.event \in 1 .. events
  <2>1. \A r \in Records : r.event \in Nat /\ r.event >= 1
    BY DEF Records, Events
  <2> QED
    BY <2>1 DEF TypesOK, StoreTyped, Counted
<1> HIDE DEF b
<1>4. \A i \in 1 .. Len(b) : b[i] \in ledger /\ b[i].event \in 1 .. events
  BY <1>1, <1>3, ElementOfSeq
<1>12. \A i, j \in 1 .. Len(b) : i < j => b[i].event < b[j].event
  BY <1>1 DEF Sorted
<1>5. ASSUME NEW i \in 1 .. Len(b), i + 1 \in 1 .. Len(b)
      PROVE  b[i + 1].event = b[i].event + 1
  <2>1. b[i].event \in 1 .. events /\ b[i + 1].event \in 1 .. events /\ b[i].event < b[i + 1].event
    <3>1. i < i + 1
      BY <1>1
    <3> QED
      BY <1>4, <1>5, <1>12, <3>1
  <2>2. b[i].event + 1 \in 1 .. events
    BY <1>3, <2>1
  <2>3. PICK j \in 1 .. Len(b) : b[j].event = b[i].event + 1
    BY <1>1, <2>2
  <2>4. ~(j < i) /\ j # i
    BY <1>3, <1>12, <2>1, <2>3
  <2>5. ~(i + 1 < j)
    BY <1>3, <1>5, <1>12, <2>1, <2>3
  <2>6. j = i + 1
    BY <1>1, <2>4, <2>5
  <2> QED
    BY <2>3, <2>6
<1>6. ASSUME Len(b) # 0
      PROVE  b[Len(b)].event = events
  <2>1. Len(b) \in 1 .. Len(b)
    BY <1>1, <1>6
  <2>2. b[Len(b)].event \in 1 .. events
    BY <1>4, <2>1
  <2>3. PICK j \in 1 .. Len(b) : b[j].event = events
    <3>1. events \in 1 .. events
      BY <1>3, <2>2
    <3>2. PICK r \in ledger : r.event = events
      BY <3>1
    <3> QED
      BY <1>1, <3>2
  <2>4. ~(j < Len(b))
    BY <1>3, <1>12, <2>1, <2>2, <2>3
  <2>5. j = Len(b)
    BY <1>1, <2>4
  <2> QED
    BY <2>3, <2>5
<1>7. /\ n = IF Len(b) <= MaxHistory THEN Len(b) ELSE MaxHistory
      /\ \A i \in 1 .. n : i + k \in 1 .. Len(b) /\ history'[i] = b[i + k]
  BY <1>1, <1>2, NewestTail
<1>8. n \in Nat /\ k \in Nat /\ n + k = Len(b)
  BY <1>1, <1>7
<1> HIDE DEF n, k
<1>9. \A i \in 1 .. n : history'[i] \in ledger
  BY <1>4, <1>7
<1>10. ASSUME NEW i \in 1 .. n - 1
       PROVE  history'[i + 1].event = history'[i].event + 1
  <2>1. i \in 1 .. n /\ i + 1 \in 1 .. n /\ (i + 1) + k = (i + k) + 1
    BY <1>8
  <2>2. history'[i] = b[i + k] /\ history'[i + 1] = b[(i + k) + 1]
        /\ i + k \in 1 .. Len(b) /\ (i + k) + 1 \in 1 .. Len(b)
    BY <1>7, <2>1
  <2> QED
    BY <1>5, <2>2
<1>11. n # 0 => history'[n].event = events
  <2> SUFFICES ASSUME n # 0
               PROVE  history'[n].event = events
    OBVIOUS
  <2>1. n \in 1 .. n /\ Len(b) # 0
    BY <1>8
  <2>2. history'[n] = b[Len(b)]
    BY <1>7, <1>8, <2>1
  <2> QED
    BY <1>6, <2>1, <2>2
<1> QED
  BY <1>8, <1>9, <1>10, <1>11 DEF n

LEMMA ChainRestart ==
    ASSUME ~Crashes, TypesOK, SavedInv, ChainInv, Restart
    PROVE  ChainInv'
<1>1. /\ Quiet /\ UNCHANGED <<lost, ledger, events>> /\ cards' = snapshot.cards
      /\ \A c \in Callers : call'[c].pc = "idle"
  BY DEF Restart, Quiet, Idle
<1> SUFFICES ASSUME lost = {}
             PROVE  ChainInv'
  BY <1>1 DEF ChainInv
<1>2. cards' = cards
  BY <1>1 DEF SavedInv, SnapshotState
<1>3. Story = cards /\ Story' = cards
  <2>1. Unrecorded = {} /\ Unrecorded' = {}
    BY <1>1 DEF Unrecorded, Quiet
  <2> QED
    BY <1>2, <2>1 DEF Story
<1>4. \A e \in 1 .. events : \E r \in ledger : r.event = e
  BY <1>1 DEF ChainInv, Quiet
<1>5. /\ Len(history') \in Nat
      /\ \A i \in 1 .. Len(history') : history'[i] \in ledger
      /\ \A i \in 1 .. Len(history') - 1 : history'[i + 1].event = history'[i].event + 1
      /\ Len(history') # 0 => history'[Len(history')].event = events
  BY <1>4, ReloadedChain
<1>6. \A i \in 1 .. Len(history') - 1 : history'[i].after = history'[i + 1].before
  <2> TAKE i \in 1 .. Len(history') - 1
  <2>1. i \in 1 .. Len(history') /\ i + 1 \in 1 .. Len(history')
    BY <1>5
  <2>2. history'[i] \in ledger /\ history'[i + 1] \in ledger
    BY <1>5, <2>1
  <2> QED
    BY <1>5, <2>2 DEF ChainInv
<1>7. Len(history') # 0 => history'[Len(history')].after = Story'
  <2> SUFFICES ASSUME Len(history') # 0
               PROVE  history'[Len(history')].after = cards
    BY <1>3
  <2>1. Len(history') \in 1 .. Len(history')
    BY <1>5
  <2>2. history'[Len(history')] \in ledger /\ history'[Len(history')].event = events
    BY <1>5, <2>1
  <2> QED
    BY <1>3, <2>2 DEF ChainInv
<1>8. /\ \A r, s \in ledger' : s.event = r.event + 1 => r.after = s.before
      /\ \A r \in ledger' : r.event = events' => r.after = Story'
      /\ \A e \in 1 .. events' : \E r \in ledger' : r.event = e
  BY <1>1, <1>3, <1>4 DEF ChainInv
<1>9. \A c \in Callers : call'[c].pc \notin Saving \cup {"apply", "record"}
  BY <1>1 DEF Saving
<1> QED
  BY <1>6, <1>7, <1>8, <1>9 DEF ChainInv

\* While calls come one after the other and a restart finds none in progress,
\* the history is one story with no gap, which ends with the board as it is,
\* also when it was reloaded: each change is recorded from the board the one
\* before it left, and the rows have every event, oldest first
\* (applyToolCallWithConfirmationBypass, recordMutation, ListMutationRecords).
THEOREM HistoryTellsOneStory ==
    ASSUME OneCaller, ~Crashes
    PROVE  Spec => []HistoryChains
<1>1. Init => SavedInv /\ ChainInv
  <2> SUFFICES ASSUME Init
               PROVE  SavedInv /\ ChainInv
    OBVIOUS
  <2>1. Len(history) = 0
    BY EmptySeq DEF Init
  <2>2. SavedInv
    BY DEF Init, SavedInv, SnapshotState, FirstState, Idle
  <2>3. ChainInv
    BY <2>1 DEF Init, ChainInv, Idle, Saving
  <2> QED
    BY <2>2, <2>3
<1>2. TypesOK /\ SavedInv /\ ChainInv /\ [Next]_vars => SavedInv' /\ ChainInv'
  <2> SUFFICES ASSUME TypesOK, SavedInv, ChainInv, [Next]_vars
               PROVE  SavedInv' /\ ChainInv'
    OBVIOUS
  <2>1. SavedInv'
    BY SavedNext
  <2>2. CASE UNCHANGED vars
    <3>1. Story' = Story
      BY <2>2 DEF vars, Story, Unrecorded
    <3> QED
      BY <2>1, <2>2, <3>1 DEF vars, ChainInv
  <2> QED
    BY <2>1, <2>2, NextSteps, ChainCallStep, ChainRestart
<1>3. TypesOK /\ ChainInv => HistoryChains
  <2> SUFFICES ASSUME TypesOK, ChainInv, lost = {}
               PROVE  /\ \A i \in 1 .. Len(history) - 1 : history[i].after = history[i + 1].before
                      /\ Quiet /\ history # <<>> => history[Len(history)].after = cards
    BY DEF HistoryChains
  <2>1. history # <<>> => Len(history) # 0
    BY EmptySeq, LenProperties DEF TypesOK, HistoryTyped
  <2>2. Quiet => Story = cards
    BY DEF Quiet, Story, Unrecorded
  <2> QED
    BY <2>1, <2>2 DEF ChainInv
<1> QED
  BY <1>1, <1>2, <1>3, TypesInvariant, PTL DEF Spec

\* The records that the next undo_last_mutation may take, and the board they
\* lead to: the one before the change that is not recorded yet, if there is one.
Open == Undoable(NoEvent)
Pending == {c \in Unrecorded : call[c].undoOf = NoEvent}
OpenStory == IF Pending = {} THEN cards ELSE call[CHOOSE c \in Pending : TRUE].before

\* Each of them starts where the one before it ended, whatever was undone in
\* between, and the newest ends there.
UndoInv ==
    restarts = 0 =>
      /\ \A i, j \in Open :
            i < j /\ (\A m \in Open : m <= i \/ j <= m) => history[i].after = history[j].before
      /\ \A i \in Open : (\A m \in Open : m <= i) => history[i].after = OpenStory
      /\ \A c \in Callers :
            /\ call[c].pc = "apply" => call[c].before = cards
            /\ call[c].pc \in {"apply", "after"} => call[c].undoOf = NoEvent
            /\ call[c].pc \in {"apply", "after", "record"} => ~call[c].reverted
            /\ call[c].pc = "record" => call[c].after = cards

LEMMA OpenStoryIs ==
    ASSUME OneCaller, NEW c \in Callers
    PROVE  /\ OpenStory = IF call[c].pc \in {"after", "record"} /\ call[c].undoOf = NoEvent
                          THEN call[c].before ELSE cards
           /\ OpenStory' = IF call'[c].pc \in {"after", "record"} /\ call'[c].undoOf = NoEvent
                           THEN call'[c].before ELSE cards'
<1>1. \A d \in Callers : d = c
  BY DEF OneCaller
<1>2. Pending = IF call[c].pc \in {"after", "record"} /\ call[c].undoOf = NoEvent THEN {c} ELSE {}
  BY <1>1 DEF Pending, Unrecorded
<1>3. Pending' = IF call'[c].pc \in {"after", "record"} /\ call'[c].undoOf = NoEvent THEN {c} ELSE {}
  BY <1>1 DEF Pending, Unrecorded
<1>4. (CHOOSE d \in {c} : TRUE) = c
  OBVIOUS
<1> QED
  BY <1>2, <1>3, <1>4 DEF OpenStory

LEMMA OpenIs ==
    ASSUME history \in Seq(Records)
    PROVE  /\ Len(history) \in Nat /\ Open \subseteq 1 .. Len(history)
           /\ \A i \in 1 .. Len(history) :
                 i \in Open <=> ~history[i].reverted /\ history[i].undoOf = NoEvent
BY LenProperties DEF Open, Undoable

\* The calls of the one caller.
LEMMA UndoCalls ==
    ASSUME OneCaller, TypesOK, UndoInv, restarts = 0, NEW c \in Callers,
           CallStep(c) \/ UndoLatest(c)
    PROVE  /\ call'[c].pc = "apply" => call'[c].before = cards'
           /\ call'[c].pc \in {"apply", "after"} => call'[c].undoOf = NoEvent
           /\ call'[c].pc \in {"apply", "after", "record"} => ~call'[c].reverted
           /\ call'[c].pc = "record" => call'[c].after = cards'
           /\ CallStep(c) /\ ~RecordMutation(c) => OpenStory' = OpenStory
<1>1. call \in [Callers -> Calls] /\ OneCaller
  BY DEF TypesOK, CallsTyped
<1>2. CASE Begin(c) \/ UnknownCard(c) \/ Answer(c)
  <2>1. call'[c] = Idle \/ call'[c] = [Idle EXCEPT !.pc = "apply", !.before = cards]
    BY <1>1, <1>2 DEF Begin, UnknownCard, Answer
  <2>2. /\ Idle.pc = "idle"
        /\ [Idle EXCEPT !.pc = "apply", !.before = cards].pc = "apply"
        /\ [Idle EXCEPT !.pc = "apply", !.before = cards].before = cards
        /\ [Idle EXCEPT !.pc = "apply", !.before = cards].undoOf = NoEvent
        /\ [Idle EXCEPT !.pc = "apply", !.before = cards].reverted = FALSE
    BY DEF Idle
  <2>3. cards' = cards /\ call[c].pc \in {"idle", "apply", "external"}
    BY <1>2 DEF Begin, UnknownCard, Answer
  <2>4. /\ call'[c].pc \in {"idle", "apply"}
        /\ call'[c].pc = "apply" => /\ call'[c].before = cards /\ call'[c].undoOf = NoEvent
                                    /\ ~call'[c].reverted
    BY <2>1, <2>2
  <2> QED
    BY <1>1, <2>3, <2>4, OpenStoryIs
<1>3. CASE EditCard(c) \/ DeleteTicket(c)
  <2>1. /\ call[c].pc = "apply" /\ call'[c].pc = "after" /\ call'[c].before = call[c].before
        /\ call'[c].undoOf = call[c].undoOf /\ call'[c].reverted = call[c].reverted
    BY <1>1, <1>3 DEF EditCard, DeleteTicket, Change, Calls
  <2>2. call[c].before = cards /\ call[c].undoOf = NoEvent /\ ~call[c].reverted
    BY <2>1 DEF UndoInv
  <2> QED
    BY <1>1, <2>1, <2>2, OpenStoryIs
<1>4. CASE After(c)
  <2>1. /\ call[c].pc = "after" /\ call'[c].pc = "record" /\ call'[c].before = call[c].before
        /\ call'[c].undoOf = call[c].undoOf /\ call'[c].reverted = call[c].reverted
        /\ call'[c].after = cards /\ cards' = cards
    BY <1>1, <1>4 DEF After, Calls
  <2>2. ~call[c].reverted
    BY <2>1 DEF UndoInv
  <2> QED
    BY <1>1, <2>1, <2>2, OpenStoryIs
<1>5. CASE RecordMutation(c)
  <2>1. call'[c].pc = "snapshot"
    <3>1. call'[c] = [call[c] EXCEPT !.pc = "snapshot", !.event = events + 1]
      BY <1>5, RecordMade
    <3> QED
      BY <1>1, <3>1 DEF Calls
  <2> QED
    BY <1>5, <2>1
<1>6. CASE \/ SaveSnapshot(c) \/ SaveMutationRecord(c) \/ StoreError(c)
           \/ AttachExternalConfirmations(c)
  <2>1. call[c].pc \in Saving /\ call'[c].pc \in Saving /\ cards' = cards
    <3>1. CASE SaveSnapshot(c) \/ SaveMutationRecord(c) \/ StoreError(c)
      BY <1>1, <3>1 DEF SaveSnapshot, SaveMutationRecord, StoreError, Saving, Calls
    <3>2. CASE AttachExternalConfirmations(c)
      BY <1>1, <3>2 DEF AttachExternalConfirmations, Saving, Calls
    <3> QED
      BY <1>6, <3>1, <3>2
  <2> QED
    BY <1>1, <2>1, OpenStoryIs DEF Saving
<1>7. CASE UndoLatest(c)
  <2>1. /\ call'[c].pc = "record" /\ call'[c].after = cards' /\ ~call'[c].reverted
        /\ call[c].pc = "idle"
    BY <1>1, <1>7 DEF UndoLatest, UndoLastMutation, Idle
  <2>2. ~CallStep(c) \/ call'[c].pc \in {"idle", "apply"}
    <3>1. ASSUME CallStep(c)
          PROVE  Begin(c)
      BY <2>1, <3>1 DEF CallStep, EditCard, DeleteTicket, Change, UnknownCard, After, RecordMutation,
           SaveSnapshot, SaveMutationRecord, StoreError, AttachExternalConfirmations, Answer
    <3>2. Begin(c) => call'[c].pc = "apply"
      BY <1>1 DEF Begin, Idle
    <3> QED
      BY <3>1, <3>2
  <2> QED
    BY <2>1, <2>2
<1> QED
  BY <1>2, <1>3, <1>4, <1>5, <1>6, <1>7 DEF CallStep

LEMMA OpenKept ==
    ASSUME TypesOK, NEW c \in Callers, CallStep(c), ~RecordMutation(c)
    PROVE  /\ Open' = Open
           /\ \A i \in Open : history'[i].before = history[i].before /\ history'[i].after = history[i].after
<1>1. history \in Seq(Records)
  BY DEF TypesOK, HistoryTyped
<1>2. Amended
  BY HistoryStep
<1>3. \A i \in 1 .. Len(history) : history'[i].reverted = history[i].reverted
  <2>1. CASE AttachExternalConfirmations(c)
    <3> PICK k \in DOMAIN history : history' = [history EXCEPT ![k].attached = TRUE]
      BY <2>1 DEF AttachExternalConfirmations
    <3> TAKE i \in 1 .. Len(history)
    <3>1. history'[i] = history[i] \/ history'[i] = [history[i] EXCEPT !.attached = TRUE]
      BY <1>1, LenProperties
    <3>2. history[i] \in Records
      BY <1>1, ElementOfSeq
    <3> QED
      BY <3>1, <3>2 DEF Records
  <2>2. CASE ~AttachExternalConfirmations(c)
    <3>1. history' = history
      BY <2>2 DEF CallStep, Begin, EditCard, DeleteTicket, Change, UnknownCard, After,
           SaveSnapshot, SaveMutationRecord, StoreError, Answer
    <3> QED
      BY <3>1
  <2> QED
    BY <2>1, <2>2
<1>4. /\ history' \in Seq(Records) /\ Len(history') = Len(history)
      /\ \A i \in 1 .. Len(history) :
            /\ history'[i].undoOf = history[i].undoOf
            /\ history'[i].before = history[i].before /\ history'[i].after = history[i].after
  BY <1>2 DEF Amended
<1>5. /\ Open \subseteq 1 .. Len(history)
      /\ \A i \in 1 .. Len(history) :
            i \in Open <=> ~history[i].reverted /\ history[i].undoOf = NoEvent
  BY <1>1, OpenIs
<1>6. /\ Open' \subseteq 1 .. Len(history')
      /\ \A i \in 1 .. Len(history') :
            i \in Open' <=> ~history'[i].reverted /\ history'[i].undoOf = NoEvent
  <2>1. DOMAIN history' = 1 .. Len(history')
    BY <1>4, LenProperties
  <2> QED
    BY <2>1 DEF Open, Undoable, NoEvent
<1> QED
  BY <1>3, <1>4, <1>5, <1>6

\* A record is added: it may be undone if it is no undo itself.
LEMMA OpenRecorded ==
    ASSUME OneCaller, TypesOK, UndoInv, restarts = 0, NEW c \in Callers, RecordMutation(c)
    PROVE  /\ \A i, j \in Open' :
                 i < j /\ (\A m \in Open' : m <= i \/ j <= m) => history'[i].after = history'[j].before
           /\ \A i \in Open' : (\A m \in Open' : m <= i) => history'[i].after = OpenStory'
<1> DEFINE r == RecordOf(call'[c])
           n == Len(history')
           l == Len(history)
<1>1. /\ r \in Records /\ history' = Newest(MaxHistory, Append(history, r))
      /\ cards' = cards /\ call[c].pc = "record"
  BY RecordMade DEF RecordMutation
<1>2. /\ r.before = call[c].before /\ r.after = call[c].after
      /\ r.undoOf = call[c].undoOf /\ r.reverted = call[c].reverted
      /\ call'[c].pc = "snapshot"
  <2>1. call'[c] = [call[c] EXCEPT !.pc = "snapshot", !.event = events + 1]
    BY RecordMade
  <2>2. call[c] \in Calls
    BY DEF TypesOK, CallsTyped
  <2> QED
    BY <2>1, <2>2 DEF RecordOf, Calls
<1> HIDE DEF r
<1>3. /\ ~r.reverted /\ r.after = cards
      /\ OpenStory = IF r.undoOf = NoEvent THEN r.before ELSE cards
      /\ OpenStory' = cards
  BY <1>1, <1>2, OpenStoryIs DEF UndoInv
<1>4. /\ history \in Seq(Records) /\ l \in Nat /\ Open \subseteq 1 .. l
      /\ \A i \in 1 .. l : i \in Open <=> ~history[i].reverted /\ history[i].undoOf = NoEvent
  BY OpenIs DEF TypesOK, HistoryTyped
<1>5. /\ history' \in Seq(Records) /\ n \in 1 .. MaxHistory /\ history'[n] = r
      /\ \E k \in {0, 1} :
            /\ k = 1 => n = MaxHistory /\ l = MaxHistory
            /\ k = 0 => n = l + 1
            /\ \A i \in 1 .. n - 1 : i + k \in 1 .. l /\ history'[i] = history[i + k]
  BY <1>1, Appended DEF TypesOK, HistoryTyped
<1>6. /\ Open' \subseteq 1 .. n
      /\ \A i \in 1 .. n :
            i \in Open' <=> ~history'[i].reverted /\ history'[i].undoOf = NoEvent
  <2>1. DOMAIN history' = 1 .. Len(history')
    BY <1>5, LenProperties
  <2> QED
    BY <2>1 DEF Open, Undoable, NoEvent
<1> HIDE DEF n, l
<1>7. PICK k \in {0, 1} :
            /\ k = 1 => n = MaxHistory /\ l = MaxHistory
            /\ k = 0 => n = l + 1
            /\ \A i \in 1 .. n - 1 : i + k \in 1 .. l /\ history'[i] = history[i + k]
  BY <1>5
<1>8. l = n - 1 + k
  BY <1>4, <1>5, <1>7
<1>9. \A i \in 1 .. n - 1 : i \in Open' <=> i + k \in Open
  <2> TAKE i \in 1 .. n - 1
  <2>1. i \in 1 .. n /\ i + k \in 1 .. l /\ history'[i] = history[i + k]
    BY <1>5, <1>7
  <2> QED
    BY <1>4, <1>6, <2>1
<1>10. n \in Open' <=> r.undoOf = NoEvent
  BY <1>3, <1>5, <1>6
\* What comes between two entries came between them before.
<1>11. ASSUME NEW i \in 1 .. n - 1, NEW m \in Open, i + k < m
       PROVE  m - k \in Open' /\ m - k \in 1 .. n - 1 /\ i < m - k
  <2>1. m \in 1 .. l
    BY <1>4
  <2>2. m - k \in 1 .. n - 1 /\ i < m - k /\ (m - k) + k = m
    BY <1>4, <1>5, <1>8, <1>11, <2>1
  <2> QED
    BY <1>9, <2>2
<1>12. ASSUME NEW i \in Open', NEW j \in Open', i < j, \A m \in Open' : m <= i \/ j <= m
       PROVE  history'[i].after = history'[j].before
  <2>1. i \in 1 .. n - 1 /\ j \in 1 .. n
    BY <1>5, <1>6, <1>12
  <2>2. i + k \in Open /\ history'[i] = history[i + k]
    BY <1>7, <1>9, <2>1
  <2>3. CASE j = n
    <3>1. \A m \in Open : m <= i + k
      <4> SUFFICES ASSUME NEW m \in Open, ~(m <= i + k)
                   PROVE  FALSE
        OBVIOUS
      <4>1. i + k < m
        BY <1>4, <2>1
      <4>2. m - k \in Open' /\ m - k \in 1 .. n - 1 /\ i < m - k
        BY <1>11, <2>1, <4>1
      <4>3. m - k <= i \/ j <= m - k
        BY <1>12, <4>2
      <4> QED
        BY <1>5, <2>1, <2>3, <4>2, <4>3
    <3>2. history[i + k].after = OpenStory
      BY <2>2, <3>1 DEF UndoInv
    <3> QED
      BY <1>3, <1>5, <1>10, <2>2, <2>3, <3>2
  <2>4. CASE j # n
    <3>1. j \in 1 .. n - 1
      BY <1>5, <2>1, <2>4
    <3>2. j + k \in Open /\ history'[j] = history[j + k] /\ i + k < j + k
      BY <1>7, <1>9, <1>12, <2>1, <3>1
    <3>3. \A m \in Open : m <= i + k \/ j + k <= m
      <4> SUFFICES ASSUME NEW m \in Open, ~(m <= i + k)
                   PROVE  j + k <= m
        OBVIOUS
      <4>1. m \in Int /\ i + k < m
        BY <1>4, <2>1
      <4>2. m - k \in Open' /\ m - k \in 1 .. n - 1 /\ i < m - k
        BY <1>11, <2>1, <4>1
      <4>3. m - k <= i \/ j <= m - k
        BY <1>12, <4>2
      <4> QED
        BY <1>5, <2>1, <3>1, <4>1, <4>2, <4>3
    <3> QED
      BY <2>2, <3>2, <3>3 DEF UndoInv
  <2> QED
    BY <2>3, <2>4
<1>13. ASSUME NEW i \in Open', \A m \in Open' : m <= i
       PROVE  history'[i].after = OpenStory'
  <2>1. CASE i = n
    BY <1>3, <1>5, <2>1
  <2>2. CASE i # n
    <3>1. i \in 1 .. n - 1
      BY <1>5, <1>6, <2>2
    <3>2. i + k \in Open /\ history'[i] = history[i + k]
      BY <1>7, <1>9, <3>1
    <3>3. n \notin Open'
      BY <1>5, <1>13, <3>1
    <3>4. \A m \in Open : m <= i + k
      <4> SUFFICES ASSUME NEW m \in Open, ~(m <= i + k)
                   PROVE  FALSE
        OBVIOUS
      <4>1. i + k < m
        BY <1>4, <3>1
      <4>2. m - k \in Open' /\ m - k \in 1 .. n - 1 /\ i < m - k
        BY <1>11, <3>1, <4>1
      <4> QED
        BY <1>5, <1>13, <3>1, <4>2
    <3>5. history[i + k].after = OpenStory
      BY <3>2, <3>4 DEF UndoInv
    <3> QED
      BY <1>3, <1>10, <3>2, <3>3, <3>5
  <2> QED
    BY <2>1, <2>2
<1> QED
  BY <1>12, <1>13

\* The newest one is undone: the one before it leads to the board that is left.
LEMMA OpenUndone ==
    ASSUME OneCaller, TypesOK, UndoInv, restarts = 0, NEW c \in Callers, UndoLatest(c)
    PROVE  /\ Target(NoEvent) \in Open /\ Target(NoEvent) \in 1 .. Len(history)
           /\ history[Target(NoEvent)].after = cards
           /\ cards' = history[Target(NoEvent)].before
           /\ \A i, j \in Open' :
                 i < j /\ (\A m \in Open' : m <= i \/ j <= m) => history'[i].after = history'[j].before
           /\ \A i \in Open' : (\A m \in Open' : m <= i) => history'[i].after = OpenStory'
<1> DEFINE k == Target(NoEvent)
<1>1. /\ history \in Seq(Records) /\ Open # {}
      /\ history' = [history EXCEPT ![k].reverted = TRUE]
      /\ cards' = history[k].before /\ call[c].pc = "idle"
      /\ call'[c].pc = "record" /\ call'[c].undoOf = history[k].event
  BY DEF UndoLatest, UndoLastMutation, Open, TypesOK, HistoryTyped, CallsTyped, Idle
<1>2. k \in Open /\ k \in 1 .. Len(history) /\ \A j \in Open : j <= k
  BY <1>1, TargetIsNewest DEF Open
<1> HIDE DEF k
<1>3. /\ Len(history) \in Nat /\ Open \subseteq 1 .. Len(history)
      /\ \A i \in 1 .. Len(history) :
            i \in Open <=> ~history[i].reverted /\ history[i].undoOf = NoEvent
  BY <1>1, OpenIs
<1>4. OpenStory = cards /\ OpenStory' = cards'
  <2>1. history[k].event # NoEvent
    <3>1. history[k].event \in 1 .. events /\ events \in Nat
      BY <1>2, KnownTyped DEF TypesOK, Counted
    <3> QED
      BY <3>1 DEF NoEvent
  <2> QED
    BY <1>1, <2>1, OpenStoryIs
<1>5. history[k].after = cards
  BY <1>2, <1>4 DEF UndoInv
<1>6. /\ \A i \in 1 .. Len(history) :
            /\ history'[i].before = history[i].before /\ history'[i].after = history[i].after
            /\ history'[i].undoOf = history[i].undoOf
            /\ i # k => history'[i].reverted = history[i].reverted
      /\ history'[k].reverted
      /\ history' \in Seq(Records) /\ Len(history') = Len(history)
  <2>1. Amended
    BY <1>1, <1>2, MarkAmends
  <2>2. history'[k].reverted
    <3>1. history'[k] = [history[k] EXCEPT !.reverted = TRUE] /\ history[k] \in Records
      BY <1>1, <1>2, LenProperties, ElementOfSeq
    <3> QED
      BY <3>1 DEF Records
  <2>3. \A i \in 1 .. Len(history) : i # k => history'[i] = history[i]
    BY <1>1, LenProperties
  <2> QED
    BY <2>1, <2>2, <2>3 DEF Amended
<1>7. Open' = Open \ {k}
  <2>1. DOMAIN history' = 1 .. Len(history)
    BY <1>6, LenProperties
  <2>2. \A i : i \in Open' <=> i \in 1 .. Len(history) /\ ~history'[i].reverted /\ history'[i].undoOf = NoEvent
    BY <2>1 DEF Open, Undoable, NoEvent
  <2>3. \A i : i \in Open => i \in 1 .. Len(history)
    BY <1>3
  <2>4. ASSUME NEW i \in 1 .. Len(history)
        PROVE  i \in Open' <=> i \in Open /\ i # k
    <3>1. CASE i = k
      BY <1>6, <2>2, <3>1
    <3>2. CASE i # k
      BY <1>3, <1>6, <2>2, <3>2
    <3> QED
      BY <3>1, <3>2
  <2> QED
    BY <2>2, <2>3, <2>4
<1>8. ASSUME NEW i \in Open', NEW j \in Open', i < j, \A m \in Open' : m <= i \/ j <= m
      PROVE  history'[i].after = history'[j].before
  <2>1. i \in Open /\ j \in Open /\ \A m \in Open : m <= i \/ j <= m
    BY <1>2, <1>7, <1>8
  <2>2. history[i].after = history[j].before
    BY <1>8, <2>1 DEF UndoInv
  <2> QED
    BY <1>3, <1>6, <2>1, <2>2
<1>9. ASSUME NEW i \in Open', \A m \in Open' : m <= i
      PROVE  history'[i].after = OpenStory'
  <2>1. i \in Open /\ i < k /\ i \in 1 .. Len(history)
    BY <1>2, <1>3, <1>7
  <2>2. \A m \in Open : m <= i \/ k <= m
    BY <1>2, <1>3, <1>7, <1>9
  <2>3. history[i].after = history[k].before
    BY <1>2, <2>1, <2>2 DEF UndoInv
  <2> QED
    BY <1>1, <1>4, <1>6, <2>1, <2>3
<1> QED
  BY <1>1, <1>2, <1>5, <1>8, <1>9 DEF k

LEMMA UndoInvNext ==
    ASSUME OneCaller, ~ByEvent, TypesOK, UndoInv, [Next]_vars
    PROVE  UndoInv'
<1>1. ASSUME NEW c \in Callers, CallStep(c) \/ UndoLatest(c)
      PROVE  UndoInv'
  <2>1. restarts' = restarts
    BY <1>1 DEF CallStep, Begin, EditCard, DeleteTicket, Change, UnknownCard, After, RecordMutation,
         SaveSnapshot, SaveMutationRecord, StoreError, AttachExternalConfirmations, Answer, storeVars,
         UndoLatest, UndoLastMutation
  <2> SUFFICES ASSUME restarts = 0
               PROVE  UndoInv'
    BY <2>1 DEF UndoInv
  <2>2. /\ call'[c].pc = "apply" => call'[c].before = cards'
        /\ call'[c].pc \in {"apply", "after"} => call'[c].undoOf = NoEvent
        /\ call'[c].pc \in {"apply", "after", "record"} => ~call'[c].reverted
        /\ call'[c].pc = "record" => call'[c].after = cards'
    BY <1>1, UndoCalls
  <2>3. /\ \A i, j \in Open' :
              i < j /\ (\A m \in Open' : m <= i \/ j <= m) => history'[i].after = history'[j].before
        /\ \A i \in Open' : (\A m \in Open' : m <= i) => history'[i].after = OpenStory'
    <3>1. CASE RecordMutation(c)
      BY <3>1, OpenRecorded
    <3>2. CASE UndoLatest(c)
      BY <3>2, OpenUndone
    <3>3. CASE CallStep(c) /\ ~RecordMutation(c)
      <4>1. OpenStory' = OpenStory
        BY <3>3, UndoCalls
      <4>2. /\ Open' = Open
            /\ \A i \in Open : history'[i].before = history[i].before /\ history'[i].after = history[i].after
        BY <3>3, OpenKept
      <4> QED
        BY <4>1, <4>2 DEF UndoInv
    <3> QED
      BY <1>1, <3>1, <3>2, <3>3
  <2>4. \A d \in Callers : d = c
    BY DEF OneCaller
  <2> QED
    BY <2>2, <2>3, <2>4 DEF UndoInv, NoEvent
<1>2. CASE Restart
  <2>1. restarts' # 0
    BY <1>2 DEF Restart, TypesOK, StoreTyped
  <2> QED
    BY <2>1 DEF UndoInv
<1>3. CASE UNCHANGED vars
  <2>1. Open' = Open /\ OpenStory' = OpenStory
    BY <1>3 DEF vars, Open, Undoable, OpenStory, Pending, Unrecorded
  <2> QED
    BY <1>3, <2>1 DEF vars, UndoInv
<1>4. Next => Restart \/ \E c \in Callers : CallStep(c) \/ UndoLatest(c)
  BY DEF Next, CallStep, UndoEvent
<1> QED
  BY <1>1, <1>2, <1>3, <1>4

\* While calls come one after the other and undo the latest mutation, an undo
\* gives back what its target changed and nothing else, though it replaces the
\* whole board: every later record was undone before it or is an undo, and
\* each of them left the board as the one before it had (undoLastMutation).
THEOREM UndoesOnlyItsOwn ==
    ASSUME OneCaller, ~ByEvent
    PROVE  Spec => UndoOnlyItsOwn
<1>1. Init => UndoInv
  <2> SUFFICES ASSUME Init
               PROVE  UndoInv
    OBVIOUS
  <2>1. history \in Seq(Records) /\ Len(history) = 0
    BY EmptySeq DEF Init
  <2>2. Open = {}
    BY <2>1, OpenIs
  <2> QED
    BY <2>2 DEF Init, UndoInv, Idle
<1>2. TypesOK /\ UndoInv /\ [Next]_vars => UndoInv'
  BY UndoInvNext
<1>3. ASSUME TypesOK, UndoInv, Next, restarts = 0, NEW c \in Callers, NEW i \in DOMAIN history,
             call[c].pc = "idle", call'[c].pc = "record", call'[c].undoOf = history[i].event,
             NEW p \in Parts
      PROVE  cards'[p] = IF history[i].before[p] = history[i].after[p]
                         THEN cards[p] ELSE history[i].before[p]
  <2>1. UndoLatest(c)
    <3>1. PICK d \in Callers : CallStep(d) \/ UndoLatest(d)
      <4>1. ~Restart
        BY <1>3 DEF Restart, Idle
      <4> QED
        BY <1>3, <4>1 DEF Next, CallStep, UndoEvent
    <3>2. d = c
      BY DEF OneCaller
    <3>3. ASSUME CallStep(c)
          PROVE  FALSE
      <4>1. Begin(c)
        BY <1>3, <3>3 DEF CallStep, EditCard, DeleteTicket, Change, UnknownCard, After, RecordMutation,
             SaveSnapshot, SaveMutationRecord, StoreError, AttachExternalConfirmations, Answer
      <4>2. call'[c].pc = "apply"
        <5>1. call' = [call EXCEPT ![c] = [Idle EXCEPT !.pc = "apply", !.before = cards]]
          BY <4>1 DEF Begin
        <5>2. call'[c] = [Idle EXCEPT !.pc = "apply", !.before = cards]
          BY <1>3, <5>1 DEF TypesOK, CallsTyped
        <5> QED
          BY <5>2 DEF Idle
      <4> QED
        BY <1>3, <4>2
    <3> QED
      BY <3>1, <3>2, <3>3
  <2> DEFINE k == Target(NoEvent)
  <2>2. /\ k \in 1 .. Len(history) /\ history[k].after = cards /\ cards' = history[k].before
    BY <1>3, <2>1, OpenUndone
  <2>3. call'[c].undoOf = history[k].event
    <3>1. call \in [Callers -> Calls]
      BY <1>3 DEF TypesOK, CallsTyped
    <3> QED
      BY <2>1, <3>1 DEF UndoLatest, UndoLastMutation, Idle
  <2> HIDE DEF k
  <2>4. i = k
    <3>1. i \in 1 .. Len(history)
      BY LenProperties, <1>3 DEF TypesOK, HistoryTyped
    <3>2. history[i].event \in 1 .. events /\ history[k].event \in 1 .. events /\ events \in Nat
      BY <1>3, <2>2, <3>1, KnownTyped DEF TypesOK, Counted
    <3>3. ~(i < k) /\ ~(k < i)
      <4>1. Sorted(history) /\ history[i].event = history[k].event
        BY <1>3, <2>3 DEF TypesOK, HistoryTyped
      <4> QED
        BY <2>2, <3>1, <3>2, <4>1 DEF Sorted
    <3> QED
      BY <2>2, <3>1, <3>3
  <2> QED
    BY <2>2, <2>4
<1>4. TypesOK /\ UndoInv /\ [Next]_vars =>
        [\A c \in Callers : \A i \in DOMAIN history :
           restarts = 0 /\ call[c].pc = "idle" /\ call'[c].pc = "record"
             /\ call'[c].undoOf = history[i].event =>
           \A p \in Parts :
              cards'[p] = IF history[i].before[p] = history[i].after[p]
                          THEN cards[p] ELSE history[i].before[p]]_vars
  BY <1>3
<1> QED
  BY <1>1, <1>2, <1>4, TypesInvariant, PTL DEF Spec, UndoOnlyItsOwn

=============================================================================
