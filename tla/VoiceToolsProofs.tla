-------------------------- MODULE VoiceToolsProofs --------------------------
(***************************************************************************)
(* Proofs about VoiceTools, for any persons, calls, durations and limit of *)
(* the table of handled calls.  The attribution is proved for persons who  *)
(* type on one WebSocket each: the run VoiceToolsTabs shows why.           *)
(***************************************************************************)
EXTENDS VoiceTools, FiniteSetTheorems, TLAPS

USE TimesAssumption, BoundsAssumption

-----------------------------------------------------------------------------
(* The table of handled calls.                                             *)

\* The tool calls so far: those that filled the table each time it was emptied,
\* and those in it.  A call was applied once for each time, and once if it is
\* in the table now.
Counted ==
    /\ IsFiniteSet(handledCalls)
    /\ uses = cleared * MaxHandled + Cardinality(handledCalls)
    /\ \A c \in Calls : applied[c] <= cleared + (IF c \in handledCalls THEN 1 ELSE 0)

CallsOK ==
    /\ handledCalls \subseteq Calls /\ Cardinality(handledCalls) <= MaxHandled
    /\ applied \in [Calls -> Nat] /\ (\A c \in Calls : applied[c] <= uses)
    /\ cleared \in Nat /\ cleared <= uses
    /\ uses \in 0 .. MaxToolUses
    /\ Counted

LEMMA CallsInit == Init => CallsOK
BY FS_EmptySet DEF Init, CallsOK, Counted

LEMMA ProductStep == \A a, b \in Nat : (a + 1) * b = a * b + b /\ a * b \in Nat
OBVIOUS

LEMMA CallsNext == CallsOK /\ [Next]_vars => CallsOK'
<1> SUFFICES ASSUME CallsOK, [Next]_vars
             PROVE  CallsOK'
  OBVIOUS
<1>1. CASE UNCHANGED callVars
  BY <1>1 DEF callVars, CallsOK, Counted
<1>2. ASSUME NEW call \in Calls, handleToolUse(call)
      PROVE  CallsOK'
  <2>1. /\ uses < MaxToolUses /\ call \notin handledCalls /\ uses' = uses + 1
        /\ applied' = [applied EXCEPT ![call] = @ + 1]
        /\ MarkCallHandled(call)
        /\ cleared' = IF handledCalls \subseteq handledCalls' THEN cleared ELSE cleared + 1
    BY <1>2 DEF handleToolUse
  <2>2. /\ IsFiniteSet(handledCalls) /\ Cardinality(handledCalls) \in Nat
        /\ cleared \in Nat /\ uses \in Nat /\ applied \in [Calls -> Nat]
        /\ handledCalls \subseteq Calls /\ Cardinality(handledCalls) <= MaxHandled
        /\ \A c \in Calls : applied[c] <= uses
    BY FS_CardinalityType DEF CallsOK, Counted
  <2>3. /\ applied' \in [Calls -> Nat] /\ applied'[call] = applied[call] + 1
        /\ \A c \in Calls \ {call} : applied'[c] = applied[c]
        /\ \A c \in Calls : applied'[c] <= uses'
    BY <2>1, <2>2
  <2>4. /\ \A c \in Calls \ {call} : applied[c] <= cleared + (IF c \in handledCalls THEN 1 ELSE 0)
        /\ applied[call] <= cleared
    BY <2>1 DEF CallsOK, Counted
  <2>5. CASE Cardinality(handledCalls) >= MaxHandled
    <3>1. handledCalls' = {call} /\ Cardinality(handledCalls) = MaxHandled
      BY <2>1, <2>2, <2>5 DEF MarkCallHandled
    <3>2. handledCalls # {}
      BY <3>1, FS_EmptySet
    <3>3. cleared' = cleared + 1
      BY <2>1, <3>1, <3>2
    <3>4. IsFiniteSet(handledCalls') /\ Cardinality(handledCalls') = 1
      BY <3>1, FS_Singleton
    <3>5. uses' = cleared' * MaxHandled + 1
      <4>1. uses = cleared * MaxHandled + MaxHandled
        BY <3>1 DEF CallsOK, Counted
      <4> DEFINE filled == cleared * MaxHandled
      <4>2. filled \in Nat /\ (cleared + 1) * MaxHandled = filled + MaxHandled
        BY <2>2, ProductStep
      <4>3. uses = filled + MaxHandled
        BY <4>1
      <4> HIDE DEF filled
      <4> QED
        BY <2>1, <3>3, <4>2, <4>3
    <3>6. \A c \in Calls : applied'[c] <= cleared' + (IF c \in handledCalls' THEN 1 ELSE 0)
      BY <2>2, <2>3, <2>4, <3>1, <3>3
    <3> QED
      BY <2>1, <2>2, <2>3, <3>1, <3>3, <3>4, <3>5, <3>6 DEF CallsOK, Counted
  <2>6. CASE Cardinality(handledCalls) < MaxHandled
    <3>1. handledCalls' = handledCalls \cup {call} /\ cleared' = cleared
      BY <2>1, <2>2, <2>6 DEF MarkCallHandled
    <3>2. /\ IsFiniteSet(handledCalls')
          /\ Cardinality(handledCalls') = Cardinality(handledCalls) + 1
      BY <2>1, <2>2, <3>1, FS_AddElement
    <3>3. uses' = cleared' * MaxHandled + Cardinality(handledCalls')
      <4> DEFINE filled == cleared * MaxHandled
      <4>1. filled \in Nat /\ uses = filled + Cardinality(handledCalls)
        BY <2>2, ProductStep DEF CallsOK, Counted
      <4>2. cleared' * MaxHandled = filled
        BY <3>1
      <4> HIDE DEF filled
      <4> QED
        BY <2>1, <2>2, <3>2, <4>1, <4>2
    <3>4. \A c \in Calls : applied'[c] <= cleared' + (IF c \in handledCalls' THEN 1 ELSE 0)
      BY <2>2, <2>3, <2>4, <3>1
    <3> QED
      BY <2>1, <2>2, <2>3, <2>6, <3>1, <3>2, <3>3, <3>4 DEF CallsOK, Counted
  <2> QED
    BY <2>2, <2>5, <2>6
<1>3. UNCHANGED callVars \/ \E call \in Calls : handleToolUse(call)
  BY DEF Next, vars, handleActiveSpeakersChanged, handleTextOutput, rememberUserSpeaker,
         noteSpokenTurnDuringChat, Translated, beginChatTurn, Sent, abortChatTurn, Tick
<1> QED
  BY <1>1, <1>2, <1>3

LEMMA CallsInvariant == Spec => []CallsOK
BY CallsInit, CallsNext, PTL DEF Spec

\* However many calls the model makes, and whatever their ids and the limit: a
\* call is applied again only after the table of handled calls was emptied, each
\* time after as many calls as it holds (MarkCallHandled).
THEOREM CallsAppliedOnce == Spec => []AppliedOnce
<1>1. CallsOK => AppliedOnce
  <2> SUFFICES ASSUME CallsOK
               PROVE  AppliedOnce
    OBVIOUS
  <2>1. Cardinality(handledCalls) \in Nat
    BY FS_CardinalityType DEF CallsOK, Counted
  <2>2. cleared * MaxHandled \in Nat
    BY ProductStep DEF CallsOK
  <2> QED
    BY <2>1, <2>2 DEF CallsOK, Counted, AppliedOnce
<1> QED
  BY <1>1, CallsInvariant, PTL

-----------------------------------------------------------------------------
(* Whom a call names.                                                      *)

TypesOK ==
    /\ activeSpeakers \subseteq Persons
    /\ lastUserSpeaker \subseteq Persons /\ lastUserSpeakerAt \in 0 .. TTL + 1
    /\ chatTurnPrincipals \in [Persons -> 0 .. Absent] /\ chatTurnSeen \in BOOLEAN
    /\ textOutput \in [pc : {"idle", "remember", "note", "translate"}, identity : SUBSET Persons]
    /\ socket \in [Sockets -> [pc : {"idle", "sending"}, added : BOOLEAN, age : 0 .. SendTime]]
    /\ typed \in [Persons -> 0 .. TTL + 1]
    /\ present \in [Persons -> 0 .. 2 * TTL + 1]
    /\ spoke \in [Persons -> 0 .. 2 * TTL + 1]
    /\ withdrawn \subseteq Persons

\* No person types on two WebSockets at a time.
OneTab == \A t, u \in Tabs : t = u

Sending(s) == socket[s].pc = "sending"

\* Between the two sections the speaker that was remembered is still the last.
Noted ==
    textOutput.pc = "note" =>
       textOutput.identity = lastUserSpeaker /\ lastUserSpeakerAt = 0

\* The author of a message on its way is named, for as long as it is.
SendingNamed ==
    \A s \in Sockets : Sending(s) =>
       /\ chatTurnPrincipals[Author(s)] <= socket[s].age
       /\ socket[s].added => typed[Author(s)] = TTL + 1

\* And so is the author of one that has arrived.
TypedNamed == \A p \in Persons : typed[p] <= TTL => chatTurnPrincipals[p] <= typed[p]

\* With any typed turn in flight there is one of whoever spoke last.
SpokenNamed ==
    textOutput.pc # "note" /\ lastUserSpeakerAt <= TTL /\ Live # {} =>
       \A p \in lastUserSpeaker :
          p \notin withdrawn \/ (\E s \in Sockets : Sending(s) /\ Author(s) = p)
          => chatTurnPrincipals[p] <= lastUserSpeakerAt

\* Who is named has been there.
NamedPresent ==
    /\ \A p \in activeSpeakers : present[p] = 0
    /\ lastUserSpeakerAt <= TTL => \A p \in lastUserSpeaker : spoke[p] <= lastUserSpeakerAt
    /\ \A p \in Persons : chatTurnPrincipals[p] <= TTL =>
          \/ present[p] <= chatTurnPrincipals[p] + TTL
          \/ spoke[p] <= chatTurnPrincipals[p] + TTL

AInv ==
    /\ TypesOK
    /\ Noted
    /\ SendingNamed
    /\ TypedNamed
    /\ SpokenNamed
    /\ NamedPresent

LEMMA Authors ==
    ASSUME NEW s \in Sockets
    PROVE  /\ Author(s) \in Persons
           /\ OneTab => \A t \in Sockets : Author(t) = Author(s) => t = s
BY DEF Sockets, Author, OneTab

LEMMA Durations ==
    /\ TTL \in Nat /\ SendTime \in Nat /\ SendTime <= TTL /\ Grace \in Nat /\ Grace < TTL
    /\ Absent = TTL + 2 /\ 2 * TTL \in Nat /\ 2 * TTL = TTL + TTL
BY DEF Absent

\* The entries that a read of the principal leaves.
LEMMA PrunedType ==
    ASSUME TypesOK
    PROVE  /\ Pruned \in [Persons -> 0 .. Absent]
           /\ \A p \in Persons : /\ chatTurnPrincipals[p] <= TTL => Pruned[p] = chatTurnPrincipals[p]
                                 /\ chatTurnPrincipals[p] > TTL => Pruned[p] = Absent
BY Durations DEF TypesOK, Pruned, Live

LEMMA TypesNext == TypesOK /\ [Next]_vars => TypesOK'
<1> SUFFICES ASSUME TypesOK, [Next]_vars
             PROVE  TypesOK'
  OBVIOUS
<1> USE Durations DEF speakerVars, chatVars
<1>1. ASSUME NEW speakers \in SUBSET Persons, handleActiveSpeakersChanged(speakers)
      PROVE  TypesOK'
  BY <1>1 DEF Seen, handleActiveSpeakersChanged, TypesOK
<1>2. CASE handleTextOutput
  BY <1>2 DEF handleTextOutput, TypesOK, currentOrLastSpeakerLabel
<1>3. CASE rememberUserSpeaker
  BY <1>3 DEF Seen, rememberUserSpeaker, TypesOK
<1>4. CASE noteSpokenTurnDuringChat
  <2>1. chatTurnPrincipals' \in [Persons -> 0 .. Absent]
    BY <1>4, PrunedType DEF Seen, noteSpokenTurnDuringChat
  <2> QED
    BY <1>4, <2>1 DEF noteSpokenTurnDuringChat, TypesOK
<1>5. CASE Translated
  BY <1>5 DEF Translated, TypesOK, NoText
<1>6. ASSUME NEW call \in Calls, handleToolUse(call)
      PROVE  TypesOK'
  BY <1>6, PrunedType DEF handleToolUse, TypesOK
<1>7. ASSUME NEW s \in Sockets, beginChatTurn(s)
      PROVE  TypesOK'
  <2>1. chatTurnPrincipals' \in [Persons -> 0 .. Absent] /\ present' \in [Persons -> 0 .. 2 * TTL + 1]
    BY <1>7 DEF Seen, beginChatTurn, WithTurn, TypesOK
  <2>2. socket' \in [Sockets -> [pc : {"idle", "sending"}, added : BOOLEAN, age : 0 .. SendTime]]
    BY <1>7 DEF beginChatTurn, TypesOK
  <2> QED
    BY <1>7, <2>1, <2>2 DEF beginChatTurn, TypesOK
<1>8. ASSUME NEW s \in Sockets, Sent(s)
      PROVE  TypesOK'
  <2>1. NoMessage \in [pc : {"idle", "sending"}, added : BOOLEAN, age : 0 .. SendTime]
    BY DEF NoMessage
  <2>2. typed' \in [Persons -> 0 .. TTL + 1]
    BY <1>8, Authors DEF Sent, TypesOK
  <2> QED
    BY <1>8, <2>1, <2>2 DEF Sent, TypesOK
<1>9. ASSUME NEW s \in Sockets, abortChatTurn(s)
      PROVE  TypesOK'
  <2>1. NoMessage \in [pc : {"idle", "sending"}, added : BOOLEAN, age : 0 .. SendTime]
    BY DEF NoMessage
  <2>2. chatTurnPrincipals' \in [Persons -> 0 .. Absent] /\ withdrawn' \subseteq Persons
    BY <1>9, Authors DEF abortChatTurn, TypesOK
  <2> QED
    BY <1>9, <2>1, <2>2 DEF abortChatTurn, TypesOK
<1>10. CASE Tick
  <2>1. /\ lastUserSpeakerAt' \in 0 .. TTL + 1 /\ typed' \in [Persons -> 0 .. TTL + 1]
        /\ spoke' \in [Persons -> 0 .. 2 * TTL + 1]
    BY <1>10 DEF Older, Tick, TypesOK
  <2>2. present' \in [Persons -> 0 .. 2 * TTL + 1]
    <3>1. [p \in Persons |-> Older(present[p], 2 * TTL + 1)] \in [Persons -> 0 .. 2 * TTL + 1]
      BY DEF Older, TypesOK
    <3> QED
      BY <1>10, <3>1 DEF Seen, Tick
  <2>3. chatTurnPrincipals' \in [Persons -> 0 .. Absent]
    <3>1. \A p \in Persons : chatTurnPrincipals[p] # Absent =>
             Older(chatTurnPrincipals[p], TTL + 1) \in 0 .. Absent
      BY DEF Older, TypesOK
    <3> QED
      BY <1>10, <3>1 DEF Tick
  <2>4. socket' \in [Sockets -> [pc : {"idle", "sending"}, added : BOOLEAN, age : 0 .. SendTime]]
    <3>1. ASSUME NEW s \in Sockets
          PROVE  socket'[s] \in [pc : {"idle", "sending"}, added : BOOLEAN, age : 0 .. SendTime]
      BY <1>10 DEF Tick, TypesOK, NoMessage
    <3> QED
      BY <1>10, <3>1 DEF Tick
  <2> QED
    BY <1>10, <2>1, <2>2, <2>3, <2>4 DEF Tick, TypesOK
<1>11. CASE UNCHANGED vars
  BY <1>11 DEF vars, TypesOK
<1> QED
  BY <1>1, <1>2, <1>3, <1>4, <1>5, <1>6, <1>7, <1>8, <1>9, <1>10, <1>11 DEF Next

LEMMA TypesInit == Init => TypesOK
<1> SUFFICES ASSUME Init
             PROVE  TypesOK
  OBVIOUS
<1> USE Durations
<1>1. /\ chatTurnPrincipals \in [Persons -> 0 .. Absent] /\ typed \in [Persons -> 0 .. TTL + 1]
      /\ lastUserSpeakerAt \in 0 .. TTL + 1
  BY DEF Init
<1>2. present \in [Persons -> 0 .. 2 * TTL + 1] /\ spoke \in [Persons -> 0 .. 2 * TTL + 1]
  BY DEF Init
<1>3. socket \in [Sockets -> [pc : {"idle", "sending"}, added : BOOLEAN, age : 0 .. SendTime]]
  BY DEF Init, NoMessage
<1> QED
  BY <1>1, <1>2, <1>3 DEF Init, TypesOK, NoText

LEMMA TypesInvariant == Spec => []TypesOK
BY TypesInit, TypesNext, PTL DEF Spec

\* Every variable keeps to its set; in particular the table of handled calls never
\* holds more than maxHandledCalls, however many there are (MarkCallHandled).
THEOREM VoiceTypes == Spec => []TypeOK
<1>1. TypesOK /\ CallsOK => TypeOK
  BY DEF TypesOK, CallsOK, TypeOK
<1> QED
  BY <1>1, TypesInvariant, CallsInvariant, PTL

\* The steps keep that part of the invariant, one after the other.

LEMMA AttributionInit == Init => AInv
<1> SUFFICES ASSUME Init
             PROVE  AInv
  OBVIOUS
<1> USE Durations
<1>1. TypesOK
  BY TypesInit
<1>2. Noted /\ SendingNamed
  BY DEF Init, Noted, NoText, SendingNamed, Sending, NoMessage
<1>3. TypedNamed /\ SpokenNamed /\ NamedPresent
  BY DEF Init, TypedNamed, SpokenNamed, NamedPresent
<1> QED
  BY <1>1, <1>2, <1>3 DEF AInv

\* LiveKit's callback and the output goroutine.
LEMMA OutputKeeps ==
    ASSUME AInv, TypesOK',
           \/ \E speakers \in SUBSET Persons : handleActiveSpeakersChanged(speakers)
           \/ handleTextOutput \/ rememberUserSpeaker \/ noteSpokenTurnDuringChat \/ Translated
    PROVE  AInv'
<1> USE Durations DEF speakerVars, chatVars, callVars
<1>1. TypesOK
  BY DEF AInv
<1>2. ASSUME NEW speakers \in SUBSET Persons, handleActiveSpeakersChanged(speakers)
      PROVE  AInv'
  <2>1. /\ activeSpeakers' = speakers /\ present' = Seen(activeSpeakers \cup speakers, present)
        /\ UNCHANGED <<speakerVars, chatVars, textOutput, socket, typed, spoke, withdrawn, callVars>>
    BY <1>2 DEF handleActiveSpeakersChanged
  <2>2. Noted' /\ SendingNamed' /\ TypedNamed' /\ SpokenNamed'
    BY <2>1 DEF AInv, Noted, SendingNamed, Sending, TypedNamed, SpokenNamed, Live
  <2>3. \A p \in Persons : present'[p] <= present[p] /\ (p \in speakers => present'[p] = 0)
    BY <1>1, <2>1 DEF Seen, TypesOK
  <2>4. NamedPresent'
    <3>1. \A p \in Persons : /\ present[p] \in Nat /\ present'[p] \in Nat
                             /\ chatTurnPrincipals[p] \in Nat
      BY <1>1 DEF TypesOK
    <3>2. ASSUME NEW p \in Persons, chatTurnPrincipals[p] <= TTL
          PROVE  \/ present'[p] <= chatTurnPrincipals[p] + TTL
                 \/ spoke[p] <= chatTurnPrincipals[p] + TTL
      <4>1. \/ present[p] <= chatTurnPrincipals[p] + TTL
            \/ spoke[p] <= chatTurnPrincipals[p] + TTL
        BY <3>2 DEF AInv, NamedPresent
      <4>2. present'[p] <= present[p]
        BY <2>3
      <4> QED
        BY <3>1, <4>1, <4>2
    <3> QED
      BY <2>1, <2>3, <3>2 DEF AInv, NamedPresent
  <2> QED
    BY <2>2, <2>4 DEF AInv
<1>3. CASE handleTextOutput \/ Translated
  <2>1. /\ textOutput'.pc \in {"idle", "translate", "remember"} /\ textOutput.pc # "note"
        /\ UNCHANGED <<activeSpeakers, speakerVars, chatVars, socket, typed, present, spoke,
                       withdrawn, callVars>>
    BY <1>3 DEF handleTextOutput, Translated, NoText
  <2>2. Noted' /\ SendingNamed' /\ TypedNamed'
    BY <2>1 DEF AInv, Noted, SendingNamed, Sending, TypedNamed
  <2>3. SpokenNamed' /\ NamedPresent'
    BY <2>1 DEF AInv, SpokenNamed, Live, Sending, NamedPresent
  <2> QED
    BY <2>2, <2>3 DEF AInv
<1>4. CASE rememberUserSpeaker
  <2>1. /\ textOutput.pc = "remember" /\ lastUserSpeaker' = textOutput.identity
        /\ lastUserSpeakerAt' = 0 /\ spoke' = Seen(textOutput.identity, spoke)
        /\ textOutput' = [textOutput EXCEPT !.pc = "note"]
        /\ UNCHANGED <<activeSpeakers, chatVars, socket, typed, present, callVars>>
    BY <1>4 DEF rememberUserSpeaker
  <2>2. textOutput'.pc = "note" /\ textOutput'.identity = textOutput.identity
    BY <1>1, <2>1 DEF TypesOK
  <2>3. Noted' /\ SendingNamed' /\ TypedNamed' /\ SpokenNamed'
    BY <2>1, <2>2 DEF AInv, Noted, SendingNamed, Sending, TypedNamed, SpokenNamed
  <2>4. \A p \in Persons : spoke'[p] <= spoke[p] /\ (p \in textOutput.identity => spoke'[p] = 0)
    BY <1>1, <2>1 DEF Seen, TypesOK
  <2>5. NamedPresent'
    BY <1>1, <2>1, <2>4 DEF AInv, NamedPresent, TypesOK
  <2> QED
    BY <2>3, <2>5 DEF AInv
<1>5. CASE noteSpokenTurnDuringChat
  <2>1. /\ textOutput.pc = "note" /\ textOutput' = [textOutput EXCEPT !.pc = "translate"]
        /\ chatTurnPrincipals' = IF Live = {} THEN Pruned ELSE Seen(textOutput.identity, Pruned)
        /\ UNCHANGED <<activeSpeakers, speakerVars, chatTurnSeen, socket, typed, present, spoke,
                       withdrawn, callVars>>
    BY <1>5 DEF noteSpokenTurnDuringChat
  <2>2. /\ textOutput'.pc = "translate" /\ textOutput.identity = lastUserSpeaker
        /\ lastUserSpeakerAt = 0
    BY <1>1, <2>1 DEF AInv, Noted, TypesOK
  <2>3. \A p \in Persons :
           \/ Live # {} /\ p \in lastUserSpeaker /\ chatTurnPrincipals'[p] = 0
           \/ /\ ~(Live # {} /\ p \in lastUserSpeaker)
              /\ \/ chatTurnPrincipals[p] <= TTL /\ chatTurnPrincipals'[p] = chatTurnPrincipals[p]
                 \/ chatTurnPrincipals[p] > TTL /\ chatTurnPrincipals'[p] = Absent
    BY <1>1, <2>1, <2>2, PrunedType DEF Seen, TypesOK
  <2>4. \A p \in Persons : chatTurnPrincipals[p] <= TTL => chatTurnPrincipals'[p] <= chatTurnPrincipals[p]
    BY <1>1, <2>3 DEF TypesOK
  <2>5. Noted'
    BY <2>2 DEF Noted
  <2>6. SendingNamed'
    <3>1. ASSUME NEW s \in Sockets, Sending(s)
          PROVE  /\ chatTurnPrincipals'[Author(s)] <= socket[s].age
                 /\ socket[s].added => typed[Author(s)] = TTL + 1
      <4>1. /\ chatTurnPrincipals[Author(s)] <= socket[s].age /\ socket[s].age \in 0 .. SendTime
            /\ chatTurnPrincipals[Author(s)] \in Nat /\ Author(s) \in Persons
            /\ socket[s].added => typed[Author(s)] = TTL + 1
        BY <1>1, <3>1, Authors DEF AInv, SendingNamed, TypesOK
      <4>2. chatTurnPrincipals'[Author(s)] \in Nat
        BY <4>1 DEF TypesOK
      <4> QED
        BY <2>4, <4>1, <4>2
    <3> QED
      BY <2>1, <3>1 DEF SendingNamed, Sending
  <2>7. TypedNamed'
    <3>1. ASSUME NEW p \in Persons, typed[p] <= TTL
          PROVE  chatTurnPrincipals'[p] <= typed[p]
      <4>1. /\ chatTurnPrincipals[p] <= typed[p] /\ typed[p] \in Nat
            /\ chatTurnPrincipals[p] \in Nat /\ chatTurnPrincipals'[p] \in Nat
        BY <1>1, <3>1 DEF AInv, TypedNamed, TypesOK
      <4> QED
        BY <2>4, <3>1, <4>1
    <3> QED
      BY <2>1, <3>1 DEF TypedNamed
  <2>8. SpokenNamed'
    <3>1. Live' # {} => Live # {}
      BY <1>1, <2>3 DEF Live
    <3>2. Live # {} => \A p \in lastUserSpeaker : chatTurnPrincipals'[p] = 0
      BY <1>1, <2>3 DEF TypesOK
    <3> QED
      BY <2>1, <2>2, <3>1, <3>2 DEF SpokenNamed
  <2>9. NamedPresent'
    <3>1. ASSUME NEW p \in Persons, chatTurnPrincipals'[p] <= TTL
          PROVE  \/ present[p] <= chatTurnPrincipals'[p] + TTL
                 \/ spoke[p] <= chatTurnPrincipals'[p] + TTL
      <4>1. CASE p \in lastUserSpeaker /\ chatTurnPrincipals'[p] = 0
        BY <1>1, <2>2, <4>1 DEF AInv, NamedPresent, TypesOK
      <4>2. CASE chatTurnPrincipals'[p] = chatTurnPrincipals[p]
        BY <3>1, <4>2 DEF AInv, NamedPresent
      <4> QED
        BY <2>3, <3>1, <4>1, <4>2
    <3> QED
      BY <2>1, <3>1 DEF AInv, NamedPresent
  <2> QED
    BY <2>5, <2>6, <2>7, <2>8, <2>9 DEF AInv
<1> QED
  BY <1>2, <1>3, <1>4, <1>5

\* A tool call forgets the entries that are too old to name anyone.
LEMMA CallKeeps ==
    ASSUME AInv, TypesOK', NEW call \in Calls, handleToolUse(call)
    PROVE  AInv'
<1> USE Durations DEF speakerVars
<1>1. TypesOK
  BY DEF AInv
<1>2. /\ chatTurnPrincipals' = Pruned
      /\ UNCHANGED <<activeSpeakers, speakerVars, chatTurnSeen, textOutput, socket, typed,
                     present, spoke, withdrawn>>
  BY DEF handleToolUse
<1>3. \A p \in Persons :
         \/ chatTurnPrincipals[p] <= TTL /\ chatTurnPrincipals'[p] = chatTurnPrincipals[p]
         \/ chatTurnPrincipals[p] > TTL /\ chatTurnPrincipals'[p] = Absent
  BY <1>1, <1>2, PrunedType DEF TypesOK
<1>4. Noted' /\ NamedPresent'
  BY <1>2, <1>3 DEF AInv, Noted, NamedPresent
<1>5. SendingNamed'
  <2>1. \A s \in Sockets : Sending(s) => chatTurnPrincipals[Author(s)] <= TTL
    <3>1. \A s \in Sockets : /\ Author(s) \in Persons /\ socket[s].age \in 0 .. SendTime
                             /\ chatTurnPrincipals[Author(s)] \in Nat
      BY <1>1, Authors DEF TypesOK
    <3> QED
      BY <3>1 DEF AInv, SendingNamed
  <2>2. \A s \in Sockets : Sending(s) => chatTurnPrincipals'[Author(s)] = chatTurnPrincipals[Author(s)]
    <3>1. \A s \in Sockets : Author(s) \in Persons /\ chatTurnPrincipals[Author(s)] \in Nat
      BY <1>1, Authors DEF TypesOK
    <3> QED
      BY <1>3, <2>1, <3>1
  <2> QED
    BY <1>2, <2>2 DEF AInv, SendingNamed, Sending
<1>6. TypedNamed'
  BY <1>1, <1>2, <1>3 DEF AInv, TypedNamed, TypesOK
<1>7. SpokenNamed'
  <2>1. Live' = Live
    BY <1>1, <1>3 DEF Live, TypesOK
  <2> QED
    BY <1>1, <1>2, <1>3, <2>1 DEF AInv, SpokenNamed, Sending, TypesOK
<1> QED
  BY <1>4, <1>5, <1>6, <1>7 DEF AInv

\* The types of the entries of a person, and of a message.
LEMMA EntryTypes ==
    ASSUME TypesOK
    PROVE  /\ \A p \in Persons : /\ chatTurnPrincipals[p] \in Nat /\ chatTurnPrincipals[p] <= TTL + 2
                                 /\ typed[p] \in Nat /\ typed[p] <= TTL + 1
                                 /\ present[p] \in Nat /\ spoke[p] \in Nat
           /\ \A s \in Sockets : /\ Author(s) \in Persons
                                 /\ socket[s].age \in Nat /\ socket[s].age <= SendTime
           /\ lastUserSpeakerAt \in Nat
<1> USE Durations
<1>1. \A p \in Persons : /\ chatTurnPrincipals[p] \in Nat /\ chatTurnPrincipals[p] <= TTL + 2
                         /\ typed[p] \in Nat /\ typed[p] <= TTL + 1
                         /\ present[p] \in Nat /\ spoke[p] \in Nat
  BY DEF TypesOK
<1>2. \A s \in Sockets : socket[s].age \in Nat /\ socket[s].age <= SendTime
  BY DEF TypesOK
<1>3. \A s \in Sockets : Author(s) \in Persons
  BY Authors
<1> QED
  BY <1>1, <1>2, <1>3 DEF TypesOK

LEMMA BeginKeeps ==
    ASSUME AInv, TypesOK', NEW s \in Sockets, beginChatTurn(s)
    PROVE  AInv'
<1> USE Durations DEF speakerVars
<1>1. /\ chatTurnPrincipals' = WithTurn(s) /\ present' = Seen({Author(s)}, present)
      /\ socket' = [socket EXCEPT ![s] =
                      [pc |-> "sending", added |-> chatTurnPrincipals[Author(s)] = Absent, age |-> 0]]
      /\ UNCHANGED <<activeSpeakers, speakerVars, textOutput, typed, spoke, withdrawn>>
  BY DEF beginChatTurn
<1>2. TypesOK
  BY DEF AInv
<1>3. /\ \A p \in Persons : chatTurnPrincipals[p] \in Nat /\ typed[p] \in Nat
                            /\ typed[p] <= TTL + 1 /\ present[p] \in Nat /\ spoke[p] \in Nat
      /\ Author(s) \in Persons /\ lastUserSpeakerAt \in Nat
  BY <1>2, EntryTypes
<1>4. /\ socket'[s].age = 0
      /\ socket'[s].added => chatTurnPrincipals[Author(s)] = Absent
      /\ \A t \in Sockets \ {s} : socket'[t] = socket[t]
  BY <1>1, <1>2 DEF TypesOK
<1>5. \A p \in Persons :
         /\ p \in SpokenWith \cup {Author(s)} => chatTurnPrincipals'[p] = 0
         /\ p \notin SpokenWith \cup {Author(s)} => chatTurnPrincipals'[p] = chatTurnPrincipals[p]
         /\ chatTurnPrincipals'[p] <= chatTurnPrincipals[p]
  BY <1>1, <1>2, <1>3 DEF WithTurn, Seen
<1>6. \A p \in Persons : present'[p] <= present[p] /\ (p = Author(s) => present'[p] = 0)
                         /\ present'[p] \in Nat /\ chatTurnPrincipals'[p] \in Nat
  BY <1>1, <1>2, <1>3, <1>5 DEF Seen, TypesOK
<1>7. Noted'
  BY <1>1 DEF AInv, Noted
<1>8. TypedNamed'
  <2>1. ASSUME NEW p \in Persons, typed[p] <= TTL
        PROVE  chatTurnPrincipals'[p] <= typed[p]
    <3>1. chatTurnPrincipals[p] <= typed[p]
      BY <2>1 DEF AInv, TypedNamed
    <3> QED
      BY <1>3, <1>5, <1>6, <3>1
  <2> QED
    BY <1>1, <2>1 DEF TypedNamed
<1>9. SendingNamed'
  <2>1. socket'[s].added => typed[Author(s)] = TTL + 1
    BY <1>3, <1>4 DEF AInv, TypedNamed
  <2>2. ASSUME NEW t \in Sockets \ {s}, Sending(t)
        PROVE  /\ chatTurnPrincipals'[Author(t)] <= socket[t].age
               /\ socket[t].added => typed[Author(t)] = TTL + 1
    <3>1. Author(t) \in Persons /\ socket[t].age \in Nat
      BY <1>2, EntryTypes
    <3>2. /\ chatTurnPrincipals[Author(t)] <= socket[t].age
          /\ socket[t].added => typed[Author(t)] = TTL + 1
      BY <2>2 DEF AInv, SendingNamed
    <3>3. chatTurnPrincipals'[Author(t)] <= chatTurnPrincipals[Author(t)]
      BY <1>5, <3>1
    <3> QED
      BY <1>3, <1>6, <3>1, <3>2, <3>3
  <2>3. chatTurnPrincipals'[Author(s)] = 0
    BY <1>3, <1>5
  <2> QED
    BY <1>1, <1>4, <2>1, <2>2, <2>3 DEF SendingNamed, Sending
<1>10. SpokenNamed'
  <2>1. lastUserSpeakerAt <= TTL => \A p \in lastUserSpeaker : p \in SpokenWith /\ p \in Persons
    BY <1>2 DEF SpokenWith, TypesOK
  <2> QED
    BY <1>1, <1>3, <1>5, <2>1 DEF SpokenNamed
<1>11. NamedPresent'
  <2>1. ASSUME NEW p \in Persons, chatTurnPrincipals'[p] <= TTL
        PROVE  \/ present'[p] <= chatTurnPrincipals'[p] + TTL
               \/ spoke[p] <= chatTurnPrincipals'[p] + TTL
    <3>1. CASE p = Author(s)
      BY <1>6, <3>1
    <3>2. CASE p \in activeSpeakers
      <4>1. present[p] = 0
        BY <3>2 DEF AInv, NamedPresent
      <4> QED
        BY <1>6, <4>1
    <3>3. CASE lastUserSpeakerAt <= TTL /\ p \in lastUserSpeaker
      <4>1. spoke[p] <= lastUserSpeakerAt
        BY <3>3 DEF AInv, NamedPresent
      <4> QED
        BY <1>3, <1>6, <3>3, <4>1
    <3>4. CASE p \notin SpokenWith \cup {Author(s)}
      <4>1. chatTurnPrincipals'[p] = chatTurnPrincipals[p]
        BY <1>5, <3>4
      <4>2. \/ present[p] <= chatTurnPrincipals[p] + TTL
            \/ spoke[p] <= chatTurnPrincipals[p] + TTL
        BY <2>1, <4>1 DEF AInv, NamedPresent
      <4>3. present'[p] <= present[p]
        BY <1>6
      <4> QED
        BY <1>3, <1>6, <4>1, <4>2, <4>3
    <3> QED
      BY <3>1, <3>2, <3>3, <3>4 DEF SpokenWith
  <2>2. \A p \in activeSpeakers : present'[p] = 0
    <3>1. \A p \in activeSpeakers : p \in Persons /\ present[p] = 0
      BY <1>2 DEF AInv, NamedPresent, TypesOK
    <3> QED
      BY <1>6, <3>1
  <2> QED
    BY <1>1, <2>1, <2>2 DEF AInv, NamedPresent
<1> QED
  BY <1>7, <1>8, <1>9, <1>10, <1>11 DEF AInv

LEMMA SentKeeps ==
    ASSUME OneTab, AInv, TypesOK', NEW s \in Sockets, Sent(s)
    PROVE  AInv'
<1> USE Durations DEF speakerVars, chatVars
<1>1. /\ Sending(s)
      /\ typed' = [typed EXCEPT ![Author(s)] = IF socket[s].age < @ THEN socket[s].age ELSE @]
      /\ withdrawn' = withdrawn \ {Author(s)}
      /\ socket' = [socket EXCEPT ![s] = NoMessage]
      /\ UNCHANGED <<activeSpeakers, speakerVars, chatVars, textOutput, present, spoke>>
  BY DEF Sent, Sending
<1>2. TypesOK
  BY DEF AInv
<1>3. /\ \A p \in Persons : chatTurnPrincipals[p] \in Nat /\ typed[p] \in Nat
      /\ Author(s) \in Persons /\ socket[s].age \in Nat
  BY <1>2, EntryTypes
<1>4. socket'[s].pc = "idle" /\ \A t \in Sockets \ {s} : socket'[t] = socket[t]
  BY <1>1, <1>2 DEF TypesOK, NoMessage
<1>5. /\ typed'[Author(s)] = IF socket[s].age < typed[Author(s)] THEN socket[s].age ELSE typed[Author(s)]
      /\ \A p \in Persons \ {Author(s)} : typed'[p] = typed[p]
  BY <1>1, <1>2, <1>3 DEF TypesOK
<1>6. Noted' /\ NamedPresent'
  BY <1>1 DEF AInv, Noted, NamedPresent
<1>7. SendingNamed'
  <2>1. \A t \in Sockets \ {s} : Author(t) \in Persons \ {Author(s)}
    BY Authors
  <2> QED
    BY <1>1, <1>4, <1>5, <2>1 DEF AInv, SendingNamed, Sending
<1>8. TypedNamed'
  <2>1. chatTurnPrincipals[Author(s)] <= socket[s].age
    BY <1>1 DEF AInv, SendingNamed
  <2> QED
    BY <1>1, <1>3, <1>5, <2>1 DEF AInv, TypedNamed
<1>9. SpokenNamed'
  <2>1. \A t \in Sockets : Sending(t)' => Sending(t)
    BY <1>4 DEF Sending
  <2>2. \A p : p \notin withdrawn' => p \notin withdrawn \/ p = Author(s)
    BY <1>1
  <2> QED
    BY <1>1, <2>1, <2>2 DEF AInv, SpokenNamed, Live
<1> QED
  BY <1>6, <1>7, <1>8, <1>9 DEF AInv

LEMMA AbortKeeps ==
    ASSUME OneTab, AInv, TypesOK', NEW s \in Sockets, abortChatTurn(s)
    PROVE  AInv'
<1> USE Durations DEF speakerVars
<1>1. /\ Sending(s) /\ socket' = [socket EXCEPT ![s] = NoMessage]
      /\ UNCHANGED <<activeSpeakers, speakerVars, textOutput, typed, present, spoke>>
  BY DEF abortChatTurn, Sending
<1>2. TypesOK
  BY DEF AInv
<1>3. /\ \A p \in Persons : chatTurnPrincipals[p] \in Nat /\ typed[p] \in Nat
      /\ Author(s) \in Persons
  BY <1>2, EntryTypes
<1>4. socket'[s].pc = "idle" /\ \A t \in Sockets \ {s} : socket'[t] = socket[t]
  BY <1>1, <1>2 DEF TypesOK, NoMessage
<1>5. Noted'
  BY <1>1 DEF AInv, Noted
<1>6. \A t \in Sockets \ {s} : Author(t) \in Persons \ {Author(s)}
  BY Authors
<1>7. \A t \in Sockets : Sending(t)' => Sending(t) /\ t # s
  BY <1>4 DEF Sending
<1>8. CASE socket[s].added
  <2>1. /\ chatTurnPrincipals' = [chatTurnPrincipals EXCEPT ![Author(s)] = Absent]
        /\ withdrawn' = withdrawn \cup {Author(s)}
    BY <1>8 DEF abortChatTurn
  <2>2. /\ chatTurnPrincipals'[Author(s)] = TTL + 2
        /\ \A p \in Persons \ {Author(s)} : chatTurnPrincipals'[p] = chatTurnPrincipals[p]
    BY <1>2, <1>3, <2>1 DEF TypesOK
  <2>3. SendingNamed'
    BY <1>1, <1>4, <1>6, <1>7, <2>2 DEF AInv, SendingNamed
  <2>4. TypedNamed'
    <3>1. typed[Author(s)] = TTL + 1
      BY <1>1, <1>8 DEF AInv, SendingNamed
    <3> QED
      BY <1>1, <2>2, <3>1 DEF AInv, TypedNamed
  <2>5. SpokenNamed'
    <3>1. Live' \subseteq Live
      BY <1>3, <2>2 DEF Live
    <3>2. \A p \in lastUserSpeaker : p \in Persons
      BY <1>2 DEF TypesOK
    <3>3. \A p \in lastUserSpeaker :
             p \notin withdrawn' \/ (\E t \in Sockets : Sending(t)' /\ Author(t) = p)
             => /\ p # Author(s)
                /\ p \notin withdrawn \/ (\E t \in Sockets : Sending(t) /\ Author(t) = p)
      BY <1>6, <1>7, <2>1
    <3> QED
      BY <1>1, <2>2, <3>1, <3>2, <3>3 DEF AInv, SpokenNamed
  <2>6. NamedPresent'
    BY <1>1, <1>3, <2>2 DEF AInv, NamedPresent
  <2> QED
    BY <1>5, <2>3, <2>4, <2>5, <2>6 DEF AInv
<1>9. CASE ~socket[s].added
  <2>1. UNCHANGED <<chatTurnPrincipals, withdrawn>>
    BY <1>9 DEF abortChatTurn
  <2>2. SendingNamed' /\ TypedNamed' /\ NamedPresent'
    BY <1>1, <1>4, <1>7, <2>1 DEF AInv, SendingNamed, TypedNamed, NamedPresent
  <2>3. SpokenNamed'
    BY <1>1, <1>7, <2>1 DEF AInv, SpokenNamed, Live
  <2> QED
    BY <1>5, <2>2, <2>3 DEF AInv
<1> QED
  BY <1>8, <1>9

\* Time passes for everyone alike.
LEMMA TickKeeps ==
    ASSUME AInv, TypesOK', Tick
    PROVE  AInv'
<1> USE Durations
<1>1. /\ textOutput.pc # "note" /\ lastUserSpeakerAt' = Older(lastUserSpeakerAt, TTL + 1)
      /\ UNCHANGED <<activeSpeakers, lastUserSpeaker, textOutput, withdrawn>>
  BY DEF Tick
<1>2. TypesOK
  BY DEF AInv
<1>3. /\ \A p \in Persons : /\ chatTurnPrincipals[p] \in Nat /\ chatTurnPrincipals[p] <= TTL + 2
                            /\ typed[p] \in Nat /\ typed[p] <= TTL + 1
                            /\ present[p] \in Nat /\ spoke[p] \in Nat
      /\ lastUserSpeakerAt \in Nat
      /\ \A s \in Sockets : /\ Author(s) \in Persons
                            /\ socket[s].age \in Nat /\ socket[s].age <= SendTime
  BY <1>2, EntryTypes
<1>4. /\ lastUserSpeakerAt' <= TTL => lastUserSpeakerAt' = lastUserSpeakerAt + 1
      /\ lastUserSpeakerAt' \in Nat
  BY <1>1, <1>3 DEF Older
<1>5. \A p \in Persons :
         /\ chatTurnPrincipals[p] <= TTL => chatTurnPrincipals'[p] = chatTurnPrincipals[p] + 1
         /\ chatTurnPrincipals'[p] <= TTL => chatTurnPrincipals'[p] = chatTurnPrincipals[p] + 1
         /\ chatTurnPrincipals'[p] \in Nat
  BY <1>3 DEF Tick, Older
<1>6. \A p \in Persons : /\ typed'[p] <= TTL => typed'[p] = typed[p] + 1
                         /\ typed[p] = TTL + 1 => typed'[p] = TTL + 1
                         /\ typed'[p] \in Nat
  BY <1>3 DEF Tick, Older
<1>7. \A p \in Persons : /\ present'[p] \in Nat /\ present'[p] <= present[p] + 1
                         /\ p \in activeSpeakers => present'[p] = 0
                         /\ spoke'[p] \in Nat /\ spoke'[p] <= spoke[p] + 1
  BY <1>3 DEF Tick, Older, Seen
<1>8. \A s \in Sockets : /\ Sending(s)' <=> Sending(s)
                         /\ Sending(s) => /\ socket'[s].age = socket[s].age + 1
                                          /\ socket'[s].added = socket[s].added
  <2> SUFFICES ASSUME NEW s \in Sockets
               PROVE  /\ socket'[s].pc = "sending" <=> socket[s].pc = "sending"
                      /\ socket[s].pc = "sending" => /\ socket'[s].age = socket[s].age + 1
                                                     /\ socket'[s].added = socket[s].added
    BY DEF Sending
  <2>1. socket[s] \in [pc : {"idle", "sending"}, added : BOOLEAN, age : 0 .. SendTime]
    BY <1>2 DEF TypesOK
  <2>2. socket'[s] = IF socket[s].pc = "idle" THEN NoMessage ELSE [socket[s] EXCEPT !.age = @ + 1]
    BY DEF Tick
  <2>3. CASE socket[s].pc = "idle"
    BY <2>2, <2>3 DEF NoMessage
  <2>4. CASE socket[s].pc = "sending"
    BY <2>1, <2>2, <2>4
  <2> QED
    BY <2>1, <2>3, <2>4
<1>9. Noted'
  BY <1>1 DEF Noted
<1>10. SendingNamed'
  <2>1. ASSUME NEW s \in Sockets, Sending(s)
        PROVE  /\ chatTurnPrincipals'[Author(s)] <= socket'[s].age
               /\ socket'[s].added => typed'[Author(s)] = TTL + 1
    <3>1. /\ chatTurnPrincipals[Author(s)] <= socket[s].age
          /\ socket[s].added => typed[Author(s)] = TTL + 1
      BY <2>1 DEF AInv, SendingNamed
    <3>2. chatTurnPrincipals'[Author(s)] = chatTurnPrincipals[Author(s)] + 1
      BY <1>3, <1>5, <3>1
    <3> QED
      BY <1>3, <1>6, <1>8, <2>1, <3>1, <3>2
  <2> QED
    BY <1>8, <2>1 DEF SendingNamed
<1>11. TypedNamed'
  <2>1. ASSUME NEW p \in Persons, typed'[p] <= TTL
        PROVE  chatTurnPrincipals'[p] <= typed'[p]
    <3>1. typed'[p] = typed[p] + 1 /\ chatTurnPrincipals[p] <= typed[p]
      BY <1>3, <1>6, <2>1 DEF AInv, TypedNamed
    <3>2. chatTurnPrincipals'[p] = chatTurnPrincipals[p] + 1
      BY <1>3, <1>5, <2>1, <3>1
    <3> QED
      BY <1>3, <3>1, <3>2
  <2> QED
    BY <2>1 DEF TypedNamed
<1>12. SpokenNamed'
  <2>1. Live' \subseteq Live
    BY <1>3, <1>5 DEF Live
  <2>2. ASSUME lastUserSpeakerAt' <= TTL, Live # {}, NEW p \in lastUserSpeaker,
               p \notin withdrawn \/ (\E s \in Sockets : Sending(s) /\ Author(s) = p)
        PROVE  chatTurnPrincipals'[p] <= lastUserSpeakerAt'
    <3>1. p \in Persons
      BY <1>2 DEF TypesOK
    <3>2. lastUserSpeakerAt' = lastUserSpeakerAt + 1 /\ lastUserSpeakerAt <= TTL
      BY <1>3, <1>4, <2>2
    <3>3. chatTurnPrincipals[p] <= lastUserSpeakerAt
      BY <1>1, <2>2, <3>2 DEF AInv, SpokenNamed
    <3>4. chatTurnPrincipals'[p] = chatTurnPrincipals[p] + 1
      BY <1>3, <1>5, <3>1, <3>2, <3>3
    <3> QED
      BY <1>3, <3>1, <3>2, <3>3, <3>4
  <2> QED
    BY <1>1, <1>8, <2>1, <2>2 DEF SpokenNamed
<1>13. NamedPresent'
  <2>1. ASSUME NEW p \in Persons, chatTurnPrincipals'[p] <= TTL
        PROVE  \/ present'[p] <= chatTurnPrincipals'[p] + TTL
               \/ spoke'[p] <= chatTurnPrincipals'[p] + TTL
    <3>1. chatTurnPrincipals'[p] = chatTurnPrincipals[p] + 1 /\ chatTurnPrincipals[p] <= TTL
      BY <1>3, <1>5, <2>1
    <3>2. \/ present[p] <= chatTurnPrincipals[p] + TTL
          \/ spoke[p] <= chatTurnPrincipals[p] + TTL
      BY <3>1 DEF AInv, NamedPresent
    <3> QED
      BY <1>3, <1>7, <3>1, <3>2
  <2>2. ASSUME NEW p \in lastUserSpeaker, lastUserSpeakerAt' <= TTL
        PROVE  spoke'[p] <= lastUserSpeakerAt'
    <3>1. p \in Persons
      BY <1>2 DEF TypesOK
    <3>2. lastUserSpeakerAt' = lastUserSpeakerAt + 1 /\ lastUserSpeakerAt <= TTL
      BY <1>3, <1>4, <2>2
    <3>3. spoke[p] <= lastUserSpeakerAt
      BY <3>2 DEF AInv, NamedPresent
    <3> QED
      BY <1>3, <1>7, <3>1, <3>2, <3>3
  <2>3. \A p \in activeSpeakers : present'[p] = 0
    BY <1>2, <1>7 DEF TypesOK
  <2> QED
    BY <1>1, <2>1, <2>2, <2>3 DEF NamedPresent
<1> QED
  BY <1>9, <1>10, <1>11, <1>12, <1>13 DEF AInv

LEMMA AttributionNext == OneTab /\ AInv /\ [Next]_vars => AInv'
<1> SUFFICES ASSUME OneTab, AInv, [Next]_vars
             PROVE  AInv'
  OBVIOUS
<1>1. TypesOK'
  BY TypesNext DEF AInv
<1>2. CASE UNCHANGED vars
  BY <1>2 DEF vars, speakerVars, chatVars, callVars, AInv, TypesOK, Noted, SendingNamed, Sending,
              TypedNamed, SpokenNamed, Live, NamedPresent
<1> QED
  BY <1>1, <1>2, OutputKeeps, CallKeeps, BeginKeeps, SentKeeps, AbortKeeps, TickKeeps DEF Next

\* Who is named is all that the invariant says of a call.
LEMMA AttributionHolds == AInv => Attributed
<1> SUFFICES ASSUME AInv, Listening
             PROVE  /\ InFlight \subseteq toolAuthorizationPrincipal
                    /\ Live # {} => SpokeLast \subseteq toolAuthorizationPrincipal
                    /\ \A p \in toolAuthorizationPrincipal :
                          present[p] <= 2 * TTL \/ spoke[p] <= 2 * TTL
                    /\ Expired => InFlight = {}
  BY DEF Attributed
<1> USE Durations
<1>1. TypesOK
  BY DEF AInv
<1>2. /\ \A p \in Persons : /\ chatTurnPrincipals[p] \in Nat /\ typed[p] \in Nat
                            /\ present[p] \in Nat /\ spoke[p] \in Nat
      /\ lastUserSpeakerAt \in Nat
  BY <1>1, EntryTypes
<1>3. InFlight \subseteq Live
  BY <1>2 DEF AInv, TypedNamed, InFlight, Live
<1>4. Live # {} => toolAuthorizationPrincipal = Live
  BY DEF toolAuthorizationPrincipal
<1>5. Live # {} => SpokeLast \subseteq Live
  <2>1. ASSUME Live # {}, lastUserSpeakerAt <= TTL, NEW p \in lastUserSpeaker \ withdrawn
        PROVE  p \in Live
    <3>1. p \in Persons
      BY <1>1 DEF TypesOK
    <3>2. chatTurnPrincipals[p] <= lastUserSpeakerAt
      BY <2>1 DEF AInv, SpokenNamed, Listening
    <3> QED
      BY <1>2, <2>1, <3>1, <3>2 DEF Live
  <2> QED
    BY <2>1 DEF SpokeLast
<1>6. ASSUME NEW p \in toolAuthorizationPrincipal
      PROVE  present[p] <= 2 * TTL \/ spoke[p] <= 2 * TTL
  <2>1. CASE p \in Live
    <3>1. p \in Persons /\ chatTurnPrincipals[p] <= TTL
      BY <2>1 DEF Live
    <3>2. present[p] <= chatTurnPrincipals[p] + TTL \/ spoke[p] <= chatTurnPrincipals[p] + TTL
      BY <3>1 DEF AInv, NamedPresent
    <3> QED
      BY <1>2, <3>1, <3>2
  <2>2. CASE p \in activeSpeakers
    BY <2>2 DEF AInv, NamedPresent
  <2>3. CASE lastUserSpeakerAt <= Grace /\ p \in lastUserSpeaker
    <3>1. p \in Persons
      BY <1>1, <2>3 DEF TypesOK
    <3>2. lastUserSpeakerAt <= TTL
      BY <1>2, <2>3
    <3>3. spoke[p] <= lastUserSpeakerAt
      BY <2>3, <3>2 DEF AInv, NamedPresent
    <3> QED
      BY <1>2, <3>1, <3>2, <3>3
  <2> QED
    BY <2>1, <2>2, <2>3 DEF toolAuthorizationPrincipal
<1>7. Expired => Live = {}
  BY <1>4 DEF Expired
<1> QED
  BY <1>3, <1>4, <1>5, <1>6, <1>7

\* For persons who type on one WebSocket each, however turns, sends that fail,
\* tool calls and time interleave: a call names everyone whose typed turn it may
\* answer and, while there is one, who spoke last; and nobody who has long been
\* silent (toolAuthorizationPrincipal).
THEOREM CallsAttributed ==
    ASSUME OneTab
    PROVE  Spec => []Attributed
<1>1. Init => AInv
  BY AttributionInit
<1>2. AInv /\ [Next]_vars => AInv'
  BY AttributionNext
<1>3. AInv => Attributed
  BY AttributionHolds
<1> QED
  BY <1>1, <1>2, <1>3, PTL DEF Spec
=============================================================================
