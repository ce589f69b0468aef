------------------------------ MODULE VoiceTools ------------------------------
(***************************************************************************)
(* Whom a tool call of the voice model is attributed to, and that it is    *)
(* applied once (cmd/server/nova_sonic.go, handleToolUse and the functions *)
(* under speakerMu; chat_messages.go, forwardChatMessageToVoiceAgent;      *)
(* board.go, MarkCallHandled).  Confirmations takes the label from here.   *)
(*                                                                         *)
(* The model answers a turn some time after it was spoken or typed and     *)
(* does not say which turn it answers.  Three goroutines meet: LiveKit's   *)
(* callbacks, the one that reads the model's output, and one per WebSocket.*)
(***************************************************************************)
EXTENDS Naturals, FiniteSets

CONSTANTS
    Persons,       \* identities of the meeting
    Tabs,          \* WebSockets that one person types on
    Calls,         \* ids of tool calls
    Grace,         \* ticks of voiceSpeakerFallbackGrace (3 s)
    TTL,           \* ticks of chatTurnPrincipalTTL (30 s)
    SendTime,      \* ticks a send may take (waitForStreamReady, 5 s)
    MaxHandled,    \* maxHandledCalls
    MaxToolUses    \* bound: tool calls of the model

ASSUME TimesAssumption ==
    /\ Grace \in Nat /\ TTL \in Nat /\ SendTime \in Nat
    /\ Grace < TTL /\ SendTime <= TTL
ASSUME BoundsAssumption == MaxHandled \in Nat \ {0} /\ MaxToolUses \in Nat

Absent == TTL + 2                \* no entry in chatTurnPrincipals
Sockets == Persons \X Tabs
Author(s) == s[1]

VARIABLES
    activeSpeakers,
    lastUserSpeaker,      \* {} for none
    lastUserSpeakerAt,    \* how long ago, at most TTL + 1
    chatTurnPrincipals,   \* how long ago each was seen, TTL + 1 for longer
    chatTurnSeen,
    textOutput,           \* the ASR result that the output goroutine handles
    socket,               \* the message that each WebSocket sends
    handledCalls,
    typed,       \* history: ticks since each began to type the last message
                 \* that reached the model, TTL + 1 for longer or never
    present,     \* history: ticks since each was last active or began to type,
                 \* 2 * TTL + 1 for longer or never
    spoke,       \* history: ticks since a spoken turn was last taken to be theirs,
                 \* 2 * TTL + 1 for longer or never
    withdrawn,   \* history: whose entry a failed send took since their last turn
    uses,        \* tool calls that were not dropped
    applied,     \* history: how often each call was
    cleared      \* history: how often handledCalls was emptied

speakerVars == <<lastUserSpeaker, lastUserSpeakerAt>>
chatVars == <<chatTurnPrincipals, chatTurnSeen>>
callVars == <<handledCalls, uses, applied, cleared>>
vars == <<activeSpeakers, speakerVars, chatVars, textOutput, socket, typed,
          present, spoke, withdrawn, callVars>>

NoText == [pc |-> "idle", identity |-> {}]
NoMessage == [pc |-> "idle", added |-> FALSE, age |-> 0]

Init ==
    /\ activeSpeakers = {}
    /\ lastUserSpeaker = {} /\ lastUserSpeakerAt = TTL + 1
    /\ chatTurnPrincipals = [p \in Persons |-> Absent] /\ chatTurnSeen = FALSE
    /\ textOutput = NoText
    /\ socket = [s \in Sockets |-> NoMessage]
    /\ handledCalls = {} /\ uses = 0
    /\ typed = [p \in Persons |-> TTL + 1]
    /\ present = [p \in Persons |-> 2 * TTL + 1]
    /\ spoke = [p \in Persons |-> 2 * TTL + 1]
    /\ withdrawn = {}
    /\ applied = [c \in Calls |-> 0] /\ cleared = 0

-----------------------------------------------------------------------------
(* What the functions under speakerMu compute.                             *)

\* liveChatTurnPrincipalsLocked: those it keeps, and what it leaves of the map.
Live == {p \in Persons : chatTurnPrincipals[p] <= TTL}
Pruned == [p \in Persons |-> IF p \in Live THEN chatTurnPrincipals[p] ELSE Absent]

currentOrLastSpeakerLabel ==
    IF activeSpeakers # {} THEN activeSpeakers ELSE lastUserSpeaker

\* toolAuthorizationPrincipal: the label, {} if nobody is named.
toolAuthorizationPrincipal ==
    IF Live # {} THEN Live
    ELSE IF activeSpeakers # {} THEN activeSpeakers
    ELSE IF lastUserSpeakerAt <= Grace THEN lastUserSpeaker
    ELSE {}

\* Somebody could be named once, and nobody can now.
Expired ==
    toolAuthorizationPrincipal = {} /\ (lastUserSpeaker # {} \/ chatTurnSeen)

Seen(who, at) == [p \in Persons |-> IF p \in who THEN 0 ELSE at[p]]

-----------------------------------------------------------------------------
(* LiveKit and the output of the model.                                    *)

handleActiveSpeakersChanged(speakers) ==
    /\ speakers # activeSpeakers
    /\ activeSpeakers' = speakers
    /\ present' = Seen(activeSpeakers \cup speakers, present)
    /\ UNCHANGED <<speakerVars, chatVars, textOutput, socket, typed, spoke, withdrawn,
                   callVars>>

\* handleTextOutput of a USER text: the identity it is attributed to ...
handleTextOutput ==
    /\ textOutput.pc = "idle"
    /\ textOutput' = [pc |-> IF currentOrLastSpeakerLabel = {} THEN "translate" ELSE "remember",
                      identity |-> currentOrLastSpeakerLabel]
    /\ UNCHANGED <<activeSpeakers, speakerVars, chatVars, socket, typed, present, spoke,
                   withdrawn, callVars>>

\* ... is kept, also when nobody is active and it is the one kept already ...
rememberUserSpeaker ==
    /\ textOutput.pc = "remember"
    /\ lastUserSpeaker' = textOutput.identity
    /\ lastUserSpeakerAt' = 0
    /\ spoke' = Seen(textOutput.identity, spoke)
    /\ withdrawn' = withdrawn \ textOutput.identity
    /\ textOutput' = [textOutput EXCEPT !.pc = "note"]
    /\ UNCHANGED <<activeSpeakers, chatVars, socket, typed, present, callVars>>

\* ... and joins the typed messages in flight.
noteSpokenTurnDuringChat ==
    /\ textOutput.pc = "note"
    /\ chatTurnPrincipals' = IF Live = {} THEN Pruned ELSE Seen(textOutput.identity, Pruned)
    /\ textOutput' = [textOutput EXCEPT !.pc = "translate"]
    /\ UNCHANGED <<activeSpeakers, speakerVars, chatTurnSeen, socket, typed,
                   present, spoke, withdrawn, callVars>>

\* normalizeTranscriptForRoom asks another model; no output is handled meanwhile.
Translated ==
    /\ textOutput.pc = "translate"
    /\ textOutput' = NoText
    /\ UNCHANGED <<activeSpeakers, speakerVars, chatVars, socket, typed, present, spoke,
                   withdrawn, callVars>>

\* Mutant: the table grows without a limit.
MutantGrows(call) == handledCalls' = handledCalls \cup {call}

\* Mutant: at the limit a call is not recorded.
MutantStaysFull(call) ==
    handledCalls' = IF Cardinality(handledCalls) >= MaxHandled THEN handledCalls
                    ELSE handledCalls \cup {call}

\* MarkCallHandled of a call that is not known yet.
MarkCallHandled(call) ==
    handledCalls' = IF Cardinality(handledCalls) >= MaxHandled THEN {call}
                    ELSE handledCalls \cup {call}

\* handleToolUse: a call handled before is dropped; otherwise the principal is
\* read, which prunes, and the call applied or refused under it.
handleToolUse(call) ==
    /\ textOutput.pc = "idle" /\ uses < MaxToolUses
    /\ call \notin handledCalls
    /\ MarkCallHandled(call)
    /\ chatTurnPrincipals' = Pruned
    /\ uses' = uses + 1
    /\ applied' = [applied EXCEPT ![call] = @ + 1]
    /\ cleared' = IF handledCalls \subseteq handledCalls' THEN cleared ELSE cleared + 1
    /\ UNCHANGED <<activeSpeakers, speakerVars, chatTurnSeen, textOutput, socket,
                   typed, present, spoke, withdrawn>>

-----------------------------------------------------------------------------
(* A typed message.                                                        *)

\* Whose spoken command may still wait for its tool call.
SpokenWith ==
    activeSpeakers \cup (IF lastUserSpeakerAt <= TTL THEN lastUserSpeaker ELSE {})

\* The entries that beginChatTurn leaves.
WithTurn(s) == Seen(SpokenWith \cup {Author(s)}, chatTurnPrincipals)

\* forwardChatMessageToVoiceAgent, beginChatTurn.
beginChatTurn(s) ==
    /\ socket[s].pc = "idle"
    /\ chatTurnPrincipals' = WithTurn(s)
    /\ chatTurnSeen' = TRUE
    /\ socket' = [socket EXCEPT ![s] =
                    [pc |-> "sending", added |-> chatTurnPrincipals[Author(s)] = Absent, age |-> 0]]
    /\ present' = Seen({Author(s)}, present)
    /\ UNCHANGED <<activeSpeakers, speakerVars, textOutput, typed, spoke, withdrawn,
                   callVars>>

\* SendTextMessage: the last event of the message is out.
Sent(s) ==
    /\ socket[s].pc = "sending"
    /\ typed' = [typed EXCEPT ![Author(s)] = IF socket[s].age < @ THEN socket[s].age ELSE @]
    /\ withdrawn' = withdrawn \ {Author(s)}
    /\ socket' = [socket EXCEPT ![s] = NoMessage]
    /\ UNCHANGED <<activeSpeakers, speakerVars, chatVars, textOutput, present, spoke, callVars>>

\* Mutant: takes the entry whoever made it.
MutantAbortChatTurn(s) ==
    /\ socket[s].pc = "sending"
    /\ chatTurnPrincipals' = [chatTurnPrincipals EXCEPT ![Author(s)] = Absent]
    /\ withdrawn' = withdrawn \cup {Author(s)}
    /\ socket' = [socket EXCEPT ![s] = NoMessage]
    /\ UNCHANGED <<activeSpeakers, speakerVars, chatTurnSeen, textOutput, typed,
                   present, spoke, callVars>>

\* The send failed: abortChatTurn takes the entry that this message added.
abortChatTurn(s) ==
    /\ socket[s].pc = "sending"
    /\ chatTurnPrincipals' = IF socket[s].added
                             THEN [chatTurnPrincipals EXCEPT ![Author(s)] = Absent]
                             ELSE chatTurnPrincipals
    /\ withdrawn' = IF socket[s].added THEN withdrawn \cup {Author(s)} ELSE withdrawn
    /\ socket' = [socket EXCEPT ![s] = NoMessage]
    /\ UNCHANGED <<activeSpeakers, speakerVars, chatTurnSeen, textOutput, typed,
                   present, spoke, callVars>>

-----------------------------------------------------------------------------
(* Time passes while no goroutine is between two sections in a row.        *)
Older(age, most) == IF age < most THEN age + 1 ELSE most

Tick ==
    /\ textOutput.pc \in {"idle", "translate"}
    /\ \A s \in Sockets : socket[s].pc = "sending" => socket[s].age < SendTime
    /\ lastUserSpeakerAt' = Older(lastUserSpeakerAt, TTL + 1)
    /\ chatTurnPrincipals' = [p \in Persons |->
            IF chatTurnPrincipals[p] = Absent THEN Absent ELSE Older(chatTurnPrincipals[p], TTL + 1)]
    /\ socket' = [s \in Sockets |->
            IF socket[s].pc = "idle" THEN NoMessage ELSE [socket[s] EXCEPT !.age = @ + 1]]
    /\ typed' = [p \in Persons |-> Older(typed[p], TTL + 1)]
    /\ present' = Seen(activeSpeakers, [p \in Persons |-> Older(present[p], 2 * TTL + 1)])
    /\ spoke' = [p \in Persons |-> Older(spoke[p], 2 * TTL + 1)]
    /\ UNCHANGED <<activeSpeakers, lastUserSpeaker, chatTurnSeen, textOutput,
                   withdrawn, callVars>>

Next ==
    \/ \E speakers \in SUBSET Persons : handleActiveSpeakersChanged(speakers)
    \/ handleTextOutput \/ rememberUserSpeaker \/ noteSpokenTurnDuringChat \/ Translated
    \/ \E call \in Calls : handleToolUse(call)
    \/ \E s \in Sockets : beginChatTurn(s) \/ Sent(s) \/ abortChatTurn(s)
    \/ Tick

Spec == Init /\ [][Next]_vars

-----------------------------------------------------------------------------
(* Properties.                                                             *)

TypeOK ==
    /\ activeSpeakers \subseteq Persons
    /\ lastUserSpeaker \subseteq Persons /\ lastUserSpeakerAt \in 0 .. TTL + 1
    /\ chatTurnPrincipals \in [Persons -> 0 .. Absent] /\ chatTurnSeen \in BOOLEAN
    /\ textOutput \in [pc : {"idle", "remember", "note", "translate"}, identity : SUBSET Persons]
    /\ socket \in [Sockets -> [pc : {"idle", "sending"}, added : BOOLEAN, age : 0 .. SendTime]]
    /\ handledCalls \subseteq Calls /\ Cardinality(handledCalls) <= MaxHandled
    /\ typed \in [Persons -> 0 .. TTL + 1]
    /\ present \in [Persons -> 0 .. 2 * TTL + 1]
    /\ spoke \in [Persons -> 0 .. 2 * TTL + 1]
    /\ withdrawn \subseteq Persons
    /\ applied \in [Calls -> 0 .. MaxToolUses] /\ cleared \in 0 .. uses
    /\ uses \in 0 .. MaxToolUses

\* A tool call may come: the output goroutine is not busy with a text.
Listening == textOutput.pc = "idle"

\* Whose message reached the model so lately that its answer may be coming.
InFlight == {p \in Persons : typed[p] <= TTL}

\* Who was taken to have spoken last, unless long ago, or forgotten with a send
\* of theirs that failed.
SpokeLast == IF lastUserSpeakerAt <= TTL THEN lastUserSpeaker \ withdrawn ELSE {}

\* A tool call names everyone whose turn it may answer: each author of a typed
\* message in flight and, while there is one, who spoke last before or during
\* it; so that it never acts for another of them alone (toolAuthorizationPrincipal,
\* "a tool call that could belong to either is authorized against both").  And it
\* names nobody who has neither spoken nor typed for twice
\* chatTurnPrincipalTTL (beginChatTurn gives who spoke a second term).
Attributed ==
    Listening =>
        /\ InFlight \subseteq toolAuthorizationPrincipal
        /\ Live # {} => SpokeLast \subseteq toolAuthorizationPrincipal
        /\ \A p \in toolAuthorizationPrincipal : present[p] <= 2 * TTL \/ spoke[p] <= 2 * TTL
        /\ Expired => InFlight = {}

\* A call is applied again only after the table of handled calls was emptied,
\* which takes maxHandledCalls of them (MarkCallHandled).
AppliedOnce ==
    /\ \A c \in Calls : applied[c] <= 1 + cleared
    /\ cleared * MaxHandled <= uses

\* MarkCallHandled "returns true if the callID was already handled (duplicate)",
\* whatever came in between.
NeverAgain == \A c \in Calls : applied[c] <= 1

\* beginChatTurn adds "anyone who spoke within chatTurnPrincipalTTL", not only
\* who spoke last.
EverySpeakerNamed ==
    [][\A s \in Sockets :
          socket[s].pc = "idle" /\ socket'[s].pc = "sending" =>
             {p \in Persons : spoke[p] <= TTL} \subseteq Live']_vars

\* toolAuthorizationSpeakerLabel: "A quiet room with a stale speaker yields an
\* empty label marked Expired rather than the last speaker".
QuietRoomNamesNobody ==
    Listening => \A p \in toolAuthorizationPrincipal : present[p] <= 2 * TTL

=============================================================================
