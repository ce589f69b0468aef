---------------------------- MODULE Confirmations ----------------------------
(***************************************************************************)
(* Pending confirmations of the board (cmd/server/meeting_intelligence.go) *)
(* and the two paths that stage, confirm and cancel them: the command of a *)
(* WebSocket client (main.go, handleClientKanbanCommand) and the tool call *)
(* of the voice model (nova_sonic.go, handleToolUse).                      *)
(*                                                                         *)
(* A request is a goroutine.  It reads the meeting under meetingAccess.mu, *)
(* releases it, reads the pending set under board.mu, releases it, and     *)
(* resolves under board.mu later; each section is an action here.          *)
(***************************************************************************)
EXTENDS Naturals, Sequences, FiniteSets

CONSTANTS
    Clients,     \* the WebSocket connections
    Voice,       \* the goroutine that reads the voice model's output
    Who,         \* identity authenticated on each connection
    Identities,  \* participant identities
    Tools,       \* tools whose calls are staged: a subset of RiskyTools
    Resolutions, \* "confirm", "cancel" or both
    MaxIds,      \* bound: how many confirmations are ever staged
    MaxLapsed,   \* bound: how many of them are ever two minutes old
    Expired,     \* label of a voice principal that can no longer be attributed
    Spoken,      \* labels a voice call may carry
    Refs         \* what a confirmation_id argument may say

RiskyTools == {"assign_ticket", "unassign_ticket", "assign_ticket_to_agent",
               "set_eta", "set_priority", "set_reporter", "delete_ticket",
               "set_sprint", "rank_issue", "prioritize_ticket"}

ASSUME CallersAssumption == Voice \notin Clients
ASSUME WhoAssumption == Who \in [Clients -> Identities]
ASSUME ToolsAssumption == Tools \subseteq RiskyTools
ASSUME ResolutionsAssumption == Resolutions \subseteq {"confirm", "cancel"}
ASSUME BoundsAssumption == MaxIds \in Nat /\ MaxLapsed \in Nat

Callers == Clients \cup {Voice}

(* nextOperationIDLocked: confirmation ids grow with their creation, so an *)
(* id is also the creation time the taken set is sorted by.                *)
Ids == 1 .. MaxIds

(***************************************************************************)
(* A speaker label lists the identities a voice call is attributed to; the *)
(* empty label is the blank requester, which Expired is recorded as too.   *)
(***************************************************************************)
Labels ==
    {<<>>} \cup {<<i>> : i \in Identities}
           \cup {<<i, j>> : i, j \in Identities}

ASSUME SpokenAssumption == Spoken \subseteq Labels \cup {Expired}

ASSUME ExpiredAssumption == Expired \notin Labels

RequesterOf(label) == IF label = Expired THEN <<>> ELSE label

riskForTool(tool) ==
    IF tool \in {"delete_ticket", "set_sprint", "rank_issue", "prioritize_ticket"}
    THEN "high" ELSE "medium"

(* The one tool a participant who is not host may resolve by voice.        *)
participantConfirmablePendingTool(tool) == tool = "delete_ticket"

(* Staging one tool needs the host; so does every confirm and cancel.      *)
kanbanToolRequiresHost(op, tool) ==
    op \in {"confirm", "cancel"} \/ tool = "assign_ticket_to_agent"

(***************************************************************************)
(* What a confirmation_id argument says: the ids it contains, and whether  *)
(* it reads as no aggregate, as a bare affirmation (also when it is blank) *)
(* or as an explicit aggregate phrase.  A text with an id in it means all  *)
(* only when it also has an aggregate word.                                *)
(***************************************************************************)
AllRefs == {r \in [ids : SUBSET Ids, scope : {"none", "bare", "every"}] :
               r.scope = "bare" => r.ids = {}}

ASSUME RefsAssumption == Refs \subseteq AllRefs

VARIABLES
    hosts,     \* identities of the meeting's host sessions; {} = no meeting
    guests,    \* identities of its participant sessions
    upgraded,  \* connections whose role was host when they were upgraded
    nextId,    \* next confirmation id
    pending,   \* ids in board.pendingConfirmations
    info,      \* tool and requester of each id that is not settled
    lapse,     \* ids up to this one are past their ExpiresAt
    req,       \* what each goroutine is doing
    outcome,   \* history: what became of each confirmation
    cleared,   \* history: callers that since their request began had host
               \* access, or ran while no meeting was active
    wasHost    \* history: callers that had host access to an active meeting

meetingVars == <<hosts, guests, upgraded>>
boardVars == <<nextId, pending, info, lapse, outcome>>
vars == <<hosts, guests, upgraded, nextId, pending, info, lapse, req, outcome,
          cleared, wasHost>>

Outcomes == {"none", "ran", "expired", "cancelled", "lost"}

NoInfo == [tool |-> "none", requester |-> <<>>]

Idle == [pc |-> "idle", op |-> "none", tool |-> "none", label |-> <<>>,
         ref |-> [ids |-> {}, scope |-> "none"], isHost |-> FALSE,
         restrict |-> FALSE, todo |-> {}]

Requests == [pc : {"idle", "gate", "meta", "restrict", "resolve", "execute"},
             op : {"none", "stage", "confirm", "cancel"},
             tool : {"none"} \cup Tools,
             label : Labels \cup {Expired},
             ref : AllRefs,
             isHost : BOOLEAN,
             restrict : BOOLEAN,
             todo : SUBSET Ids]

TypeOK ==
    /\ hosts \subseteq Identities
    /\ guests \subseteq Identities
    /\ upgraded \subseteq Clients
    /\ nextId \in 1 .. MaxIds + 1
    /\ pending \subseteq 1 .. nextId - 1
    /\ info \in [Ids -> [tool : {"none"} \cup Tools, requester : Labels]]
    /\ lapse \in 0 .. nextId - 1
    /\ req \in [Callers -> Requests]
    /\ outcome \in [Ids -> Outcomes]
    /\ cleared \subseteq Callers
    /\ wasHost \subseteq Callers

Init ==
    /\ hosts = {} /\ guests = {} /\ upgraded = {}
    /\ nextId = 1 /\ pending = {} /\ lapse = 0
    /\ info = [id \in Ids |-> NoInfo]
    /\ req = [c \in Callers |-> Idle]
    /\ outcome = [id \in Ids |-> "none"]
    /\ cleared = {} /\ wasHost = {}

-----------------------------------------------------------------------------
(* Host access, as each path asks for it.                                  *)

(* isHost: the role captured at the upgrade, or the session's role now.    *)
isHost(c, hs, up) == c \in up \/ Who[c] \in hs

(* voiceSpeakerHasHostAccess, unattributedVoiceToolHasHostAccess: one      *)
(* speaker must be a host, two never are, and an empty label counts as the *)
(* host only in a room that holds no participant.                          *)
voiceSpeakerHasHostAccess(label, hs, gs) ==
    \/ hs = {}
    \/ label \in {<<h>> : h \in hs}
    \/ label = <<>> /\ gs = {}

HasHostAccess(c, label, hs, gs, up) ==
    IF c = Voice THEN voiceSpeakerHasHostAccess(label, hs, gs)
                 ELSE isHost(c, hs, up)

(* History: callers with a request in flight that the meeting state hs,gs  *)
(* would clear.                                                            *)
ClearedBy(hs, gs, up, r) ==
    {c \in Callers : /\ r[c].pc # "idle"
                     /\ \/ hs = {}
                        \/ HasHostAccess(c, r[c].label, hs, gs, up)}
HostBy(hs, gs, up, r) ==
    {c \in Callers : /\ r[c].pc # "idle"
                     /\ hs # {}
                     /\ HasHostAccess(c, r[c].label, hs, gs, up)}

(* Meeting steps and new requests record who is cleared from now on.       *)
RecordClearance ==
    /\ cleared' = cleared \cup ClearedBy(hosts', guests', upgraded', req')
    /\ wasHost' = wasHost \cup HostBy(hosts', guests', upgraded', req')

Return(c) ==
    /\ req' = [req EXCEPT ![c] = Idle]
    /\ cleared' = cleared \ {c}
    /\ wasHost' = wasHost \ {c}

-----------------------------------------------------------------------------
(* The meeting, as far as these gates see it.                              *)

(* setup: a new meeting; only its host may replace an active one.          *)
MeetingSetup(i) ==
    /\ hosts = {} \/ i \in hosts
    /\ hosts' = {i}
    /\ guests' = {}
    /\ UNCHANGED <<upgraded, req, boardVars>>
    /\ RecordClearance

GuestJoins(i) ==
    /\ hosts # {} /\ i \notin hosts \cup guests
    /\ guests' = guests \cup {i}
    /\ UNCHANGED <<hosts, upgraded, req, boardVars>>
    /\ RecordClearance

GuestLeaves(i) ==
    /\ i \in guests
    /\ guests' = guests \ {i}
    /\ UNCHANGED <<hosts, upgraded, req, boardVars>>
    /\ RecordClearance

MeetingEnds ==
    /\ hosts # {}
    /\ hosts' = {} /\ guests' = {}
    /\ UNCHANGED <<upgraded, req, boardVars>>
    /\ RecordClearance

(* websocketHandler: the role is the one at the upgrade and is kept for    *)
(* the life of the connection.                                             *)
Upgrade(c) ==
    /\ req[c].pc = "idle"
    /\ upgraded' = IF Who[c] \in hosts THEN upgraded \cup {c}
                                       ELSE upgraded \ {c}
    /\ upgraded' # upgraded
    /\ UNCHANGED <<hosts, guests, req, boardVars, cleared, wasHost>>

-----------------------------------------------------------------------------
(* Which confirmations a reference selects: the single rule that both the  *)
(* gates and the take use.                                                 *)
selectPendingConfirmations(ref, pend) ==
    IF ref.ids \cap pend # {} THEN ref.ids \cap pend
    ELSE IF ref.scope # "none" THEN pend ELSE {}

participantConfirmableSet(ref, pend) ==
    LET selected == selectPendingConfirmations(ref, pend)
    IN  /\ selected # {}
        /\ \A id \in selected : participantConfirmablePendingTool(info[id].tool)

confirmationRequesterMismatch(ref, pend, r) ==
    /\ ~r.isHost
    /\ \E id \in selectPendingConfirmations(ref, pend) :
          /\ info[id].requester # <<>>
          /\ info[id].requester # RequesterOf(r.label)

(* Mutant: the gate looks only at three pending actions or more.           *)
MutantTwoAreNotMixed(ref, pend) ==
    /\ ref.ids \cap pend = {} /\ ref.scope = "bare"
    /\ Cardinality(pend) > 2
    /\ \E id1, id2 \in pend :
          riskForTool(info[id1].tool) # riskForTool(info[id2].tool)

mixedRiskSweepDisambiguation(ref, pend) ==
    /\ ref.ids \cap pend = {}
    /\ ref.scope = "bare"
    /\ \E id1, id2 \in pend :
          riskForTool(info[id1].tool) # riskForTool(info[id2].tool)

(* A confirmation is settled: its record is dropped.                       *)
Settle(ids, result) ==
    /\ outcome' = [id \in Ids |-> IF id \in ids THEN result[id] ELSE outcome[id]]
    /\ info' = [id \in Ids |-> IF id \in ids THEN NoInfo ELSE info[id]]

(* pendingConfirmationViewsLocked, in every SnapshotState: lapsed entries  *)
(* are deleted when somebody looks.                                        *)
Live == {id \in pending : id > lapse}
PruneLapsed ==
    /\ pending' = Live
    /\ Settle(pending \ Live, [id \in Ids |-> "expired"])

-----------------------------------------------------------------------------
(* One request.                                                            *)

Begin(c, op, tool, label, ref, pc) ==
    /\ req[c].pc = "idle"
    /\ req' = [req EXCEPT ![c] = [Idle EXCEPT !.pc = pc, !.op = op,
                 !.tool = tool, !.label = label, !.ref = ref]]
    /\ UNCHANGED <<meetingVars, boardVars>>
    /\ RecordClearance

NoRef == [ids |-> {}, scope |-> "none"]

(* A client's command starts at the gate, a voice call at requesterIsHost; *)
(* both read that, and the voice its restriction, for staging too, where   *)
(* nothing depends on them.                                                *)
ClientStages(c, tool) ==
    nextId <= MaxIds /\ Begin(c, "stage", tool, <<Who[c]>>, NoRef, "gate")
ClientResolves(c, op, ref) == Begin(c, op, "none", <<Who[c]>>, ref, "gate")
VoiceStages(tool, label) ==
    nextId <= MaxIds /\ Begin(Voice, "stage", tool, label, NoRef, "gate")
VoiceResolves(op, ref, label) == Begin(Voice, op, "none", label, ref, "meta")

Access(c) == HasHostAccess(c, req[c].label, hosts, guests, upgraded)

(* kanbanCommandAllowed; activeMeetingRequiresAuthenticatedHostForTool and *)
(* voiceToolRequiresHost with the advisory look at the pending set.        *)
GateAllows(c) ==
    \/ ~kanbanToolRequiresHost(req[c].op, req[c].tool)
    \/ hosts = {}
    \/ Access(c)
    \/ /\ c = Voice
       /\ req[c].op \in {"confirm", "cancel"}
       /\ participantConfirmableSet(req[c].ref, pending)

GatePasses(c) ==
    /\ req[c].pc = "gate"
    /\ GateAllows(c)
    /\ req' = [req EXCEPT ![c].pc = IF req[c].op = "stage" THEN "resolve"
                                    ELSE IF c = Voice THEN "restrict" ELSE "meta"]
    /\ UNCHANGED <<meetingVars, boardVars, cleared, wasHost>>

GateRefuses(c) ==
    /\ req[c].pc = "gate"
    /\ ~GateAllows(c)
    /\ Return(c)
    /\ UNCHANGED <<meetingVars, boardVars>>

(* Mutant: requesterIsHost without its isActive().                         *)
MutantHostWithoutMeeting(c) ==
    /\ req[c].pc = "meta"
    /\ req' = [req EXCEPT ![c].pc = IF c = Voice THEN "gate" ELSE "resolve",
                          ![c].isHost = Access(c)]
    /\ UNCHANGED <<meetingVars, boardVars, cleared, wasHost>>

(* requesterIsHost of the tool call's metadata.                            *)
ReadRequesterIsHost(c) ==
    /\ req[c].pc = "meta"
    /\ req' = [req EXCEPT ![c].pc = IF c = Voice THEN "gate" ELSE "resolve",
                          ![c].isHost = hosts # {} /\ Access(c)]
    /\ UNCHANGED <<meetingVars, boardVars, cleared, wasHost>>

(* nonHostSpeaker: the voice path's RestrictToParticipantConfirmable.      *)
ReadRestriction ==
    /\ req[Voice].pc = "restrict"
    /\ req' = [req EXCEPT ![Voice].pc = "resolve",
                          ![Voice].restrict = ~Access(Voice)]
    /\ UNCHANGED <<meetingVars, boardVars, cleared, wasHost>>

(* Mutant: the operation counter is not advanced.                          *)
MutantCounterStuck(c) ==
    /\ req[c].pc = "resolve" /\ req[c].op = "stage" /\ nextId <= MaxIds
    /\ pending' = pending \cup {nextId}
    /\ info' = [info EXCEPT ![nextId] = [tool |-> req[c].tool,
                                    requester |-> RequesterOf(req[c].label)]]
    /\ Return(c)
    /\ UNCHANGED <<meetingVars, nextId, lapse, outcome>>

(* createPendingConfirmation, under board.mu.                              *)
createPendingConfirmation(c) ==
    /\ req[c].pc = "resolve" /\ req[c].op = "stage"
    /\ nextId <= MaxIds
    /\ nextId' = nextId + 1
    /\ pending' = pending \cup {nextId}
    /\ info' = [info EXCEPT ![nextId] = [tool |-> req[c].tool,
                                    requester |-> RequesterOf(req[c].label)]]
    /\ Return(c)
    /\ UNCHANGED <<meetingVars, lapse, outcome>>

(* Mutant: the restriction to deletions is trusted to the advisory gate.   *)
MutantAdvisoryOnly(c) ==
    LET r == req[c]
    IN  /\ ~confirmationRequesterMismatch(r.ref, pending, r)
        /\ r.op = "confirm" => ~mixedRiskSweepDisambiguation(r.ref, pending)

(* The gates that confirm and cancel apply under the lock of the take.     *)
ResolutionAllowed(c) ==
    LET r == req[c]
    IN  /\ r.restrict => participantConfirmableSet(r.ref, pending)
        /\ ~confirmationRequesterMismatch(r.ref, pending, r)
        /\ r.op = "confirm" => ~mixedRiskSweepDisambiguation(r.ref, pending)

Resolving(c) == req[c].pc = "resolve" /\ req[c].op \in {"confirm", "cancel"}

Selected(c) == selectPendingConfirmations(req[c].ref, pending)

(* Mutant: the taken set stays on the board.                               *)
MutantConfirmKeeps(c) ==
    /\ Resolving(c) /\ req[c].op = "confirm"
    /\ ResolutionAllowed(c) /\ Selected(c) # {}
    /\ req' = [req EXCEPT ![c].pc = "execute", ![c].todo = Selected(c)]
    /\ UNCHANGED <<meetingVars, boardVars, cleared, wasHost>>

(* takePendingConfirmationsLocked: the taken set leaves the board before   *)
(* any of it runs.                                                         *)
confirmPendingAction(c) ==
    /\ Resolving(c) /\ req[c].op = "confirm"
    /\ ResolutionAllowed(c)
    /\ Selected(c) # {}
    /\ pending' = pending \ Selected(c)
    /\ req' = [req EXCEPT ![c].pc = "execute", ![c].todo = Selected(c)]
    /\ UNCHANGED <<meetingVars, nextId, info, lapse, outcome, cleared, wasHost>>

cancelPendingConfirmation(c) ==
    /\ Resolving(c) /\ req[c].op = "cancel"
    /\ ResolutionAllowed(c)
    /\ Selected(c) # {}
    /\ pending' = pending \ Selected(c)
    /\ Settle(Selected(c), [id \in Ids |-> "cancelled"])
    /\ Return(c)
    /\ UNCHANGED <<meetingVars, nextId, lapse>>

NothingSelected(c) ==
    /\ Resolving(c)
    /\ ResolutionAllowed(c)
    /\ Selected(c) = {}
    /\ Return(c)
    /\ UNCHANGED <<meetingVars, boardVars>>

(* A refusal by restriction or requester leaves the pending set alone.     *)
Refusal(c) ==
    /\ Resolving(c)
    /\ \/ /\ req[c].restrict
          /\ ~participantConfirmableSet(req[c].ref, pending)
       \/ confirmationRequesterMismatch(req[c].ref, pending, req[c])
    /\ Return(c)
    /\ UNCHANGED <<meetingVars, boardVars>>

(* A disambiguation lists the pending set, which drops its lapsed entries. *)
Disambiguation(c) ==
    /\ Resolving(c) /\ req[c].op = "confirm"
    /\ req[c].restrict => participantConfirmableSet(req[c].ref, pending)
    /\ ~confirmationRequesterMismatch(req[c].ref, pending, req[c])
    /\ mixedRiskSweepDisambiguation(req[c].ref, pending)
    /\ PruneLapsed
    /\ Return(c)
    /\ UNCHANGED <<meetingVars, nextId, lapse>>

(* The taken set is worked through by creation time.                       *)
Earliest(S) == {id \in S : \A other \in S : id <= other}

(* Mutants: the expiry is not looked at when an action runs; one that      *)
(* expired ends the loop.                                                  *)
MutantNoExpiry(c) ==
    /\ req[c].pc = "execute"
    /\ \E id \in Earliest(req[c].todo) :
          /\ req' = [req EXCEPT ![c].todo = @ \ {id}]
          /\ pending' = Live
          /\ Settle({id} \cup (pending \ Live),
                    [other \in Ids |-> IF other = id THEN "ran" ELSE "expired"])
    /\ UNCHANGED <<meetingVars, nextId, lapse, cleared, wasHost>>
MutantExpiredEndsLoop(c) ==
    /\ req[c].pc = "execute"
    /\ \E id \in Earliest(req[c].todo) :
          /\ req' = [req EXCEPT ![c].todo = IF id <= lapse THEN {} ELSE @ \ {id}]
          /\ pending' = pending
          /\ Settle({id}, [other \in Ids |-> IF id <= lapse THEN "expired" ELSE "ran"])
    /\ UNCHANGED <<meetingVars, nextId, lapse, cleared, wasHost>>

(* executePendingConfirmation on the next taken one: an expired one is     *)
(* consumed unexecuted; the others run, after a snapshot that prunes the   *)
(* board, and the loop goes on whether or not they fail.                   *)
executePendingConfirmation(c) ==
    /\ req[c].pc = "execute"
    /\ \E id \in Earliest(req[c].todo) :
          /\ req' = [req EXCEPT ![c].todo = @ \ {id}]
          /\ \/ /\ id <= lapse
                /\ pending' = pending
                /\ Settle({id}, [other \in Ids |-> "expired"])
             \/ /\ id > lapse
                /\ pending' = Live
                /\ Settle({id} \cup (pending \ Live),
                          [other \in Ids |-> IF other = id THEN "ran" ELSE "expired"])
    /\ UNCHANGED <<meetingVars, nextId, lapse, cleared, wasHost>>

FinishConfirm(c) ==
    /\ req[c].pc = "execute" /\ req[c].todo = {}
    /\ Return(c)
    /\ UNCHANGED <<meetingVars, boardVars>>

-----------------------------------------------------------------------------
(* Everything else that touches the pending set.                           *)

(* SnapshotState, from a broadcast, a board read or a new connection.      *)
SnapshotState ==
    /\ pending # Live
    /\ PruneLapsed
    /\ UNCHANGED <<meetingVars, nextId, lapse, req, cleared, wasHost>>

(* Time: every confirmation lives two minutes, so they lapse in order.     *)
TwoMinutesPass ==
    /\ lapse < nextId - 1 /\ lapse < MaxLapsed
    /\ lapse' = lapse + 1
    /\ UNCHANGED <<meetingVars, nextId, pending, info, req, outcome, cleared,
                   wasHost>>

InFlight == UNION {req[c].todo : c \in Callers}

(* newPersistentKanbanBoard: neither the pending set nor the meeting is    *)
(* stored, so a restart starts without them.                               *)
Restart ==
    /\ hosts' = {} /\ guests' = {} /\ upgraded' = {}
    /\ pending' = {}
    /\ Settle(pending \cup InFlight, [id \in Ids |-> "lost"])
    /\ req' = [c \in Callers |-> Idle]
    /\ cleared' = {} /\ wasHost' = {}
    /\ UNCHANGED <<nextId, lapse>>

-----------------------------------------------------------------------------
MeetingStep ==
    \/ \E i \in Identities : MeetingSetup(i) \/ GuestJoins(i) \/ GuestLeaves(i)
    \/ MeetingEnds
    \/ \E c \in Clients : Upgrade(c)

NewRequest ==
    \/ \E c \in Clients, tool \in Tools : ClientStages(c, tool)
    \/ \E c \in Clients, op \in Resolutions, ref \in Refs :
          ClientResolves(c, op, ref)
    \/ \E tool \in Tools, label \in Spoken :
          VoiceStages(tool, label)
    \/ \E op \in Resolutions, ref \in Refs, label \in Spoken :
          VoiceResolves(op, ref, label)

(* The rest of a request, which its goroutine runs without waiting.        *)
Advance(c) ==
    \/ GatePasses(c) \/ GateRefuses(c) \/ ReadRequesterIsHost(c)
    \/ c = Voice /\ ReadRestriction
    \/ createPendingConfirmation(c)
    \/ confirmPendingAction(c) \/ cancelPendingConfirmation(c)
    \/ NothingSelected(c) \/ Refusal(c) \/ Disambiguation(c)
    \/ executePendingConfirmation(c) \/ FinishConfirm(c)

Next ==
    \/ MeetingStep
    \/ NewRequest
    \/ \E c \in Callers : Advance(c)
    \/ SnapshotState \/ TwoMinutesPass \/ Restart

Spec == Init /\ [][Next]_vars /\ \A c \in Callers : WF_vars(Advance(c))

-----------------------------------------------------------------------------
(* Properties.                                                             *)

(* History of a step: the request of c takes confirmation id, to run it or *)
(* to cancel it.                                                           *)
TakenBy(c, id) ==
    /\ Resolving(c) /\ ~Resolving(c)'
    /\ id \in pending \ pending'
    /\ id \in req'[c].todo \/ outcome'[id] = "cancelled"

(* Every staged action is in exactly one place: waiting on the board, held *)
(* by the one request that took it, or settled.  Concurrent confirms,      *)
(* cancels and prunes neither lose an action nor share it.                 *)
Accounted ==
    /\ \A id \in Ids : (id < nextId /\ outcome[id] = "none")
                          <=> id \in pending \cup InFlight
    /\ pending \cap InFlight = {}
    /\ \A c, d \in Callers : c # d => req[c].todo \cap req[d].todo = {}

(* A request resolves an action other than a deletion only if, at some     *)
(* moment since the request began, its caller had host access or no        *)
(* meeting was active: neither the three unlocked reads of the meeting nor *)
(* the advisory look at the pending set lets a participant through.        *)
HostOnlyNeedsClearance ==
    [][\A c \in Callers, id \in Ids :
          TakenBy(c, id) /\ ~participantConfirmablePendingTool(info[id].tool)
             => c \in cleared]_vars

(* An action staged for one requester is resolved for another only by a    *)
(* caller that was host of an active meeting since its request began.      *)
OthersActionsNeedHost ==
    [][\A c \in Callers, id \in Ids :
          TakenBy(c, id) /\ info[id].requester \notin {<<>>, RequesterOf(req[c].label)}
             => c \in wasHost]_vars

(* A bare "yes" never sets actions of different risk in motion.            *)
BareAffirmationSingleRisk ==
    \A c \in Callers :
       req[c].op = "confirm" /\ req[c].ref.scope = "bare" =>
          \A id1, id2 \in req[c].todo :
             riskForTool(info[id1].tool) = riskForTool(info[id2].tool)

(* What became of an action never changes: none runs twice, and none that  *)
(* was cancelled, that expired or that was pruned runs later.              *)
OutcomeFinal ==
    [][\A id \in Ids : outcome[id] # "none" => outcome'[id] = outcome[id]]_vars

(* Age decides nothing but lapsing.  No action is started after its two    *)
(* minutes, not even one that was taken in time and waited for others of   *)
(* the same confirmation; and one that has not expired leaves the board    *)
(* only for a request that holds it, by a cancellation or with a restart:  *)
(* a refused, ambiguous or unmatched resolution consumes nothing.          *)
AgeRespected ==
    [][\A id \in Ids :
          /\ outcome'[id] # outcome[id] /\ outcome'[id] = "ran" => id > lapse
          /\ id \in pending \ pending' /\ id > lapse =>
                id \in InFlight' \/ outcome'[id] \in {"cancelled", "lost"}]_vars

(* Every confirmed action is settled: one that fails does not strand the   *)
(* ones confirmed with it.                                                 *)
TakenSettles ==
    \A id \in Ids : (id \in InFlight) ~> (outcome[id] # "none")

(* main.go, voiceToolRequiresHost: "Any participant may still confirm or   *)
(* cancel a pending action by voice/chat, but ONLY when every pending      *)
(* action being resolved is in the participant-confirmable allowlist       *)
(* (task deletion)": the resolution of such a set is not refused.          *)
AnyParticipantResolvesDeletions ==
    (/\ Resolving(Voice) /\ req[Voice].restrict
     /\ req[Voice].label \in {<<i>> : i \in guests}
     /\ participantConfirmableSet(req[Voice].ref, pending))
       => ResolutionAllowed(Voice)

=============================================================================
