------------------------- MODULE ConfirmationsProofs -------------------------
(***************************************************************************)
(* Proofs about Confirmations, for every set of connections, identities,   *)
(* labels, references and tools, and every bound.                          *)
(***************************************************************************)
EXTENDS Confirmations, TLAPS

USE CallersAssumption, WhoAssumption, ToolsAssumption, ResolutionsAssumption,
    BoundsAssumption, SpokenAssumption, ExpiredAssumption, RefsAssumption

-----------------------------------------------------------------------------
(* Type correctness.                                                       *)

(* The empty label, and what RequesterOf records, are labels.              *)
LEMMA LabelTypes ==
    /\ <<>> \in Labels
    /\ \A label \in Labels \cup {Expired} : RequesterOf(label) \in Labels
    /\ \A i \in Identities : <<i>> \in Labels
BY DEF Labels, RequesterOf

(* An idle goroutine is a request record.                                  *)
LEMMA IdleType == Idle \in Requests /\ NoRef \in AllRefs
BY LabelTypes DEF Idle, Requests, NoRef, AllRefs

Pcs == {"idle", "gate", "meta", "restrict", "resolve", "execute"}

(* A request record stays one when a field takes a value of its type.      *)
LEMMA FieldTypes ==
    ASSUME NEW r \in Requests, NEW pc \in Pcs, NEW flag \in BOOLEAN,
           NEW todo \in SUBSET Ids
    PROVE  /\ [r EXCEPT !.pc = pc] \in Requests
           /\ [r EXCEPT !.todo = todo] \in Requests
           /\ [r EXCEPT !.pc = pc, !.isHost = flag] \in Requests
           /\ [r EXCEPT !.pc = pc, !.restrict = flag] \in Requests
           /\ [r EXCEPT !.pc = pc, !.todo = todo] \in Requests
<1>1. [r EXCEPT !.pc = pc] \in Requests
  BY DEF Requests, Pcs
<1>2. [r EXCEPT !.todo = todo] \in Requests
  BY DEF Requests
<1>3. [r EXCEPT !.pc = pc, !.isHost = flag] \in Requests
  BY DEF Requests, Pcs
<1>4. [r EXCEPT !.pc = pc, !.restrict = flag] \in Requests
  BY DEF Requests, Pcs
<1>5. [r EXCEPT !.pc = pc, !.todo = todo] \in Requests
  BY DEF Requests, Pcs
<1> QED
  BY <1>1, <1>2, <1>3, <1>4, <1>5

(* Starting a request with arguments of their types keeps req typed.       *)
LEMMA BeginType ==
    ASSUME TypeOK, NEW c \in Callers,
           NEW op \in {"stage", "confirm", "cancel"},
           NEW tool \in {"none"} \cup Tools,
           NEW label \in Labels \cup {Expired},
           NEW ref \in AllRefs,
           NEW pc \in {"gate", "meta"},
           Begin(c, op, tool, label, ref, pc)
    PROVE  TypeOK'
<1>1. [Idle EXCEPT !.pc = pc, !.op = op, !.tool = tool, !.label = label,
                   !.ref = ref] \in Requests
  BY IdleType DEF Idle, Requests
<1>2. req' \in [Callers -> Requests]
  BY <1>1 DEF Begin, TypeOK
<1>3. cleared' \subseteq Callers /\ wasHost' \subseteq Callers
  BY DEF Begin, RecordClearance, ClearedBy, HostBy, TypeOK
<1> QED
  BY <1>2, <1>3 DEF Begin, TypeOK, meetingVars, boardVars

(* Settling confirmations keeps the records and outcomes typed.            *)
LEMMA SettleType ==
    ASSUME TypeOK, NEW ids \in SUBSET Ids, NEW result \in [Ids -> Outcomes],
           Settle(ids, result)
    PROVE  /\ info' \in [Ids -> [tool : {"none"} \cup Tools, requester : Labels]]
           /\ outcome' \in [Ids -> Outcomes]
<1>1. NoInfo \in [tool : {"none"} \cup Tools, requester : Labels]
  BY LabelTypes DEF NoInfo
<1> QED
  BY <1>1 DEF Settle, TypeOK

(* A goroutine that returns leaves req and the histories typed.            *)
LEMMA ReturnType ==
    ASSUME TypeOK, NEW c \in Callers, Return(c)
    PROVE  req' \in [Callers -> Requests] /\ cleared' \subseteq Callers
           /\ wasHost' \subseteq Callers
BY IdleType DEF Return, TypeOK

(* Live and selected ids are pending ones, hence ids.                      *)
LEMMA PendingIds ==
    ASSUME TypeOK
    PROVE  /\ pending \subseteq Ids /\ Live \subseteq pending
           /\ \A c \in Callers : Selected(c) \subseteq pending
           /\ InFlight \subseteq Ids
<1>1. pending \subseteq Ids
  BY DEF TypeOK, Ids
<1>2. \A c \in Callers : Selected(c) \subseteq pending
  BY DEF Selected, selectPendingConfirmations
<1>3. InFlight \subseteq Ids
  BY DEF InFlight, TypeOK, Requests
<1> QED
  BY <1>1, <1>2, <1>3 DEF Live

(* Pruning only removes lapsed confirmations.                              *)
LEMMA PruneType ==
    ASSUME TypeOK, PruneLapsed
    PROVE  /\ pending' \subseteq pending
           /\ info' \in [Ids -> [tool : {"none"} \cup Tools, requester : Labels]]
           /\ outcome' \in [Ids -> Outcomes]
<1>1. pending \ Live \in SUBSET Ids /\ [id \in Ids |-> "expired"] \in [Ids -> Outcomes]
  BY PendingIds DEF Outcomes
<1> QED
  BY <1>1, SettleType, PendingIds DEF PruneLapsed

(* Executing the next taken confirmation keeps the state typed.            *)
LEMMA ExecuteType ==
    ASSUME TypeOK, NEW c \in Callers, executePendingConfirmation(c)
    PROVE  TypeOK'
<1> PICK id \in Earliest(req[c].todo) :
        /\ req' = [req EXCEPT ![c].todo = @ \ {id}]
        /\ \/ /\ pending' = pending
              /\ Settle({id}, [other \in Ids |-> "expired"])
           \/ /\ pending' = Live
              /\ Settle({id} \cup (pending \ Live),
                        [other \in Ids |-> IF other = id THEN "ran" ELSE "expired"])
  BY DEF executePendingConfirmation
<1>1. id \in req[c].todo /\ req[c].todo \subseteq Ids
  BY DEF Earliest, TypeOK, Requests
<1>2. [req[c] EXCEPT !.todo = req[c].todo \ {id}] \in Requests
  BY <1>1, FieldTypes DEF TypeOK, Pcs
<1>3. req' \in [Callers -> Requests]
  BY <1>2 DEF TypeOK
<1>4. pending' \subseteq pending
  BY PendingIds
<1>5. /\ info' \in [Ids -> [tool : {"none"} \cup Tools, requester : Labels]]
      /\ outcome' \in [Ids -> Outcomes]
  <2>1. CASE Settle({id}, [other \in Ids |-> "expired"])
    <3>1. [other \in Ids |-> "expired"] \in [Ids -> Outcomes]
      BY DEF Outcomes
    <3> QED
      BY <1>1, <2>1, <3>1, SettleType
  <2>2. CASE Settle({id} \cup (pending \ Live),
                    [other \in Ids |-> IF other = id THEN "ran" ELSE "expired"])
    <3>1. [other \in Ids |-> IF other = id THEN "ran" ELSE "expired"]
             \in [Ids -> Outcomes]
      BY DEF Outcomes
    <3>2. {id} \cup (pending \ Live) \in SUBSET Ids
      BY <1>1, PendingIds
    <3> QED
      BY <2>2, <3>1, <3>2, SettleType
  <2> QED
    BY <2>1, <2>2
<1> QED
  BY <1>3, <1>4, <1>5 DEF executePendingConfirmation, TypeOK, meetingVars

(* Every step of a request keeps the state typed.                          *)
LEMMA AdvanceType ==
    ASSUME TypeOK, NEW c \in Callers, Advance(c)
    PROVE  TypeOK'
<1> USE DEF meetingVars, boardVars
<1>1. CASE GatePasses(c)
  BY <1>1 DEF GatePasses, TypeOK, Requests
<1>2. CASE GateRefuses(c) \/ NothingSelected(c) \/ Refusal(c) \/ FinishConfirm(c)
  BY <1>2, ReturnType DEF GateRefuses, NothingSelected, Refusal, FinishConfirm, TypeOK
<1>3. CASE ReadRequesterIsHost(c)
  <2> DEFINE host == hosts # {} /\ Access(c)
  <2>1. host \in BOOLEAN
    OBVIOUS
  <2>2. req' = [req EXCEPT ![c].pc = IF c = Voice THEN "gate" ELSE "resolve",
                          ![c].isHost = host]
    BY <1>3 DEF ReadRequesterIsHost
  <2> HIDE DEF host
  <2>3. [req[c] EXCEPT !.pc = IF c = Voice THEN "gate" ELSE "resolve",
                       !.isHost = host] \in Requests
    BY <2>1, FieldTypes DEF TypeOK, Pcs
  <2>4. req' \in [Callers -> Requests]
    BY <2>2, <2>3 DEF TypeOK
  <2> QED
    BY <1>3, <2>4 DEF ReadRequesterIsHost, TypeOK
<1>4. CASE c = Voice /\ ReadRestriction
  <2> DEFINE restricted == ~Access(Voice)
  <2>1. restricted \in BOOLEAN
    OBVIOUS
  <2>2. req' = [req EXCEPT ![Voice].pc = "resolve", ![Voice].restrict = restricted]
    BY <1>4 DEF ReadRestriction
  <2> HIDE DEF restricted
  <2>3. [req[Voice] EXCEPT !.pc = "resolve", !.restrict = restricted] \in Requests
    BY <1>4, <2>1, FieldTypes DEF TypeOK, Pcs
  <2>4. req' \in [Callers -> Requests]
    BY <2>2, <2>3 DEF TypeOK
  <2> QED
    BY <1>4, <2>4 DEF ReadRestriction, TypeOK
<1>5. CASE createPendingConfirmation(c)
  <2>1. nextId \in Ids /\ nextId' \in 1 .. MaxIds + 1 /\ pending' \subseteq 1 .. nextId' - 1
        /\ lapse \in 0 .. nextId' - 1
    <3>1. /\ nextId \in 1 .. MaxIds + 1 /\ pending \subseteq 1 .. nextId - 1
          /\ lapse \in 0 .. nextId - 1
      BY DEF TypeOK
    <3>2. /\ nextId <= MaxIds /\ nextId' = nextId + 1 /\ lapse' = lapse
          /\ pending' = pending \cup {nextId}
      BY <1>5 DEF createPendingConfirmation
    <3> QED
      BY <3>1, <3>2 DEF Ids
  <2>2. info' \in [Ids -> [tool : {"none"} \cup Tools, requester : Labels]]
    <3>1. req[c].tool \in {"none"} \cup Tools /\ req[c].label \in Labels \cup {Expired}
      BY DEF TypeOK, Requests
    <3>2. [tool |-> req[c].tool, requester |-> RequesterOf(req[c].label)]
             \in [tool : {"none"} \cup Tools, requester : Labels]
      BY <3>1, LabelTypes
    <3> QED
      BY <1>5, <3>2 DEF createPendingConfirmation, TypeOK
  <2> QED
    BY <1>5, <2>1, <2>2, ReturnType DEF createPendingConfirmation, TypeOK, Ids
<1>6. CASE confirmPendingAction(c)
  <2>1. Selected(c) \subseteq Ids
    BY PendingIds
  <2>2. [req[c] EXCEPT !.pc = "execute", !.todo = Selected(c)] \in Requests
    BY <2>1, FieldTypes DEF TypeOK, Pcs
  <2>3. req' \in [Callers -> Requests]
    BY <1>6, <2>2 DEF confirmPendingAction, TypeOK
  <2> QED
    BY <1>6, <2>3 DEF confirmPendingAction, TypeOK
<1>7. CASE cancelPendingConfirmation(c)
  <2>1. Selected(c) \in SUBSET Ids /\ [id \in Ids |-> "cancelled"] \in [Ids -> Outcomes]
    BY PendingIds DEF Outcomes
  <2>2. /\ info' \in [Ids -> [tool : {"none"} \cup Tools, requester : Labels]]
        /\ outcome' \in [Ids -> Outcomes]
    BY <1>7, <2>1, SettleType DEF cancelPendingConfirmation
  <2> QED
    BY <1>7, <2>2, ReturnType DEF cancelPendingConfirmation, TypeOK
<1>8. CASE Disambiguation(c)
  <2>1. /\ pending' \subseteq pending
        /\ info' \in [Ids -> [tool : {"none"} \cup Tools, requester : Labels]]
        /\ outcome' \in [Ids -> Outcomes]
    BY <1>8, PruneType DEF Disambiguation
  <2> QED
    BY <1>8, <2>1, ReturnType DEF Disambiguation, TypeOK
<1>9. CASE executePendingConfirmation(c)
  BY <1>9, ExecuteType
<1> QED
  BY <1>1, <1>2, <1>3, <1>4, <1>5, <1>6, <1>7, <1>8, <1>9 DEF Advance

(* Every step keeps the state typed.                                       *)
LEMMA NextType == TypeOK /\ [Next]_vars => TypeOK'
<1> SUFFICES ASSUME TypeOK, [Next]_vars PROVE TypeOK'
  OBVIOUS
<1> USE DEF meetingVars, boardVars
<1>1. CASE MeetingStep
  <2>1. \A i \in Identities : MeetingSetup(i) \/ GuestJoins(i) \/ GuestLeaves(i)
           => TypeOK'
    BY DEF MeetingSetup, GuestJoins, GuestLeaves, RecordClearance, ClearedBy,
           HostBy, TypeOK
  <2>2. MeetingEnds => TypeOK'
    BY DEF MeetingEnds, RecordClearance, ClearedBy, HostBy, TypeOK
  <2>3. \A c \in Clients : Upgrade(c) => TypeOK'
    BY DEF Upgrade, TypeOK
  <2> QED
    BY <1>1, <2>1, <2>2, <2>3 DEF MeetingStep
<1>2. CASE NewRequest
  <2>1. \A c \in Clients : c \in Callers /\ <<Who[c]>> \in Labels
    BY LabelTypes DEF Callers
  <2>2. ASSUME NEW c \in Clients, NEW tool \in Tools, ClientStages(c, tool)
        PROVE  TypeOK'
    BY <2>1, <2>2, BeginType, IdleType DEF ClientStages
  <2>3. ASSUME NEW c \in Clients, NEW op \in Resolutions, NEW ref \in Refs,
               ClientResolves(c, op, ref)
        PROVE  TypeOK'
    BY <2>1, <2>3, BeginType DEF ClientResolves
  <2>4. ASSUME NEW tool \in Tools, NEW label \in Spoken, VoiceStages(tool, label)
        PROVE  TypeOK'
    BY <2>4, BeginType, IdleType DEF VoiceStages, Callers
  <2>5. ASSUME NEW op \in Resolutions, NEW ref \in Refs, NEW label \in Spoken,
               VoiceResolves(op, ref, label)
        PROVE  TypeOK'
    BY <2>5, BeginType DEF VoiceResolves, Callers
  <2> QED
    BY <1>2, <2>2, <2>3, <2>4, <2>5 DEF NewRequest
<1>3. CASE \E c \in Callers : Advance(c)
  BY <1>3, AdvanceType
<1>4. CASE SnapshotState
  BY <1>4, PruneType DEF SnapshotState, TypeOK
<1>5. CASE TwoMinutesPass
  BY <1>5 DEF TwoMinutesPass, TypeOK
<1>6. CASE Restart
  <2>1. /\ info' \in [Ids -> [tool : {"none"} \cup Tools, requester : Labels]]
        /\ outcome' \in [Ids -> Outcomes]
    <3>1. [id \in Ids |-> "lost"] \in [Ids -> Outcomes]
      BY DEF Outcomes
    <3> QED
      BY <1>6, <3>1, PendingIds, SettleType DEF Restart
  <2> QED
    BY <1>6, <2>1, IdleType DEF Restart, TypeOK
<1>7. CASE UNCHANGED vars
  BY <1>7 DEF vars, TypeOK
<1> QED
  BY <1>1, <1>2, <1>3, <1>4, <1>5, <1>6, <1>7 DEF Next

(* The state stays typed.                                                  *)
THEOREM TypeCorrect == Spec => []TypeOK
<1>1. Init => TypeOK
  BY LabelTypes, IdleType DEF Init, TypeOK, NoInfo, Outcomes
<1> QED
  BY <1>1, NextType, PTL DEF Spec

-----------------------------------------------------------------------------
(* Every staged action is in one place, and what became of it is final.    *)

(* Accounted alone is not inductive: a goroutine must hold nothing unless  *)
(* it is executing, and no outcome may be known of an id still to come.    *)
Accounting ==
    /\ Accounted
    /\ \A c \in Callers : req[c].pc # "execute" => req[c].todo = {}
    /\ \A id \in Ids : id >= nextId => outcome[id] = "none"

KnownStay == \A id \in Ids : outcome[id] # "none" => outcome'[id] = outcome[id]

(* What is in flight is what some goroutine holds.                         *)
LEMMA Holders == \A id : id \in InFlight <=> \E c \in Callers : id \in req[c].todo
BY DEF InFlight

(* A step that moves no confirmation keeps the account.                    *)
LEMMA NothingMoves ==
    ASSUME Accounting, UNCHANGED <<nextId, pending, outcome>>,
           \A c \in Callers : req'[c].todo = req[c].todo,
           \A c \in Callers : req'[c].pc # "execute" => req'[c].todo = {}
    PROVE  Accounting' /\ KnownStay
<1>1. InFlight' = InFlight
  BY DEF InFlight
<1> QED
  BY <1>1 DEF Accounting, Accounted, KnownStay

(* Settling confirmations that wait or are held, and removing them from    *)
(* where they were, keeps the account.                                     *)
LEMMA SettledLeave ==
    ASSUME TypeOK, Accounting,
           NEW gone \in SUBSET (pending \cup InFlight),
           NEW result \in [Ids -> Outcomes \ {"none"}],
           Settle(gone, result), nextId' = nextId, pending' \subseteq pending,
           \A c \in Callers : req'[c].todo \subseteq req[c].todo,
           \A c \in Callers : req'[c].pc # "execute" => req'[c].todo = {},
           pending' \cup InFlight' = (pending \cup InFlight) \ gone
    PROVE  Accounting' /\ KnownStay
<1>1. gone \subseteq Ids /\ \A id \in gone : id < nextId /\ outcome[id] = "none"
  BY PendingIds DEF Accounting, Accounted
<1>2. outcome' = [id \in Ids |-> IF id \in gone THEN result[id] ELSE outcome[id]]
  BY DEF Settle
<1>3. InFlight' \subseteq InFlight
  BY DEF InFlight
<1>4. Accounted'
  <2>1. \A id \in Ids : (id < nextId' /\ outcome'[id] = "none")
                            <=> id \in pending' \cup InFlight'
    BY <1>1, <1>2 DEF Accounting, Accounted
  <2>2. pending' \cap InFlight' = {}
    BY <1>3 DEF Accounting, Accounted
  <2>3. \A c, d \in Callers : c # d => req'[c].todo \cap req'[d].todo = {}
    BY DEF Accounting, Accounted
  <2> QED
    BY <2>1, <2>2, <2>3 DEF Accounted
<1>5. \A id \in Ids : id >= nextId' => outcome'[id] = "none"
  <2>1. nextId \in Nat /\ \A id \in Ids : id \in Nat
    BY DEF TypeOK, Ids
  <2> QED
    BY <1>1, <1>2, <2>1 DEF Accounting
<1>6. KnownStay
  BY <1>1, <1>2 DEF KnownStay
<1> QED
  BY <1>4, <1>5, <1>6 DEF Accounting

(* A goroutine that holds nothing returns: nobody's holdings change.       *)
LEMMA ReturnHolds ==
    ASSUME TypeOK, Accounting, NEW c \in Callers, Return(c), req[c].todo = {}
    PROVE  /\ \A d \in Callers : req'[d].todo = req[d].todo
           /\ \A d \in Callers : req'[d].pc # "execute" => req'[d].todo = {}
           /\ InFlight' = InFlight
<1>1. req' = [req EXCEPT ![c] = Idle] /\ Idle.todo = {} /\ req \in [Callers -> Requests]
  BY DEF Return, Idle, TypeOK
<1>2. \A d \in Callers : req'[d].todo = req[d].todo
  BY <1>1
<1>3. \A d \in Callers : req'[d].pc # "execute" => req'[d].todo = {}
  BY <1>1 DEF Accounting
<1> QED
  BY <1>2, <1>3 DEF InFlight

(* Pruning settles exactly the lapsed confirmations that waited.           *)
LEMMA PruneAccounts ==
    ASSUME TypeOK, Accounting, PruneLapsed, nextId' = nextId, InFlight' = InFlight,
           \A c \in Callers : req'[c].todo = req[c].todo,
           \A c \in Callers : req'[c].pc # "execute" => req'[c].todo = {}
    PROVE  Accounting' /\ KnownStay
<1> DEFINE gone == pending \ Live
           result == [id \in Ids |-> "expired"]
<1>1. gone \in SUBSET (pending \cup InFlight)
  OBVIOUS
<1>2. result \in [Ids -> Outcomes \ {"none"}]
  BY DEF Outcomes
<1>3. Settle(gone, result) /\ pending' = Live /\ Live \subseteq pending
  BY PendingIds DEF PruneLapsed
<1>4. pending' \cup InFlight' = (pending \cup InFlight) \ gone
  BY <1>3 DEF Accounting, Accounted
<1> HIDE DEF gone, result
<1> QED
  BY <1>1, <1>2, <1>3, <1>4, SettledLeave

(* Executing the next taken confirmation settles it.                       *)
LEMMA ExecuteAccounts ==
    ASSUME TypeOK, Accounting, NEW c \in Callers, executePendingConfirmation(c)
    PROVE  Accounting' /\ KnownStay
<1> PICK id \in Earliest(req[c].todo) :
        /\ req' = [req EXCEPT ![c].todo = @ \ {id}]
        /\ \/ /\ pending' = pending
              /\ Settle({id}, [other \in Ids |-> "expired"])
           \/ /\ pending' = Live
              /\ Settle({id} \cup (pending \ Live),
                        [other \in Ids |-> IF other = id THEN "ran" ELSE "expired"])
  BY DEF executePendingConfirmation
<1>1. id \in req[c].todo /\ id \in InFlight /\ id \notin pending
  BY Holders DEF Earliest, Accounting, Accounted
<1>2. /\ req'[c].todo = req[c].todo \ {id}
      /\ \A d \in Callers \ {c} : req'[d].todo = req[d].todo
      /\ \A d \in Callers : req'[d].pc = req[d].pc
  BY DEF TypeOK, Requests
<1>3. /\ \A d \in Callers : req'[d].todo \subseteq req[d].todo
      /\ \A d \in Callers : req'[d].pc # "execute" => req'[d].todo = {}
  BY <1>2 DEF Accounting
<1>4. InFlight' = InFlight \ {id}
  <2>1. \A d \in Callers \ {c} : id \notin req[d].todo
    BY <1>1 DEF Accounting, Accounted
  <2>2. \A x : x \in InFlight' <=> \E d \in Callers : x \in req'[d].todo
    BY DEF InFlight
  <2>3. \A x : x \in InFlight' <=> x \in InFlight \ {id}
    BY <1>2, <2>1, <2>2, Holders
  <2> QED
    BY <2>3
<1>5. nextId' = nextId
  BY DEF executePendingConfirmation
<1>6. CASE pending' = pending /\ Settle({id}, [other \in Ids |-> "expired"])
  <2>1. [other \in Ids |-> "expired"] \in [Ids -> Outcomes \ {"none"}]
    BY DEF Outcomes
  <2>2. pending' \cup InFlight' = (pending \cup InFlight) \ {id}
    BY <1>1, <1>4, <1>6
  <2>3. {id} \in SUBSET (pending \cup InFlight) /\ pending' \subseteq pending
    BY <1>1, <1>6
  <2> QED
    BY <1>3, <1>5, <1>6, <2>1, <2>2, <2>3, SettledLeave
<1>7. CASE /\ pending' = Live
           /\ Settle({id} \cup (pending \ Live),
                     [other \in Ids |-> IF other = id THEN "ran" ELSE "expired"])
  <2> DEFINE gone == {id} \cup (pending \ Live)
             result == [other \in Ids |-> IF other = id THEN "ran" ELSE "expired"]
  <2>1. result \in [Ids -> Outcomes \ {"none"}]
    BY DEF Outcomes
  <2>2. pending' \cup InFlight' = (pending \cup InFlight) \ gone
    BY <1>1, <1>4, <1>7, PendingIds DEF Accounting, Accounted
  <2>3. gone \in SUBSET (pending \cup InFlight) /\ pending' \subseteq pending
    BY <1>1, <1>7, PendingIds
  <2>4. Settle(gone, result)
    BY <1>7
  <2> HIDE DEF gone, result
  <2> QED
    BY <1>3, <1>5, <2>1, <2>2, <2>3, <2>4, SettledLeave
<1> QED
  BY <1>6, <1>7

(* Taking confirmations moves them from the board to one goroutine.        *)
LEMMA ConfirmAccounts ==
    ASSUME TypeOK, Accounting, NEW c \in Callers, confirmPendingAction(c)
    PROVE  Accounting' /\ KnownStay
<1> DEFINE S == Selected(c)
<1>1. /\ pending' = pending \ S /\ S \subseteq pending
      /\ req' = [req EXCEPT ![c].pc = "execute", ![c].todo = S]
      /\ UNCHANGED <<nextId, outcome>>
  BY PendingIds DEF confirmPendingAction
<1> HIDE DEF S
<1>2. req[c].todo = {}
  BY DEF confirmPendingAction, Resolving, Accounting
<1>3. /\ req'[c].todo = S /\ req'[c].pc = "execute"
      /\ \A d \in Callers \ {c} : req'[d] = req[d]
  BY <1>1 DEF TypeOK, Requests
<1>4. InFlight' = InFlight \cup S
  <2>1. \A x : x \in InFlight' <=> \E d \in Callers : x \in req'[d].todo
    BY DEF InFlight
  <2>2. \A x : x \in InFlight' <=> x \in InFlight \cup S
    BY <1>2, <1>3, <2>1, Holders
  <2> QED
    BY <2>2
<1>5. Accounted'
  <2>1. pending \cap InFlight = {} /\ pending' \cup InFlight' = pending \cup InFlight
    BY <1>1, <1>4 DEF Accounting, Accounted
  <2>2. pending' \cap InFlight' = {}
    BY <1>1, <1>4, <2>1
  <2>3. \A d \in Callers : S \cap req[d].todo = {}
    BY <1>1, <2>1, Holders
  <2>4. \A d, e \in Callers : d # e => req'[d].todo \cap req'[e].todo = {}
    BY <1>3, <2>3 DEF Accounting, Accounted
  <2> QED
    BY <1>1, <2>1, <2>2, <2>4 DEF Accounting, Accounted
<1> QED
  BY <1>1, <1>3, <1>5 DEF Accounting, KnownStay

(* Staging puts the new id on the board and nowhere else.                  *)
LEMMA CreateAccounts ==
    ASSUME TypeOK, Accounting, NEW c \in Callers, createPendingConfirmation(c)
    PROVE  Accounting' /\ KnownStay
<1>1. /\ nextId' = nextId + 1 /\ pending' = pending \cup {nextId}
      /\ UNCHANGED outcome /\ Return(c) /\ nextId <= MaxIds
  BY DEF createPendingConfirmation
<1>2. req[c].todo = {}
  BY DEF createPendingConfirmation, Accounting
<1>3. /\ \A d \in Callers : req'[d].todo = req[d].todo
      /\ \A d \in Callers : req'[d].pc # "execute" => req'[d].todo = {}
      /\ InFlight' = InFlight
  BY <1>1, <1>2, ReturnHolds
<1>4. nextId \in Nat /\ nextId \in Ids /\ outcome[nextId] = "none"
  BY <1>1 DEF TypeOK, Ids, Accounting
<1>5. nextId \notin InFlight /\ nextId \notin pending
  BY <1>4 DEF Accounting, Accounted
<1>6. \A id \in Ids : id < nextId' <=> id < nextId \/ id = nextId
  BY <1>1, <1>4 DEF Ids
<1>7. Accounted'
  BY <1>1, <1>3, <1>4, <1>5, <1>6 DEF Accounting, Accounted
<1>8. \A id \in Ids : id >= nextId' => outcome'[id] = "none"
  BY <1>1, <1>4 DEF Accounting, Ids
<1> QED
  BY <1>1, <1>3, <1>7, <1>8 DEF Accounting, KnownStay

(* Every step of a request keeps the account.                              *)
LEMMA AdvanceAccounts ==
    ASSUME TypeOK, Accounting, NEW c \in Callers, Advance(c)
    PROVE  Accounting' /\ KnownStay
<1> USE DEF meetingVars, boardVars
<1>1. CASE GatePasses(c) \/ ReadRequesterIsHost(c) \/ (c = Voice /\ ReadRestriction)
  <2>1. /\ \A d \in Callers : req'[d].todo = req[d].todo
        /\ \A d \in Callers : req'[d].pc # "execute" => req[d].pc # "execute"
    <3> USE DEF TypeOK, Requests
    <3>1. CASE GatePasses(c)
      BY <3>1 DEF GatePasses
    <3>2. CASE ReadRequesterIsHost(c)
      BY <3>2 DEF ReadRequesterIsHost
    <3>3. CASE c = Voice /\ ReadRestriction
      BY <3>3 DEF ReadRestriction
    <3> QED
      BY <1>1, <3>1, <3>2, <3>3
  <2>2. UNCHANGED <<nextId, pending, outcome>>
    BY <1>1 DEF GatePasses, ReadRequesterIsHost, ReadRestriction
  <2> QED
    BY <2>1, <2>2, NothingMoves DEF Accounting
<1>2. CASE GateRefuses(c) \/ NothingSelected(c) \/ Refusal(c) \/ FinishConfirm(c)
  <2>1. Return(c) /\ req[c].todo = {} /\ UNCHANGED <<nextId, pending, outcome>>
    BY <1>2 DEF GateRefuses, NothingSelected, Refusal, FinishConfirm, Resolving,
                Accounting
  <2> QED
    BY <2>1, ReturnHolds, NothingMoves
<1>3. CASE createPendingConfirmation(c)
  BY <1>3, CreateAccounts
<1>4. CASE confirmPendingAction(c)
  BY <1>4, ConfirmAccounts
<1>5. CASE cancelPendingConfirmation(c)
  <2> DEFINE gone == Selected(c)
             result == [id \in Ids |-> "cancelled"]
  <2>1. /\ Settle(gone, result) /\ pending' = pending \ gone /\ gone \subseteq pending
        /\ nextId' = nextId /\ Return(c) /\ req[c].todo = {}
    BY <1>5, PendingIds DEF cancelPendingConfirmation, Resolving, Accounting
  <2>2. result \in [Ids -> Outcomes \ {"none"}]
    BY DEF Outcomes
  <2> HIDE DEF gone, result
  <2>3. /\ \A d \in Callers : req'[d].todo = req[d].todo
        /\ \A d \in Callers : req'[d].pc # "execute" => req'[d].todo = {}
        /\ InFlight' = InFlight
    BY <2>1, ReturnHolds
  <2>4. pending' \cup InFlight' = (pending \cup InFlight) \ gone
    BY <2>1, <2>3 DEF Accounting, Accounted
  <2> QED
    BY <2>1, <2>2, <2>3, <2>4, SettledLeave
<1>6. CASE Disambiguation(c)
  <2>1. Return(c) /\ req[c].todo = {} /\ nextId' = nextId /\ PruneLapsed
    BY <1>6 DEF Disambiguation, Resolving, Accounting
  <2> QED
    BY <2>1, ReturnHolds, PruneAccounts
<1>7. CASE executePendingConfirmation(c)
  BY <1>7, ExecuteAccounts
<1> QED
  BY <1>1, <1>2, <1>3, <1>4, <1>5, <1>6, <1>7 DEF Advance

(* Every step keeps the account, and what is known of an action stays.     *)
LEMMA NextAccounts ==
    ASSUME TypeOK, Accounting, [Next]_vars
    PROVE  Accounting' /\ KnownStay
<1> USE DEF meetingVars, boardVars
<1>1. CASE MeetingStep
  <2>1. UNCHANGED <<nextId, pending, outcome, req>>
    BY <1>1 DEF MeetingStep, MeetingSetup, GuestJoins, GuestLeaves, MeetingEnds,
                Upgrade
  <2> QED
    BY <2>1, NothingMoves DEF Accounting
<1>2. CASE NewRequest
  <2>1. \E c \in Callers : \E op, tool, label, ref, pc :
           pc # "execute" /\ Begin(c, op, tool, label, ref, pc)
    BY <1>2 DEF NewRequest, ClientStages, ClientResolves, VoiceStages,
                VoiceResolves, Callers
  <2>c. PICK c \in Callers : \E op, tool, label, ref, pc :
           pc # "execute" /\ Begin(c, op, tool, label, ref, pc)
    BY <2>1
  <2>2. PICK op, tool, label, ref, pc :
           pc # "execute" /\ Begin(c, op, tool, label, ref, pc)
    BY <2>c
  <2> DEFINE started == [Idle EXCEPT !.pc = pc, !.op = op, !.tool = tool,
                                     !.label = label, !.ref = ref]
  <2>3. started.todo = {} /\ started.pc = pc
    BY DEF Idle
  <2>4. req' = [req EXCEPT ![c] = started] /\ req[c].pc = "idle"
        /\ UNCHANGED <<nextId, pending, outcome>>
    BY <2>2 DEF Begin
  <2> HIDE DEF started
  <2>5. /\ \A d \in Callers : req'[d].todo = req[d].todo
        /\ \A d \in Callers : req'[d].pc # "execute" => req'[d].todo = {}
    BY <2>2, <2>3, <2>4 DEF Accounting, TypeOK
  <2> QED
    BY <2>4, <2>5, NothingMoves
<1>3. CASE \E c \in Callers : Advance(c)
  BY <1>3, AdvanceAccounts
<1>4. CASE SnapshotState
  <2>1. PruneLapsed /\ UNCHANGED <<nextId, req>>
    BY <1>4 DEF SnapshotState
  <2> QED
    BY <2>1, PruneAccounts DEF InFlight, Accounting
<1>5. CASE TwoMinutesPass
  BY <1>5, NothingMoves DEF TwoMinutesPass, Accounting
<1>6. CASE Restart
  <2> DEFINE gone == pending \cup InFlight
             result == [id \in Ids |-> "lost"]
  <2>1. Settle(gone, result) /\ pending' = {} /\ nextId' = nextId
        /\ req' = [c \in Callers |-> Idle]
    BY <1>6 DEF Restart
  <2>2. result \in [Ids -> Outcomes \ {"none"}]
    BY DEF Outcomes
  <2>3. \A c \in Callers : req'[c].todo = {}
    BY <2>1 DEF Idle
  <2>4. InFlight' = {}
    BY <2>3 DEF InFlight
  <2>5. gone \in SUBSET (pending \cup InFlight) /\ pending' \subseteq pending
        /\ pending' \cup InFlight' = (pending \cup InFlight) \ gone
    BY <2>1, <2>4
  <2> HIDE DEF gone, result
  <2> QED
    BY <2>1, <2>2, <2>3, <2>5, SettledLeave
<1>7. CASE UNCHANGED vars
  BY <1>7, NothingMoves DEF vars, Accounting
<1> QED
  BY <1>1, <1>2, <1>3, <1>4, <1>5, <1>6, <1>7 DEF Next

LEMMA InitAccounts == Init => Accounting
<1> SUFFICES ASSUME Init PROVE Accounting
  OBVIOUS
<1>1. \A c \in Callers : req[c].todo = {}
  BY DEF Init, Idle
<1>2. InFlight = {}
  BY <1>1 DEF InFlight
<1>3. \A id \in Ids : ~(id < nextId)
  BY DEF Init, Ids
<1> QED
  BY <1>1, <1>2, <1>3 DEF Accounting, Accounted, Init

(* Every staged action is in exactly one place.                            *)
THEOREM ActionsAccounted == Spec => []Accounted
<1>1. Accounting => Accounted
  BY DEF Accounting
<1>2. TypeOK /\ Accounting /\ [Next]_vars => Accounting'
  BY NextAccounts
<1> QED
  BY <1>1, <1>2, InitAccounts, TypeCorrect, PTL DEF Spec

(* What became of an action never changes.                                 *)
THEOREM OutcomesFinal == Spec => OutcomeFinal
<1>1. TypeOK /\ Accounting /\ [Next]_vars => Accounting'
  BY NextAccounts
<1>2. TypeOK /\ Accounting /\ [Next]_vars
        => [\A id \in Ids : outcome[id] # "none" => outcome'[id] = outcome[id]]_vars
  BY NextAccounts DEF KnownStay
<1> QED
  BY <1>1, <1>2, InitAccounts, TypeCorrect, PTL DEF Spec, OutcomeFinal

-----------------------------------------------------------------------------
(* What the age of an action decides.                                      *)

(* The step on one action that AgeRespected speaks of.                     *)
AgedStep(id) ==
    /\ outcome'[id] # outcome[id] /\ outcome'[id] = "ran" => id > lapse
    /\ id \in pending \ pending' /\ id > lapse =>
          id \in InFlight' \/ outcome'[id] \in {"cancelled", "lost"}

(* Pruning and expiry only concern actions whose two minutes are over.     *)
LEMMA PruneRespectsAge ==
    ASSUME TypeOK, PruneLapsed, NEW id \in Ids
    PROVE  AgedStep(id)
<1>1. outcome'[id] # outcome[id] => outcome'[id] = "expired"
  BY DEF PruneLapsed, Settle
<1>2. id \in pending \ pending' => ~(id > lapse)
  BY DEF PruneLapsed, Live
<1> QED
  BY <1>1, <1>2 DEF AgedStep

(* Running the next taken action looks at its age, and what the snapshot   *)
(* prunes meanwhile is over.                                               *)
LEMMA ExecuteRespectsAge ==
    ASSUME TypeOK, NEW c \in Callers, executePendingConfirmation(c), NEW id \in Ids
    PROVE  AgedStep(id)
<1>1. PICK next \in Earliest(req[c].todo) :
         \/ /\ next <= lapse
            /\ pending' = pending
            /\ Settle({next}, [other \in Ids |-> "expired"])
         \/ /\ next > lapse
            /\ pending' = Live
            /\ Settle({next} \cup (pending \ Live),
                      [other \in Ids |-> IF other = next THEN "ran" ELSE "expired"])
  BY DEF executePendingConfirmation
<1>2. CASE pending' = pending /\ Settle({next}, [other \in Ids |-> "expired"])
  <2>1. outcome'[id] # outcome[id] => outcome'[id] = "expired"
    BY <1>2 DEF Settle
  <2> QED
    BY <1>2, <2>1 DEF AgedStep
<1>3. CASE /\ next > lapse
           /\ pending' = Live
           /\ Settle({next} \cup (pending \ Live),
                     [other \in Ids |-> IF other = next THEN "ran" ELSE "expired"])
  <2>1. outcome'[id] # outcome[id] => id = next \/ outcome'[id] = "expired"
    BY <1>3 DEF Settle
  <2>2. id \in pending \ pending' => ~(id > lapse)
    BY <1>3 DEF Live
  <2> QED
    BY <1>3, <2>1, <2>2 DEF AgedStep
<1> QED
  BY <1>1, <1>2, <1>3

(* The rest of a request runs nothing, and what it takes off the board it  *)
(* holds or cancels.                                                       *)
LEMMA AdvanceRespectsAge ==
    ASSUME TypeOK, NEW c \in Callers, Advance(c), NEW id \in Ids
    PROVE  AgedStep(id)
<1>1. CASE \/ GatePasses(c) \/ GateRefuses(c) \/ ReadRequesterIsHost(c)
           \/ c = Voice /\ ReadRestriction
           \/ NothingSelected(c) \/ Refusal(c) \/ FinishConfirm(c)
  <2>1. UNCHANGED <<pending, outcome>>
    BY <1>1 DEF GatePasses, GateRefuses, ReadRequesterIsHost, ReadRestriction,
                NothingSelected, Refusal, FinishConfirm, boardVars
  <2> QED
    BY <2>1 DEF AgedStep
<1>2. CASE createPendingConfirmation(c)
  BY <1>2 DEF createPendingConfirmation, AgedStep
<1>3. CASE confirmPendingAction(c)
  <2>1. UNCHANGED outcome /\ pending' = pending \ Selected(c)
    BY <1>3 DEF confirmPendingAction
  <2>2. req'[c].todo = Selected(c)
    <3>1. req' = [req EXCEPT ![c].pc = "execute", ![c].todo = Selected(c)]
      BY <1>3 DEF confirmPendingAction
    <3>2. req \in [Callers -> Requests]
      BY DEF TypeOK
    <3>3. req'[c] = [req[c] EXCEPT !.pc = "execute", !.todo = Selected(c)]
      BY <3>1, <3>2
    <3> QED
      BY <3>2, <3>3 DEF Requests
  <2>3. Selected(c) \subseteq InFlight'
    BY <2>2 DEF InFlight
  <2> QED
    BY <2>1, <2>3 DEF AgedStep
<1>4. CASE cancelPendingConfirmation(c)
  <2>1. /\ pending' = pending \ Selected(c)
        /\ Settle(Selected(c), [other \in Ids |-> "cancelled"])
    BY <1>4 DEF cancelPendingConfirmation
  <2> HIDE DEF Selected
  <2>2. outcome'[id] = IF id \in Selected(c) THEN "cancelled" ELSE outcome[id]
    BY <2>1 DEF Settle
  <2> QED
    BY <2>1, <2>2 DEF AgedStep
<1>5. CASE Disambiguation(c)
  BY <1>5, PruneRespectsAge DEF Disambiguation
<1>6. CASE executePendingConfirmation(c)
  BY <1>6, ExecuteRespectsAge
<1> QED
  BY <1>1, <1>2, <1>3, <1>4, <1>5, <1>6 DEF Advance

LEMMA NextRespectsAge ==
    ASSUME TypeOK, [Next]_vars, NEW id \in Ids
    PROVE  AgedStep(id)
<1>1. CASE MeetingStep \/ NewRequest \/ TwoMinutesPass \/ UNCHANGED vars
  <2>1. UNCHANGED <<pending, outcome>>
    BY <1>1 DEF MeetingStep, MeetingSetup, GuestJoins, GuestLeaves, MeetingEnds, Upgrade,
                NewRequest, ClientStages, ClientResolves, VoiceStages, VoiceResolves, Begin,
                TwoMinutesPass, boardVars, vars
  <2> QED
    BY <2>1 DEF AgedStep
<1>2. CASE \E c \in Callers : Advance(c)
  BY <1>2, AdvanceRespectsAge
<1>3. CASE SnapshotState
  BY <1>3, PruneRespectsAge DEF SnapshotState
<1>4. CASE Restart
  <2>1. Settle(pending \cup InFlight, [other \in Ids |-> "lost"])
    BY <1>4 DEF Restart
  <2> HIDE DEF InFlight
  <2>2. outcome'[id] = IF id \in pending \cup InFlight THEN "lost" ELSE outcome[id]
    BY <2>1 DEF Settle
  <2> QED
    BY <2>2 DEF AgedStep
<1> QED
  BY <1>1, <1>2, <1>3, <1>4 DEF Next

(* No action is started after its two minutes, and one that has not        *)
(* expired leaves the board only for a request that holds it, by a         *)
(* cancellation or with a restart.                                         *)
THEOREM AgeDecidesLapsing == Spec => AgeRespected
<1>1. TypeOK /\ [Next]_vars
        => [\A id \in Ids :
               /\ outcome'[id] # outcome[id] /\ outcome'[id] = "ran" => id > lapse
               /\ id \in pending \ pending' /\ id > lapse =>
                     id \in InFlight' \/ outcome'[id] \in {"cancelled", "lost"}]_vars
  BY NextRespectsAge DEF AgedStep
<1> QED
  BY <1>1, TypeCorrect, PTL DEF Spec, AgeRespected

-----------------------------------------------------------------------------
(* What a bare affirmation sets in motion.                                 *)

OneRisk(c) ==
    req[c].op = "confirm" /\ req[c].ref.scope = "bare" =>
       \A id1, id2 \in req[c].todo :
          riskForTool(info[id1].tool) = riskForTool(info[id2].tool)

(* What a request still holds after a step it held before, for the same    *)
(* reference, and it is still known as what it was.                        *)
StillHolds(c) ==
    req'[c].todo # {} =>
       /\ req'[c].todo \subseteq req[c].todo
       /\ req'[c].op = req[c].op /\ req'[c].ref = req[c].ref
       /\ \A id \in req'[c].todo : info'[id] = info[id]

LEMMA HoldingKeepsRisk ==
    ASSUME NEW c \in Callers, OneRisk(c), StillHolds(c)
    PROVE  OneRisk(c)'
<1> SUFFICES ASSUME req'[c].op = "confirm", req'[c].ref.scope = "bare",
                    NEW id1 \in req'[c].todo, NEW id2 \in req'[c].todo
             PROVE  riskForTool(info'[id1].tool) = riskForTool(info'[id2].tool)
  BY DEF OneRisk
<1>1. /\ req[c].op = "confirm" /\ req[c].ref.scope = "bare"
      /\ id1 \in req[c].todo /\ id2 \in req[c].todo
      /\ info'[id1] = info[id1] /\ info'[id2] = info[id2]
  BY DEF StillHolds
<1>2. riskForTool(info[id1].tool) = riskForTool(info[id2].tool)
  BY <1>1 DEF OneRisk
<1> QED
  BY <1>1, <1>2

(* Settling what nobody holds leaves the records of what is held.          *)
LEMMA SettlingLeavesHeld ==
    ASSUME TypeOK, NEW gone, NEW result, Settle(gone, result),
           NEW c \in Callers, NEW held \in SUBSET req[c].todo, gone \cap held = {}
    PROVE  \A id \in held : info'[id] = info[id]
<1>1. held \subseteq Ids
  BY DEF TypeOK, Requests
<1> QED
  BY <1>1 DEF Settle

(* Pending actions are held by nobody.                                     *)
LEMMA PendingIsNotHeld ==
    ASSUME Accounting, NEW c \in Callers
    PROVE  pending \cap req[c].todo = {}
BY DEF Accounting, Accounted, InFlight

(* A request that returns, while no record of a held action changes.       *)
LEMMA ReturningHolds ==
    ASSUME TypeOK, NEW c \in Callers, Return(c), NEW d \in Callers,
           \A id \in req[d].todo : info'[id] = info[id]
    PROVE  StillHolds(d)
<1>1. req' = [req EXCEPT ![c] = Idle] /\ req \in [Callers -> Requests]
  BY DEF Return, TypeOK
<1>2. CASE d = c
  BY <1>1, <1>2 DEF StillHolds, Idle
<1>3. CASE d # c
  BY <1>1, <1>3 DEF StillHolds
<1> QED
  BY <1>2, <1>3

(* Running an action takes it, and what was pruned, out of the records.    *)
LEMMA ExecutingHolds ==
    ASSUME TypeOK, Accounting, NEW c \in Callers, executePendingConfirmation(c),
           NEW d \in Callers
    PROVE  StillHolds(d)
<1>1. PICK next, result :
         /\ next \in Earliest(req[c].todo)
         /\ req' = [req EXCEPT ![c].todo = @ \ {next}]
         /\ \/ Settle({next}, result)
            \/ Settle({next} \cup (pending \ Live), result)
  BY DEF executePendingConfirmation
<1>2. next \in req[c].todo /\ req \in [Callers -> Requests]
  BY <1>1 DEF Earliest, TypeOK
<1>3. /\ req'[d].todo \subseteq req[d].todo /\ next \notin req'[d].todo
      /\ req'[d].op = req[d].op /\ req'[d].ref = req[d].ref
  <2>1. CASE d = c
    <3>1. req'[d] = [req[d] EXCEPT !.todo = req[d].todo \ {next}]
      BY <1>1, <1>2, <2>1
    <3> QED
      BY <1>2, <3>1 DEF Requests
  <2>2. CASE d # c
    <3>1. req[c].todo \cap req[d].todo = {}
      BY <2>2 DEF Accounting, Accounted
    <3> QED
      BY <1>1, <1>2, <2>2, <3>1
  <2> QED
    BY <2>1, <2>2
<1>4. pending \cap req'[d].todo = {}
  BY <1>3, PendingIsNotHeld
<1>5. \A id \in req'[d].todo : info'[id] = info[id]
  <2>1. PICK gone : Settle(gone, result) /\ gone \cap req'[d].todo = {}
    BY <1>1, <1>3, <1>4
  <2> QED
    BY <1>3, <2>1, SettlingLeavesHeld
<1> QED
  BY <1>3, <1>5 DEF StillHolds

(* A bare affirmation takes the whole pending set, and only when all of it *)
(* has one risk.                                                           *)
LEMMA ConfirmingIsOneRisk ==
    ASSUME TypeOK, \A d \in Callers : OneRisk(d),
           NEW c \in Callers, confirmPendingAction(c), NEW d \in Callers
    PROVE  OneRisk(d)'
<1>1. /\ req' = [req EXCEPT ![c].pc = "execute", ![c].todo = Selected(c)]
      /\ UNCHANGED info /\ req \in [Callers -> Requests]
  BY DEF confirmPendingAction, TypeOK
<1>2. CASE d # c
  <2>1. req'[d] = req[d] /\ info' = info
    BY <1>1, <1>2
  <2>2. OneRisk(d)
    OBVIOUS
  <2> QED
    BY <2>1, <2>2 DEF OneRisk
<1>3. CASE d = c
  <2>1. req'[c] = [req[c] EXCEPT !.pc = "execute", !.todo = Selected(c)]
    BY <1>1
  <2>2. /\ req'[c].todo = Selected(c)
        /\ req'[c].op = req[c].op /\ req'[c].ref = req[c].ref
    BY <1>1, <2>1 DEF Requests
  <2>3. ASSUME req[c].op = "confirm", req[c].ref.scope = "bare",
               NEW id1 \in Selected(c), NEW id2 \in Selected(c)
        PROVE  riskForTool(info[id1].tool) = riskForTool(info[id2].tool)
    <3>1. ~mixedRiskSweepDisambiguation(req[c].ref, pending)
      BY <2>3 DEF confirmPendingAction, ResolutionAllowed
    <3>2. req[c].ref.ids = {}
      BY <1>1, <2>3 DEF Requests, AllRefs
    <3>3. id1 \in pending /\ id2 \in pending
      BY PendingIds
    <3> QED
      BY <2>3, <3>1, <3>2, <3>3 DEF mixedRiskSweepDisambiguation
  <2> QED
    BY <1>1, <1>3, <2>2, <2>3 DEF OneRisk
<1> QED
  BY <1>2, <1>3

(* Every other step of a request keeps what is held.                       *)
LEMMA AdvanceHolds ==
    ASSUME TypeOK, Accounting, NEW c \in Callers, Advance(c), ~confirmPendingAction(c),
           NEW d \in Callers
    PROVE  StillHolds(d)
<1>1. CASE \/ GatePasses(c) \/ ReadRequesterIsHost(c)
           \/ c = Voice /\ ReadRestriction
  <2>1. PICK next \in Requests :
           /\ req' = [req EXCEPT ![c] = next]
           /\ next.todo = req[c].todo /\ next.op = req[c].op /\ next.ref = req[c].ref
    <3>1. req[c] \in Requests
      BY DEF TypeOK
    <3>2. CASE GatePasses(c)
      <4> DEFINE pc == IF req[c].op = "stage" THEN "resolve"
                       ELSE IF c = Voice THEN "restrict" ELSE "meta"
      <4>1. req' = [req EXCEPT ![c] = [req[c] EXCEPT !.pc = pc]] /\ pc \in Pcs
        BY <3>2 DEF GatePasses, Pcs
      <4> HIDE DEF pc
      <4>2. [req[c] EXCEPT !.pc = pc] \in Requests
        BY <3>1, <4>1, FieldTypes
      <4> QED
        BY <3>1, <4>1, <4>2 DEF Requests
    <3>3. CASE ReadRequesterIsHost(c)
      <4> DEFINE pc == IF c = Voice THEN "gate" ELSE "resolve"
                 flag == hosts # {} /\ Access(c)
      <4>1. /\ req' = [req EXCEPT ![c] = [req[c] EXCEPT !.pc = pc, !.isHost = flag]]
            /\ pc \in Pcs /\ flag \in BOOLEAN
        BY <3>3 DEF ReadRequesterIsHost, Pcs
      <4> HIDE DEF pc, flag
      <4>2. [req[c] EXCEPT !.pc = pc, !.isHost = flag] \in Requests
        BY <3>1, <4>1, FieldTypes
      <4> QED
        BY <3>1, <4>1, <4>2 DEF Requests
    <3>4. CASE c = Voice /\ ReadRestriction
      <4> DEFINE flag == ~Access(Voice)
      <4>1. /\ req' = [req EXCEPT ![c] = [req[c] EXCEPT !.pc = "resolve", !.restrict = flag]]
            /\ "resolve" \in Pcs /\ flag \in BOOLEAN
        BY <3>4 DEF ReadRestriction, Pcs
      <4> HIDE DEF flag
      <4>2. [req[c] EXCEPT !.pc = "resolve", !.restrict = flag] \in Requests
        BY <3>1, <4>1, FieldTypes
      <4> QED
        BY <3>1, <4>1, <4>2 DEF Requests
    <3> QED
      BY <1>1, <3>2, <3>3, <3>4
  <2>2. req'[d].todo = req[d].todo /\ req'[d].op = req[d].op /\ req'[d].ref = req[d].ref
    BY <2>1 DEF TypeOK
  <2>3. UNCHANGED info
    BY <1>1 DEF GatePasses, ReadRequesterIsHost, ReadRestriction, boardVars
  <2> QED
    BY <2>2, <2>3 DEF StillHolds
<1>2. CASE GateRefuses(c) \/ NothingSelected(c) \/ Refusal(c) \/ FinishConfirm(c)
  <2>1. Return(c) /\ UNCHANGED info
    BY <1>2 DEF GateRefuses, NothingSelected, Refusal, FinishConfirm, boardVars
  <2> QED
    BY <2>1, ReturningHolds
<1>3. CASE createPendingConfirmation(c)
  <2>1. nextId \notin req[d].todo
    <3>1. \A id \in req[d].todo : id \in Ids /\ id < nextId
      BY DEF Accounting, Accounted, InFlight, TypeOK, Requests
    <3> QED
      BY <3>1 DEF TypeOK
  <2>2. \A id \in req[d].todo : info'[id] = info[id]
    BY <1>3, <2>1 DEF createPendingConfirmation, TypeOK, Requests
  <2> QED
    BY <1>3, <2>2, ReturningHolds DEF createPendingConfirmation
<1>4. CASE cancelPendingConfirmation(c)
  <2>1. Return(c) /\ Settle(Selected(c), [other \in Ids |-> "cancelled"])
    BY <1>4 DEF cancelPendingConfirmation
  <2>2. Selected(c) \cap req[d].todo = {}
    BY PendingIds, PendingIsNotHeld
  <2> QED
    BY <2>1, <2>2, SettlingLeavesHeld, ReturningHolds
<1>5. CASE Disambiguation(c)
  <2>1. Return(c) /\ Settle(pending \ Live, [other \in Ids |-> "expired"])
    BY <1>5 DEF Disambiguation, PruneLapsed
  <2>2. (pending \ Live) \cap req[d].todo = {}
    BY PendingIsNotHeld
  <2> QED
    BY <2>1, <2>2, SettlingLeavesHeld, ReturningHolds
<1>6. CASE executePendingConfirmation(c)
  BY <1>6, ExecutingHolds
<1> QED
  BY <1>1, <1>2, <1>3, <1>4, <1>5, <1>6 DEF Advance

LEMMA NextOneRisk ==
    ASSUME TypeOK, Accounting, [Next]_vars, \A c \in Callers : OneRisk(c),
           NEW d \in Callers
    PROVE  OneRisk(d)'
<1>1. CASE UNCHANGED <<req, info>>
  BY <1>1 DEF OneRisk
<1>2. CASE NewRequest
  <2>1. PICK c, op, tool, label, ref, pc : c \in Callers /\ Begin(c, op, tool, label, ref, pc)
    BY <1>2 DEF NewRequest, ClientStages, ClientResolves, VoiceStages, VoiceResolves, Callers
  <2> DEFINE started == [Idle EXCEPT !.pc = pc, !.op = op, !.tool = tool,
                                     !.label = label, !.ref = ref]
  <2>2. started.todo = {}
    BY DEF Idle
  <2>3. req' = [req EXCEPT ![c] = started] /\ UNCHANGED info /\ req \in [Callers -> Requests]
    BY <2>1 DEF Begin, boardVars, TypeOK
  <2> HIDE DEF started
  <2>4. StillHolds(d)
    BY <2>2, <2>3 DEF StillHolds
  <2> QED
    BY <2>4, HoldingKeepsRisk
<1>3. CASE \E c \in Callers : confirmPendingAction(c)
  BY <1>3, ConfirmingIsOneRisk
<1>4. CASE \E c \in Callers : Advance(c) /\ ~confirmPendingAction(c)
  BY <1>4, AdvanceHolds, HoldingKeepsRisk
<1>5. CASE SnapshotState
  <2>1. UNCHANGED req /\ Settle(pending \ Live, [other \in Ids |-> "expired"])
    BY <1>5 DEF SnapshotState, PruneLapsed
  <2>2. (pending \ Live) \cap req[d].todo = {}
    BY PendingIsNotHeld
  <2>3. StillHolds(d)
    BY <2>1, <2>2, SettlingLeavesHeld DEF StillHolds
  <2> QED
    BY <2>3, HoldingKeepsRisk
<1>6. CASE Restart
  BY <1>6 DEF Restart, OneRisk, Idle
<1>7. CASE MeetingStep \/ TwoMinutesPass \/ UNCHANGED vars
  <2>1. UNCHANGED <<req, info>>
    BY <1>7 DEF MeetingStep, MeetingSetup, GuestJoins, GuestLeaves, MeetingEnds, Upgrade,
                TwoMinutesPass, boardVars, vars
  <2> QED
    BY <1>1, <2>1
<1> QED
  BY <1>2, <1>3, <1>4, <1>5, <1>6, <1>7 DEF Next

(* A bare "yes" never sets actions of different risk in motion.            *)
THEOREM BareIsSingleRisk == Spec => []BareAffirmationSingleRisk
<1>1. BareAffirmationSingleRisk <=> \A c \in Callers : OneRisk(c)
  BY DEF BareAffirmationSingleRisk, OneRisk
<1>2. Init => BareAffirmationSingleRisk
  BY DEF Init, Idle, BareAffirmationSingleRisk
<1>3. TypeOK /\ Accounting /\ [Next]_vars => Accounting'
  BY NextAccounts
<1>4. TypeOK /\ Accounting /\ BareAffirmationSingleRisk /\ [Next]_vars
        => BareAffirmationSingleRisk'
  <2> SUFFICES ASSUME TypeOK, Accounting, BareAffirmationSingleRisk, [Next]_vars
               PROVE  BareAffirmationSingleRisk'
    OBVIOUS
  <2>1. \A c \in Callers : OneRisk(c)'
    BY <1>1, NextOneRisk
  <2> QED
    BY <2>1 DEF BareAffirmationSingleRisk, OneRisk
<1> QED
  BY <1>2, <1>3, <1>4, InitAccounts, TypeCorrect, PTL DEF Spec

-----------------------------------------------------------------------------
(* Who is let through the gates: HostOnlyNeedsClearance and                *)
(* OthersActionsNeedHost.                                                  *)

Resolver(r) == r.op \in {"confirm", "cancel"}

(* What a request of c may have read so far, whichever way the meeting     *)
(* went since: a client is past its gate, and the voice past its           *)
(* restriction, only with clearance; a host's flag only with host access.  *)
Justified(c, r, cl, wh) ==
    /\ (c \in Clients /\ Resolver(r) /\ r.pc \in {"meta", "resolve"}) => c \in cl
    /\ (c = Voice /\ Resolver(r) /\ r.pc = "resolve" /\ ~r.restrict) => c \in cl
    /\ (r.pc # "idle" /\ r.isHost) => c \in wh

(* The inductive invariant: the histories hold whoever the meeting would   *)
(* clear now, and every request is justified by them.                      *)
Gates ==
    /\ ClearedBy(hosts, guests, upgraded, req) \subseteq cleared
    /\ HostBy(hosts, guests, upgraded, req) \subseteq wasHost
    /\ \A c \in Callers : Justified(c, req[c], cleared, wasHost)

-----------------------------------------------------------------------------
(* How the kinds of steps preserve it.                                     *)

(* A request in progress goes on without looking like another's.           *)
LEMMA MovesOn ==
    ASSUME TypeOK, Gates, NEW c \in Callers, req[c].pc # "idle",
           NEW rec, rec.label = req[c].label,
           req' = [req EXCEPT ![c] = rec],
           UNCHANGED <<meetingVars, cleared, wasHost>>,
           Justified(c, rec, cleared, wasHost)
    PROVE  Gates'
<1> USE DEF meetingVars
<1>1. /\ req'[c] = rec
      /\ \A d \in Callers : d # c => req'[d] = req[d]
  BY DEF TypeOK
<1>2. ClearedBy(hosts', guests', upgraded', req') \subseteq cleared'
  BY <1>1 DEF Gates, ClearedBy
<1>3. HostBy(hosts', guests', upgraded', req') \subseteq wasHost'
  BY <1>1 DEF Gates, HostBy
<1>4. \A d \in Callers : Justified(d, req'[d], cleared', wasHost')
  BY <1>1 DEF Gates, Justified
<1> QED
  BY <1>2, <1>3, <1>4 DEF Gates

(* A request returns.                                                      *)
LEMMA Returns ==
    ASSUME TypeOK, Gates, NEW c \in Callers, Return(c), UNCHANGED meetingVars
    PROVE  Gates'
<1> USE DEF meetingVars, Return
<1>1. /\ req'[c] = Idle
      /\ \A d \in Callers : d # c => req'[d] = req[d]
  BY DEF TypeOK
<1>2. Idle.pc = "idle" /\ ~Resolver(Idle)
  BY DEF Idle, Resolver
<1>3. ClearedBy(hosts', guests', upgraded', req') \subseteq cleared'
  BY <1>1, <1>2 DEF Gates, ClearedBy
<1>4. HostBy(hosts', guests', upgraded', req') \subseteq wasHost'
  BY <1>1, <1>2 DEF Gates, HostBy
<1>5. \A d \in Callers : Justified(d, req'[d], cleared', wasHost')
  BY <1>1, <1>2 DEF Gates, Justified
<1> QED
  BY <1>3, <1>4, <1>5 DEF Gates

(* A step of the meeting, or a new request, records who is cleared.        *)
LEMMA Records ==
    ASSUME TypeOK, Gates, RecordClearance,
           \A c \in Callers : Justified(c, req'[c], cleared, wasHost)
    PROVE  Gates'
<1>1. cleared \subseteq cleared' /\ wasHost \subseteq wasHost'
  BY DEF RecordClearance
<1>2. /\ ClearedBy(hosts', guests', upgraded', req') \subseteq cleared'
      /\ HostBy(hosts', guests', upgraded', req') \subseteq wasHost'
  BY DEF RecordClearance
<1>3. \A c \in Callers : Justified(c, req'[c], cleared', wasHost')
  BY <1>1 DEF Justified
<1> QED
  BY <1>2, <1>3 DEF Gates

(* Steps that leave the meeting, the requests and the histories alone.     *)
LEMMA Stays ==
    ASSUME Gates, UNCHANGED <<meetingVars, req, cleared, wasHost>>
    PROVE  Gates'
BY DEF Gates, meetingVars, ClearedBy, HostBy, Justified

-----------------------------------------------------------------------------
(* The invariant.                                                          *)

(* One case per action of a request in progress: the gates move a request  *)
(* on with what the meeting says at that moment; every other action leaves *)
(* the request where no clearance is asked for, or ends it.                *)
LEMMA AdvanceGates ==
    ASSUME TypeOK, Gates, NEW c \in Callers, Advance(c)
    PROVE  Gates'
<1> USE DEF meetingVars
<1> DEFINE r == req[c]
<1>0. /\ req \in [Callers -> Requests] /\ r \in Requests
      /\ Voice \notin Clients /\ (c \in Clients \/ c = Voice)
  BY DEF TypeOK, Callers
<1>a. (r.pc # "idle" /\ (hosts = {} \/ Access(c))) => c \in cleared
  BY DEF Gates, ClearedBy, Access
<1>b. (r.pc # "idle" /\ hosts # {} /\ Access(c)) => c \in wasHost
  BY DEF Gates, HostBy, Access
<1>c. Justified(c, r, cleared, wasHost)
  BY DEF Gates
<1>1. CASE GatePasses(c)
  <2> DEFINE pc == IF r.op = "stage" THEN "resolve"
                   ELSE IF c = Voice THEN "restrict" ELSE "meta"
  <2>1. r.pc = "gate" /\ GateAllows(c) /\ UNCHANGED <<meetingVars, cleared, wasHost>>
    BY <1>1 DEF GatePasses
  <2>2. req' = [req EXCEPT ![c] = [r EXCEPT !.pc = pc]]
    BY <1>0, <1>1 DEF GatePasses
  <2>3. /\ [r EXCEPT !.pc = pc].label = r.label
        /\ [r EXCEPT !.pc = pc].op = r.op
        /\ [r EXCEPT !.pc = pc].pc = pc
        /\ [r EXCEPT !.pc = pc].isHost = r.isHost
        /\ [r EXCEPT !.pc = pc].restrict = r.restrict
    BY <1>0 DEF Requests
  <2>4. c \in Clients /\ Resolver(r) => c \in cleared
    BY <1>0, <1>a, <2>1 DEF GateAllows, kanbanToolRequiresHost, Resolver
  <2>5. Justified(c, [r EXCEPT !.pc = pc], cleared, wasHost)
    BY <1>0, <1>c, <2>1, <2>3, <2>4 DEF Justified, Resolver
  <2> HIDE DEF pc
  <2> QED
    BY <2>1, <2>2, <2>3, <2>5, MovesOn
<1>2. CASE ReadRequesterIsHost(c)
  <2> DEFINE pc == IF c = Voice THEN "gate" ELSE "resolve"
             flag == hosts # {} /\ Access(c)
             rec == [r EXCEPT !.pc = pc, !.isHost = flag]
  <2>1. r.pc = "meta" /\ UNCHANGED <<meetingVars, cleared, wasHost>>
    BY <1>2 DEF ReadRequesterIsHost
  <2>2. req' = [req EXCEPT ![c] = rec]
    BY <1>0, <1>2 DEF ReadRequesterIsHost
  <2>3. /\ rec.label = r.label /\ rec.op = r.op /\ rec.pc = pc
        /\ rec.isHost = flag /\ rec.restrict = r.restrict
    BY <1>0 DEF Requests
  <2>4. rec.isHost => c \in wasHost
    BY <1>b, <2>1, <2>3
  <2>5. c \in Clients /\ Resolver(rec) => c \in cleared
    BY <1>c, <2>1, <2>3 DEF Justified, Resolver
  <2>6. ~(c = Voice /\ rec.pc = "resolve")
    BY <2>3
  <2>7. Justified(c, rec, cleared, wasHost)
    BY <2>4, <2>5, <2>6 DEF Justified
  <2> HIDE DEF rec
  <2> QED
    BY <2>1, <2>2, <2>3, <2>7, MovesOn
<1>3. CASE c = Voice /\ ReadRestriction
  <2> DEFINE restricted == ~Access(Voice)
             rec == [r EXCEPT !.pc = "resolve", !.restrict = restricted]
  <2>1. r.pc = "restrict" /\ UNCHANGED <<meetingVars, cleared, wasHost>>
    BY <1>3 DEF ReadRestriction
  <2>2. req' = [req EXCEPT ![c] = rec]
    BY <1>0, <1>3 DEF ReadRestriction
  <2>3. /\ rec.label = r.label /\ rec.op = r.op /\ rec.pc = "resolve"
        /\ rec.isHost = r.isHost /\ rec.restrict = restricted
    BY <1>0 DEF Requests
  <2>4. ~restricted => c \in cleared
    BY <1>3, <1>a, <2>1
  <2>5. Justified(c, rec, cleared, wasHost)
    BY <1>0, <1>3, <1>c, <2>1, <2>3, <2>4 DEF Justified, Resolver
  <2> HIDE DEF rec
  <2> QED
    BY <2>1, <2>2, <2>3, <2>5, MovesOn
<1>4. CASE confirmPendingAction(c)
  <2> DEFINE rec == [r EXCEPT !.pc = "execute", !.todo = Selected(c)]
  <2>1. r.pc = "resolve" /\ UNCHANGED <<meetingVars, cleared, wasHost>>
    BY <1>4 DEF confirmPendingAction, Resolving
  <2>2. req' = [req EXCEPT ![c] = rec]
    BY <1>0, <1>4 DEF confirmPendingAction
  <2>3. /\ rec.label = r.label /\ rec.op = r.op /\ rec.pc = "execute"
        /\ rec.isHost = r.isHost
    BY <1>0 DEF Requests
  <2>5. Justified(c, rec, cleared, wasHost)
    BY <1>c, <2>1, <2>3 DEF Justified
  <2> HIDE DEF rec
  <2> QED
    BY <2>1, <2>2, <2>3, <2>5, MovesOn
<1>5. CASE executePendingConfirmation(c)
  <2>1. PICK id \in Earliest(req[c].todo) :
           req' = [req EXCEPT ![c].todo = @ \ {id}]
    BY <1>5 DEF executePendingConfirmation
  <2> DEFINE rec == [r EXCEPT !.todo = r.todo \ {id}]
  <2>2. r.pc = "execute" /\ UNCHANGED <<meetingVars, cleared, wasHost>>
    BY <1>5 DEF executePendingConfirmation
  <2>3. req' = [req EXCEPT ![c] = rec]
    BY <1>0, <2>1
  <2>4. /\ rec.label = r.label /\ rec.op = r.op /\ rec.pc = "execute"
        /\ rec.isHost = r.isHost
    BY <1>0, <2>2 DEF Requests
  <2>5. Justified(c, rec, cleared, wasHost)
    BY <1>c, <2>2, <2>4 DEF Justified
  <2> HIDE DEF rec
  <2> QED
    BY <2>2, <2>3, <2>4, <2>5, MovesOn
<1>6. CASE \/ GateRefuses(c) \/ createPendingConfirmation(c)
           \/ cancelPendingConfirmation(c) \/ NothingSelected(c) \/ Refusal(c)
           \/ Disambiguation(c) \/ FinishConfirm(c)
  <2>1. Return(c) /\ UNCHANGED meetingVars
    BY <1>6 DEF GateRefuses, createPendingConfirmation, cancelPendingConfirmation,
                NothingSelected, Refusal, Disambiguation, FinishConfirm
  <2> QED
    BY <2>1, Returns
<1> QED
  BY <1>1, <1>2, <1>3, <1>4, <1>5, <1>6 DEF Advance

(* Every step preserves the invariant.                                     *)
LEMMA NextGates == TypeOK /\ Gates /\ [Next]_vars => Gates'
<1> SUFFICES ASSUME TypeOK, Gates, [Next]_vars
             PROVE  Gates'
  OBVIOUS
<1> USE DEF meetingVars, boardVars
<1>1. CASE \/ \E i \in Identities : MeetingSetup(i) \/ GuestJoins(i) \/ GuestLeaves(i)
           \/ MeetingEnds
  <2>1. UNCHANGED req /\ RecordClearance
    BY <1>1 DEF MeetingSetup, GuestJoins, GuestLeaves, MeetingEnds
  <2> QED
    BY <2>1, Records DEF Gates
<1>2. ASSUME NEW c \in Clients, Upgrade(c)
      PROVE  Gates'
  <2>1. \A d \in Callers : req[d].pc # "idle" =>
           /\ d # c
           /\ \A hs, gs, label : HasHostAccess(d, label, hs, gs, upgraded')
                                   <=> HasHostAccess(d, label, hs, gs, upgraded)
    BY <1>2 DEF Upgrade, HasHostAccess, isHost
  <2>2. UNCHANGED <<hosts, guests, req, cleared, wasHost>>
    BY <1>2 DEF Upgrade
  <2> QED
    BY <2>1, <2>2 DEF Gates, ClearedBy, HostBy
<1>3. CASE NewRequest
  <2>v. Voice \in Callers /\ Voice \notin Clients /\ Clients \subseteq Callers
    BY DEF Callers
  <2>1. \E c \in Callers : \E op, tool, label, ref :
           \E pc \in {"gate", "meta"} :
              (c \in Clients => pc = "gate") /\ Begin(c, op, tool, label, ref, pc)
    <3>1. ASSUME NEW c \in Clients,
                 \E op, tool, label, ref : Begin(c, op, tool, label, ref, "gate")
          PROVE  \E d \in Callers : \E op, tool, label, ref :
                    \E pc \in {"gate", "meta"} :
                       (d \in Clients => pc = "gate")
                          /\ Begin(d, op, tool, label, ref, pc)
      BY <3>1, <2>v
    <3>2. ASSUME NEW pc \in {"gate", "meta"},
                 \E op, tool, label, ref : Begin(Voice, op, tool, label, ref, pc)
          PROVE  \E d \in Callers : \E op, tool, label, ref :
                    \E pc1 \in {"gate", "meta"} :
                       (d \in Clients => pc1 = "gate")
                          /\ Begin(d, op, tool, label, ref, pc1)
      BY <3>2, <2>v
    <3>3. CASE \E c \in Clients :
                  \/ \E tool \in Tools : ClientStages(c, tool)
                  \/ \E op \in Resolutions, ref \in Refs : ClientResolves(c, op, ref)
      BY <3>1, <3>3 DEF ClientStages, ClientResolves
    <3>4. CASE \E tool \in Tools, label \in Spoken : VoiceStages(tool, label)
      BY <3>2, <3>4 DEF VoiceStages
    <3>5. CASE \E op \in Resolutions, ref \in Refs, label \in Spoken :
                  VoiceResolves(op, ref, label)
      BY <3>2, <3>5 DEF VoiceResolves
    <3> QED
      BY <1>3, <3>3, <3>4, <3>5 DEF NewRequest
  <2>c. PICK c \in Callers : \E op, tool, label, ref :
           \E pc \in {"gate", "meta"} :
              (c \in Clients => pc = "gate") /\ Begin(c, op, tool, label, ref, pc)
    BY <2>1
  <2>2. PICK op, tool, label, ref : \E pc \in {"gate", "meta"} :
           (c \in Clients => pc = "gate") /\ Begin(c, op, tool, label, ref, pc)
    BY <2>c
  <2>3. PICK pc \in {"gate", "meta"} :
           (c \in Clients => pc = "gate") /\ Begin(c, op, tool, label, ref, pc)
    BY <2>2
  <2> DEFINE started == [Idle EXCEPT !.pc = pc, !.op = op, !.tool = tool,
                                     !.label = label, !.ref = ref]
  <2>4. started.pc = pc /\ started.isHost = FALSE
    BY DEF Idle
  <2>5. req' = [req EXCEPT ![c] = started] /\ RecordClearance
    BY <2>3 DEF Begin
  <2> HIDE DEF started
  <2>6. \A d \in Callers : Justified(d, req'[d], cleared, wasHost)
    BY <2>3, <2>4, <2>5 DEF Justified, Gates, TypeOK
  <2> QED
    BY <2>5, <2>6, Records
<1>4. ASSUME NEW c \in Callers, Advance(c)
      PROVE  Gates'
  BY <1>4, AdvanceGates
<1>5. CASE SnapshotState \/ TwoMinutesPass \/ UNCHANGED vars
  <2>1. UNCHANGED <<meetingVars, req, cleared, wasHost>>
    BY <1>5 DEF SnapshotState, TwoMinutesPass, vars
  <2> QED
    BY <2>1, Stays
<1>6. CASE Restart
  <2>1. \A c \in Callers : req'[c].pc = "idle" /\ ~Resolver(req'[c])
    BY <1>6 DEF Restart, Idle, Resolver
  <2> QED
    BY <2>1 DEF Gates, ClearedBy, HostBy, Justified
<1> QED
  BY <1>1, <1>2, <1>3, <1>4, <1>5, <1>6 DEF Next, MeetingStep

LEMMA InitGates == Init => Gates
BY DEF Init, Gates, Idle, ClearedBy, HostBy, Justified, Resolver

-----------------------------------------------------------------------------
(* What it means for a step that takes an action.                          *)

(* A request that takes an action is the one that steps, and the gates     *)
(* under the lock allow it to take that action.                            *)
LEMMA TakingIsResolving ==
    ASSUME TypeOK, [Next]_vars, NEW c \in Callers, NEW id \in Ids, TakenBy(c, id)
    PROVE  Resolving(c) /\ ResolutionAllowed(c) /\ id \in Selected(c)
<1> USE DEF boardVars, TakenBy, Resolving
<1>1. CASE UNCHANGED req
  BY <1>1
<1>2. CASE NewRequest
  <2>1. \A d \in Callers : req[d].pc # "idle" => req'[d] = req[d]
    BY <1>2 DEF NewRequest, ClientStages, ClientResolves, VoiceStages,
                VoiceResolves, Begin, Callers, TypeOK
  <2> QED
    BY <2>1
<1>3. ASSUME NEW d \in Callers, Advance(d)
      PROVE  Resolving(c) /\ ResolutionAllowed(c) /\ id \in Selected(c)
  <2>1. CASE d # c
    <3>1. req'[c] = req[c]
      BY <1>3, <2>1 DEF Advance, GatePasses, GateRefuses, ReadRequesterIsHost,
           ReadRestriction, createPendingConfirmation, confirmPendingAction,
           cancelPendingConfirmation, NothingSelected, Refusal, Disambiguation,
           executePendingConfirmation, FinishConfirm, Return, TypeOK
    <3> QED
      BY <3>1
  <2>2. CASE d = c
    <3>1. CASE confirmPendingAction(c) \/ cancelPendingConfirmation(c)
      BY <3>1 DEF confirmPendingAction, cancelPendingConfirmation
    <3>2. CASE Disambiguation(c)
      <4>1. req'[c].todo = {}
        BY <3>2 DEF Disambiguation, Return, TypeOK, Idle
      <4>2. outcome'[id] = "expired"
        BY <3>2 DEF Disambiguation, PruneLapsed, Settle
      <4> QED
        BY <4>1, <4>2
    <3>3. CASE ~Disambiguation(c) /\ ~confirmPendingAction(c)
                 /\ ~cancelPendingConfirmation(c)
      <4>1. UNCHANGED pending \/ pending \subseteq pending'
               \/ executePendingConfirmation(c)
        BY <1>3, <2>2, <3>3 DEF Advance, GatePasses, GateRefuses,
             ReadRequesterIsHost, ReadRestriction, createPendingConfirmation,
             NothingSelected, Refusal, FinishConfirm
      <4> QED
        BY <4>1 DEF executePendingConfirmation
    <3> QED
      BY <3>1, <3>2, <3>3
  <2> QED
    BY <2>1, <2>2
<1>4. CASE Restart
  <2>1. req'[c].todo = {} /\ outcome'[id] # "cancelled"
    BY <1>4 DEF Restart, Settle, Idle
  <2> QED
    BY <2>1
<1> QED
  BY <1>1, <1>2, <1>3, <1>4 DEF Next, MeetingStep, MeetingSetup, GuestJoins,
       GuestLeaves, MeetingEnds, Upgrade, SnapshotState, TwoMinutesPass, vars

(* A host-only action is resolved only by a caller who was cleared since   *)
(* its request began.                                                      *)
THEOREM ClearanceNeeded == Spec => HostOnlyNeedsClearance
<1>1. ASSUME TypeOK, Gates, [Next]_vars, NEW c \in Callers, NEW id \in Ids,
             TakenBy(c, id), ~participantConfirmablePendingTool(info[id].tool)
      PROVE  c \in cleared
  <2>1. Resolving(c) /\ ResolutionAllowed(c) /\ id \in Selected(c)
    BY <1>1, TakingIsResolving
  <2>2. ~req[c].restrict
    BY <1>1, <2>1 DEF ResolutionAllowed, participantConfirmableSet, Selected
  <2> QED
    BY <1>1, <2>1, <2>2 DEF Gates, Justified, Resolver, Resolving, Callers
<1>2. TypeOK /\ Gates /\ [Next]_vars
        => [\A c \in Callers, id \in Ids :
              TakenBy(c, id) /\ ~participantConfirmablePendingTool(info[id].tool)
                 => c \in cleared]_vars
  BY <1>1
<1> QED
  BY <1>2, NextGates, InitGates, TypeCorrect, PTL DEF Spec, HostOnlyNeedsClearance

(* Another requester's action is resolved only by a caller who was host of *)
(* an active meeting since its request began.                              *)
THEOREM HostNeededForOthers == Spec => OthersActionsNeedHost
<1>1. ASSUME TypeOK, Gates, [Next]_vars, NEW c \in Callers, NEW id \in Ids,
             TakenBy(c, id),
             info[id].requester \notin {<<>>, RequesterOf(req[c].label)}
      PROVE  c \in wasHost
  <2>1. Resolving(c) /\ ResolutionAllowed(c) /\ id \in Selected(c)
    BY <1>1, TakingIsResolving
  <2>2. req[c].isHost
    BY <1>1, <2>1 DEF ResolutionAllowed, confirmationRequesterMismatch, Selected
  <2> QED
    BY <1>1, <2>1, <2>2 DEF Gates, Justified, Resolving
<1>2. TypeOK /\ Gates /\ [Next]_vars
        => [\A c \in Callers, id \in Ids :
              TakenBy(c, id) /\ info[id].requester \notin {<<>>, RequesterOf(req[c].label)}
                 => c \in wasHost]_vars
  BY <1>1
<1> QED
  BY <1>2, NextGates, InitGates, TypeCorrect, PTL DEF Spec, OthersActionsNeedHost

=============================================================================
