------------------------- MODULE MeetingAccessProofs -------------------------
(***************************************************************************)
(* Proofs about MeetingAccess, for any number of handlers at a time, any   *)
(* names, sessions and meetings.                                           *)
(***************************************************************************)
EXTENDS MeetingAccess, FiniteSetTheorems, TLAPS

USE RequestsAssumption, IdentitiesAssumption, BoundsAssumption, LocalLoginAssumption

-----------------------------------------------------------------------------
(* The inductive invariant.                                                *)

(* Where a handler stands, or will stand once it has released memberships. *)
Point(r) == IF req[r].pc = "release" THEN req[r].next ELSE req[r].pc

(* The sections of each kind of handler, between its first and its last.   *)
Stage(op, point) ==
    \/ op \in {"none", "login", "logout", "setup", "switch", "leave"} /\ point = "idle"
    \/ op = "setup" /\ point \in {"check", "setup", "board"}
    \/ op = "switch" /\ point \in {"authorize", "check", "switch", "board"}
    \/ op = "leave" /\ point \in {"authorize", "leave", "revoke", "board"}
    \/ op = "join" /\ point \in {"create", "join", "revoke"}
    \/ op = "attach" /\ point \in {"look", "attach", "revoke"}

(* What a handler carries only while it needs it.                          *)
Shape(r) ==
    /\ Stage(req[r].op, Point(r))
    /\ req[r].pc = "idle" => req[r] = Idle
    /\ req[r].op = "none" => req[r].pc = "idle"
    /\ req[r].pc # "release" => req[r].drop = {} /\ req[r].next = "idle"
    /\ Point(r) # "revoke" => req[r].revoke = {}
    /\ Point(r) = "create" => req[r].pc = "create" /\ req[r].who = 0
    /\ req[r].who <= created /\ req[r].code <= meeting
    /\ Point(r) \notin {"idle", "create"} => req[r].who # 0

(* What a handler releases has been deleted and stays so.                  *)
Deleted(r) ==
    /\ req[r].revoke \subseteq 1 .. created
    /\ req[r].drop \subseteq 1 .. created /\ req[r].drop \cap auth = {}

(* The session that a join made for its caller is nobody else's until the  *)
(* join answers, and does not outlive a join that is refused.              *)
Joining(r) ==
    req[r].op = "join" =>
       /\ Point(r) = "join" =>
             /\ req[r].who \in auth \ expired
             /\ sessions[req[r].who] = "none"
             /\ Name(req[r].who) = req[r].name
             /\ about[req[r].who].joins = req[r].code
             /\ \A d \in Requests : /\ req[r].who \notin req[d].revoke
                                    /\ d # r => req[d].who # req[r].who
       /\ Point(r) = "revoke" /\ req[r].who \in auth => req[r].who \in req[r].revoke

(* A local host's session was made to join no meeting.                     *)
Attaching(r) == req[r].op = "attach" => about[req[r].who].joins = 0

(* Members are sessions of an active meeting, and meetings are numbered.   *)
Numbered ==
    /\ \A sid \in Sids : sessions[sid] # "none" => sid <= created /\ active
    /\ \A sid \in Sids : about[sid].joins <= meeting
    /\ \A m \in ended : m # 0 /\ m <= meeting
    /\ active => meeting \notin ended /\ meeting # 0

(* A session that is going to be deleted, or answers its caller soon.      *)
Claimed(sid) ==
    \E r \in Requests : \/ sid \in req[r].revoke
                       \/ (req[r].op = "join" /\ req[r].who = sid)

(* Who has a session made to join the meeting takes part in it.            *)
Covered ==
    active => \A sid \in auth :
       about[sid].joins = meeting => sessions[sid] = "participant" \/ Claimed(sid)

(* Requests start only if they can finish within the bounds.               *)
Creating == {r \in Requests : req[r].pc = "create"}
SettingUp == {r \in Requests : req[r].op = "setup" /\ req[r].pc # "board"}
Room ==
    /\ created + Cardinality(Creating) <= MaxSessions
    /\ meeting + Cardinality(SettingUp) <= MaxMeetings

IInv ==
    /\ TypeOK
    /\ \A r \in Requests : Shape(r)
    /\ \A r \in Requests : Deleted(r)
    /\ \A r \in Requests : Joining(r)
    /\ \A r \in Requests : Attaching(r)
    /\ Numbered
    /\ Covered
    /\ Room
    /\ MembershipBacked
    /\ DistinctNames
    /\ EndedMeetingRevoked

-----------------------------------------------------------------------------
(* Counting requests.                                                      *)

(* Sets of requests have a size, and a larger set a larger one.            *)
LEMMA CountType ==
    ASSUME NEW A \in SUBSET Requests
    PROVE  /\ IsFiniteSet(A) /\ Cardinality(A) \in Nat
           /\ \A B \in SUBSET A : Cardinality(B) \in Nat /\ Cardinality(B) <= Cardinality(A)
<1>1. IsFiniteSet(A)
  BY FS_Subset
<1>2. ASSUME NEW B \in SUBSET A
      PROVE  IsFiniteSet(B) /\ Cardinality(B) <= Cardinality(A)
  BY <1>1, FS_Subset
<1> QED
  BY <1>1, <1>2, FS_CardinalityType

(* At most one more.                                                       *)
LEMMA CountMore ==
    ASSUME NEW A \in SUBSET Requests, NEW r \in Requests, NEW B \in SUBSET (A \cup {r})
    PROVE  Cardinality(B) \in Nat /\ Cardinality(B) <= Cardinality(A) + 1
<1>1. A \cup {r} \in SUBSET Requests
  OBVIOUS
<1>2. Cardinality(A \cup {r}) <= Cardinality(A) + 1
  BY CountType, FS_AddElement
<1>3. /\ Cardinality(A) \in Nat /\ Cardinality(A \cup {r}) \in Nat /\ Cardinality(B) \in Nat
      /\ Cardinality(B) <= Cardinality(A \cup {r})
  BY <1>1, CountType
<1> QED
  BY <1>2, <1>3

(* One less.                                                               *)
LEMMA CountLess ==
    ASSUME NEW A \in SUBSET Requests, NEW r \in A, NEW B \in SUBSET (A \ {r})
    PROVE  Cardinality(B) \in Nat /\ Cardinality(B) + 1 <= Cardinality(A)
<1>1. A \ {r} \in SUBSET Requests
  OBVIOUS
<1>2. Cardinality(A \ {r}) = Cardinality(A) - 1
  BY CountType, FS_RemoveElement
<1>3. /\ Cardinality(A) \in Nat /\ Cardinality(A \ {r}) \in Nat /\ Cardinality(B) \in Nat
      /\ Cardinality(B) <= Cardinality(A \ {r})
  BY <1>1, CountType
<1> QED
  BY <1>2, <1>3

-----------------------------------------------------------------------------
(* What moving a handler on does.                                          *)

LEMMA IdleType == Idle \in Handlers
BY DEF Idle, Handlers, Pcs, Ops, Meetings

(* The request that a step leaves behind.                                  *)
Only(r) == req' \in [Requests -> Handlers] /\ \A d \in Requests \ {r} : req'[d] = req[d]

(* The handler's data, apart from where it stands and what it releases.    *)
Carries(r, rec) ==
    /\ req'[r].op = rec.op /\ req'[r].who = rec.who /\ req'[r].name = rec.name
    /\ req'[r].code = rec.code /\ req'[r].revoke = rec.revoke

LEMMA AtEffect ==
    ASSUME TypeOK, NEW r \in Requests, NEW rec \in Handlers, NEW next \in Pcs,
           At(r, rec, next)
    PROVE  /\ Only(r)
           /\ next = "idle" => req'[r] = Idle
           /\ next # "idle" => /\ Carries(r, rec) /\ req'[r].pc = next
                               /\ req'[r].drop = rec.drop /\ req'[r].next = rec.next
<1>1. req \in [Requests -> Handlers]
  BY DEF TypeOK
<1>2. CASE next = "idle"
  <2>1. req' = [req EXCEPT ![r] = Idle]
    BY <1>2 DEF At
  <2> QED
    BY <1>1, <1>2, <2>1, IdleType DEF Only
<1>3. CASE next # "idle"
  <2> DEFINE new == [rec EXCEPT !.pc = next]
  <2>1. req' = [req EXCEPT ![r] = new]
    BY <1>3 DEF At
  <2>2. /\ new \in Handlers /\ new.pc = next /\ new.op = rec.op /\ new.who = rec.who
        /\ new.name = rec.name /\ new.code = rec.code /\ new.revoke = rec.revoke
        /\ new.drop = rec.drop /\ new.next = rec.next
    BY DEF Handlers
  <2> HIDE DEF new
  <2> QED
    BY <1>1, <1>3, <2>1, <2>2 DEF Only, Carries
<1> QED
  BY <1>2, <1>3

LEMMA AtOnceReleasedEffect ==
    ASSUME TypeOK, NEW r \in Requests, NEW rec \in Handlers, NEW next \in Pcs \ {"release"},
           NEW gone \in SUBSET Sids, rec.drop = {}, rec.next = "idle",
           AtOnceReleased(r, rec, gone, next)
    PROVE  /\ Only(r)
           /\ \/ gone = {} /\ next = "idle" /\ req'[r] = Idle
              \/ /\ Carries(r, rec) /\ Point(r)' = next /\ req'[r].drop = gone
                 /\ req'[r].pc # "idle"
                 /\ req'[r].pc # "release" => gone = {} /\ req'[r].next = "idle"
<1>1. req \in [Requests -> Handlers]
  BY DEF TypeOK
<1>2. CASE gone = {}
  <2>1. At(r, rec, next)
    BY <1>2 DEF AtOnceReleased
  <2> QED
    BY <1>2, <2>1, AtEffect DEF Point
<1>3. CASE gone # {}
  <2> DEFINE new == [rec EXCEPT !.pc = "release", !.next = next, !.drop = gone]
  <2>1. req' = [req EXCEPT ![r] = new]
    BY <1>3 DEF AtOnceReleased
  <2>2. /\ new \in Handlers /\ new.pc = "release" /\ new.next = next /\ new.op = rec.op
        /\ new.who = rec.who /\ new.name = rec.name /\ new.code = rec.code
        /\ new.revoke = rec.revoke /\ new.drop = gone
    BY DEF Handlers, Pcs
  <2> HIDE DEF new
  <2> QED
    BY <1>1, <1>3, <2>1, <2>2 DEF Only, Carries, Point
<1> QED
  BY <1>2, <1>3

-----------------------------------------------------------------------------
(* Steps that only move a handler on.                                      *)

(* The handler returns.                                                    *)
Returned(r) == req'[r] = Idle

(* The handler goes on at point, with nothing to release.                  *)
WentOn(r, point) ==
    /\ req'[r].pc = point /\ req'[r].next = "idle" /\ req'[r].drop = {}
    /\ req'[r].op = req[r].op /\ req'[r].who = req[r].who
    /\ req'[r].name = req[r].name /\ req'[r].code = req[r].code
    /\ point \notin {"idle", "release", "create", "join"}
    /\ Stage(req[r].op, point)

(* A handler that goes on has what its new section needs, if it is to      *)
(* revoke nobody, or its own session only.                                 *)
LEMMA WentOnKeepsShape ==
    ASSUME IInv, NEW r \in Requests, Only(r), NEW point, WentOn(r, point),
           Point(r) \notin {"idle", "create"}, req[r].pc # "board",
           created' = created, meeting' \in Nat, meeting <= meeting',
           \/ point # "revoke" /\ req'[r].revoke = {}
           \/ point = "revoke"
    PROVE  /\ \A d \in Requests : Shape(d)'
           /\ Creating' \subseteq Creating
           /\ SettingUp' \subseteq SettingUp
           /\ Point(r)' = point
<1>1. Shape(r) /\ meeting \in Nat /\ req \in [Requests -> Handlers]
  BY DEF IInv, TypeOK, Meetings
<1>2. Point(r)' = point
  BY DEF WentOn, Point
<1>3. req[r].who <= created /\ req[r].code <= meeting /\ req[r].who # 0 /\ req[r].code \in Nat
  BY <1>1 DEF Shape, Handlers, Meetings
<1>4. Shape(r)'
  <2>1. Stage(req'[r].op, point)
    BY DEF WentOn
  <2>2. req'[r].who <= created' /\ req'[r].code <= meeting' /\ req'[r].who # 0
    BY <1>1, <1>3 DEF WentOn
  <2>3. req'[r].op = "none" => req'[r].pc = "idle"
    BY <2>1 DEF WentOn, Stage
  <2> QED
    BY <1>2, <2>1, <2>2, <2>3 DEF Shape, WentOn
<1>5. \A d \in Requests \ {r} : Shape(d)'
  BY <1>1 DEF Shape, Point, Only, IInv, Handlers, Meetings
<1>6. Creating' \subseteq Creating
  BY DEF Creating, WentOn, Only
<1>7. SettingUp' \subseteq SettingUp
  BY DEF SettingUp, WentOn, Only
<1> QED
  BY <1>2, <1>4, <1>5, <1>6, <1>7

(* Everything is as it was but the handler, which returns with nothing     *)
(* left to revoke, or goes on, perhaps to revoke its own session.          *)
LEMMA OnwardKeeps ==
    ASSUME IInv, NEW r \in Requests, Only(r), UNCHANGED <<storeVars, accessVars>>,
           board' \in {"none", "running", "ended"},
           req[r].pc \notin {"idle", "create", "release"}, 
           \/ /\ Returned(r) /\ req[r].revoke = {}
              /\ req[r].op = "join" => Point(r) = "revoke"
           \/ \E point : /\ WentOn(r, point) /\ req[r].pc # "board"
                         /\ \/ point # "revoke" /\ req[r].revoke = {}
                               /\ req'[r].revoke = {} /\ req[r].op # "join"
                            \/ point = "revoke" /\ req[r].revoke = {}
                               /\ req'[r].revoke = {req[r].who}
    PROVE  IInv'
<1> USE DEF storeVars, accessVars
<1>1. /\ req \in [Requests -> Handlers] /\ meeting \in Nat /\ created \in Nat
      /\ Shape(r) /\ Point(r) = req[r].pc
  BY DEF IInv, TypeOK, Meetings, Point
<1>2. TypeOK'
  BY DEF IInv, TypeOK, Only
<1>3. /\ \A d \in Requests : Shape(d)'
      /\ Creating' \subseteq Creating
      /\ SettingUp' \subseteq SettingUp
  <2>1. CASE Returned(r)
    <3>1. Shape(r)'
      BY <1>1, <2>1 DEF Returned, Idle, Shape, Stage, Point
    <3>2. \A d \in Requests \ {r} : Shape(d)'
      BY DEF Only, Shape, Point, IInv
    <3> QED
      BY <2>1, <3>1, <3>2 DEF Creating, SettingUp, Returned, Idle, Only
  <2>2. CASE \E point : /\ WentOn(r, point) /\ req[r].pc # "board"
                        /\ point # "revoke" => req'[r].revoke = {}
    BY <1>1, <2>2, WentOnKeepsShape
  <2> QED
    BY <2>1, <2>2
<1>4. Room'
  BY <1>3, CountType DEF Room, IInv, Creating, SettingUp, TypeOK, Meetings
<1>5. /\ req'[r].drop = {} /\ req[r].drop = {}
      /\ req'[r].revoke \subseteq {req[r].who} /\ req'[r].revoke \subseteq 1 .. created
      /\ req'[r].op # "none" => req'[r].op = req[r].op /\ req'[r].who = req[r].who
                                /\ req'[r].name = req[r].name /\ req'[r].code = req[r].code
      /\ req'[r].op = "none" => req'[r] = Idle
  <2>1. req[r].who \in 1 .. created \/ Returned(r)
    BY <1>1 DEF Shape, Handlers
  <2> QED
    BY <1>1, <2>1 DEF Returned, WentOn, Idle, Shape, Stage
<1>6. \A d \in Requests : Deleted(d)'
  BY <1>5 DEF Deleted, Only, IInv
<1>7. \A d \in Requests : Joining(d)'
  <2>1. ASSUME NEW d \in Requests \ {r}
        PROVE  Joining(d)'
    <3>1. Joining(d) /\ req'[d] = req[d] /\ Point(d)' = Point(d)
      BY DEF Only, IInv, Point
    <3>2. ASSUME req[d].op = "join", Point(d) = "join", NEW e \in Requests
          PROVE  /\ req'[d].who \notin req'[e].revoke
                 /\ e # d => req'[e].who # req'[d].who
      <4>1. CASE e # r
        BY <3>1, <3>2, <4>1 DEF Joining, Only
      <4>2. CASE e = r
        <5>1. req[d].who # req[r].who /\ req[d].who \in auth
          BY <3>1, <3>2 DEF Joining
        <5>2. req[d].who # 0
          BY <3>2 DEF IInv, Shape
        <5> QED
          BY <1>5, <3>1, <4>2, <5>1, <5>2 DEF Idle
      <4> QED
        BY <4>1, <4>2
    <3> QED
      BY <3>1, <3>2 DEF Joining, Name
  <2>2. Joining(r)'
    BY <1>1, <1>5 DEF Returned, WentOn, Joining, Idle, Point
  <2> QED
    BY <2>1, <2>2
<1>8. \A d \in Requests : Attaching(d)'
  BY <1>5 DEF Attaching, Only, IInv, Idle
<1>9. \A sid \in auth : Claimed(sid) => Claimed(sid)'
  <2> SUFFICES ASSUME NEW sid \in auth, NEW d \in Requests,
                      sid \in req[d].revoke \/ (req[d].op = "join" /\ req[d].who = sid)
               PROVE  Claimed(sid)'
    BY DEF Claimed
  <2>1. CASE d # r
    BY <2>1 DEF Claimed, Only
  <2>2. CASE d = r
    <3>1. req[r].revoke = {}
      OBVIOUS
    <3>2. req[r].op = "join" /\ req[r].who = sid
      BY <2>2, <3>1
    <3>3. ~Returned(r)
      <4>1. Joining(r)
        BY DEF IInv
      <4> QED
        BY <3>1, <3>2, <4>1 DEF Joining, Returned, WentOn, Idle
    <3>4. req'[r].op = "join" /\ req'[r].who = sid
      BY <3>2, <3>3 DEF WentOn
    <3> QED
      BY <3>4 DEF Claimed
  <2> QED
    BY <2>1, <2>2
<1>10. Covered' /\ EndedMeetingRevoked'
  BY <1>9 DEF IInv, Covered, EndedMeetingRevoked, Claimed
<1>11. MembershipBacked'
  <2>1. \A sid : (\E d \in Requests : sid \in req[d].drop) => \E d \in Requests : sid \in req'[d].drop
    BY <1>5 DEF Only
  <2> QED
    BY <2>1 DEF IInv, MembershipBacked, Members
<1>12. DistinctNames' /\ Numbered'
  BY DEF IInv, DistinctNames, Members, Name, Numbered
<1> QED
  BY <1>2, <1>3, <1>4, <1>6, <1>7, <1>8, <1>10, <1>11, <1>12 DEF IInv

LEMMA AtGoesOn ==
    ASSUME IInv, NEW r \in Requests, NEW next \in Pcs \ {"release", "create", "join"},
           At(r, req[r], next), req[r].pc \notin {"idle", "release"},
           next = "idle" \/ Stage(req[r].op, next)
    PROVE  /\ Only(r)
           /\ \/ next = "idle" /\ Returned(r)
              \/ next # "idle" /\ WentOn(r, next) /\ req'[r].revoke = req[r].revoke
<1>1. TypeOK /\ req[r] \in Handlers /\ req[r].drop = {} /\ req[r].next = "idle"
  BY DEF IInv, TypeOK, Shape
<1> QED
  BY <1>1, AtEffect DEF Returned, WentOn, Carries

(* What a handler is given to revoke.                                      *)
LEMMA AtRevokes ==
    ASSUME IInv, NEW r \in Requests, NEW whom \in SUBSET Sids, NEW code \in Meetings,
           At(r, [req[r] EXCEPT !.revoke = whom, !.code = code], "revoke"),
           req[r].pc \notin {"idle", "release"}
    PROVE  /\ Only(r) /\ req'[r].revoke = whom /\ req'[r].pc = "revoke"
           /\ req'[r].next = "idle" /\ req'[r].drop = {}
           /\ req'[r].op = req[r].op /\ req'[r].who = req[r].who
           /\ req'[r].name = req[r].name /\ req'[r].code = code
<1> DEFINE rec == [req[r] EXCEPT !.revoke = whom, !.code = code]
<1>1. TypeOK /\ req[r] \in Handlers /\ req[r].drop = {} /\ req[r].next = "idle"
  BY DEF IInv, TypeOK, Shape
<1>2. /\ rec \in Handlers /\ rec.drop = {} /\ rec.next = "idle" /\ rec.revoke = whom
      /\ rec.op = req[r].op /\ rec.who = req[r].who /\ rec.name = req[r].name
      /\ rec.code = code
  BY <1>1 DEF Handlers
<1>3. At(r, rec, "revoke") /\ "revoke" \in Pcs
  BY DEF Pcs
<1> HIDE DEF rec
<1> QED
  BY <1>1, <1>2, <1>3, AtEffect DEF Carries

(* Joins and local hosts that are refused give their session up.           *)
LEMMA AtGivesUp ==
    ASSUME IInv, NEW r \in Requests,
           At(r, [req[r] EXCEPT !.revoke = {req[r].who}], "revoke"),
           req[r].pc \notin {"idle", "release", "create"}, Stage(req[r].op, "revoke")
    PROVE  /\ Only(r) /\ WentOn(r, "revoke") /\ req'[r].revoke = {req[r].who}
<1>1. /\ req[r] \in Handlers /\ created \in 0 .. MaxSessions
      /\ req[r].who # 0 /\ req[r].who <= created
  BY DEF IInv, TypeOK, Shape, Point
<1>2. req[r].who \in Sids /\ req[r].code \in Meetings
  BY <1>1 DEF Sids, Handlers
<1>3. [req[r] EXCEPT !.revoke = {req[r].who}]
        = [req[r] EXCEPT !.revoke = {req[r].who}, !.code = req[r].code]
  BY <1>1 DEF Handlers
<1>4. {req[r].who} \in SUBSET Sids
  BY <1>2
<1>5. At(r, [req[r] EXCEPT !.revoke = {req[r].who}, !.code = req[r].code], "revoke")
  BY <1>3
<1> QED
  BY <1>2, <1>4, <1>5, AtRevokes DEF WentOn

LEMMA OnwardSteps ==
    ASSUME IInv, NEW r \in Requests,
           \/ RevokeDone(r) \/ Check(r) \/ SwitchType(r) \/ TellBoard(r) \/ Look(r)
           \/ Authorize(r) \/ LeaveNothing(r)
           \/ JoinSession(r) /\ ~MayJoin(r)
           \/ Attach(r) /\ ~active
    PROVE  IInv'
<1> USE DEF storeVars, accessVars, Pcs
<1>1. /\ Shape(r) /\ board \in {"none", "running", "ended"}
      /\ (req[r].pc # "release" => Point(r) = req[r].pc)
  BY DEF IInv, TypeOK, Point
<1>2. CASE RevokeDone(r)
  <2> DEFINE next == IF req[r].op = "leave" /\ req[r].code # 0 THEN "board" ELSE "idle"
  <2>1. /\ At(r, req[r], next) /\ req[r].pc = "revoke" /\ req[r].revoke = {}
        /\ UNCHANGED <<storeVars, accessVars, board>>
    BY <1>2 DEF RevokeDone
  <2>2. next \in {"idle", "board"} /\ (next # "idle" => req[r].op = "leave")
    OBVIOUS
  <2> HIDE DEF next
  <2>3. /\ next = "idle" \/ Stage(req[r].op, next)
        /\ next # "idle" => req[r].op # "join"
    BY <2>2 DEF Stage
  <2> QED
    BY <1>1, <2>1, <2>2, <2>3, AtGoesOn, OnwardKeeps
<1>3. CASE Check(r)
  <2> DEFINE next == CASE isHost(req[r].who) -> req[r].op
                       [] ~isHost(req[r].who) ->
                            IF req[r].op = "setup" /\ ~active THEN "setup" ELSE "idle"
  <2>1. /\ At(r, req[r], next) /\ req[r].pc = "check" /\ req[r].revoke = {}
        /\ UNCHANGED <<storeVars, accessVars, board>>
    BY <1>1, <1>3 DEF Check, Shape
  <2>2. req[r].op \in {"setup", "switch"}
    BY <1>1, <2>1 DEF Shape, Stage
  <2>3. next \in {"idle", "setup", "switch"} /\ (next # "idle" => next = req[r].op)
    BY <2>2
  <2> HIDE DEF next
  <2>4. next = "idle" \/ Stage(req[r].op, next)
    BY <2>2, <2>3 DEF Stage
  <2> QED
    BY <1>1, <2>1, <2>2, <2>3, <2>4, AtGoesOn, OnwardKeeps
<1>4. CASE SwitchType(r) \/ Look(r)
  <2> DEFINE on == IF req[r].pc = "switch" THEN "board" ELSE "attach"
             next == IF active THEN on ELSE "idle"
  <2>1. /\ At(r, req[r], next) /\ req[r].pc \in {"switch", "look"} /\ req[r].revoke = {}
        /\ UNCHANGED <<storeVars, accessVars, board>>
    BY <1>1, <1>4 DEF SwitchType, Look, Shape
  <2>2. /\ next \in {"idle", "board", "attach"} /\ req[r].op # "join"
        /\ next = "idle" \/ Stage(req[r].op, next)
    BY <1>1, <2>1 DEF Shape, Stage
  <2> HIDE DEF next, on
  <2> QED
    BY <1>1, <2>1, <2>2, AtGoesOn, OnwardKeeps
<1>5. CASE TellBoard(r) \/ LeaveNothing(r)
  <2>1. /\ At(r, req[r], "idle") /\ req[r].pc \in {"board", "leave"} /\ req[r].revoke = {}
        /\ UNCHANGED <<storeVars, accessVars>> /\ board' \in {"none", "running", "ended"}
    BY <1>1, <1>5 DEF TellBoard, LeaveNothing, Shape
  <2>2. req[r].op # "join"
    BY <1>1, <2>1 DEF Shape, Stage
  <2> QED
    BY <1>1, <2>1, <2>2, AtGoesOn, OnwardKeeps
<1>6. CASE Authorize(r)
  <2> DEFINE next == CASE ~authorize(req[r].who) -> "idle"
                       [] authorize(req[r].who) ->
                            IF req[r].op = "leave" THEN "leave"
                            ELSE IF isHost(req[r].who) THEN "switch" ELSE "check"
  <2>1. /\ At(r, req[r], next) /\ req[r].pc = "authorize" /\ req[r].revoke = {}
        /\ UNCHANGED <<storeVars, accessVars, board>>
    BY <1>1, <1>6 DEF Authorize, Shape
  <2>2. req[r].op \in {"leave", "switch"}
    BY <1>1, <2>1 DEF Shape, Stage
  <2>3. /\ next \in {"idle", "leave", "switch", "check"}
        /\ next = "leave" => req[r].op = "leave"
        /\ next \in {"switch", "check"} => req[r].op = "switch"
    BY <2>2
  <2> HIDE DEF next
  <2>4. next = "idle" \/ Stage(req[r].op, next)
    BY <2>2, <2>3 DEF Stage
  <2> QED
    BY <1>1, <2>1, <2>2, <2>3, <2>4, AtGoesOn, OnwardKeeps
<1>7. CASE (JoinSession(r) /\ ~MayJoin(r)) \/ (Attach(r) /\ ~active)
  <2>1. /\ At(r, [req[r] EXCEPT !.revoke = {req[r].who}], "revoke")
        /\ req[r].pc \in {"join", "attach"} /\ req[r].revoke = {}
        /\ UNCHANGED <<storeVars, accessVars, board>>
    BY <1>1, <1>7 DEF JoinSession, Attach, Shape
  <2>2. Stage(req[r].op, "revoke")
    BY <1>1, <2>1 DEF Shape, Stage
  <2> QED
    BY <1>1, <2>1, <2>2, AtGivesUp, OnwardKeeps
<1> QED
  BY <1>2, <1>3, <1>4, <1>5, <1>6, <1>7

-----------------------------------------------------------------------------
(* Steps that change who takes part.                                       *)

(* A step of one handler leaves the others where they are.                 *)
LEMMA OthersKeepShape ==
    ASSUME IInv, NEW r \in Requests, Only(r), meeting' \in Nat, meeting <= meeting',
           created' \in Nat, created <= created'
    PROVE  \A d \in Requests \ {r} : /\ req'[d] = req[d] /\ Point(d)' = Point(d)
                                     /\ Shape(d)'
<1>1. meeting \in Nat /\ created \in Nat
  BY DEF IInv, TypeOK, Meetings
<1> SUFFICES ASSUME NEW d \in Requests \ {r}
             PROVE  /\ req'[d] = req[d] /\ Point(d)' = Point(d) /\ Shape(d)'
  OBVIOUS
<1>2. req'[d] = req[d] /\ Point(d)' = Point(d)
  BY DEF Only, Point
<1>3. Shape(d) /\ req[d].who \in Nat /\ req[d].code \in Nat
  BY DEF IInv, TypeOK, Handlers, Meetings
<1> QED
  BY <1>1, <1>2, <1>3 DEF Shape

(* A handler that returned has nothing left to be wrong about.             *)
LEMMA ReturnedHolds ==
    ASSUME NEW r \in Requests, Returned(r), created' \in Nat, meeting' \in Nat
    PROVE  /\ Shape(r)' /\ Deleted(r)' /\ Joining(r)' /\ Attaching(r)'
           /\ Point(r)' = "idle" /\ req'[r].drop = {} /\ req'[r].revoke = {}
           /\ req'[r].who = 0 /\ req'[r].op = "none" /\ req'[r].pc = "idle"
<1>1. /\ Point(r)' = "idle" /\ req'[r].drop = {} /\ req'[r].revoke = {}
      /\ req'[r].who = 0 /\ req'[r].op = "none" /\ req'[r].pc = "idle"
      /\ req'[r].next = "idle" /\ req'[r].code = 0
  BY DEF Returned, Idle, Point
<1>2. Shape(r)'
  BY <1>1 DEF Returned, Shape, Stage
<1> QED
  BY <1>1, <1>2 DEF Deleted, Joining, Attaching

LEMMA Types ==
    ASSUME TypeOK
    PROVE  /\ created \in Nat /\ meeting \in Nat /\ \A m \in Meetings : m \in Nat
           /\ auth \subseteq 1 .. created /\ expired \subseteq 1 .. created
           /\ 1 .. created \subseteq Sids
           /\ req \in [Requests -> Handlers]
<1>1. /\ created \in Nat /\ created <= MaxSessions
      /\ meeting \in Nat /\ \A m \in Meetings : m \in Nat
      /\ auth \subseteq 1 .. created /\ expired \subseteq 1 .. created
      /\ req \in [Requests -> Handlers]
  BY DEF TypeOK, Meetings
<1>2. 1 .. created \subseteq Sids
  BY <1>1 DEF Sids
<1> QED
  BY <1>1, <1>2

LEMMA HandlerTypes ==
    ASSUME TypeOK, NEW r \in Requests
    PROVE  /\ req[r] \in Handlers /\ req[r].who \in Nat /\ req[r].code \in Nat
           /\ req[r].who # 0 => req[r].who \in Sids
<1>1. req[r] \in Handlers
  BY DEF TypeOK
<1> QED
  BY <1>1 DEF Handlers, Sids, Meetings

(* The session of a join that has yet to make it a member.                 *)
Awaiting(d, sid) == req[d].op = "join" /\ Point(d) = "join" /\ req[d].who = sid

LeavesAlone(r, sid) ==
    /\ sid \in auth' \ expired' /\ sessions'[sid] = "none" /\ about'[sid] = about[sid]
    /\ sid \notin req'[r].revoke /\ sid # req'[r].who

Spares(r) ==
    \A d \in Requests \ {r}, sid \in Sids :
       /\ Awaiting(d, sid) /\ sid \in auth \ expired /\ sid \in 1 .. created
       /\ sessions[sid] = "none" /\ sid # req[r].who /\ sid \notin req[r].revoke
       => LeavesAlone(r, sid)

(* Nothing but its own handler's steps may touch such a session.           *)
LEMMA OthersKeepJoining ==
    ASSUME IInv, NEW r \in Requests, Only(r),
           \A sid \in 1 .. created : sid \in auth' => sid \in auth, Spares(r)
    PROVE  \A d \in Requests \ {r} : Joining(d)'
<1> SUFFICES ASSUME NEW d \in Requests \ {r}
             PROVE  Joining(d)'
  OBVIOUS
<1>1. /\ Joining(d) /\ Shape(d) /\ TypeOK
      /\ req'[d] = req[d] /\ Point(d)' = Point(d)
  BY DEF IInv, Only, Point
<1>2. ASSUME req[d].op = "join", Point(d) = "join"
      PROVE  /\ req[d].who \in auth' \ expired' /\ sessions'[req[d].who] = "none"
             /\ about'[req[d].who] = about[req[d].who]
             /\ req[d].who \notin req'[r].revoke /\ req[d].who # req'[r].who
  <2>1. /\ req[d].who \in auth \ expired /\ sessions[req[d].who] = "none"
        /\ req[d].who # req[r].who /\ req[d].who \notin req[r].revoke
    BY <1>1, <1>2 DEF Joining
  <2>2. req[d].who \in Sids /\ req[d].who \in 1 .. created
    BY <1>1, <2>1, Types
  <2> QED
    BY <1>2, <2>1, <2>2 DEF Awaiting, LeavesAlone, Spares
<1>3. ASSUME req[d].op = "join", Point(d) = "join", NEW e \in Requests
      PROVE  /\ req[d].who \notin req'[e].revoke
             /\ e # d => req'[e].who # req[d].who
  <2>1. CASE e = r
    BY <1>2, <1>3, <2>1
  <2>2. CASE e # r
    BY <1>1, <1>3, <2>2 DEF Joining, Only
  <2> QED
    BY <2>1, <2>2
<1>4. ASSUME req[d].op = "join", Point(d) = "revoke", req[d].who \in auth'
      PROVE  req[d].who \in req[d].revoke
  <2>1. req[d].who # 0 /\ req[d].who <= created
    BY <1>1, <1>4 DEF Shape
  <2>2. req[d].who \in 1 .. created
    BY <1>1, <2>1, Types, HandlerTypes
  <2> QED
    BY <1>1, <1>4, <2>2 DEF Joining
<1>5. req[d].op = "join" /\ Point(d) = "join" => about[req[d].who].joins = req[d].code
                                                /\ Name(req[d].who) = req[d].name
  BY <1>1 DEF Joining
<1> QED
  BY <1>1, <1>2, <1>3, <1>4, <1>5 DEF Joining, Name

(* A join that is accepted: a participant with a name of its own.          *)
LEMMA JoinKeeps ==
    ASSUME IInv, NEW r \in Requests, JoinSession(r), MayJoin(r)
    PROVE  IInv'
<1> DEFINE who == req[r].who
<1>1. /\ req[r].pc = "join" /\ Point(r) = "join" /\ At(r, req[r], "idle")
      /\ sessions' = [sessions EXCEPT ![who] = "participant"]
      /\ UNCHANGED <<auth, created, about, expired, active, meeting, hostIdentity, ended, board>>
  BY DEF JoinSession, Point, storeVars
<1>2. TypeOK /\ Shape(r) /\ Numbered
  BY DEF IInv
<1>3. req[r].op = "join" /\ req[r].revoke = {} /\ req[r].drop = {}
  BY <1>1, <1>2 DEF Shape, Stage
<1>4. /\ who \in auth \ expired /\ sessions[who] = "none"
      /\ Name(who) = req[r].name /\ about[who].joins = req[r].code
      /\ \A d \in Requests : d # r => req[d].who # who
  BY <1>1, <1>3 DEF IInv, Joining
<1>5. active /\ req[r].code = meeting /\ req[r].name # hostIdentity /\ who \in Sids
  BY <1>2, <1>4, Types DEF MayJoin
<1>6. Only(r) /\ req'[r] = Idle
  BY <1>1, <1>2, AtEffect DEF TypeOK, Pcs
<1>7. /\ meeting \in Nat /\ created \in Nat
      /\ \A d \in Requests \ {r} : req'[d] = req[d] /\ Point(d)' = Point(d) /\ Shape(d)'
  BY <1>1, <1>2, <1>6, OthersKeepShape, Types
<1>21. /\ Returned(r) /\ Shape(r)' /\ Deleted(r)' /\ Joining(r)' /\ Attaching(r)'
       /\ Point(r)' = "idle" /\ req'[r].drop = {} /\ req'[r].revoke = {}
       /\ req'[r].who = 0 /\ req'[r].op = "none" /\ req'[r].pc = "idle"
  BY <1>1, <1>6, <1>7, ReturnedHolds DEF Returned
<1>8. sessions'[who] = "participant" /\ \A sid \in Sids \ {who} : sessions'[sid] = sessions[sid]
  BY <1>1, <1>2, <1>5 DEF TypeOK
<1>9. TypeOK'
  BY <1>1, <1>2, <1>6 DEF TypeOK, Only, Roles
<1>10. \A d \in Requests : Shape(d)'
  BY <1>7, <1>21
<1>11. \A d \in Requests : Deleted(d)' /\ Attaching(d)'
  BY <1>1, <1>7, <1>21 DEF IInv, Deleted, Attaching
<1>12. \A d \in Requests : Joining(d)'
  <2>1. ASSUME NEW sid \in Sids, sid \in auth \ expired, sid # who,
               sid \in 1 .. created, sessions[sid] = "none"
        PROVE  LeavesAlone(r, sid)
    BY <1>1, <1>8, <1>21, <2>1 DEF LeavesAlone
  <2>2. \A d \in Requests \ {r} : Joining(d)'
    BY <1>1, <1>6, <2>1, OthersKeepJoining DEF Spares
  <2> QED
    BY <1>21, <2>2
<1>13. \A sid \in auth \ {who} : Claimed(sid) => Claimed(sid)'
  BY <1>3, <1>7 DEF Claimed
<1>14. Covered'
  BY <1>1, <1>2, <1>8, <1>13 DEF IInv, Covered, TypeOK, Sids
<1>15. EndedMeetingRevoked'
  <2>1. about[who].joins \notin ended
    BY <1>2, <1>4, <1>5 DEF Numbered
  <2> QED
    BY <1>1, <1>13, <2>1 DEF IInv, EndedMeetingRevoked, Claimed
<1>16. Numbered'
  BY <1>1, <1>2, <1>4, <1>5, <1>8, Types DEF Numbered
<1>17. Room'
  <2>1. Creating' \subseteq Creating /\ SettingUp' \subseteq SettingUp
    BY <1>7, <1>21 DEF Creating, SettingUp
  <2> QED
    BY <1>1, <1>2, <2>1, CountType, Types DEF Room, IInv, Creating, SettingUp
<1>18. Members("participant")' = Members("participant") \cup {who}
  BY <1>5, <1>8 DEF Members
<1>19. MembershipBacked'
  <2>1. \A sid, d : d \in Requests /\ sid \in req[d].drop => d \in Requests /\ sid \in req'[d].drop
    BY <1>3, <1>7
  <2> QED
    BY <1>1, <1>4, <1>5, <1>18, <2>1 DEF IInv, MembershipBacked
<1>20. DistinctNames'
  <2>1. \A sid \in Members("participant") : Name(sid) # req[r].name
    BY <1>4 DEF MayJoin, identityInUse, Members
  <2> QED
    BY <1>1, <1>4, <1>5, <1>18, <2>1 DEF IInv, DistinctNames, Name
<1> QED
  BY <1>9, <1>10, <1>11, <1>12, <1>14, <1>15, <1>16, <1>17, <1>19, <1>20 DEF IInv

(* A local host attaches to the meeting; nobody becomes a participant.     *)
LEMMA AttachKeeps ==
    ASSUME IInv, NEW r \in Requests, Attach(r), active
    PROVE  IInv'
<1> DEFINE who == req[r].who
<1>1. /\ req[r].pc = "attach" /\ Point(r) = "attach" /\ At(r, req[r], "idle")
      /\ sessions' = [sessions EXCEPT ![who] = "host"]
      /\ UNCHANGED <<auth, created, about, expired, active, meeting, hostIdentity, ended, board>>
  BY DEF Attach, Point, storeVars
<1>2. TypeOK /\ Shape(r) /\ Numbered /\ req[r] \in Handlers
  BY DEF IInv, TypeOK
<1>3. req[r].op = "attach" /\ req[r].revoke = {} /\ req[r].drop = {}
  BY <1>1, <1>2 DEF Shape, Stage
<1>4. who \in Sids /\ who <= created /\ about[who].joins = 0
  BY <1>1, <1>2, <1>3 DEF IInv, Attaching, Shape, Handlers, Sids
<1>5. Only(r) /\ req'[r] = Idle
  BY <1>1, <1>2, AtEffect DEF Pcs
<1>6. /\ meeting \in Nat /\ created \in Nat
      /\ \A d \in Requests \ {r} : req'[d] = req[d] /\ Point(d)' = Point(d) /\ Shape(d)'
  BY <1>1, <1>2, <1>5, OthersKeepShape, Types
<1>18. /\ Returned(r) /\ Shape(r)' /\ Deleted(r)' /\ Joining(r)' /\ Attaching(r)'
       /\ Point(r)' = "idle" /\ req'[r].drop = {} /\ req'[r].revoke = {}
       /\ req'[r].who = 0 /\ req'[r].op = "none" /\ req'[r].pc = "idle"
  BY <1>1, <1>5, <1>6, ReturnedHolds DEF Returned
<1>7. sessions'[who] = "host" /\ \A sid \in Sids \ {who} : sessions'[sid] = sessions[sid]
  BY <1>1, <1>2, <1>4 DEF TypeOK
<1>8. TypeOK'
  BY <1>1, <1>2, <1>5 DEF TypeOK, Only, Roles
<1>9. \A d \in Requests : Shape(d)'
  BY <1>6, <1>18
<1>10. \A d \in Requests : Deleted(d)' /\ Attaching(d)'
  BY <1>1, <1>6, <1>18 DEF IInv, Deleted, Attaching
<1>11. \A d \in Requests : Joining(d)'
  <2>1. ASSUME NEW sid \in Sids, sid \in auth \ expired, sid # who,
               sid \in 1 .. created, sessions[sid] = "none"
        PROVE  LeavesAlone(r, sid)
    BY <1>1, <1>4, <1>7, <1>18, <2>1 DEF LeavesAlone
  <2>2. \A d \in Requests \ {r} : Joining(d)'
    BY <1>1, <1>5, <2>1, OthersKeepJoining DEF Spares
  <2> QED
    BY <1>18, <2>2
<1>12. \A sid \in auth : Claimed(sid) => Claimed(sid)'
  BY <1>3, <1>6 DEF Claimed
<1>13. Covered' /\ EndedMeetingRevoked'
  BY <1>1, <1>2, <1>4, <1>7, <1>12 
     DEF IInv, Covered, EndedMeetingRevoked, Numbered, Claimed, TypeOK, Sids
<1>14. Numbered'
  BY <1>1, <1>2, <1>4, <1>7 DEF Numbered
<1>15. Room'
  <2>1. Creating' \subseteq Creating /\ SettingUp' \subseteq SettingUp
    BY <1>6, <1>18 DEF Creating, SettingUp
  <2> QED
    BY <1>1, <1>2, <2>1, CountType, Types DEF Room, IInv, Creating, SettingUp
<1>16. Members("participant")' \subseteq Members("participant")
  BY <1>7 DEF Members
<1>17. MembershipBacked' /\ DistinctNames'
  <2>1. \A sid, d : d \in Requests /\ sid \in req[d].drop => d \in Requests /\ sid \in req'[d].drop
    BY <1>3, <1>6
  <2> QED
    BY <1>1, <1>16, <2>1 DEF IInv, MembershipBacked, DistinctNames, Name
<1> QED
  BY <1>8, <1>9, <1>10, <1>11, <1>13, <1>14, <1>15, <1>17 DEF IInv

(* The parts of the invariant that are about one handler.                  *)
LEMMA HandlersKeep ==
    ASSUME IInv, NEW r \in Requests, Only(r), meeting' \in Nat, meeting <= meeting',
           created' \in Nat, created <= created',
           \A sid \in 1 .. created : /\ sid \in auth' => sid \in auth
                                     /\ about'[sid] = about[sid],
           Spares(r), Shape(r)', Deleted(r)', Joining(r)', Attaching(r)'
    PROVE  \A d \in Requests : Shape(d)' /\ Deleted(d)' /\ Joining(d)' /\ Attaching(d)'
<1>1. \A d \in Requests \ {r} : Shape(d)' /\ req'[d] = req[d]
  BY OthersKeepShape
<1>2. \A d \in Requests \ {r} : Joining(d)'
  BY OthersKeepJoining
<1>3. ASSUME NEW d \in Requests \ {r}
      PROVE  Deleted(d)' /\ Attaching(d)'
  <2>1. TypeOK /\ Shape(d) /\ Deleted(d) /\ Attaching(d) /\ req'[d] = req[d] /\ d \in Requests
    BY <1>1 DEF IInv
  <2>2. Deleted(d)'
    BY <2>1, Types DEF Deleted
  <2>3. req[d].op = "attach" => req[d].who \in 1 .. created
    <3>1. req[d].op = "attach" => req[d].who # 0
      BY <2>1 DEF Shape, Stage
    <3> QED
      BY <2>1, <3>1, Types, HandlerTypes DEF Shape
  <2>4. Attaching(d)'
    BY <2>1, <2>3 DEF Attaching
  <2> QED
    BY <2>2, <2>4
<1> QED
  BY <1>1, <1>2, <1>3

(* A handler that has sessions to delete and then goes on to its end.      *)
LEMMA RevokesHolds ==
    ASSUME IInv, NEW r \in Requests, req'[r].pc = "revoke", req'[r].next = "idle",
           req'[r].drop = {}, req[r].op = "leave", req[r].pc = "leave",
           req'[r].op = "leave", req'[r].who = req[r].who,
           req'[r].code <= meeting, req'[r].revoke \subseteq 1 .. created,
           created' = created, meeting' = meeting
    PROVE  Shape(r)' /\ Deleted(r)' /\ Joining(r)' /\ Attaching(r)' /\ Point(r)' = "revoke"
<1>1. Point(r)' = "revoke" /\ Point(r) = "leave" /\ Shape(r)
  BY DEF Point, IInv
<1>2. req[r].who <= created /\ req[r].who # 0
  BY <1>1 DEF Shape
<1>3. Shape(r)'
  BY <1>1, <1>2 DEF Shape, Stage
<1> QED
  BY <1>1, <1>3 DEF Deleted, Joining, Attaching

LEMMA ParticipantLeavesKeeps ==
    ASSUME IInv, NEW r \in Requests, ParticipantLeaves(r)
    PROVE  IInv'
<1> DEFINE who == req[r].who
<1>1. /\ req[r].pc = "leave" /\ Point(r) = "leave" /\ active /\ sessions[who] = "participant"
      /\ At(r, [req[r] EXCEPT !.revoke = {who}], "revoke")
      /\ sessions' = [sessions EXCEPT ![who] = "none"]
      /\ UNCHANGED <<auth, created, about, expired, active, meeting, hostIdentity, ended, board>>
  BY DEF ParticipantLeaves, Point, storeVars
<1>2. TypeOK /\ Shape(r) /\ Numbered /\ created \in Nat /\ meeting \in Nat
  BY Types DEF IInv
<1>3. req[r].op = "leave" /\ req[r].revoke = {} /\ req[r].drop = {}
  BY <1>1, <1>2 DEF Shape, Stage
<1>4. who \in Sids /\ who \in 1 .. created
  <2>1. who # 0 /\ who <= created
    BY <1>1, <1>2 DEF Shape
  <2> QED
    BY <1>2, <2>1, HandlerTypes
<1>5. /\ Only(r) /\ req'[r].revoke = {who} /\ req'[r].pc = "revoke"
      /\ req'[r].next = "idle" /\ req'[r].drop = {} /\ req'[r].op = "leave"
      /\ req'[r].who = who /\ req'[r].code <= meeting
  BY <1>1, <1>2, <1>3, AtGivesUp DEF Stage, WentOn, Shape
<1>6. sessions'[who] = "none" /\ \A sid \in Sids \ {who} : sessions'[sid] = sessions[sid]
  BY <1>1, <1>2, <1>4 DEF TypeOK
<1>7. TypeOK'
  BY <1>1, <1>2, <1>5 DEF TypeOK, Only, Roles
<1>8. \A d \in Requests \ {r} : req'[d] = req[d]
  BY <1>5 DEF Only
<1>9. \A d \in Requests : Shape(d)' /\ Deleted(d)' /\ Joining(d)' /\ Attaching(d)'
  <2>1. Shape(r)' /\ Deleted(r)' /\ Joining(r)' /\ Attaching(r)'
    BY <1>1, <1>3, <1>4, <1>5, RevokesHolds
  <2>2. Spares(r)
    BY <1>1, <1>5, <1>6 DEF Spares, LeavesAlone
  <2> QED
    BY <1>1, <1>2, <1>5, <2>1, <2>2, HandlersKeep
<1>10. \A sid \in auth : Claimed(sid) => Claimed(sid)'
  BY <1>3, <1>8 DEF Claimed
<1>11. Covered'
  <2>1. \A sid : sid = who => Claimed(sid)'
    BY <1>5 DEF Claimed
  <2>2. auth \subseteq Sids
    BY <1>2, Types
  <2>3. \A sid \in auth \ {who} : sessions'[sid] = sessions[sid]
    BY <1>6, <2>2
  <2> QED
    BY <1>1, <1>10, <2>1, <2>3 DEF IInv, Covered
<1>12. EndedMeetingRevoked'
  BY <1>1, <1>10 DEF IInv, EndedMeetingRevoked, Claimed
<1>13. Numbered'
  BY <1>1, <1>2, <1>6 DEF Numbered
<1>14. Room'
  <2>1. Creating' \subseteq Creating /\ SettingUp' \subseteq SettingUp
    BY <1>5, <1>8 DEF Creating, SettingUp
  <2> QED
    BY <1>1, <1>2, <2>1, CountType DEF Room, IInv, Creating, SettingUp
<1>15. Members("participant")' \subseteq Members("participant")
  BY <1>6 DEF Members
<1>16. MembershipBacked' /\ DistinctNames'
  <2>1. \A sid, d : d \in Requests /\ sid \in req[d].drop => d \in Requests /\ sid \in req'[d].drop
    BY <1>3, <1>8
  <2> QED
    BY <1>1, <1>15, <2>1 DEF IInv, MembershipBacked, DistinctNames, Name
<1> QED
  BY <1>7, <1>9, <1>11, <1>12, <1>13, <1>14, <1>16 DEF IInv

(* The host ends the meeting: whoever had joined it is now to be revoked.  *)
LEMMA HostLeavesKeeps ==
    ASSUME IInv, NEW r \in Requests, HostLeaves(r)
    PROVE  IInv'
<1> DEFINE who == req[r].who
<1>1. /\ req[r].pc = "leave" /\ Point(r) = "leave" /\ active /\ active' = FALSE
      /\ At(r, [req[r] EXCEPT !.revoke = Members("participant"), !.code = meeting], "revoke")
      /\ sessions' = [sid \in Sids |-> "none"] /\ ended' = ended \cup {meeting}
      /\ UNCHANGED <<auth, created, about, expired, meeting, hostIdentity, board>>
  BY DEF HostLeaves, Point, storeVars
<1>2. /\ TypeOK /\ Shape(r) /\ Numbered /\ created \in Nat /\ meeting \in Nat
      /\ auth \subseteq 1 .. created /\ 1 .. created \subseteq Sids /\ meeting \in Meetings
  BY Types DEF IInv, TypeOK
<1>3. req[r].op = "leave" /\ req[r].revoke = {} /\ req[r].drop = {}
  <2>1. req[r].op = "leave"
    BY <1>1, <1>2 DEF Shape, Stage
  <2>2. req[r].revoke = {} /\ req[r].drop = {}
    BY <1>1, <1>2 DEF Shape
  <2> QED
    BY <2>1, <2>2
<1>4. Members("participant") \in SUBSET Sids /\ Members("participant") \subseteq 1 .. created
  BY <1>2 DEF Members, Numbered, Sids
<1>5. /\ Only(r) /\ req'[r].revoke = Members("participant") /\ req'[r].pc = "revoke"
      /\ req'[r].next = "idle" /\ req'[r].drop = {} /\ req'[r].op = "leave"
      /\ req'[r].who = who /\ req'[r].code = meeting
  <2>1. At(r, [req[r] EXCEPT !.revoke = Members("participant"), !.code = meeting], "revoke")
    BY <1>1
  <2>2. req[r].pc \notin {"idle", "release"}
    BY <1>1
  <2>3. Members("participant") \in SUBSET Sids /\ meeting \in Meetings
    BY <1>2, <1>4
  <2> QED
    BY <1>3, <2>1, <2>2, <2>3, AtRevokes
<1>6. \A sid \in Sids : sessions'[sid] = "none"
  BY <1>1
<1>7. TypeOK'
  BY <1>1, <1>2, <1>5 DEF TypeOK, Only, Roles
<1>8. \A d \in Requests \ {r} : req'[d] = req[d]
  BY <1>5 DEF Only
<1>9. \A d \in Requests : Shape(d)' /\ Deleted(d)' /\ Joining(d)' /\ Attaching(d)'
  <2>1. Shape(r)' /\ Deleted(r)' /\ Joining(r)' /\ Attaching(r)'
    BY <1>1, <1>2, <1>3, <1>4, <1>5, RevokesHolds
  <2>2. Spares(r)
    BY <1>1, <1>5, <1>6 DEF Spares, LeavesAlone, Members
  <2> QED
    BY <1>1, <1>2, <1>5, <2>1, <2>2, HandlersKeep
<1>10. Covered' /\ MembershipBacked' /\ DistinctNames'
  BY <1>1, <1>6 DEF Covered, MembershipBacked, DistinctNames, Members
<1>11. EndedMeetingRevoked'
  <2>1. \A sid \in auth : Claimed(sid) => Claimed(sid)'
    BY <1>3, <1>8 DEF Claimed
  <2>2. ASSUME NEW sid \in auth, about[sid].joins = meeting
        PROVE  Claimed(sid)'
    <3>1. sessions[sid] = "participant" \/ Claimed(sid)
      BY <1>1, <2>2 DEF IInv, Covered
    <3>2. sessions[sid] = "participant" => sid \in Members("participant")
      BY <1>2 DEF Members
    <3>3. sid \in Members("participant") => Claimed(sid)'
      BY <1>5 DEF Claimed
    <3> QED
      BY <2>1, <3>1, <3>2, <3>3
  <2> QED
    BY <1>1, <2>1, <2>2 DEF IInv, EndedMeetingRevoked, Claimed
<1>12. Numbered'
  BY <1>1, <1>2, <1>6 DEF Numbered
<1>13. Room'
  <2>1. Creating' \subseteq Creating /\ SettingUp' \subseteq SettingUp
    BY <1>5, <1>8 DEF Creating, SettingUp
  <2> QED
    BY <1>1, <1>2, <2>1, CountType DEF Room, IInv, Creating, SettingUp
<1> QED
  BY <1>7, <1>9, <1>10, <1>11, <1>12, <1>13 DEF IInv

(* A new meeting: nobody has a session made to join it, and nobody is a    *)
(* member of it but its host.                                              *)
LEMMA SetupKeeps ==
    ASSUME IInv, NEW r \in Requests, Setup(r)
    PROVE  IInv'
<1> DEFINE who == req[r].who
<1>1. /\ req[r].pc = "setup" /\ Point(r) = "setup" /\ active' = TRUE
      /\ meeting' = meeting + 1 /\ hostIdentity' = Name(who)
      /\ sessions' = [sid \in Sids |-> IF sid = who THEN "host" ELSE "none"]
      /\ At(r, req[r], "board")
      /\ UNCHANGED <<auth, created, about, expired, ended, board>>
  BY DEF Setup, Point, storeVars
<1>2. /\ TypeOK /\ Shape(r) /\ Numbered /\ created \in Nat /\ meeting \in Nat
      /\ \A sid \in Sids : about[sid].joins \in Nat
  <2>1. TypeOK /\ \A m \in Meetings : m \in Nat
    BY Types DEF IInv
  <2> QED
    BY <2>1, Types DEF IInv, TypeOK
<1>3. req[r].op = "setup" /\ req[r].revoke = {} /\ req[r].drop = {} /\ req[r].next = "idle"
  BY <1>1, <1>2 DEF Shape, Stage
<1>4. who \in Sids /\ who \in 1 .. created
  <2>1. who # 0 /\ who <= created
    BY <1>1, <1>2 DEF Shape
  <2> QED
    BY <1>2, <2>1, HandlerTypes
<1>5. /\ Only(r) /\ WentOn(r, "board") /\ req'[r].revoke = {} /\ req'[r].drop = {}
      /\ req'[r].pc = "board" /\ req'[r].who = who /\ req'[r].op = "setup" /\ Point(r)' = "board"
  BY <1>1, <1>3, AtGoesOn DEF Pcs, Stage, WentOn, Point
<1>6. \A sid \in Sids \ {who} : sessions'[sid] = "none"
  BY <1>1
<1>7. \A d \in Requests \ {r} : req'[d] = req[d]
  BY <1>5 DEF Only
<1>8. Room' /\ meeting' \in Meetings
  <2>1. Creating' \subseteq Creating
    BY <1>5, <1>7 DEF Creating
  <2>2. r \in SettingUp /\ SettingUp' \subseteq SettingUp \ {r}
    BY <1>1, <1>3, <1>5, <1>7 DEF SettingUp
  <2>3. /\ Cardinality(Creating') \in Nat /\ Cardinality(Creating') <= Cardinality(Creating)
        /\ Cardinality(Creating) \in Nat
    BY <2>1, CountType DEF Creating
  <2>4. /\ Cardinality(SettingUp') \in Nat
        /\ Cardinality(SettingUp') + 1 <= Cardinality(SettingUp)
        /\ Cardinality(SettingUp) \in Nat
    BY <2>2, CountType, CountLess DEF SettingUp
  <2>5. Room
    BY DEF IInv
  <2> QED
    BY <1>1, <1>2, <2>3, <2>4, <2>5 DEF Room, Meetings
<1>9. TypeOK'
  <2>1. hostIdentity' \in Identities \cup {NoName}
    BY <1>1, <1>2, <1>4 DEF TypeOK, Name
  <2>2. sessions' \in [Sids -> Roles]
    BY <1>1 DEF Roles
  <2> QED
    BY <1>1, <1>2, <1>5, <1>8, <2>1, <2>2 DEF TypeOK, Only
<1>10. \A d \in Requests : Shape(d)' /\ Deleted(d)' /\ Joining(d)' /\ Attaching(d)'
  <2>1. Shape(r)'
    BY <1>1, <1>2, <1>5, WentOnKeepsShape
  <2>2. Deleted(r)' /\ Joining(r)' /\ Attaching(r)'
    BY <1>5 DEF Deleted, Joining, Attaching
  <2>3. Spares(r)
    BY <1>1, <1>5, <1>6 DEF Spares, LeavesAlone
  <2> QED
    BY <1>1, <1>2, <1>5, <2>1, <2>2, <2>3, HandlersKeep
<1>11. Covered'
  <2>1. \A sid \in auth : about[sid].joins # meeting'
    BY <1>1, <1>2, Types DEF Numbered
  <2> QED
    BY <1>1, <2>1 DEF Covered
<1>12. EndedMeetingRevoked'
  <2>1. \A sid \in auth : Claimed(sid) => Claimed(sid)'
    BY <1>3, <1>7 DEF Claimed
  <2> QED
    BY <1>1, <2>1 DEF IInv, EndedMeetingRevoked, Claimed
<1>13. Numbered'
  <2>1. \A m \in ended : m # 0 /\ m <= meeting /\ m \in Nat
    BY <1>2, Types DEF Numbered, TypeOK
  <2> QED
    BY <1>1, <1>2, <1>4, <1>6, <2>1 DEF Numbered
<1>14. Members("participant")' = {}
  BY <1>1 DEF Members
<1>15. MembershipBacked' /\ DistinctNames'
  BY <1>14 DEF MembershipBacked, DistinctNames
<1> QED
  BY <1>8, <1>9, <1>10, <1>11, <1>12, <1>13, <1>15 DEF IInv

(* A handler releases the memberships of sessions it has deleted.          *)
LEMMA ReleaseKeeps ==
    ASSUME IInv, NEW r \in Requests, Release(r)
    PROVE  IInv'
<1> DEFINE gone == req[r].drop
           next == req[r].next
           rec == [req[r] EXCEPT !.drop = {}, !.next = "idle"]
<1>1. /\ req[r].pc = "release" /\ Point(r) = next /\ At(r, rec, next)
      /\ sessions' = [sid \in Sids |-> IF sid \in gone \cap Members("participant")
                                       THEN "none" ELSE sessions[sid]]
      /\ UNCHANGED <<auth, created, about, expired, active, meeting, hostIdentity, ended, board>>
  BY DEF Release, Point, storeVars
<1>2. /\ TypeOK /\ Shape(r) /\ Deleted(r) /\ Joining(r) /\ Attaching(r) /\ Numbered
      /\ created \in Nat /\ meeting \in Nat /\ req[r] \in Handlers
  BY Types, HandlerTypes DEF IInv
<1>3. /\ next \in Pcs \ {"release", "create"}
      /\ req[r].op = "join" => next \in {"join", "revoke"}
  BY <1>1, <1>2 DEF Shape, Stage, Handlers
<1>4. /\ Only(r) /\ req'[r].drop = {} /\ req'[r].next = "idle" /\ Point(r)' = next
      /\ req'[r].pc = next
      /\ \/ Returned(r) /\ next = "idle"
         \/ /\ next # "idle" /\ req'[r].op = req[r].op /\ req'[r].who = req[r].who
            /\ req'[r].name = req[r].name /\ req'[r].code = req[r].code
            /\ req'[r].revoke = req[r].revoke
  <2>1. /\ rec \in Handlers /\ rec.drop = {} /\ rec.next = "idle" /\ rec.op = req[r].op
        /\ rec.who = req[r].who /\ rec.name = req[r].name /\ rec.code = req[r].code
        /\ rec.revoke = req[r].revoke
    BY <1>2 DEF Handlers, Pcs
  <2> HIDE DEF rec
  <2>2. CASE next = "idle"
    <3>1. Only(r) /\ Returned(r)
      BY <1>1, <1>2, <1>3, <2>1, <2>2, AtEffect DEF Returned
    <3> QED
      BY <1>2, <2>2, <3>1 DEF Returned, Idle, Point
  <2>3. CASE next # "idle"
    BY <1>1, <1>2, <1>3, <2>1, <2>3, AtEffect DEF Carries, Point
  <2> QED
    BY <2>2, <2>3
<1>5. \A d \in Requests \ {r} : req'[d] = req[d]
  BY <1>4 DEF Only
<1>6. \A sid \in Sids : \/ sessions'[sid] = sessions[sid]
                        \/ sid \in gone /\ sessions'[sid] = "none"
  BY <1>1
<1>7. TypeOK'
  <2>1. sessions' \in [Sids -> Roles]
    BY <1>1, <1>2 DEF TypeOK, Roles
  <2> QED
    BY <1>1, <1>2, <1>4, <2>1 DEF TypeOK, Only
<1>8. Shape(r)' /\ Deleted(r)' /\ Joining(r)' /\ Attaching(r)'
  <2>1. CASE Returned(r)
    BY <1>1, <1>2, <2>1, ReturnedHolds
  <2>2. CASE next # "idle"
    <3>1. /\ req'[r].op = req[r].op /\ req'[r].who = req[r].who
          /\ req'[r].name = req[r].name /\ req'[r].code = req[r].code
          /\ req'[r].revoke = req[r].revoke
      BY <1>4, <2>2 DEF Returned, Idle
    <3>2. Shape(r)'
      BY <1>1, <1>2, <1>3, <1>4, <2>2, <3>1 DEF Shape
    <3>3. Deleted(r)' /\ Attaching(r)'
      BY <1>1, <1>2, <1>4, <3>1 DEF Deleted, Attaching
    <3>4. ASSUME req[r].op = "join", next = "join"
          PROVE  /\ req[r].who \in auth \ expired /\ sessions'[req[r].who] = "none"
                 /\ Name(req[r].who) = req[r].name
                 /\ about[req[r].who].joins = req[r].code
                 /\ \A d \in Requests : /\ req[r].who \notin req'[d].revoke
                                        /\ d # r => req'[d].who # req[r].who
      <4>1. req[r].who \in auth \ expired /\ sessions[req[r].who] = "none" /\ req[r].who \in Sids
        BY <1>1, <1>2, <3>4, Types DEF Joining
      <4>2. sessions'[req[r].who] = "none"
        BY <1>6, <4>1
      <4> QED
        BY <1>1, <1>2, <1>5, <3>1, <3>4, <4>1, <4>2 DEF Joining
    <3>5. Joining(r)'
      BY <1>1, <1>2, <1>4, <3>1, <3>4 DEF Joining, Name
    <3> QED
      BY <3>2, <3>3, <3>5
  <2> QED
    BY <1>4, <2>1, <2>2
<1>9. \A d \in Requests : Shape(d)' /\ Deleted(d)' /\ Joining(d)' /\ Attaching(d)'
  <2>1. Spares(r)
    BY <1>1, <1>4, <1>6 DEF Spares, LeavesAlone, Returned, Idle
  <2> QED
    BY <1>1, <1>2, <1>4, <1>8, <2>1, HandlersKeep
<1>10. \A sid \in auth : Claimed(sid) => Claimed(sid)'
  <2>1. next = "idle" => req[r].revoke = {} /\ req[r].op # "join"
    BY <1>1, <1>2, <1>3 DEF Shape
  <2> QED
    BY <1>4, <1>5, <2>1 DEF Claimed
<1>11. Covered'
  <2>1. \A sid \in auth : sid \in Sids /\ sid \notin gone
    BY <1>2, Types DEF Deleted
  <2> QED
    BY <1>1, <1>6, <1>10, <2>1 DEF IInv, Covered
<1>12. EndedMeetingRevoked'
  BY <1>1, <1>10 DEF IInv, EndedMeetingRevoked, Claimed
<1>13. Numbered'
  BY <1>1, <1>2, <1>6 DEF Numbered
<1>14. Room'
  <2>1. Creating' \subseteq Creating
    BY <1>3, <1>4, <1>5 DEF Creating
  <2>2. SettingUp' \subseteq SettingUp
    BY <1>1, <1>4, <1>5 DEF SettingUp, Returned, Idle
  <2> QED
    BY <1>1, <1>2, <2>1, <2>2, CountType DEF Room, IInv, Creating, SettingUp
<1>15. \A sid \in Members("participant")' : sid \in Members("participant") /\ sid \notin gone
  BY <1>1 DEF Members
<1>16. MembershipBacked' /\ DistinctNames'
  <2>1. \A sid, d : d \in Requests /\ sid \in req[d].drop /\ sid \notin gone
                    => d \in Requests /\ sid \in req'[d].drop
    BY <1>5
  <2> QED
    BY <1>1, <1>15, <2>1 DEF IInv, MembershipBacked, DistinctNames, Name
<1> QED
  BY <1>7, <1>9, <1>11, <1>12, <1>13, <1>14, <1>16 DEF IInv

-----------------------------------------------------------------------------
(* Steps that delete sessions.                                             *)

(* What a step has to show that deletes these sessions, to release their   *)
(* memberships next.                                                       *)
LEMMA DeletionKeeps ==
    ASSUME IInv, NEW r \in Requests, NEW gone \in SUBSET (1 .. created), Only(r),
           auth' = auth \ gone, UNCHANGED <<created, about, expired, accessVars, board>>,
           req[r].drop = {}, req'[r].drop = gone, req'[r].revoke \subseteq req[r].revoke,
           Shape(r)', Joining(r)', Attaching(r)', Spares(r), Room',
           \A sid \in auth' :
              sid \in req[r].revoke \/ (req[r].op = "join" /\ req[r].who = sid)
              => sid \in req'[r].revoke \/ (req'[r].op = "join" /\ req'[r].who = sid)
    PROVE  IInv'
<1> USE DEF accessVars
<1>1. TypeOK /\ Numbered /\ created \in Nat /\ meeting \in Nat
  BY Types DEF IInv
<1>2. \A d \in Requests \ {r} : req'[d] = req[d]
  BY DEF Only
<1>3. TypeOK'
  BY <1>1 DEF TypeOK, Only
<1>4. \A d \in Requests : Shape(d)' /\ Deleted(d)' /\ Joining(d)' /\ Attaching(d)'
  <2>1. Deleted(r)'
    <3>1. Deleted(r)
      BY DEF IInv
    <3> QED
      BY <3>1 DEF Deleted
  <2> QED
    BY <1>1, <2>1, HandlersKeep
<1>5. \A sid \in auth' : Claimed(sid) => Claimed(sid)'
  BY <1>2 DEF Claimed
<1>6. Covered' /\ EndedMeetingRevoked'
  <2>1. Covered'
    BY <1>5 DEF IInv, Covered
  <2>2. EndedMeetingRevoked'
    BY <1>5 DEF IInv, EndedMeetingRevoked, Claimed
  <2> QED
    BY <2>1, <2>2
<1>7. Numbered' /\ DistinctNames'
  BY DEF IInv, Numbered, DistinctNames, Members, Name
<1>8. MembershipBacked'
  <2>1. \A sid, d : d \in Requests /\ sid \in req[d].drop => d \in Requests /\ sid \in req'[d].drop
    BY <1>2
  <2>2. \A sid \in gone : \E d \in Requests : sid \in req'[d].drop
    OBVIOUS
  <2> QED
    BY <2>1, <2>2 DEF IInv, MembershipBacked, Members
<1> QED
  BY <1>3, <1>4, <1>6, <1>7, <1>8 DEF IInv

(* A session that a handler may begin with is not one of a running join.   *)
LEMMA AnsweredSpared ==
    ASSUME NEW sid \in Answered, NEW d \in Requests
    PROVE  /\ sid \in auth
           /\ req[d].op \in {"login", "join", "attach"} => req[d].who # sid
BY DEF Answered

(* The room that a new setup needs is still there once it is counted.      *)
LEMMA RoomToSetup ==
    ASSUME IInv, NEW r \in Requests, Only(r), req[r].pc = "idle", req'[r].pc # "create",
           req'[r].op = "setup" => RoomForMeeting,
           created' = created, meeting' = meeting
    PROVE  Room'
<1>1. \A d \in Requests \ {r} : req'[d] = req[d]
  BY DEF Only
<1>2. Room /\ created \in Nat /\ meeting \in Nat
  BY Types DEF IInv
<1>3. Creating' \subseteq Creating /\ Creating \in SUBSET Requests
  BY <1>1 DEF Creating
<1>4. Cardinality(Creating') \in Nat /\ Cardinality(Creating') <= Cardinality(Creating)
      /\ Cardinality(Creating) \in Nat
  BY <1>3, CountType
<1>5. meeting + Cardinality(SettingUp') <= MaxMeetings
  <2>1. SettingUp \in SUBSET Requests
    BY DEF SettingUp
  <2>2. CASE req'[r].op = "setup"
    <3> DEFINE setups == {d \in Requests : req[d].op = "setup"}
    <3>1. meeting + Cardinality(setups) < MaxMeetings
      BY <2>2 DEF RoomForMeeting
    <3>2. SettingUp' \in SUBSET (setups \cup {r}) /\ setups \in SUBSET Requests
      BY <1>1 DEF SettingUp
    <3> HIDE DEF setups
    <3>3. /\ Cardinality(SettingUp') \in Nat /\ Cardinality(setups) \in Nat
          /\ Cardinality(SettingUp') <= Cardinality(setups) + 1
      BY <3>2, CountMore, CountType
    <3> QED
      BY <1>2, <3>1, <3>3
  <2>3. CASE req'[r].op # "setup"
    <3>1. SettingUp' \subseteq SettingUp
      BY <1>1, <2>3 DEF SettingUp
    <3>2. /\ Cardinality(SettingUp') \in Nat /\ Cardinality(SettingUp) \in Nat
          /\ Cardinality(SettingUp') <= Cardinality(SettingUp)
      BY <2>1, <3>1, CountType
    <3> QED
      BY <1>2, <3>2 DEF Room
  <2> QED
    BY <2>2, <2>3
<1> QED
  BY <1>2, <1>4, <1>5 DEF Room

(* A handler begins by deleting sessions: the expired ones, or its own.    *)
LEMMA BeginningKeeps ==
    ASSUME IInv, NEW r \in Requests, NEW op \in {"setup", "switch", "leave", "logout"},
           NEW sid \in Answered, NEW gone \in SUBSET auth,
           NEW next \in {"idle", "check", "authorize"}, Stage(op, next),
           req[r].pc = "idle", op = "setup" => RoomForMeeting,
           gone \subseteq expired \cup {sid}, auth' = auth \ gone,
           AtOnceReleased(r, Arrive(r, op, sid), gone, next),
           UNCHANGED <<created, about, expired, accessVars, board>>
    PROVE  IInv'
<1> DEFINE rec == Arrive(r, op, sid)
<1>1. /\ TypeOK /\ Shape(r) /\ created \in Nat /\ meeting \in Nat
      /\ auth \subseteq 1 .. created /\ 1 .. created \subseteq Sids
  BY Types DEF IInv
<1>2. req[r] = Idle /\ sid \in auth
  BY <1>1, AnsweredSpared DEF Shape
<1>3. /\ req[r].drop = {} /\ req[r].revoke = {} /\ req[r].op = "none" /\ req[r].who = 0
      /\ req[r].next = "idle" /\ req[r].code = 0 /\ req[r].pc = "idle"
  BY <1>2 DEF Idle
<1>4. /\ rec \in Handlers /\ rec.drop = {} /\ rec.next = "idle" /\ rec.op = op
      /\ rec.who = sid /\ rec.revoke = {} /\ rec.code = 0
  <2>1. sid \in 0 .. MaxSessions /\ op \in Ops
    BY <1>1, <1>2 DEF Sids, Ops
  <2>2. req[r] \in Handlers
    BY <1>1, HandlerTypes
  <2> QED
    BY <1>3, <2>1, <2>2 DEF Arrive, Handlers
<1> HIDE DEF rec
<1>5. /\ Only(r)
      /\ \/ gone = {} /\ req'[r] = Idle
         \/ /\ Carries(r, rec) /\ Point(r)' = next /\ req'[r].drop = gone
            /\ req'[r].pc # "idle"
            /\ req'[r].pc # "release" => gone = {} /\ req'[r].next = "idle"
  <2>1. next \in Pcs \ {"release"} /\ gone \in SUBSET Sids
    BY <1>1 DEF Pcs
  <2>2. AtOnceReleased(r, rec, gone, next)
    BY DEF rec
  <2>3. TypeOK /\ rec \in Handlers /\ rec.drop = {} /\ rec.next = "idle"
    BY <1>1, <1>4
  <2> QED
    BY <2>1, <2>2, <2>3, AtOnceReleasedEffect
<1>6. /\ Shape(r)' /\ Joining(r)' /\ Attaching(r)' /\ req'[r].drop = gone
      /\ req'[r].revoke = {} /\ req'[r].who \in {0, sid} /\ req'[r].pc # "create"
      /\ req'[r].op \in {"none", op}
  <2>1. meeting' \in Nat /\ created' \in Nat
    BY <1>1 DEF accessVars
  <2>2. CASE gone = {} /\ req'[r] = Idle
    BY <2>1, <2>2, ReturnedHolds DEF Returned
  <2>3. CASE /\ Carries(r, rec) /\ Point(r)' = next /\ req'[r].drop = gone
             /\ req'[r].pc # "idle"
             /\ req'[r].pc # "release" => gone = {} /\ req'[r].next = "idle"
    <3>1. /\ req'[r].op = op /\ req'[r].who = sid /\ req'[r].revoke = {} /\ req'[r].code = 0
      BY <1>4, <2>3 DEF Carries
    <3>2. sid # 0 /\ sid <= created
      <4>1. sid \in 1 .. created
        BY <1>1, <1>2
      <4> QED
        BY <1>1, <4>1
    <3>3. Shape(r)'
      BY <1>1, <2>1, <2>3, <3>1, <3>2 DEF Shape, accessVars
    <3>4. req'[r].pc # "create"
      BY <2>3 DEF Point
    <3> QED
      BY <2>3, <3>1, <3>3, <3>4 DEF Joining, Attaching
  <2> QED
    BY <1>5, <2>2, <2>3
<1>7. Spares(r)
  <2>1. ASSUME NEW d \in Requests, NEW s \in Sids, Awaiting(d, s), s \in auth \ expired,
               s \in 1 .. created, sessions[s] = "none"
        PROVE  LeavesAlone(r, s)
    <3>1. s # sid
      BY <2>1, AnsweredSpared DEF Awaiting
    <3>2. s # 0 /\ s \notin gone
      BY <2>1, <3>1
    <3> QED
      BY <1>6, <2>1, <3>1, <3>2 DEF LeavesAlone, accessVars
  <2> QED
    BY <2>1 DEF Spares
<1>8. Room'
  BY <1>5, <1>6, RoomToSetup DEF accessVars
<1> QED
  BY <1>1, <1>3, <1>5, <1>6, <1>7, <1>8, DeletionKeeps

LEMMA LookupKeeps ==
    ASSUME IInv, NEW r \in Requests, NEW op \in {"setup", "switch", "leave"}, NEW sid \in Sids,
           Lookup(r, op, sid)
    PROVE  IInv'
<1> DEFINE next == AfterLookup(op, sid)
<1>1. /\ req[r].pc = "idle" /\ sid \in Answered /\ (op = "setup" => RoomForMeeting)
      /\ auth' = auth \ Pruned /\ AtOnceReleased(r, Arrive(r, op, sid), Pruned, next)
      /\ UNCHANGED <<created, about, expired, accessVars, board>>
  BY DEF Lookup
<1>2. /\ Pruned \in SUBSET auth /\ Pruned \subseteq expired \cup {sid}
      /\ op \in {"setup", "switch", "leave", "logout"}
  BY DEF Pruned
<1>3. next \in {"idle", "check", "authorize"} /\ Stage(op, next)
  BY DEF AfterLookup, Stage
<1> HIDE DEF next
<1> QED
  BY <1>1, <1>2, <1>3, BeginningKeeps

LEMMA LogoutKeeps ==
    ASSUME IInv, NEW r \in Requests, NEW sid \in Sids, Logout(r, sid)
    PROVE  IInv'
<1>1. /\ req[r].pc = "idle" /\ sid \in Answered /\ auth' = auth \ {sid}
      /\ AtOnceReleased(r, Arrive(r, "logout", sid), {sid}, "idle")
      /\ UNCHANGED <<created, about, expired, accessVars, board>>
  BY DEF Logout
<1>2. {sid} \in SUBSET auth /\ Stage("logout", "idle")
  BY <1>1 DEF Answered, Stage
<1> QED
  BY <1>1, <1>2, BeginningKeeps

(* One more of the revoked sessions is deleted.                            *)
LEMMA RevokeKeeps ==
    ASSUME IInv, NEW r \in Requests, Revoke(r)
    PROVE  IInv'
<1>1. PICK sid \in req[r].revoke :
         /\ auth' = auth \ {sid}
         /\ AtOnceReleased(r, [req[r] EXCEPT !.revoke = @ \ {sid}], {sid}, "revoke")
  BY DEF Revoke
<1>2. req[r].pc = "revoke" /\ UNCHANGED <<created, about, expired, accessVars, board>>
  BY DEF Revoke
<1>3. /\ TypeOK /\ Shape(r) /\ Deleted(r) /\ Joining(r) /\ Attaching(r)
      /\ created \in Nat /\ meeting \in Nat /\ Point(r) = "revoke"
      /\ 1 .. created \subseteq Sids /\ req[r] \in Handlers
  BY <1>2, Types, HandlerTypes DEF IInv, Point
<1>4. sid \in 1 .. created /\ req[r].drop = {} /\ req[r].next = "idle"
  BY <1>2, <1>3 DEF Deleted, Shape
<1> DEFINE rec == [req[r] EXCEPT !.revoke = @ \ {sid}]
<1>5. /\ rec \in Handlers /\ rec.drop = {} /\ rec.next = "idle" /\ rec.op = req[r].op
      /\ rec.who = req[r].who /\ rec.name = req[r].name /\ rec.code = req[r].code
      /\ rec.revoke = req[r].revoke \ {sid}
  BY <1>3, <1>4 DEF Handlers
<1>6. AtOnceReleased(r, rec, {sid}, "revoke")
  BY <1>1
<1> HIDE DEF rec
<1>7. /\ Only(r) /\ Carries(r, rec) /\ Point(r)' = "revoke" /\ req'[r].drop = {sid}
      /\ req'[r].pc = "release"
  <2>1. {sid} \in SUBSET Sids /\ "revoke" \in Pcs \ {"release"}
    BY <1>3, <1>4 DEF Pcs
  <2> QED
    BY <1>3, <1>5, <1>6, <2>1, AtOnceReleasedEffect
<1>8. /\ req'[r].op = req[r].op /\ req'[r].who = req[r].who /\ req'[r].name = req[r].name
      /\ req'[r].code = req[r].code /\ req'[r].revoke = req[r].revoke \ {sid}
  BY <1>5, <1>7 DEF Carries
<1>9. Shape(r)'
  BY <1>2, <1>3, <1>7, <1>8 DEF Shape, accessVars
<1>10. Joining(r)' /\ Attaching(r)'
  BY <1>1, <1>2, <1>3, <1>7, <1>8 DEF Joining, Attaching
<1>11. Spares(r)
  BY <1>1, <1>2, <1>8 DEF Spares, LeavesAlone, accessVars
<1>12. Room'
  <2>1. Creating' \subseteq Creating /\ SettingUp' \subseteq SettingUp
    BY <1>2, <1>7, <1>8 DEF Creating, SettingUp, Only
  <2> QED
    BY <1>2, <1>3, <2>1, CountType DEF Room, IInv, Creating, SettingUp, accessVars
<1>13. \A s \in auth' :
          s \in req[r].revoke \/ (req[r].op = "join" /\ req[r].who = s)
          => s \in req'[r].revoke \/ (req'[r].op = "join" /\ req'[r].who = s)
  BY <1>1, <1>8
<1>14. {sid} \in SUBSET (1 .. created) /\ req'[r].revoke \subseteq req[r].revoke
  BY <1>4, <1>8
<1> QED
  BY <1>1, <1>2, <1>4, <1>7, <1>9, <1>10, <1>11, <1>12, <1>13, <1>14, DeletionKeeps

-----------------------------------------------------------------------------
(* Steps that create sessions.                                             *)

(* A session is created within the bounds.                                 *)
LEMMA RoomToCreate ==
    ASSUME IInv, NEW r \in Requests, Only(r), req'[r].pc # "create",
           req'[r].op # "setup",
           \/ req[r].pc = "create"
           \/ RoomForSession,
           created' = created + 1, meeting' = meeting
    PROVE  Room' /\ created' \in 0 .. MaxSessions
<1>1. \A d \in Requests \ {r} : req'[d] = req[d]
  BY DEF Only
<1>2. Room /\ created \in Nat /\ meeting \in Nat
  BY Types DEF IInv
<1>3. SettingUp' \subseteq SettingUp /\ SettingUp \in SUBSET Requests
  BY <1>1 DEF SettingUp
<1>4. Cardinality(SettingUp') \in Nat /\ Cardinality(SettingUp') <= Cardinality(SettingUp)
      /\ Cardinality(SettingUp) \in Nat
  BY <1>3, CountType
<1>5. Cardinality(Creating') \in Nat /\ created + 1 + Cardinality(Creating') <= MaxSessions
  <2>1. Creating \in SUBSET Requests /\ Creating' \subseteq Creating \ {r}
    BY <1>1 DEF Creating
  <2>2. CASE req[r].pc = "create"
    <3>1. r \in Creating
      BY <2>2 DEF Creating
    <3>2. /\ Cardinality(Creating') \in Nat /\ Cardinality(Creating) \in Nat
          /\ Cardinality(Creating') + 1 <= Cardinality(Creating)
      BY <2>1, <3>1, CountLess, CountType
    <3> QED
      BY <1>2, <3>2 DEF Room
  <2>3. CASE RoomForSession
    <3>1. created + Cardinality(Creating) < MaxSessions
      BY <2>3 DEF RoomForSession, Creating
    <3>2. /\ Cardinality(Creating') \in Nat /\ Cardinality(Creating) \in Nat
          /\ Cardinality(Creating') <= Cardinality(Creating)
      BY <2>1, CountType
    <3> QED
      BY <1>2, <3>1, <3>2
  <2> QED
    BY <2>2, <2>3
<1> QED
  BY <1>2, <1>4, <1>5 DEF Room

LEMMA CreationKeeps ==
    ASSUME IInv, NEW r \in Requests, NEW rec \in Handlers,
           NEW next \in {"idle", "look", "join"}, create(r, rec, next),
           rec.drop = {}, rec.next = "idle", rec.revoke = {}, rec.code <= meeting,
           \/ next = "idle" /\ rec.op = "login" /\ rec.code = 0
           \/ next = "look" /\ rec.op = "attach" /\ rec.code = 0
           \/ next = "join" /\ rec.op = "join",
           \/ req[r].pc = "idle" /\ RoomForSession
           \/ req[r].pc = "create" /\ next = "join"
    PROVE  IInv'
<1> DEFINE new == created + 1
           made == [rec EXCEPT !.who = new]
<1> USE DEF accessVars
<1>1. /\ created' = new /\ auth' = (auth \ Pruned) \cup {new}
      /\ about' = [about EXCEPT ![new] = [name |-> rec.name, joins |-> rec.code]]
      /\ AtOnceReleased(r, made, Pruned, next)
      /\ UNCHANGED <<expired, active, meeting, hostIdentity, sessions, ended, board>>
  BY DEF create
<1>2. /\ TypeOK /\ Shape(r) /\ Numbered /\ created \in Nat /\ meeting \in Nat
      /\ auth \subseteq 1 .. created /\ expired \subseteq 1 .. created
      /\ 1 .. created \subseteq Sids
  BY Types DEF IInv
<1>3. Pruned \in SUBSET auth /\ Pruned = auth \cap expired
  BY DEF Pruned
<1>4. /\ req[r].drop = {} /\ req[r].revoke = {} /\ req[r].who = 0
      /\ req[r].op = "none" \/ req[r].op = "join"
  BY <1>2 DEF Shape, Stage, Idle, Point
<1>5. new \in Sids
  <2>1. Creating \in SUBSET Requests /\ (req[r].pc = "create" => r \in Creating)
    BY DEF Creating
  <2>2. Cardinality(Creating) \in Nat /\ (req[r].pc = "create" => Cardinality(Creating) >= 1)
    <3>1. ASSUME r \in Creating PROVE Cardinality({}) \in Nat /\ Cardinality({}) + 1 <= Cardinality(Creating)
      BY <2>1, <3>1, CountLess
    <3> QED
      BY <2>1, <3>1, CountType
  <2>3. created + Cardinality(Creating) <= MaxSessions
        /\ (RoomForSession => created + Cardinality(Creating) < MaxSessions)
    BY DEF Room, IInv, RoomForSession, Creating
  <2> QED
    BY <1>2, <2>2, <2>3 DEF Sids
<1>6. /\ made \in Handlers /\ made.drop = {} /\ made.next = "idle" /\ made.revoke = {}
      /\ made.op = rec.op /\ made.who = new /\ made.name = rec.name /\ made.code = rec.code
  BY <1>5 DEF Handlers, Sids
<1> HIDE DEF made
<1>7. /\ Only(r)
      /\ \/ Pruned = {} /\ next = "idle" /\ req'[r] = Idle
         \/ /\ Carries(r, made) /\ Point(r)' = next /\ req'[r].drop = Pruned
            /\ req'[r].pc # "idle"
            /\ req'[r].pc # "release" => Pruned = {} /\ req'[r].next = "idle"
  <2>1. next \in Pcs \ {"release"} /\ Pruned \in SUBSET Sids
    BY <1>2, <1>3 DEF Pcs
  <2>2. TypeOK /\ made.drop = {} /\ made.next = "idle" /\ made \in Handlers
    BY <1>2, <1>6
  <2> QED
    BY <1>1, <2>1, <2>2, AtOnceReleasedEffect
<1>8. \A d \in Requests \ {r} : req'[d] = req[d]
  BY <1>7 DEF Only
<1>9. /\ about'[new].name = rec.name /\ about'[new].joins = rec.code
      /\ \A sid \in Sids \ {new} : about'[sid] = about[sid]
  BY <1>1, <1>2, <1>5 DEF TypeOK
<1>10. \A sid \in 1 .. created : /\ sid \in auth' => sid \in auth
                                 /\ about'[sid] = about[sid] /\ sid # new
  <2>1. \A sid \in 1 .. created : sid \in Sids /\ sid # new
    BY <1>2
  <2> QED
    BY <1>1, <1>9, <2>1
<1>11. sessions[new] = "none"
  <2>1. ~(new <= created)
    BY <1>2
  <2> QED
    BY <1>2, <1>5, <2>1 DEF Numbered
<1>12. \A d \in Requests \ {r} : new \notin req[d].revoke /\ req[d].who # new
  <2>1. ASSUME NEW d \in Requests \ {r}
        PROVE  new \notin req[d].revoke /\ req[d].who # new
    <3>1. Shape(d) /\ Deleted(d) /\ req[d].who \in Nat
      BY <1>2, HandlerTypes DEF IInv
    <3> QED
      BY <1>2, <3>1 DEF Shape, Deleted
  <2> QED
    BY <2>1
<1>13. /\ Shape(r)' /\ Joining(r)' /\ Attaching(r)' /\ Deleted(r)'
       /\ req'[r].drop = Pruned /\ req'[r].revoke = {} /\ req'[r].who \in {0, new}
       /\ req'[r].pc # "create" /\ req'[r].op # "setup"
       /\ next = "join" => req'[r].op = "join" /\ req'[r].who = new
  <2>1. meeting' \in Nat /\ created' \in Nat /\ new # 0
    BY <1>1, <1>2
  <2>2. CASE Pruned = {} /\ next = "idle" /\ req'[r] = Idle
    BY <2>1, <2>2, ReturnedHolds DEF Returned
  <2>3. CASE /\ Carries(r, made) /\ Point(r)' = next /\ req'[r].drop = Pruned
             /\ req'[r].pc # "idle"
             /\ req'[r].pc # "release" => Pruned = {} /\ req'[r].next = "idle"
    <3>1. /\ req'[r].op = rec.op /\ req'[r].who = new /\ req'[r].revoke = {}
          /\ req'[r].code = rec.code /\ req'[r].name = rec.name
      BY <1>6, <2>3 DEF Carries
    <3>2. Shape(r)'
      BY <1>1, <1>2, <2>1, <2>3, <3>1 DEF Shape, Stage
    <3>3. req'[r].pc # "create"
      BY <2>3 DEF Point
    <3>4. Deleted(r)'
      BY <1>1, <1>2, <1>3, <2>3, <3>1 DEF Deleted
    <3>5. Attaching(r)'
      BY <1>9, <3>1 DEF Attaching
    <3>6. new \in auth' \ expired' /\ sessions'[new] = "none"
      BY <1>1, <1>2, <1>11
    <3>7. Joining(r)'
      BY <1>8, <1>9, <1>12, <2>3, <3>1, <3>6 DEF Joining, Name
    <3> QED
      BY <2>3, <3>1, <3>2, <3>3, <3>4, <3>5, <3>7
  <2> QED
    BY <1>7, <2>2, <2>3
<1>14. Room' /\ created' \in 0 .. MaxSessions
  BY <1>1, <1>7, <1>13, RoomToCreate
<1>15. TypeOK'
  <2>1. about' \in [Sids -> [name : Identities \cup {NoName}, joins : Meetings]]
    <3>1. [name |-> rec.name, joins |-> rec.code]
             \in [name : Identities \cup {NoName}, joins : Meetings]
      BY DEF Handlers
    <3> QED
      BY <1>1, <1>2, <1>5, <3>1 DEF TypeOK
  <2>2. auth' \subseteq 1 .. created' /\ expired' \subseteq 1 .. created'
    <3>1. 1 .. created \subseteq 1 .. created' /\ new \in 1 .. created'
      BY <1>1, <1>2
    <3> QED
      BY <1>1, <1>2, <3>1
  <2> QED
    BY <1>1, <1>2, <1>7, <1>14, <2>1, <2>2 DEF TypeOK, Only
<1>16. \A d \in Requests : Shape(d)' /\ Deleted(d)' /\ Joining(d)' /\ Attaching(d)'
  <2>1. ASSUME NEW sid \in 1 .. created, sid \in auth \ expired, sessions[sid] = "none"
        PROVE  LeavesAlone(r, sid)
    BY <1>1, <1>3, <1>10, <1>13, <2>1 DEF LeavesAlone
  <2>2. Spares(r)
    BY <2>1 DEF Spares
  <2> QED
    BY <1>1, <1>2, <1>7, <1>10, <1>13, <2>2, HandlersKeep
<1>17. \A sid \in 1 .. created : Claimed(sid) => Claimed(sid)'
  <2>1. \A sid \in 1 .. created : sid # 0
    BY <1>2
  <2> QED
    BY <1>4, <1>8, <2>1 DEF Claimed
<1>18. \A sid : sid = new /\ next = "join" => Claimed(sid)'
  BY <1>13 DEF Claimed
<1>19. \A sid \in auth' : sid \in 1 .. created \/ sid = new
  BY <1>1, <1>2
<1>20. rec.code # 0 => next = "join"
  OBVIOUS
<1>21. Covered'
  BY <1>1, <1>2, <1>9, <1>10, <1>17, <1>18, <1>19, <1>20 DEF IInv, Covered, Numbered
<1>22. EndedMeetingRevoked'
  BY <1>1, <1>2, <1>9, <1>10, <1>17, <1>18, <1>19, <1>20
     DEF IInv, EndedMeetingRevoked, Numbered, Claimed
<1>23. Numbered'
  <2>1. \A sid \in Sids : sid <= created => sid <= created'
    BY <1>1, <1>2 DEF Sids
  <2> QED
    BY <1>1, <1>2, <1>9, <2>1 DEF Numbered
<1>24. \A sid \in Members("participant") : sid \in 1 .. created
  BY <1>2 DEF Members, Numbered, Sids
<1>25. MembershipBacked'
  <2>1. \A sid, d : d \in Requests /\ sid \in req[d].drop => d \in Requests /\ sid \in req'[d].drop
    BY <1>4, <1>8
  <2>2. \A sid \in auth : sid \in auth' \/ sid \in req'[r].drop
    BY <1>1, <1>13
  <2> QED
    BY <1>1, <1>10, <1>24, <2>1, <2>2 DEF IInv, MembershipBacked, Members
<1>26. DistinctNames'
  <2>1. Members("participant")' = Members("participant")
    BY <1>1 DEF Members
  <2> QED
    BY <1>1, <1>10, <1>24, <2>1 DEF IInv, DistinctNames, Name
<1> QED
  BY <1>14, <1>15, <1>16, <1>21, <1>22, <1>23, <1>25, <1>26 DEF IInv

LEMMA CreatingSteps ==
    ASSUME IInv, NEW r \in Requests,
           \/ \E name \in Identities : Login(r, name) \/ AttachLocal(r, name)
           \/ CreateToJoin(r)
    PROVE  IInv'
<1>1. TypeOK /\ Shape(r) /\ meeting \in Nat /\ req[r] \in Handlers
  BY Types, HandlerTypes DEF IInv
<1>2. ASSUME NEW name \in Identities, Login(r, name) \/ AttachLocal(r, name)
      PROVE  IInv'
  <2>1. PICK op \in {"login", "attach"} :
           /\ req[r].pc = "idle" /\ RoomForSession
           /\ create(r, [req[r] EXCEPT !.op = op, !.name = name],
                     IF op = "login" THEN "idle" ELSE "look")
    BY <1>2 DEF Login, AttachLocal
  <2> DEFINE rec == [req[r] EXCEPT !.op = op, !.name = name]
             next == IF op = "login" THEN "idle" ELSE "look"
  <2>2. /\ rec \in Handlers /\ rec.drop = {} /\ rec.next = "idle" /\ rec.revoke = {}
        /\ rec.code = 0 /\ rec.op = op
    <3>1. req[r].drop = {} /\ req[r].next = "idle" /\ req[r].revoke = {} /\ req[r].code = 0
      BY <1>1, <2>1 DEF Shape, Idle
    <3> QED
      BY <1>1, <3>1 DEF Handlers, Ops
  <2>3. create(r, rec, next)
    BY <2>1
  <2>4. next \in {"idle", "look"} /\ (op = "login" => next = "idle")
        /\ (op = "attach" => next = "look")
    OBVIOUS
  <2> HIDE DEF rec, next
  <2> QED
    BY <1>1, <2>1, <2>2, <2>3, <2>4, CreationKeeps
<1>3. CASE CreateToJoin(r)
  <2>1. req[r].pc = "create" /\ create(r, req[r], "join")
    BY <1>3 DEF CreateToJoin
  <2>2. /\ req[r].op = "join" /\ req[r].drop = {} /\ req[r].next = "idle"
        /\ req[r].revoke = {} /\ req[r].code <= meeting
    BY <1>1, <2>1 DEF Shape, Stage, Point
  <2> QED
    BY <1>1, <2>1, <2>2, CreationKeeps
<1> QED
  BY <1>2, <1>3

-----------------------------------------------------------------------------
(* The rest: a join begins, and a session expires.                         *)

LEMMA ValidateKeeps ==
    ASSUME IInv, NEW r \in Requests, NEW name \in Identities, Validate(r, name)
    PROVE  IInv'
<1> DEFINE rec == [req[r] EXCEPT !.op = "join", !.name = name, !.code = meeting]
<1> USE DEF storeVars, accessVars
<1>1. /\ req[r].pc = "idle" /\ RoomForSession /\ active /\ At(r, rec, "create")
      /\ UNCHANGED <<storeVars, accessVars, board>>
  BY DEF Validate
<1>2. /\ TypeOK /\ Shape(r) /\ created \in Nat /\ meeting \in Nat /\ meeting \in Meetings
      /\ req[r] \in Handlers
  BY Types, HandlerTypes DEF IInv, TypeOK
<1>3. /\ req[r].drop = {} /\ req[r].next = "idle" /\ req[r].revoke = {} /\ req[r].who = 0
      /\ req[r].op = "none"
  BY <1>1, <1>2 DEF Shape, Idle
<1>4. /\ rec \in Handlers /\ rec.drop = {} /\ rec.next = "idle" /\ rec.revoke = {}
      /\ rec.op = "join" /\ rec.who = 0 /\ rec.code = meeting
  BY <1>2, <1>3 DEF Handlers, Ops
<1> HIDE DEF rec
<1>5. /\ Only(r) /\ req'[r].pc = "create" /\ req'[r].next = "idle" /\ req'[r].drop = {}
      /\ req'[r].revoke = {} /\ req'[r].op = "join" /\ req'[r].who = 0
      /\ req'[r].code = meeting /\ Point(r)' = "create"
  BY <1>1, <1>2, <1>4, AtEffect DEF Pcs, Carries, Point
<1>6. \A d \in Requests \ {r} : req'[d] = req[d]
  BY <1>5 DEF Only
<1>7. Shape(r)' /\ Joining(r)' /\ Attaching(r)'
  BY <1>1, <1>2, <1>5 DEF Shape, Stage, Joining, Attaching
<1>8. Spares(r)
  <2>1. \A sid \in 1 .. created : sid # 0
    BY <1>2
  <2> QED
    BY <1>1, <1>5, <2>1 DEF Spares, LeavesAlone
<1>9. Room'
  <2>1. /\ Creating \in SUBSET Requests /\ Creating' \in SUBSET (Creating \cup {r})
        /\ SettingUp \in SUBSET Requests /\ SettingUp' \subseteq SettingUp
    BY <1>5, <1>6 DEF Creating, SettingUp
  <2>2. created + Cardinality(Creating) < MaxSessions
    BY <1>1 DEF RoomForSession, Creating
  <2>3. /\ Cardinality(Creating') \in Nat /\ Cardinality(Creating) \in Nat
        /\ Cardinality(Creating') <= Cardinality(Creating) + 1
    BY <2>1, CountMore, CountType
  <2>4. /\ Cardinality(SettingUp') \in Nat /\ Cardinality(SettingUp) \in Nat
        /\ Cardinality(SettingUp') <= Cardinality(SettingUp)
    BY <2>1, CountType
  <2>5. Room
    BY DEF IInv
  <2> QED
    BY <1>1, <1>2, <2>2, <2>3, <2>4, <2>5 DEF Room
<1>10. \A sid \in auth : ~(sid \in req[r].revoke \/ (req[r].op = "join" /\ req[r].who = sid))
  BY <1>3
<1>11. {} \in SUBSET (1 .. created) /\ auth' = auth \ {}
  BY <1>1
<1> QED
  BY <1>1, <1>3, <1>5, <1>7, <1>8, <1>9, <1>10, <1>11, DeletionKeeps

LEMMA ExpireKeeps ==
    ASSUME IInv, NEW sid \in Sids, Expire(sid)
    PROVE  IInv'
<1>1. /\ sid \in Answered /\ expired' = expired \cup {sid}
      /\ UNCHANGED <<auth, created, about, active, meeting, hostIdentity, sessions, ended,
                     board, req>>
  BY DEF Expire, accessVars
<1>2. TypeOK'
  BY <1>1, AnsweredSpared DEF IInv, TypeOK, Answered
<1>3. \A d \in Requests : Point(d)' = Point(d)
  BY <1>1 DEF Point
<1>4. \A d \in Requests : Shape(d)' /\ Deleted(d)' /\ Attaching(d)'
  BY <1>1, <1>3 DEF IInv, Shape, Deleted, Attaching
<1>5. \A d \in Requests : Joining(d)'
  <2>1. \A d \in Requests : req[d].op = "join" => req[d].who # sid
    BY <1>1, AnsweredSpared
  <2> QED
    BY <1>1, <1>3, <2>1 DEF IInv, Joining, Name
<1>6. Numbered' /\ Covered' /\ EndedMeetingRevoked'
  BY <1>1 DEF IInv, Numbered, Covered, Claimed, EndedMeetingRevoked
<1>7. Creating' = Creating /\ SettingUp' = SettingUp
  BY <1>1 DEF Creating, SettingUp
<1>8. Room' /\ MembershipBacked' /\ DistinctNames'
  BY <1>1, <1>7 DEF IInv, Room, MembershipBacked, DistinctNames, Members, Name
<1> QED
  BY <1>2, <1>4, <1>5, <1>6, <1>8 DEF IInv

-----------------------------------------------------------------------------
(* The theorems.                                                           *)

LEMMA InitHolds == Init => IInv
<1> SUFFICES ASSUME Init
             PROVE  IInv
  OBVIOUS
<1>1. TypeOK
  <2>1. about \in [Sids -> [name : Identities \cup {NoName}, joins : Meetings]]
    BY DEF Init, Meetings
  <2>2. sessions \in [Sids -> Roles] /\ req \in [Requests -> Handlers]
    BY IdleType DEF Init, Roles
  <2>3. created \in 0 .. MaxSessions /\ meeting \in Meetings
    BY DEF Init, Meetings
  <2> QED
    BY <2>1, <2>2, <2>3 DEF Init, TypeOK
<1>2. \A r \in Requests : req[r] = Idle
  BY DEF Init
<1>3. \A r \in Requests : Shape(r) /\ Deleted(r) /\ Joining(r) /\ Attaching(r)
  BY <1>2 DEF Shape, Deleted, Joining, Attaching, Stage, Point, Idle, Init
<1>4. Numbered /\ Covered /\ MembershipBacked /\ DistinctNames /\ EndedMeetingRevoked
  BY DEF Init, Numbered, Covered, MembershipBacked, DistinctNames, EndedMeetingRevoked, Members
<1>5. Room
  <2>1. Creating = {} /\ SettingUp = {}
    BY <1>2 DEF Creating, SettingUp, Idle
  <2> QED
    BY <2>1, FS_EmptySet DEF Init, Room
<1> QED
  BY <1>1, <1>3, <1>4, <1>5 DEF IInv

LEMMA NextKeeps == IInv /\ [Next]_vars => IInv'
<1> SUFFICES ASSUME IInv, [Next]_vars
             PROVE  IInv'
  OBVIOUS
<1>1. ASSUME NEW r \in Requests, NewRequest(r)
      PROVE  IInv'
  <2>1. CASE \E sid \in Sids :
               Logout(r, sid) \/ \E op \in {"setup", "switch", "leave"} : Lookup(r, op, sid)
    BY <2>1, LogoutKeeps, LookupKeeps
  <2>2. CASE \E name \in Identities : Login(r, name) \/ AttachLocal(r, name)
    BY <2>2, CreatingSteps
  <2>3. CASE \E name \in Identities : Validate(r, name)
    BY <2>3, ValidateKeeps
  <2> QED
    BY <1>1, <2>1, <2>2, <2>3 DEF NewRequest
<1>2. ASSUME NEW r \in Requests, Advance(r)
      PROVE  IInv'
  <2>1. CASE CreateToJoin(r)
    BY <2>1, CreatingSteps
  <2>2. CASE Release(r) \/ Revoke(r) \/ Setup(r) \/ HostLeaves(r) \/ ParticipantLeaves(r)
    BY <2>2, ReleaseKeeps, RevokeKeeps, SetupKeeps, HostLeavesKeeps, ParticipantLeavesKeeps
  <2>3. CASE \/ RevokeDone(r) \/ Check(r) \/ SwitchType(r) \/ TellBoard(r) \/ Look(r)
             \/ Authorize(r) \/ LeaveNothing(r)
    BY <2>3, OnwardSteps
  <2>4. CASE JoinSession(r)
    BY <2>4, JoinKeeps, OnwardSteps
  <2>5. CASE Attach(r)
    BY <2>5, AttachKeeps, OnwardSteps
  <2> QED
    BY <1>2, <2>1, <2>2, <2>3, <2>4, <2>5 DEF Advance
<1>3. ASSUME NEW sid \in Sids, Expire(sid)
      PROVE  IInv'
  BY <1>3, ExpireKeeps
<1>4. CASE UNCHANGED vars
  BY <1>4 DEF vars, IInv, TypeOK, Shape, Point, Deleted, Joining, Attaching, Numbered, Covered,
              Claimed, Room, Creating, SettingUp, MembershipBacked, DistinctNames,
              EndedMeetingRevoked, Members, Name
<1> QED
  BY <1>1, <1>2, <1>3, <1>4 DEF Next

LEMMA Invariant == Spec => []IInv
BY InitHolds, NextKeeps, PTL DEF Spec

(* Every variable keeps to its set, whatever the requests, names and       *)
(* bounds: in particular a handler that starts has the room to finish.     *)
THEOREM AccessTypes == Spec => []TypeOK
<1>1. IInv => TypeOK
  BY DEF IInv
<1> QED
  BY <1>1, Invariant, PTL

(* A participant's membership always rests on a live session, or on a      *)
(* handler about to release it, and on the code of the running meeting.    *)
THEOREM MembershipsBacked == Spec => []MembershipBacked
<1>1. IInv => MembershipBacked
  BY DEF IInv
<1> QED
  BY <1>1, Invariant, PTL

(* Whoever joins at the same time, participants have different names, and  *)
(* none has the name of the host who set the meeting up.                   *)
THEOREM NamesDistinct == Spec => []DistinctNames
<1>1. IInv => DistinctNames
  BY DEF IInv
<1> QED
  BY <1>1, Invariant, PTL

(* Once the host has ended a meeting, each session made to join it is gone *)
(* or in the hands of the handler that deletes it: also one whose join was *)
(* under way, and one that a later meeting found still running.            *)
THEOREM EndedMeetingsRevoked == Spec => []EndedMeetingRevoked
<1>1. IInv => EndedMeetingRevoked
  BY DEF IInv
<1> QED
  BY <1>1, Invariant, PTL
=============================================================================
