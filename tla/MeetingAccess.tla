---------------------------- MODULE MeetingAccess ----------------------------
(***************************************************************************)
(* Meetings and the browser sessions that take part in them                *)
(* (cmd/server/meeting_access.go, cmd/server/auth.go), for callers with a  *)
(* session cookie.                                                         *)
(*                                                                         *)
(* The sessions live in authStore under store.mu, the memberships in       *)
(* meetingAccess under m.mu, and the board's own idea of the meeting under *)
(* board.mu.  A handler takes the locks one after the other and never two  *)
(* together: each section is an action.                                    *)
(***************************************************************************)
EXTENDS Naturals, FiniteSets

CONSTANTS
    Requests,      \* the handlers that may run at the same time
    Identities,    \* names a caller may ask for
    MaxSessions,   \* bound: how many sessions are ever created
    MaxMeetings,   \* bound: how many meetings are ever set up
    MaxExpired,    \* bound: how many sessions ever reach their ExpiresAt
    LocalLogin     \* whether allowLocalBrowserSession can be true: the
                   \* local environment with a local login token

ASSUME RequestsAssumption == IsFiniteSet(Requests)
ASSUME IdentitiesAssumption == Identities # {}
ASSUME BoundsAssumption ==
    MaxSessions \in Nat /\ MaxMeetings \in Nat /\ MaxExpired \in Nat
ASSUME LocalLoginAssumption == LocalLogin \in BOOLEAN

Sids == 1 .. MaxSessions
Meetings == 0 .. MaxMeetings
Roles == {"host", "participant", "none"}

VARIABLES
    auth,          \* session ids in authStore
    created,       \* how many sessions were created
    about,         \* name of each session, and the meeting it was made to
                   \* join (0: it was not)
    expired,       \* session ids past their ExpiresAt
    active,        \* meetingAccess.active
    meeting,       \* number of the last meeting set up: its join code
    hostIdentity,
    sessions,      \* role of each session in the meeting, "none" of the others
    board,         \* board.meeting: "none", "running" or "ended"
    req,           \* what each handler is doing
    ended          \* history: meetings ended by their host

storeVars == <<auth, created, about, expired>>
accessVars == <<active, meeting, hostIdentity, sessions, ended>>
vars == <<auth, created, about, expired, active, meeting,
          hostIdentity, sessions, board, req, ended>>

NoName == "nobody"

Idle == [pc |-> "idle", next |-> "idle", op |-> "none", who |-> 0,
         name |-> NoName, code |-> 0, drop |-> {}, revoke |-> {}]

Pcs == {"idle", "release", "check", "setup", "board",
        "create", "join", "look", "attach", "authorize", "leave", "switch", "revoke"}
Ops == {"none", "setup", "switch", "join", "leave", "login", "attach", "logout"}

Handlers == [pc : Pcs, next : Pcs, op : Ops, who : 0 .. MaxSessions,
             name : Identities \cup {NoName}, code : Meetings,
             drop : SUBSET Sids, revoke : SUBSET Sids]

TypeOK ==
    /\ auth \subseteq 1 .. created /\ created \in 0 .. MaxSessions
    /\ about \in [Sids -> [name : Identities \cup {NoName}, joins : Meetings]]
    /\ expired \subseteq 1 .. created
    /\ active \in BOOLEAN /\ meeting \in Meetings
    /\ hostIdentity \in Identities \cup {NoName}
    /\ sessions \in [Sids -> Roles]
    /\ board \in {"none", "running", "ended"}
    /\ req \in [Requests -> Handlers]
    /\ ended \subseteq Meetings

Init ==
    /\ auth = {} /\ created = 0 /\ expired = {}
    /\ about = [sid \in Sids |-> [name |-> NoName, joins |-> 0]]
    /\ active = FALSE /\ meeting = 0 /\ hostIdentity = NoName
    /\ sessions = [sid \in Sids |-> "none"]
    /\ board = "none"
    /\ req = [r \in Requests |-> Idle]
    /\ ended = {}

Members(role) == {sid \in Sids : sessions[sid] = role}
Name(sid) == about[sid].name

-----------------------------------------------------------------------------
(* Moving a handler on.                                                    *)

(* Go on at next, or return when there is nothing next.                    *)
At(r, rec, next) ==
    req' = [req EXCEPT ![r] = IF next = "idle" THEN Idle ELSE [rec EXCEPT !.pc = next]]

(* Go on at next once the memberships of these sessions are released.      *)
AtOnceReleased(r, rec, gone, next) ==
    IF gone = {} THEN At(r, rec, next)
    ELSE req' = [req EXCEPT ![r] =
                    [rec EXCEPT !.pc = "release", !.next = next, !.drop = gone]]

Arrive(r, op, sid) == [req[r] EXCEPT !.op = op, !.who = sid]

(* The bounds: a request starts only if it can finish within them.         *)
RoomForSession ==
    created + Cardinality({r \in Requests : req[r].pc = "create"}) < MaxSessions
RoomForMeeting ==
    meeting + Cardinality({r \in Requests : req[r].op = "setup"}) < MaxMeetings

-----------------------------------------------------------------------------
(* authStore.                                                              *)

Pruned == auth \cap expired

(* The sessions a browser may have the cookie of: the handler that made    *)
(* the session answers last.                                               *)
Answered == {sid \in auth :
               ~\E r \in Requests : req[r].op \in {"login", "join", "attach"}
                                   /\ req[r].who = sid}

AfterLookup(op, sid) ==
    IF sid \in Pruned THEN "idle" ELSE IF op = "setup" THEN "check" ELSE "authorize"

(* Mutant: a lookup prunes without telling the meeting.                    *)
MutantPruneOnly(r, op, sid) ==
    /\ req[r].pc = "idle" /\ sid \in Answered
    /\ op = "setup" => RoomForMeeting
    /\ auth' = auth \ Pruned
    /\ At(r, Arrive(r, op, sid), AfterLookup(op, sid))
    /\ UNCHANGED <<created, about, expired, accessVars, board>>

(* lookup, with which a handler begins: expired sessions are deleted       *)
(* first, whoever asks.                                                    *)
Lookup(r, op, sid) ==
    /\ req[r].pc = "idle" /\ sid \in Answered
    /\ op = "setup" => RoomForMeeting
    /\ auth' = auth \ Pruned
    /\ AtOnceReleased(r, Arrive(r, op, sid), Pruned, AfterLookup(op, sid))
    /\ UNCHANGED <<created, about, expired, accessVars, board>>

(* Mutant: creations do not count.                                         *)
MutantSameId(r, rec, next) ==
    /\ auth' = (auth \ Pruned) \cup {created + 1}
    /\ about' = [about EXCEPT ![created + 1] = [name |-> rec.name, joins |-> rec.code]]
    /\ AtOnceReleased(r, [rec EXCEPT !.who = created + 1], Pruned, next)
    /\ UNCHANGED <<created, expired, accessVars, board>>

(* create: so does it, under the lock in which the new session is stored.  *)
create(r, rec, next) ==
    /\ created' = created + 1
    /\ auth' = (auth \ Pruned) \cup {created + 1}
    /\ about' = [about EXCEPT ![created + 1] = [name |-> rec.name, joins |-> rec.code]]
    /\ AtOnceReleased(r, [rec EXCEPT !.who = created + 1], Pruned, next)
    /\ UNCHANGED <<expired, accessVars, board>>

(* createSessionHandler and localLoginHandler.                             *)
Login(r, name) ==
    /\ req[r].pc = "idle" /\ RoomForSession
    /\ create(r, [req[r] EXCEPT !.op = "login", !.name = name], "idle")

(* createLocalBrowserSession with role=host: the caller chooses the name.  *)
AttachLocal(r, name) ==
    /\ req[r].pc = "idle" /\ LocalLogin /\ RoomForSession
    /\ create(r, [req[r] EXCEPT !.op = "attach", !.name = name], "look")

CreateToJoin(r) == req[r].pc = "create" /\ create(r, req[r], "join")

(* releaseSessions: participants lose their membership, a host keeps it.   *)
Release(r) ==
    /\ req[r].pc = "release"
    /\ sessions' = [sid \in Sids |->
                       IF sid \in req[r].drop \cap Members("participant")
                       THEN "none" ELSE sessions[sid]]
    /\ At(r, [req[r] EXCEPT !.drop = {}, !.next = "idle"], req[r].next)
    /\ UNCHANGED <<storeVars, active, meeting, hostIdentity, ended, board>>

(* deleteSessionHandler: delete, of the caller's own session.              *)
Logout(r, sid) ==
    /\ req[r].pc = "idle" /\ sid \in Answered
    /\ auth' = auth \ {sid}
    /\ AtOnceReleased(r, Arrive(r, "logout", sid), {sid}, "idle")
    /\ UNCHANGED <<created, about, expired, accessVars, board>>

(* delete, of one revoked session after the other.                         *)
Revoke(r) ==
    /\ req[r].pc = "revoke"
    /\ \E sid \in req[r].revoke :
          /\ auth' = auth \ {sid}
          /\ AtOnceReleased(r, [req[r] EXCEPT !.revoke = @ \ {sid}], {sid}, "revoke")
    /\ UNCHANGED <<created, about, expired, accessVars, board>>

(* What is left of the handler once every revoked session is deleted: the  *)
(* host's leave has yet to tell the board.                                 *)
RevokeDone(r) ==
    /\ req[r].pc = "revoke" /\ req[r].revoke = {}
    /\ At(r, req[r], IF req[r].op = "leave" /\ req[r].code # 0 THEN "board" ELSE "idle")
    /\ UNCHANGED <<storeVars, accessVars, board>>

(* Twelve hours after a session was created.                               *)
Expire(sid) ==
    /\ sid \in Answered \ expired
    /\ Cardinality(expired) < MaxExpired
    /\ expired' = expired \cup {sid}
    /\ UNCHANGED <<auth, created, about, accessVars, board, req>>

-----------------------------------------------------------------------------
(* setupMeetingHandler.                                                    *)

isHost(sid) == sessions[sid] = "host"

(* isActive and isHost: only a host may set up over an active meeting.     *)
(* switchMeetingTypeHandler asks isHost of a caller authorized as a        *)
(* participant, or while there was no meeting.                             *)
Check(r) ==
    /\ req[r].pc = "check"
    /\ At(r, req[r],
          CASE isHost(req[r].who) -> req[r].op
            [] ~isHost(req[r].who) ->
                  IF req[r].op = "setup" /\ ~active THEN "setup" ELSE "idle")
    /\ UNCHANGED <<storeVars, accessVars, board>>

(* setup: a new join code, and the caller the only member.                 *)
Setup(r) ==
    /\ req[r].pc = "setup"
    /\ active' = TRUE
    /\ meeting' = meeting + 1
    /\ hostIdentity' = Name(req[r].who)
    /\ sessions' = [sid \in Sids |-> IF sid = req[r].who THEN "host" ELSE "none"]
    /\ At(r, req[r], "board")
    /\ UNCHANGED <<storeVars, ended, board>>

(* switchType, in switchMeetingTypeHandler; the type itself is left out.   *)
SwitchType(r) ==
    /\ req[r].pc = "switch"
    /\ At(r, req[r], IF active THEN "board" ELSE "idle")
    /\ UNCHANGED <<storeVars, accessVars, board>>

(* applyMeetingTypeToBoard after a setup or a switch, whatever the board   *)
(* says; applyMeetingEndedToBoard after the host's leave.                  *)
TellBoard(r) ==
    /\ req[r].pc = "board"
    /\ board' = IF req[r].op = "leave" THEN "ended" ELSE "running"
    /\ At(r, req[r], "idle")
    /\ UNCHANGED <<storeVars, accessVars>>

-----------------------------------------------------------------------------
(* joinMeetingHandler.                                                     *)

(* validateJoinCode, before a session is made for the caller, who was      *)
(* given the code of this meeting: with any other the request is refused.  *)
Validate(r, name) ==
    /\ req[r].pc = "idle" /\ RoomForSession
    /\ active
    /\ At(r, [req[r] EXCEPT !.op = "join", !.name = name, !.code = meeting], "create")
    /\ UNCHANGED <<storeVars, accessVars, board>>

identityInUse(name, except) ==
    \E sid \in Sids \ {except} : sessions[sid] # "none" /\ Name(sid) = name

(* Mutant: the name is compared to the host's only.                        *)
MutantHostNameOnly(r) ==
    active /\ req[r].code = meeting /\ req[r].name # hostIdentity

MayJoin(r) ==
    /\ active
    /\ req[r].code = meeting
    /\ req[r].name # hostIdentity
    /\ ~identityInUse(req[r].name, req[r].who)

(* joinSessionWithCode: a member, whose cookie is answered, or the session *)
(* made for the caller is deleted again.                                   *)
JoinSession(r) ==
    /\ req[r].pc = "join"
    /\ \/ /\ MayJoin(r)
          /\ sessions' = [sessions EXCEPT ![req[r].who] = "participant"]
          /\ At(r, req[r], "idle")
       \/ /\ ~MayJoin(r)
          /\ At(r, [req[r] EXCEPT !.revoke = {req[r].who}], "revoke")
          /\ UNCHANGED sessions
    /\ UNCHANGED <<storeVars, active, meeting, hostIdentity, ended, board>>

-----------------------------------------------------------------------------
(* createLocalBrowserSession with role=host, after its session is created. *)

Look(r) ==
    /\ req[r].pc = "look"
    /\ At(r, req[r], IF active THEN "attach" ELSE "idle")
    /\ UNCHANGED <<storeVars, accessVars, board>>

(* joinSession as a host, which asks for no code and for no free name.     *)
Attach(r) ==
    /\ req[r].pc = "attach"
    /\ \/ /\ active
          /\ sessions' = [sessions EXCEPT ![req[r].who] = "host"]
          /\ At(r, req[r], "idle")
       \/ /\ ~active
          /\ At(r, [req[r] EXCEPT !.revoke = {req[r].who}], "revoke")
          /\ UNCHANGED sessions
    /\ UNCHANGED <<storeVars, active, meeting, hostIdentity, ended, board>>

-----------------------------------------------------------------------------
(* leaveMeetingHandler, and the authorizeRequest it shares with            *)
(* switchMeetingTypeHandler.                                               *)

(* authorize: anyone with a session while there is no meeting, else its    *)
(* members.                                                                *)
authorize(sid) == ~active \/ sessions[sid] # "none"

Authorize(r) ==
    /\ req[r].pc = "authorize"
    /\ At(r, req[r],
          CASE ~authorize(req[r].who) -> "idle"
            [] authorize(req[r].who) ->
                  IF req[r].op = "leave" THEN "leave"
                  ELSE IF isHost(req[r].who) THEN "switch" ELSE "check")
    /\ UNCHANGED <<storeVars, accessVars, board>>

LeaveNothing(r) ==
    /\ req[r].pc = "leave"
    /\ ~active \/ sessions[req[r].who] = "none"
    /\ At(r, req[r], "idle")
    /\ UNCHANGED <<storeVars, accessVars, board>>

(* Mutant: the participants' sessions are not listed for revocation.       *)
MutantLeaveRevokesNobody(r) ==
    /\ req[r].pc = "leave" /\ active /\ sessions[req[r].who] = "host"
    /\ active' = FALSE
    /\ sessions' = [sid \in Sids |-> "none"]
    /\ ended' = ended \cup {meeting}
    /\ At(r, [req[r] EXCEPT !.code = meeting], "revoke")
    /\ UNCHANGED <<storeVars, meeting, hostIdentity, board>>

(* leaveSession of a host: the meeting is over and its participants'       *)
(* sessions are to be deleted.  code remembers which meeting ended.        *)
HostLeaves(r) ==
    /\ req[r].pc = "leave" /\ active /\ sessions[req[r].who] = "host"
    /\ active' = FALSE
    /\ sessions' = [sid \in Sids |-> "none"]
    /\ ended' = ended \cup {meeting}
    /\ At(r, [req[r] EXCEPT !.revoke = Members("participant"), !.code = meeting],
          "revoke")
    /\ UNCHANGED <<storeVars, meeting, hostIdentity, board>>

ParticipantLeaves(r) ==
    /\ req[r].pc = "leave" /\ active /\ sessions[req[r].who] = "participant"
    /\ sessions' = [sessions EXCEPT ![req[r].who] = "none"]
    /\ At(r, [req[r] EXCEPT !.revoke = {req[r].who}], "revoke")
    /\ UNCHANGED <<storeVars, active, meeting, hostIdentity, ended, board>>

-----------------------------------------------------------------------------
(* The first section of a handler.  A cookie whose session is gone before  *)
(* that is only refused, after the pruning that any other lookup does as   *)
(* well: such requests are left out.                                       *)
NewRequest(r) ==
    \/ \E sid \in Sids :
          Logout(r, sid) \/ \E op \in {"setup", "switch", "leave"} : Lookup(r, op, sid)
    \/ \E name \in Identities :
          Login(r, name) \/ AttachLocal(r, name) \/ Validate(r, name)

(* The rest of a handler, which runs without waiting for anyone.           *)
Advance(r) ==
    \/ CreateToJoin(r) \/ Release(r) \/ Revoke(r) \/ RevokeDone(r)
    \/ Check(r) \/ Setup(r) \/ SwitchType(r) \/ TellBoard(r)
    \/ JoinSession(r) \/ Look(r) \/ Attach(r)
    \/ Authorize(r) \/ LeaveNothing(r) \/ HostLeaves(r) \/ ParticipantLeaves(r)

Next ==
    \/ \E r \in Requests : NewRequest(r) \/ Advance(r)
    \/ \E sid \in Sids : Expire(sid)

Spec == Init /\ [][Next]_vars /\ \A r \in Requests : WF_vars(Advance(r))

-----------------------------------------------------------------------------
(* Properties.                                                             *)

(* A participant's membership rests on a live session, or a handler that   *)
(* deleted the session is about to release it: the name it reserves is     *)
(* never reserved for good.  And the session was made with the code of     *)
(* this meeting, also when a new one was set up while its join was under   *)
(* way.                                                                    *)
MembershipBacked ==
    \A sid \in Members("participant") :
       /\ sid \in auth \/ \E r \in Requests : sid \in req[r].drop
       /\ about[sid].joins = meeting

(* Two participants never share a name, nor has one the name of the host   *)
(* who set the meeting up: the name is what speech is attributed to.       *)
DistinctNames ==
    \A sid \in Members("participant") :
       /\ Name(sid) # hostIdentity
       /\ \A other \in Members("participant") \ {sid} : Name(other) # Name(sid)

(* When the host has ended a meeting, a session made to join it is gone,   *)
(* or the handler that will delete it holds it.                            *)
EndedMeetingRevoked ==
    \A sid \in auth : about[sid].joins \in ended =>
       \E r \in Requests : \/ sid \in req[r].revoke
                          \/ (req[r].op = "join" /\ req[r].who = sid)

(* And it does go.                                                         *)
RevocationCompletes ==
    \A sid \in Sids :
       (sid \in auth /\ about[sid].joins \in ended) ~> (sid \notin auth)

Quiet == \A r \in Requests : req[r].pc = "idle"

(* errIdentityInUse: the identity of a participant "must be unique and     *)
(* must never be the host's".                                              *)
NeverTheHosts ==
    \A guest \in Members("participant"), host \in Members("host") :
       Name(guest) # Name(host)

(* meeting_access_test.go, TestHostLeaveEndsMeetingAndRevokesParticipants: *)
(* a participant does not remain authorized after the host ended the       *)
(* meeting.                                                                *)
NotAuthorizedAfterEnd ==
    Quiet /\ meeting \in ended /\ ~active =>
       \A sid \in auth \ expired : about[sid].joins # 0 => ~authorize(sid)

(* The same test: the board's meeting is ended after the host left.        *)
BoardEndsWithMeeting ==
    Quiet /\ meeting \in ended => board = "ended"
=============================================================================
