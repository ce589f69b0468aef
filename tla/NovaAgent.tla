------------------------------ MODULE NovaAgent ------------------------------
(***************************************************************************)
(* The voice agent's two connections (cmd/server/nova_sonic.go): the       *)
(* LiveKit room it joins and leaves, and the Bedrock stream it starts,     *)
(* renews and restarts.                                                    *)
(*                                                                         *)
(* app.mu guards the room, app.streamMu the stream, app.connectMu one join *)
(* at a time.  No two are held together, and the network calls between the *)
(* sections take as long as they like.                                     *)
(***************************************************************************)
EXTENDS Naturals, FiniteSets

CONSTANTS
    Joiners,       \* background goroutines of TriggerJoinAsync
    Startup,       \* the goroutine of main that joins at the start
    MaxRooms,      \* bound: connections to LiveKit ever made
    MaxStreams,    \* bound: goroutines of startBedrockStream ever started
    MaxLeaves,     \* bound: meetings ended by their host
    MaxDrops,      \* bound: connections that LiveKit cuts
    MaxSwitches,   \* bound: changes of the voice model
    MaxEvents      \* bound: of these three together

ASSUME StartupAssumption == Startup \notin Joiners
ASSUME BoundsAssumption ==
    /\ MaxRooms \in Nat /\ MaxStreams \in Nat /\ MaxLeaves \in Nat
    /\ MaxDrops \in Nat /\ MaxSwitches \in Nat /\ MaxEvents \in Nat

AllJoiners == Joiners \cup {Startup}
Rooms == 1 .. MaxRooms
Streams == 1 .. MaxStreams          \* also the goroutine that opens it
None == 0

VARIABLES
    room,          \* app.room
    connected,     \* external: connections that LiveKit holds open
    cut,           \* external: connections LiveKit closed whose
                   \* OnDisconnectedWithReason has not run yet
    made,          \* how many connections were made
    drops,         \* how many of them LiveKit cut
    joinInFlight,
    joiner,        \* what each joining goroutine is doing
    stream,        \* app.stream
    streamActive,
    open,          \* external: streams that Bedrock holds open
    starter,       \* what each startBedrockStream is doing
    started,       \* how many were started
    modelID,       \* number of the model last selected
    closing,       \* SetModel between its two sections
    leave,         \* what LeaveConferenceRoom is doing
    leaves,
    tracks,        \* connections that carry a participant's audio track
    ended          \* history: whether the last meeting ended and nothing was
                   \* asked of the agent since: "calm" if no join was under
                   \* way when its end began, "busy" if one was

roomVars == <<room, connected, cut, made, drops, joinInFlight, joiner, tracks>>
streamVars == <<stream, streamActive, open, starter, started>>
modelVars == <<modelID, closing>>
leaveVars == <<leave, leaves, ended>>
vars == <<room, connected, cut, made, drops, joinInFlight, joiner, tracks,
          stream, streamActive, open, starter, started, modelID, closing,
          leave, leaves, ended>>

Asleep == [pc |-> "idle", room |-> None]
NotStarted == [pc |-> "none", reads |-> None, model |-> 0]
NotLeaving == [pc |-> "idle", stream |-> None, room |-> None]

HoldsConnectMu(j) == joiner[j].pc \in {"dial", "publish"}

TypeOK ==
    /\ room \in 0 .. made /\ connected \cup cut \subseteq 1 .. made
    /\ made \in 0 .. MaxRooms /\ drops \in 0 .. MaxDrops
    /\ joinInFlight \in BOOLEAN
    /\ joiner \in [AllJoiners ->
                     [pc : {"idle", "asked", "wait", "dial", "publish", "return"},
                      room : Rooms \cup {None}]]
    /\ \A i, j \in AllJoiners : HoldsConnectMu(i) /\ HoldsConnectMu(j) => i = j
    /\ stream \in Streams \cup {None} /\ streamActive \in BOOLEAN
    /\ open \cup {stream} \subseteq 0 .. started /\ started \in 0 .. MaxStreams
    /\ starter \in [Streams ->
                      [pc : {"none", "start", "invoke", "init", "output",
                             "read", "end", "done", "failed"},
                       reads : Streams \cup {None}, model : 0 .. MaxSwitches]]
    /\ modelID \in 0 .. MaxSwitches /\ closing \in BOOLEAN
    /\ leave \in [pc : {"idle", "close", "room", "disconnect"},
                  stream : Streams \cup {None}, room : Rooms \cup {None}]
    /\ leaves \in 0 .. MaxLeaves
    /\ tracks \subseteq Rooms
    /\ ended \in {"no", "calm", "busy"}

Init ==
    /\ room = None /\ connected = {} /\ cut = {} /\ made = 0 /\ drops = 0
    /\ joinInFlight = FALSE
    /\ joiner = [j \in AllJoiners |-> IF j = Startup THEN [Asleep EXCEPT !.pc = "wait"]
                                                     ELSE Asleep]
    /\ stream = None /\ streamActive = FALSE /\ open = {} /\ started = 0
    /\ starter = [g \in Streams |-> NotStarted]
    /\ modelID = 0 /\ closing = FALSE
    /\ leave = NotLeaving /\ leaves = 0 /\ tracks = {} /\ ended = "no"

\* The bound on what happens to the agent from outside.
MayHappen == leaves + drops + modelID < MaxEvents

IsConnected == room # None /\ room \in connected

----------------------------------------------------------------------------
\* Joining

\* TriggerJoinAsync, first section: nothing to do if connected.
Ask(j) ==
    /\ j # Startup /\ joiner[j].pc = "idle"
    /\ ~IsConnected
    /\ joiner' = [joiner EXCEPT ![j].pc = "asked"]
    /\ ended' = "no"
    /\ UNCHANGED <<room, connected, cut, made, drops, joinInFlight, tracks,
                   streamVars, modelVars, leave, leaves>>

\* Its second section: one background join at a time.
TriggerJoinAsync(j) ==
    /\ joiner[j].pc = "asked"
    /\ joinInFlight' = TRUE
    /\ joiner' = [joiner EXCEPT ![j].pc = IF joinInFlight THEN "idle" ELSE "wait"]
    /\ UNCHANGED <<room, connected, cut, made, drops, tracks, streamVars,
                   modelVars, leaveVars>>

\* Mutant: does not take connectMu.
MutantNoConnectMu(j) ==
    /\ joiner[j].pc = "wait"
    /\ joiner' = [joiner EXCEPT ![j].pc = IF IsConnected THEN "return" ELSE "dial"]
    /\ UNCHANGED <<room, connected, cut, made, drops, joinInFlight, tracks,
                   streamVars, modelVars, leaveVars>>

\* Mutant: connects whether or not another join has meanwhile.
MutantNoRecheck(j) ==
    /\ joiner[j].pc = "wait"
    /\ \A i \in AllJoiners : ~HoldsConnectMu(i)
    /\ joiner' = [joiner EXCEPT ![j].pc = "dial"]
    /\ UNCHANGED <<room, connected, cut, made, drops, joinInFlight, tracks,
                   streamVars, modelVars, leaveVars>>

\* JoinConferenceRoom: takes connectMu, and returns if the agent is connected.
JoinConferenceRoom(j) ==
    /\ joiner[j].pc = "wait"
    /\ \A i \in AllJoiners : ~HoldsConnectMu(i)
    /\ joiner' = [joiner EXCEPT ![j].pc = IF IsConnected THEN "return" ELSE "dial"]
    /\ UNCHANGED <<room, connected, cut, made, drops, joinInFlight, tracks,
                   streamVars, modelVars, leaveVars>>

\* ConnectToRoom.  LiveKit knows the agent by its identity and cuts the
\* connection it already holds under it.
Connects(j) ==
    /\ joiner[j].pc = "dial"
    /\ made < MaxRooms
    /\ made' = made + 1
    /\ connected' = {made + 1}
    /\ cut' = cut \cup connected
    /\ joiner' = [joiner EXCEPT ![j] = [pc |-> "publish", room |-> made + 1]]
    /\ UNCHANGED <<room, drops, joinInFlight, tracks, streamVars, modelVars, leaveVars>>

\* PublishTrack succeeded: the room is kept under app.mu.
Joined(j) ==
    /\ joiner[j].pc = "publish"
    /\ room' = joiner[j].room
    /\ joiner' = [joiner EXCEPT ![j] = [Asleep EXCEPT !.pc = "return"]]
    /\ UNCHANGED <<connected, cut, made, drops, joinInFlight, tracks,
                   streamVars, modelVars, leaveVars>>

\* An error before, in or after ConnectToRoom; after it the room is
\* disconnected.  main tries again.
JoinFails(j) ==
    /\ HoldsConnectMu(j)
    /\ connected' = connected \ {joiner[j].room}
    /\ joiner' = [joiner EXCEPT ![j] =
                    [Asleep EXCEPT !.pc = IF j = Startup THEN "wait" ELSE "return"]]
    /\ UNCHANGED <<room, cut, made, drops, joinInFlight, tracks, streamVars,
                   modelVars, leaveVars>>

\* The deferred function of TriggerJoinAsync's goroutine.
JoinReturns(j) ==
    /\ joiner[j].pc = "return"
    /\ joinInFlight' = (joinInFlight /\ j = Startup)
    /\ joiner' = [joiner EXCEPT ![j] = Asleep]
    /\ UNCHANGED <<room, connected, cut, made, drops, tracks, streamVars,
                   modelVars, leaveVars>>

\* LiveKit cuts a connection: a restart of the server, or a lost network.
Drop(r) ==
    /\ r \in connected /\ drops < MaxDrops /\ MayHappen
    /\ drops' = drops + 1
    /\ connected' = connected \ {r} /\ cut' = cut \cup {r}
    /\ UNCHANGED <<room, made, joinInFlight, joiner, tracks, streamVars,
                   modelVars, leaveVars>>

\* OnDisconnectedWithReason of any connection clears app.room.
markDisconnected(r) ==
    /\ r \in cut
    /\ cut' = cut \ {r}
    /\ room' = None
    /\ UNCHANGED <<connected, made, drops, joinInFlight, joiner, tracks,
                   streamVars, modelVars, leaveVars>>

----------------------------------------------------------------------------
\* The Bedrock stream

\* ensureBedrockStream: the flag is set before the goroutine runs.
ensureBedrockStream ==
    IF streamActive
    THEN UNCHANGED streamVars
    ELSE /\ started < MaxStreams
         /\ started' = started + 1
         /\ streamActive' = TRUE
         /\ starter' = [starter EXCEPT ![started + 1].pc = "start"]
         /\ UNCHANGED <<stream, open>>

\* OnTrackSubscribed, handleTrackSubscribed: a participant's track appears on
\* a connection.  Its packets go to the mixer from here on and nowhere else.
handleTrackSubscribed(r) ==
    /\ r \in connected
    /\ ensureBedrockStream
    /\ tracks' = tracks \cup {r}
    /\ UNCHANGED <<room, connected, cut, made, drops, joinInFlight, joiner,
                   modelVars, leaveVars>>

TrackEnds(r) ==
    /\ r \in tracks
    /\ tracks' = tracks \ {r}
    /\ UNCHANGED <<room, connected, cut, made, drops, joinInFlight, joiner,
                   streamVars, modelVars, leaveVars>>

\* SendTextMessage's waitForStreamReady, once a join has set app.brClient.
ChatMessage ==
    /\ made > 0
    /\ ensureBedrockStream
    /\ ended' = "no"
    /\ UNCHANGED <<roomVars, modelVars, leave, leaves>>

\* startBedrockStream up to InvokeModelWithBidirectionalStream.
StartBedrockStream(g) ==
    /\ starter[g].pc = "start"
    /\ starter' = [starter EXCEPT ![g].pc = "invoke", ![g].model = modelID]
    /\ UNCHANGED <<roomVars, stream, streamActive, open, started, modelVars, leaveVars>>

\* Mutant: the flag stays set when the stream cannot be opened.
MutantFlagStays(g) ==
    /\ starter[g].pc = "invoke"
    /\ starter' = [starter EXCEPT ![g].pc = "failed"]
    /\ UNCHANGED <<roomVars, stream, streamActive, open, started, modelVars, leaveVars>>

InvokeFails(g) ==
    /\ starter[g].pc = "invoke"
    /\ starter' = [starter EXCEPT ![g].pc = "failed"]
    /\ streamActive' = FALSE
    /\ UNCHANGED <<roomVars, stream, open, started, modelVars, leaveVars>>

\* The new stream becomes app.stream.
Invoke(g) ==
    /\ starter[g].pc = "invoke"
    /\ starter' = [starter EXCEPT ![g].pc = "init"]
    /\ open' = open \cup {g}
    /\ stream' = g
    /\ UNCHANGED <<roomVars, streamActive, started, modelVars, leaveVars>>

\* sendInitSequence, over app.stream, whichever that is by now: it fails if
\* there is none or it is closed.
SendInitSequence(g) ==
    /\ starter[g].pc = "init"
    /\ stream \in open
    /\ starter' = [starter EXCEPT ![g].pc = "output"]
    /\ UNCHANGED <<roomVars, stream, streamActive, open, started, modelVars, leaveVars>>

InitSequenceFails(g) ==
    /\ starter[g].pc = "init"
    /\ stream \notin open
    /\ starter' = [starter EXCEPT ![g].pc = "failed"]
    /\ stream' = None /\ streamActive' = FALSE
    /\ UNCHANGED <<roomVars, open, started, modelVars, leaveVars>>

\* processOutputEvents: reads app.stream until that one is closed.
ProcessOutputEvents(g) ==
    /\ starter[g].pc = "output"
    /\ starter' = [starter EXCEPT ![g].pc = IF stream = None THEN "end" ELSE "read",
                                  ![g].reads = stream]
    /\ UNCHANGED <<roomVars, stream, streamActive, open, started, modelVars, leaveVars>>

OutputCloses(g) ==
    /\ starter[g].pc = "read" /\ starter[g].reads \notin open
    /\ starter' = [starter EXCEPT ![g].pc = "end", ![g].reads = None]
    /\ UNCHANGED <<roomVars, stream, streamActive, open, started, modelVars, leaveVars>>

\* The last section of startBedrockStream.
StreamEnds(g) ==
    /\ starter[g].pc = "end"
    /\ starter' = [starter EXCEPT ![g].pc = "done"]
    /\ stream' = None /\ streamActive' = FALSE
    /\ UNCHANGED <<roomVars, open, started, modelVars, leaveVars>>

\* The renewal timer of a stream, before Bedrock's session limit.
Renew(g) ==
    /\ starter[g].pc \in {"output", "read"}
    /\ stream = g /\ g \in open
    /\ open' = open \ {g}
    /\ UNCHANGED <<roomVars, stream, streamActive, starter, started, modelVars, leaveVars>>

\* Bedrock ends a stream: its session limit or an error.
BedrockCloses(s) ==
    /\ s \in open
    /\ open' = open \ {s}
    /\ UNCHANGED <<roomVars, stream, streamActive, starter, started, modelVars, leaveVars>>

\* SetModel, first section.
SetModel ==
    /\ modelID < MaxSwitches /\ MayHappen /\ ~closing
    /\ modelID' = modelID + 1 /\ closing' = TRUE
    /\ UNCHANGED <<roomVars, streamVars, leaveVars>>

\* Its second section: the stream there is, if any, is closed.
SetModelCloses ==
    /\ closing
    /\ closing' = FALSE
    /\ open' = open \ {stream}
    /\ UNCHANGED <<roomVars, stream, streamActive, starter, started, modelID, leaveVars>>

----------------------------------------------------------------------------
\* LeaveConferenceRoom, when the host ended the meeting

JoinUnderWay ==
    \E j \in AllJoiners : joiner[j].pc \in {"asked", "wait", "dial", "publish"}

LeaveConferenceRoom ==
    /\ leave.pc = "idle" /\ leaves < MaxLeaves /\ MayHappen
    /\ leaves' = leaves + 1
    /\ leave' = [NotLeaving EXCEPT !.pc = "close", !.stream = stream]
    /\ stream' = None /\ streamActive' = FALSE
    /\ ended' = IF JoinUnderWay THEN "busy" ELSE "calm"
    /\ UNCHANGED <<roomVars, open, starter, started, modelVars>>

LeaveClosesStream ==
    /\ leave.pc = "close"
    /\ open' = open \ {leave.stream}
    /\ leave' = [leave EXCEPT !.pc = "room", !.stream = None]
    /\ UNCHANGED <<roomVars, stream, streamActive, starter, started, modelVars,
                   leaves, ended>>

LeaveForgetsRoom ==
    /\ leave.pc = "room"
    /\ leave' = [leave EXCEPT !.pc = "disconnect", !.room = room]
    /\ room' = None
    /\ joinInFlight' = FALSE
    /\ UNCHANGED <<connected, cut, made, drops, joiner, tracks, streamVars,
                   modelVars, leaves, ended>>

LeaveDisconnects ==
    /\ leave.pc = "disconnect"
    /\ leave' = NotLeaving
    /\ connected' = connected \ {leave.room}
    /\ UNCHANGED <<room, cut, made, drops, joinInFlight, joiner, tracks,
                   streamVars, modelVars, leaves, ended>>

----------------------------------------------------------------------------
JoinStep(j) ==
    \/ TriggerJoinAsync(j) \/ JoinConferenceRoom(j) \/ Connects(j) \/ Joined(j)
    \/ JoinFails(j) \/ JoinReturns(j)

StreamStep(g) ==
    \/ StartBedrockStream(g) \/ InvokeFails(g) \/ Invoke(g)
    \/ SendInitSequence(g) \/ InitSequenceFails(g)
    \/ ProcessOutputEvents(g) \/ OutputCloses(g) \/ StreamEnds(g)

LeaveStep == LeaveClosesStream \/ LeaveForgetsRoom \/ LeaveDisconnects

Next ==
    \/ \E j \in Joiners : Ask(j)
    \/ \E j \in AllJoiners : JoinStep(j)
    \/ \E r \in Rooms : Drop(r) \/ markDisconnected(r)
                        \/ handleTrackSubscribed(r) \/ TrackEnds(r)
    \/ ChatMessage
    \/ \E g \in Streams : StreamStep(g) \/ Renew(g) \/ BedrockCloses(g)
    \/ SetModel \/ SetModelCloses
    \/ LeaveConferenceRoom \/ LeaveStep

\* Every goroutine that can go on does; the network calls return, with an
\* error or without.  connectMu is a Go mutex: who waits for it gets it.
Spec ==
    /\ Init /\ [][Next]_vars
    /\ \A j \in AllJoiners : WF_vars(JoinStep(j)) /\ SF_vars(JoinConferenceRoom(j))
    /\ \A g \in Streams : WF_vars(StreamStep(g))
    /\ WF_vars(SetModelCloses) /\ WF_vars(LeaveStep)

----------------------------------------------------------------------------
\* While a flag forbids a second stream, or a second background join, some
\* goroutine is there to clear it again; with the flag set and nobody left the
\* agent would stay deaf, or out of the room, for good (ensureBedrockStream and
\* every return of startBedrockStream, TriggerJoinAsync's deferred reset).
NeverStuck ==
    /\ streamActive => \E g \in Streams : starter[g].pc \notin {"none", "done", "failed"}
    /\ joinInFlight => \E j \in Joiners : joiner[j].pc \notin {"idle", "asked"}

\* A background join ends, and the next one may start (TriggerJoinAsync's
\* deferred reset, connectMu held by another join).
JoinSettles == joinInFlight ~> ~joinInFlight

LeftBehind(why) == leave.pc = "idle" /\ ended \in why /\ ~JoinUnderWay

\* Once the agent was told to leave and nobody has asked for it since, it is
\* in no room, if no join was under way when the leave began
\* (LeaveConferenceRoom disconnects the room that app.room remembers).
LeavesTheRoom == LeftBehind({"calm"}) => connected = {}

\* The same, whatever was under way: "the agent does not linger in the old
\* room" (LeaveConferenceRoom's comment).
NeverLingers == LeftBehind({"calm", "busy"}) => connected = {}

\* Once the agent was told to leave and nobody has asked for it since, no
\* Bedrock stream is open when every goroutine has come to rest
\* (LeaveConferenceRoom "closes the Bedrock stream").
StreamClosedAfterLeave ==
    /\ LeftBehind({"calm", "busy"})
    /\ \A g \in Streams : starter[g].pc \in {"none", "read", "done", "failed"}
    => open = {}

\* While a participant's audio arrives a stream that ended is started again
\* (startBedrockStream: "Bedrock stream ended, will restart on next audio").
RestartsOnAudio ==
    (/\ tracks \cap connected # {} /\ started < MaxStreams
     /\ ~streamActive /\ \E g \in Streams : starter[g].pc = "done")
        ~> (streamActive \/ tracks \cap connected = {})

\* The stream in use runs the model that was selected last, unless SetModel
\* is about to close it (SetModel, startBedrockStream's CurrentModelID).
StreamUsesModel ==
    ~closing /\ stream \in open => starter[stream].model = modelID

=============================================================================
