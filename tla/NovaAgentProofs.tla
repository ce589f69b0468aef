--------------------------- MODULE NovaAgentProofs ---------------------------
(***************************************************************************)
(* Proofs about NovaAgent, for any joins, connections, streams and events. *)
(* That the agent leaves the room is proved for the first meeting that     *)
(* ends, as long as LiveKit cuts no connection: NovaAgentForgets and the   *)
(* joins under way (NovaAgentLingers) show that it need not otherwise.     *)
(***************************************************************************)
EXTENDS NovaAgent, TLAPS

USE StartupAssumption, BoundsAssumption

-----------------------------------------------------------------------------
(* Joining.                                                                *)

JoinRecords == [pc : {"idle", "asked", "wait", "dial", "publish", "return"}, room : Rooms \cup {None}]

\* The room: connections are counted, and connectMu has one holder.
JoinOK ==
    /\ room \in 0 .. made /\ connected \cup cut \subseteq 1 .. made
    /\ made \in 0 .. MaxRooms /\ drops \in 0 .. MaxDrops
    /\ joinInFlight \in BOOLEAN
    /\ joiner \in [AllJoiners -> JoinRecords]
    /\ \A j \in AllJoiners : joiner[j].room \in 0 .. made
    /\ joiner[Startup].pc # "asked"
    /\ \A i, j \in AllJoiners : HoldsConnectMu(i) /\ HoldsConnectMu(j) => i = j
    /\ tracks \subseteq Rooms

LEMMA JoinInit == Init => JoinOK
<1> SUFFICES ASSUME Init
             PROVE  JoinOK
  OBVIOUS
<1>1. Asleep \in JoinRecords /\ [Asleep EXCEPT !.pc = "wait"] \in JoinRecords
  BY DEF Asleep, JoinRecords
<1>2. joiner \in [AllJoiners -> JoinRecords] /\ \A j \in AllJoiners : joiner[j].room = None
  BY <1>1 DEF Init, Asleep
<1>3. \A j \in AllJoiners : ~HoldsConnectMu(j)
  BY DEF Init, Asleep, HoldsConnectMu
<1>6. joiner[Startup].pc # "asked"
  BY DEF Init, Asleep, AllJoiners
<1>4. room = 0 /\ connected = {} /\ cut = {} /\ made = 0 /\ drops = 0 /\ joinInFlight = FALSE /\ tracks = {}
  BY DEF Init, None
<1>5. 0 \in 0 .. MaxRooms /\ 0 \in 0 .. MaxDrops /\ 0 \in 0 .. 0
  OBVIOUS
<1> QED
  BY <1>2, <1>3, <1>4, <1>5, <1>6 DEF JoinOK, None

\* A step of a joining goroutine changes only its own record.
LEMMA JoinStepKeeps ==
    ASSUME JoinOK, NEW j \in AllJoiners, Ask(j) \/ JoinStep(j)
    PROVE  JoinOK'
<1>1. /\ joiner' = [joiner EXCEPT ![j] = joiner'[j]]
      /\ joiner'[j] \in JoinRecords
      /\ made' \in {made, made + 1} /\ made' <= MaxRooms
      /\ joiner'[j].room \in 0 .. made'
  <2>1. joiner \in [AllJoiners -> JoinRecords] /\ made \in 0 .. MaxRooms /\ joiner[j].room \in 0 .. made
    BY DEF JoinOK
  <2>2. CASE Ask(j) \/ TriggerJoinAsync(j) \/ JoinConferenceRoom(j)
    BY <2>1, <2>2 DEF Ask, TriggerJoinAsync, JoinConferenceRoom, JoinRecords
  <2>3. CASE Connects(j)
    BY <2>1, <2>3 DEF Connects, JoinRecords, Rooms
  <2>4. CASE Joined(j) \/ JoinFails(j) \/ JoinReturns(j)
    BY <2>1, <2>4 DEF Joined, JoinFails, JoinReturns, JoinRecords, Asleep, Rooms, None
  <2> QED
    BY <2>2, <2>3, <2>4 DEF JoinStep
<1>2. /\ joiner' \in [AllJoiners -> JoinRecords]
      /\ \A i \in AllJoiners \ {j} : joiner'[i] = joiner[i]
  BY <1>1 DEF JoinOK
<1>3. \A i \in AllJoiners : joiner'[i].room \in 0 .. made'
  BY <1>1, <1>2 DEF JoinOK
<1>4. /\ room' \in 0 .. made' /\ connected' \cup cut' \subseteq 1 .. made'
      /\ drops' = drops /\ joinInFlight' \in BOOLEAN /\ tracks' = tracks
  <2>1. /\ room \in 0 .. made /\ connected \cup cut \subseteq 1 .. made /\ made \in Nat
        /\ joinInFlight \in BOOLEAN /\ joiner[j].room \in 0 .. made
    BY DEF JoinOK
  <2>2. CASE Ask(j) \/ TriggerJoinAsync(j) \/ JoinConferenceRoom(j) \/ JoinReturns(j)
    BY <2>1, <2>2 DEF Ask, TriggerJoinAsync, JoinConferenceRoom, JoinReturns
  <2>3. CASE Connects(j)
    BY <2>1, <2>3 DEF Connects
  <2>4. CASE Joined(j) \/ JoinFails(j)
    BY <2>1, <2>4 DEF Joined, JoinFails
  <2> QED
    BY <2>2, <2>3, <2>4 DEF JoinStep
<1>5. joiner'[j].pc \in {"dial", "publish"} =>
          \A i \in AllJoiners \ {j} : ~HoldsConnectMu(i)
  <2>1. CASE JoinConferenceRoom(j)
    BY <2>1 DEF JoinConferenceRoom
  <2>2. CASE Connects(j)
    BY <2>2 DEF Connects, JoinOK, HoldsConnectMu
  <2>3. CASE Ask(j) \/ TriggerJoinAsync(j) \/ Joined(j) \/ JoinFails(j) \/ JoinReturns(j)
    BY <2>3 DEF JoinOK, Ask, TriggerJoinAsync, Joined, JoinFails, JoinReturns, Asleep, JoinRecords
  <2> QED
    BY <2>1, <2>2, <2>3 DEF JoinStep
<1>6. \A i, k \in AllJoiners : HoldsConnectMu(i)' /\ HoldsConnectMu(k)' => i = k
  BY <1>2, <1>5 DEF JoinOK, HoldsConnectMu
<1>7. joiner'[Startup].pc # "asked"
  <2>1. joiner \in [AllJoiners -> JoinRecords] /\ joiner[Startup].pc # "asked" /\ Startup \in AllJoiners
    BY DEF JoinOK, AllJoiners
  <2>2. CASE Ask(j) \/ TriggerJoinAsync(j) \/ JoinConferenceRoom(j)
    BY <2>1, <2>2, <1>2 DEF Ask, TriggerJoinAsync, JoinConferenceRoom, JoinRecords
  <2>3. CASE Connects(j) \/ Joined(j) \/ JoinFails(j) \/ JoinReturns(j)
    BY <2>1, <2>3, <1>2 DEF Connects, Joined, JoinFails, JoinReturns, JoinRecords, Asleep
  <2> QED
    BY <2>2, <2>3 DEF JoinStep
<1> QED
  BY <1>1, <1>2, <1>3, <1>4, <1>6, <1>7 DEF JoinOK

LEMMA JoinNext == JoinOK /\ [Next]_vars => JoinOK'
<1> SUFFICES ASSUME JoinOK, [Next]_vars
             PROVE  JoinOK'
  OBVIOUS
<1>1. ASSUME NEW j \in AllJoiners, Ask(j) \/ JoinStep(j)
      PROVE  JoinOK'
  BY <1>1, JoinStepKeeps
<1>2. ASSUME NEW r \in Rooms, Drop(r) \/ markDisconnected(r) \/ handleTrackSubscribed(r) \/ TrackEnds(r)
      PROVE  JoinOK'
  <2>1. CASE Drop(r)
    BY <2>1 DEF JoinOK, Drop, HoldsConnectMu
  <2>2. CASE markDisconnected(r)
    BY <2>2 DEF JoinOK, markDisconnected, HoldsConnectMu, None
  <2>3. CASE handleTrackSubscribed(r) \/ TrackEnds(r)
    BY <2>3 DEF JoinOK, handleTrackSubscribed, TrackEnds, HoldsConnectMu
  <2> QED
    BY <1>2, <2>1, <2>2, <2>3
<1>3. CASE LeaveForgetsRoom \/ LeaveDisconnects
  <2>1. /\ room' \in {room, 0} /\ connected' \subseteq connected /\ joinInFlight' \in {joinInFlight, FALSE}
        /\ UNCHANGED <<cut, made, drops, joiner, tracks>>
    BY <1>3 DEF LeaveForgetsRoom, LeaveDisconnects, None
  <2>2. room' \in 0 .. made'
    BY <2>1 DEF JoinOK
  <2> QED
    BY <2>1, <2>2 DEF JoinOK, HoldsConnectMu
<1>4. CASE UNCHANGED roomVars
  BY <1>4 DEF JoinOK, roomVars, HoldsConnectMu
<1>5. ASSUME NEW g \in Streams, StreamStep(g) \/ Renew(g) \/ BedrockCloses(g)
      PROVE  UNCHANGED roomVars
  BY <1>5 DEF StreamStep, Renew, BedrockCloses, StartBedrockStream, InvokeFails, Invoke,
         SendInitSequence, InitSequenceFails, ProcessOutputEvents, OutputCloses, StreamEnds
<1>6. ChatMessage \/ SetModel \/ SetModelCloses \/ LeaveConferenceRoom \/ LeaveClosesStream \/ UNCHANGED vars
          => UNCHANGED roomVars
  BY DEF ChatMessage, SetModel, SetModelCloses, LeaveConferenceRoom, LeaveClosesStream, vars, roomVars
<1> QED
  BY <1>1, <1>2, <1>3, <1>4, <1>5, <1>6 DEF Next, LeaveStep, AllJoiners

-----------------------------------------------------------------------------
(* The stream.                                                             *)

StarterRecords ==
    [pc : {"none", "start", "invoke", "init", "output", "read", "end", "done", "failed"},
     reads : Streams \cup {None}, model : 0 .. MaxSwitches]

\* Streams are opened by the goroutine of their number, once it was started.
StreamOK ==
    /\ stream \in Streams \cup {None} /\ streamActive \in BOOLEAN
    /\ open \cup {stream} \subseteq 0 .. started /\ started \in 0 .. MaxStreams
    /\ starter \in [Streams -> StarterRecords]
    /\ \A g \in Streams : starter[g].pc # "none" => g <= started
    /\ modelID \in 0 .. MaxSwitches /\ closing \in BOOLEAN

LEMMA StreamInit == Init => StreamOK
<1> SUFFICES ASSUME Init
             PROVE  StreamOK
  OBVIOUS
<1>1. NotStarted \in StarterRecords /\ NotStarted.pc = "none"
  BY DEF NotStarted, StarterRecords
<1>2. starter \in [Streams -> StarterRecords] /\ \A g \in Streams : starter[g].pc = "none"
  BY <1>1 DEF Init
<1>3. /\ stream = None /\ streamActive = FALSE /\ open = {} /\ started = 0
      /\ modelID = 0 /\ closing = FALSE
  BY DEF Init
<1>4. 0 \in 0 .. MaxStreams /\ 0 \in 0 .. MaxSwitches /\ 0 \in 0 .. 0
  OBVIOUS
<1> QED
  BY <1>2, <1>3, <1>4 DEF StreamOK, None

LEMMA EnsureKeeps == StreamOK /\ ensureBedrockStream /\ UNCHANGED modelVars => StreamOK'
<1> SUFFICES ASSUME StreamOK, ensureBedrockStream, UNCHANGED modelVars
             PROVE  StreamOK'
  OBVIOUS
<1>1. CASE UNCHANGED streamVars
  BY <1>1 DEF StreamOK, streamVars, modelVars
<1>2. CASE ~streamActive
  <2> DEFINE g == started + 1
  <2>1. /\ started < MaxStreams /\ started' = g /\ streamActive' = TRUE
        /\ starter' = [starter EXCEPT ![g].pc = "start"]
        /\ UNCHANGED <<stream, open>>
    BY <1>2 DEF ensureBedrockStream
  <2>2. started \in 0 .. MaxStreams /\ g \in Streams /\ g \in 0 .. MaxStreams
    BY <2>1 DEF StreamOK, Streams
  <2>3. starter \in [Streams -> StarterRecords]
    BY DEF StreamOK
  <2>4. starter'[g] = [starter[g] EXCEPT !.pc = "start"] /\ starter'[g] \in StarterRecords
    BY <2>1, <2>2, <2>3 DEF StarterRecords
  <2>5. starter' \in [Streams -> StarterRecords] /\ \A h \in Streams \ {g} : starter'[h] = starter[h]
    BY <2>1, <2>2, <2>3, <2>4
  <2>6. \A h \in Streams : starter'[h].pc # "none" => h <= started'
    <3>1. \A h \in Streams : starter[h].pc # "none" => h <= started
      BY DEF StreamOK
    <3> QED
      BY <2>1, <2>2, <2>5, <3>1 DEF Streams
  <2>7. open' \cup {stream'} \subseteq 0 .. started'
    <3>1. open \cup {stream} \subseteq 0 .. started
      BY DEF StreamOK
    <3> QED
      BY <2>1, <2>2, <3>1
  <2> QED
    BY <2>1, <2>2, <2>5, <2>6, <2>7 DEF StreamOK, modelVars
<1> QED
  BY <1>1, <1>2 DEF ensureBedrockStream, StreamOK

LEMMA StreamStepKeeps ==
    ASSUME StreamOK, NEW g \in Streams, StreamStep(g)
    PROVE  StreamOK'
<1> USE DEF StartBedrockStream, InvokeFails, Invoke,
         SendInitSequence, InitSequenceFails, ProcessOutputEvents, OutputCloses, StreamEnds
<1>1. started' = started /\ modelID' = modelID /\ closing' = closing
  BY DEF StreamStep, modelVars
<1>2. /\ starter \in [Streams -> StarterRecords] /\ starter[g] \in StarterRecords
      /\ stream \in Streams \cup {None} /\ modelID \in 0 .. MaxSwitches
    BY DEF StreamOK
<1>3. starter[g].pc # "none"
  BY DEF StreamStep
<1>4. starter' = [starter EXCEPT ![g] = starter'[g]] /\ starter'[g] \in StarterRecords
  <2>1. CASE StartBedrockStream(g)
    BY <1>2, <2>1 DEF StarterRecords
  <2>2. CASE InvokeFails(g) \/ Invoke(g) \/ SendInitSequence(g) \/ InitSequenceFails(g) \/ StreamEnds(g)
    BY <1>2, <2>2 DEF StarterRecords
  <2>3. CASE ProcessOutputEvents(g) \/ OutputCloses(g)
    BY <1>2, <2>3 DEF StarterRecords
  <2> QED
    BY <2>1, <2>2, <2>3 DEF StreamStep
<1>5. starter' \in [Streams -> StarterRecords] /\ \A h \in Streams \ {g} : starter'[h] = starter[h]
  BY <1>2, <1>4
<1>6. \A h \in Streams : starter'[h].pc # "none" => h <= started'
  BY <1>1, <1>3, <1>5 DEF StreamOK
<1>7. open' \subseteq open \cup {g} /\ stream' \in {stream, g, None} /\ streamActive' \in {streamActive, FALSE}
  BY DEF StreamStep
<1>8. g \in 1 .. started
  BY <1>3 DEF StreamOK, Streams
<1>9. stream' \in Streams \cup {None} /\ open' \cup {stream'} \subseteq 0 .. started' /\ streamActive' \in BOOLEAN
  <2>1. started \in Nat /\ open \cup {stream} \subseteq 0 .. started /\ g \in 0 .. started /\ 0 \in 0 .. started
    BY <1>8 DEF StreamOK
  <2>2. open' \subseteq 0 .. started /\ stream' \in 0 .. started
    BY <1>7, <2>1 DEF None
  <2>3. streamActive' \in BOOLEAN
    BY <1>7 DEF StreamOK
  <2> HIDE DEF StartBedrockStream, InvokeFails, Invoke, SendInitSequence, InitSequenceFails,
         ProcessOutputEvents, OutputCloses, StreamEnds
  <2> QED
    BY <1>1, <1>2, <1>7, <2>2, <2>3
<1> QED
  BY <1>1, <1>2, <1>5, <1>6, <1>9 DEF StreamOK

LEMMA StreamNext == StreamOK /\ [Next]_vars => StreamOK'
<1> SUFFICES ASSUME StreamOK, [Next]_vars
             PROVE  StreamOK'
  OBVIOUS
<1>1. CASE ChatMessage \/ \E r \in Rooms : handleTrackSubscribed(r)
  BY <1>1, EnsureKeeps DEF ChatMessage, handleTrackSubscribed
<1>2. ASSUME NEW g \in Streams, StreamStep(g)
      PROVE  StreamOK'
  BY <1>2, StreamStepKeeps
<1>3. CASE SetModel \/ SetModelCloses \/ LeaveConferenceRoom \/ LeaveClosesStream
           \/ \E g \in Streams : Renew(g) \/ BedrockCloses(g)
  <2>1. CASE SetModel
    BY <2>1 DEF StreamOK, SetModel, streamVars
  <2>2. CASE LeaveConferenceRoom
    <3>1. /\ stream' = None /\ streamActive' = FALSE
          /\ UNCHANGED <<open, starter, started, modelID, closing>>
      BY <2>2 DEF LeaveConferenceRoom, modelVars
    <3>2. started \in Nat /\ open \subseteq 0 .. started
      BY DEF StreamOK
    <3>3. open' \cup {stream'} \subseteq 0 .. started'
      BY <3>1, <3>2 DEF None
    <3> QED
      BY <3>1, <3>3 DEF StreamOK
  <2>3. CASE SetModelCloses \/ LeaveClosesStream \/ \E g \in Streams : Renew(g) \/ BedrockCloses(g)
    <3>1. /\ open' \subseteq open /\ closing' \in {closing, FALSE}
          /\ UNCHANGED <<stream, streamActive, starter, started, modelID>>
      BY <2>3 DEF SetModelCloses, LeaveClosesStream, Renew, BedrockCloses, modelVars
    <3> QED
      BY <3>1 DEF StreamOK
  <2> QED
    BY <1>3, <2>1, <2>2, <2>3
<1>4. CASE UNCHANGED <<streamVars, modelVars>>
  BY <1>4 DEF StreamOK, streamVars, modelVars
<1>5. ASSUME NEW j \in AllJoiners, Ask(j) \/ JoinStep(j)
      PROVE  UNCHANGED <<streamVars, modelVars>>
  BY <1>5 DEF Ask, JoinStep, TriggerJoinAsync, JoinConferenceRoom, Connects, Joined, JoinFails, JoinReturns
<1>6. ASSUME NEW r \in Rooms, Drop(r) \/ markDisconnected(r) \/ TrackEnds(r)
      PROVE  UNCHANGED <<streamVars, modelVars>>
  BY <1>6 DEF Drop, markDisconnected, TrackEnds
<1>7. LeaveForgetsRoom \/ LeaveDisconnects \/ UNCHANGED vars => UNCHANGED <<streamVars, modelVars>>
  BY DEF LeaveForgetsRoom, LeaveDisconnects, vars, streamVars, modelVars
<1> QED
  BY <1>1, <1>2, <1>3, <1>4, <1>5, <1>6, <1>7 DEF Next, LeaveStep, AllJoiners

-----------------------------------------------------------------------------
(* Leaving.                                                                *)

LeaveRecords ==
    [pc : {"idle", "close", "room", "disconnect"}, stream : Streams \cup {None}, room : Rooms \cup {None}]

LeaveOK ==
    /\ leave \in LeaveRecords
    /\ leaves \in 0 .. MaxLeaves
    /\ ended \in {"no", "calm", "busy"}

LEMMA LeaveInit == Init => LeaveOK
BY DEF Init, LeaveOK, LeaveRecords, NotLeaving, None

LEMMA LeaveNext == JoinOK /\ StreamOK /\ LeaveOK /\ [Next]_vars => LeaveOK'
<1> SUFFICES ASSUME JoinOK, StreamOK, LeaveOK, [Next]_vars
             PROVE  LeaveOK'
  OBVIOUS
<1>1. CASE LeaveConferenceRoom
  <2>1. leave' = [NotLeaving EXCEPT !.pc = "close", !.stream = stream] /\ stream \in Streams \cup {None}
    BY <1>1 DEF LeaveConferenceRoom, StreamOK
  <2>2. leave' \in LeaveRecords
    BY <2>1 DEF NotLeaving, LeaveRecords
  <2>3. leaves' \in 0 .. MaxLeaves /\ ended' \in {"no", "calm", "busy"}
    BY <1>1 DEF LeaveConferenceRoom, LeaveOK
  <2> QED
    BY <2>2, <2>3 DEF LeaveOK
<1>2. CASE LeaveStep
  <2>1. room \in Rooms \cup {None}
    BY DEF JoinOK, Rooms, None
  <2>2. leave' \in LeaveRecords
    <3>1. NotLeaving \in LeaveRecords /\ leave \in LeaveRecords
      BY DEF NotLeaving, LeaveRecords, LeaveOK
    <3>2. CASE LeaveClosesStream
      BY <3>1, <3>2 DEF LeaveClosesStream, LeaveRecords
    <3>3. CASE LeaveForgetsRoom
      BY <2>1, <3>1, <3>3 DEF LeaveForgetsRoom, LeaveRecords
    <3>4. CASE LeaveDisconnects
      BY <3>1, <3>4 DEF LeaveDisconnects
    <3> QED
      BY <1>2, <3>2, <3>3, <3>4 DEF LeaveStep
  <2> QED
    BY <1>2, <2>2 DEF LeaveOK, LeaveStep, LeaveClosesStream, LeaveForgetsRoom, LeaveDisconnects
<1>3. CASE leave' = leave /\ leaves' = leaves /\ ended' \in {"no", ended}
  BY <1>3 DEF LeaveOK
<1>4. ASSUME NEW j \in AllJoiners, Ask(j) \/ JoinStep(j)
      PROVE  leave' = leave /\ leaves' = leaves /\ ended' \in {"no", ended}
  BY <1>4 DEF Ask, JoinStep, TriggerJoinAsync, JoinConferenceRoom, Connects, Joined, JoinFails,
         JoinReturns, leaveVars
<1>5. ASSUME NEW r \in Rooms, Drop(r) \/ markDisconnected(r) \/ handleTrackSubscribed(r) \/ TrackEnds(r)
      PROVE  leave' = leave /\ leaves' = leaves /\ ended' \in {"no", ended}
  BY <1>5 DEF Drop, markDisconnected, handleTrackSubscribed, TrackEnds, leaveVars
<1>6. ASSUME NEW g \in Streams, StreamStep(g) \/ Renew(g) \/ BedrockCloses(g)
      PROVE  leave' = leave /\ leaves' = leaves /\ ended' \in {"no", ended}
  BY <1>6 DEF StreamStep, Renew, BedrockCloses, StartBedrockStream, InvokeFails, Invoke,
         SendInitSequence, InitSequenceFails, ProcessOutputEvents, OutputCloses, StreamEnds, leaveVars
<1>7. ChatMessage \/ SetModel \/ SetModelCloses \/ UNCHANGED vars
          => leave' = leave /\ leaves' = leaves /\ ended' \in {"no", ended}
  BY DEF ChatMessage, SetModel, SetModelCloses, vars, leaveVars
<1> QED
  BY <1>1, <1>2, <1>3, <1>4, <1>5, <1>6, <1>7 DEF Next, AllJoiners

TypesOK == JoinOK /\ StreamOK /\ LeaveOK

LEMMA TypesInvariant == Spec => []TypesOK
<1>1. Init => TypesOK
  BY JoinInit, StreamInit, LeaveInit DEF TypesOK
<1>2. TypesOK /\ [Next]_vars => TypesOK'
  BY JoinNext, StreamNext, LeaveNext DEF TypesOK
<1> QED
  BY <1>1, <1>2, PTL DEF Spec

\* However joins, cuts, streams and leaves interleave, one join at a time holds
\* connectMu, and what the agent remembers are connections and streams that were
\* made (JoinConferenceRoom, startBedrockStream).
THEOREM AgentTypes == Spec => []TypeOK
<1>1. TypesOK => TypeOK
  BY DEF TypesOK, JoinOK, StreamOK, LeaveOK, TypeOK, JoinRecords, StarterRecords, LeaveRecords
<1> QED
  BY <1>1, TypesInvariant, PTL

-----------------------------------------------------------------------------
(* The flags.                                                              *)

Busy(g) == starter[g].pc \notin {"none", "done", "failed"}
Joining(j) == joiner[j].pc \notin {"idle", "asked"}

LEMMA StreamFlag ==
    ASSUME TypesOK, NeverStuck, [Next]_vars, streamActive'
    PROVE  \E g \in Streams : Busy(g)'
<1>1. starter \in [Streams -> StarterRecords] /\ started \in Nat
  BY DEF TypesOK, StreamOK
<1>2. streamActive => \E g \in Streams : Busy(g)
  BY DEF NeverStuck, Busy
<1>3. CASE UNCHANGED <<starter, streamActive>>
  BY <1>2, <1>3 DEF Busy
<1>4. ASSUME ensureBedrockStream
      PROVE  \E g \in Streams : Busy(g)'
  <2>1. CASE streamActive
    BY <1>2, <1>4, <2>1 DEF ensureBedrockStream, streamVars, Busy
  <2>2. CASE ~streamActive
    <3>1. started < MaxStreams /\ starter' = [starter EXCEPT ![started + 1].pc = "start"]
      BY <1>4, <2>2 DEF ensureBedrockStream
    <3>2. started + 1 \in Streams
      BY <1>1, <3>1 DEF Streams
    <3>3. starter'[started + 1].pc = "start"
      BY <1>1, <3>1, <3>2 DEF StarterRecords
    <3>4. \A h \in Streams : h = started + 1 => Busy(h)'
      BY <3>3 DEF Busy
    <3> QED
      BY <3>2, <3>4
  <2> QED
    BY <2>1, <2>2
<1>5. ASSUME NEW g \in Streams, StreamStep(g)
      PROVE  \E h \in Streams : Busy(h)'
  <2>1. ~InvokeFails(g) /\ ~InitSequenceFails(g) /\ ~StreamEnds(g)
    BY DEF InvokeFails, InitSequenceFails, StreamEnds
  <2>2. CASE StartBedrockStream(g)
    <3>1. starter'[g].pc = "invoke"
      BY <1>1, <2>2 DEF StartBedrockStream, StarterRecords
    <3> QED
      BY <3>1 DEF Busy
  <2>3. CASE Invoke(g)
    <3>1. starter'[g].pc = "init"
      BY <1>1, <2>3 DEF Invoke, StarterRecords
    <3> QED
      BY <3>1 DEF Busy
  <2>4. CASE SendInitSequence(g)
    <3>1. starter'[g].pc = "output"
      BY <1>1, <2>4 DEF SendInitSequence, StarterRecords
    <3> QED
      BY <3>1 DEF Busy
  <2>5. CASE ProcessOutputEvents(g)
    <3>1. starter'[g].pc \in {"end", "read"}
      BY <1>1, <2>5 DEF ProcessOutputEvents, StarterRecords
    <3> QED
      BY <3>1 DEF Busy
  <2>6. CASE OutputCloses(g)
    <3>1. starter'[g].pc = "end"
      BY <1>1, <2>6 DEF OutputCloses, StarterRecords
    <3> QED
      BY <3>1 DEF Busy
  <2> QED
    BY <1>5, <2>1, <2>2, <2>3, <2>4, <2>5, <2>6 DEF StreamStep
<1>6. ASSUME NEW j \in AllJoiners, Ask(j) \/ JoinStep(j)
      PROVE  UNCHANGED <<starter, streamActive>>
  BY <1>6 DEF Ask, JoinStep, TriggerJoinAsync, JoinConferenceRoom, Connects, Joined, JoinFails,
         JoinReturns, streamVars
<1>7. ASSUME NEW r \in Rooms, Drop(r) \/ markDisconnected(r) \/ TrackEnds(r)
      PROVE  UNCHANGED <<starter, streamActive>>
  BY <1>7 DEF Drop, markDisconnected, TrackEnds, streamVars
<1>8. ASSUME NEW g \in Streams, Renew(g) \/ BedrockCloses(g)
      PROVE  UNCHANGED <<starter, streamActive>>
  BY <1>8 DEF Renew, BedrockCloses
<1>9. SetModel \/ SetModelCloses \/ LeaveStep \/ UNCHANGED vars => UNCHANGED <<starter, streamActive>>
  BY DEF SetModel, SetModelCloses, LeaveStep, LeaveClosesStream, LeaveForgetsRoom, LeaveDisconnects,
         vars, streamVars
<1>10. ~LeaveConferenceRoom
  BY DEF LeaveConferenceRoom
<1> QED
  BY <1>3, <1>4, <1>5, <1>6, <1>7, <1>8, <1>9, <1>10 DEF Next, ChatMessage, handleTrackSubscribed, AllJoiners

LEMMA JoinFlag ==
    ASSUME TypesOK, NeverStuck, [Next]_vars, joinInFlight'
    PROVE  \E j \in Joiners : Joining(j)'
<1>1. joiner \in [AllJoiners -> JoinRecords]
  BY DEF TypesOK, JoinOK
<1>2. joinInFlight => \E j \in Joiners : Joining(j)
  BY DEF NeverStuck, Joining
<1>3. CASE joiner' = joiner /\ (joinInFlight' => joinInFlight)
  BY <1>2, <1>3 DEF Joining
<1>4. ASSUME NEW j \in AllJoiners, Ask(j) \/ JoinStep(j)
      PROVE  \E k \in Joiners : Joining(k)'
  <2>1. joiner' = [joiner EXCEPT ![j] = joiner'[j]]
    BY <1>1, <1>4 DEF Ask, JoinStep, TriggerJoinAsync, JoinConferenceRoom, Connects, Joined, JoinFails,
         JoinReturns, JoinRecords, Asleep
  <2>2. \A k \in AllJoiners \ {j} : joiner'[k] = joiner[k]
    BY <1>1, <2>1
  <2>3. CASE Ask(j)
    <3>1. joinInFlight /\ ~Joining(j)
      BY <2>3 DEF Ask, Joining
    <3> QED
      BY <1>2, <2>2, <3>1 DEF Joining, AllJoiners
  <2>4. CASE TriggerJoinAsync(j)
    <3>1. joiner'[j].pc = IF joinInFlight THEN "idle" ELSE "wait"
      BY <1>1, <2>4 DEF TriggerJoinAsync, JoinRecords
    <3>2. j # Startup /\ ~Joining(j)
      BY <2>4 DEF TriggerJoinAsync, Joining, TypesOK, JoinOK
    <3> QED
      BY <1>2, <2>2, <3>1, <3>2 DEF Joining, AllJoiners
  <2>5. CASE JoinReturns(j)
    <3>1. j = Startup /\ joinInFlight
      BY <2>5 DEF JoinReturns
    <3> QED
      BY <1>2, <2>2, <3>1 DEF Joining, AllJoiners
  <2>6. CASE JoinConferenceRoom(j) \/ Connects(j) \/ Joined(j) \/ JoinFails(j)
    <3>1. joinInFlight
      <4>1. joinInFlight' = joinInFlight /\ joinInFlight \in BOOLEAN
        BY <2>6 DEF JoinConferenceRoom, Connects, Joined, JoinFails, TypesOK, JoinOK
      <4> QED
        BY <4>1, SMT
    <3>2. joiner'[j].pc \in {"wait", "dial", "publish", "return"}
      <4>1. CASE JoinConferenceRoom(j)
        BY <1>1, <4>1 DEF JoinConferenceRoom, JoinRecords
      <4>2. CASE Connects(j)
        BY <1>1, <4>2 DEF Connects
      <4>3. CASE Joined(j)
        BY <1>1, <4>3 DEF Joined, Asleep
      <4>4. CASE JoinFails(j)
        BY <1>1, <4>4 DEF JoinFails, Asleep
      <4> QED
        BY <2>6, <4>1, <4>2, <4>3, <4>4
    <3> QED
      BY <1>2, <2>2, <3>1, <3>2 DEF Joining, AllJoiners
  <2> QED
    BY <1>4, <2>3, <2>4, <2>5, <2>6 DEF JoinStep
<1>5. ASSUME NEW r \in Rooms, Drop(r) \/ markDisconnected(r) \/ handleTrackSubscribed(r) \/ TrackEnds(r)
      PROVE  UNCHANGED <<joiner, joinInFlight>>
  BY <1>5 DEF Drop, markDisconnected, handleTrackSubscribed, TrackEnds
<1>6. ASSUME NEW g \in Streams, StreamStep(g) \/ Renew(g) \/ BedrockCloses(g)
      PROVE  UNCHANGED <<joiner, joinInFlight>>
  BY <1>6 DEF StreamStep, Renew, BedrockCloses, StartBedrockStream, InvokeFails, Invoke,
         SendInitSequence, InitSequenceFails, ProcessOutputEvents, OutputCloses, StreamEnds, roomVars
<1>7. ChatMessage \/ SetModel \/ SetModelCloses \/ LeaveConferenceRoom \/ LeaveStep \/ UNCHANGED vars
          => joiner' = joiner /\ (joinInFlight' => joinInFlight)
  BY DEF ChatMessage, SetModel, SetModelCloses, LeaveConferenceRoom, LeaveStep, LeaveClosesStream,
         LeaveForgetsRoom, LeaveDisconnects, vars, roomVars
<1> QED
  BY <1>3, <1>4, <1>5, <1>6, <1>7 DEF Next, AllJoiners

\* Whatever fails and whoever leaves: a flag that forbids a second stream, or a
\* second background join, has a goroutine that will clear it
\* (ensureBedrockStream, TriggerJoinAsync).
THEOREM FlagsHaveOwners == Spec => []NeverStuck
<1>1. Init => NeverStuck
  BY DEF Init, NeverStuck
<1>2. TypesOK /\ NeverStuck /\ [Next]_vars => NeverStuck'
  BY StreamFlag, JoinFlag DEF NeverStuck, Busy, Joining
<1> QED
  BY <1>1, <1>2, TypesInvariant, PTL DEF Spec

-----------------------------------------------------------------------------
(* Leaving the room.                                                       *)

\* Nothing was cut, and no more than one meeting has ended.
FirstLeave == drops = 0 /\ leaves <= 1

\* Until a meeting ends LiveKit holds the connection the agent remembers, or the
\* one being made, and none while one is dialled.
BeforeLeave ==
    /\ leave.pc = "idle" /\ ended = "no" /\ cut = {}
    /\ \A j \in AllJoiners :
          /\ joiner[j].pc = "dial" => connected = {}
          /\ joiner[j].pc = "publish" => connected \subseteq {joiner[j].room}
    /\ (\A j \in AllJoiners : ~HoldsConnectMu(j)) => connected \subseteq {room}

\* After a calm end nobody joins, and what is connected is on its way out.
AfterLeave ==
    ended = "calm" =>
        /\ cut = {}
        /\ \A j \in AllJoiners : joiner[j].pc \in {"idle", "return"}
        /\ leave.pc \in {"close", "room"} => connected \subseteq {room}
        /\ leave.pc = "disconnect" => connected \subseteq {leave.room}
        /\ leave.pc = "idle" => connected = {}

LeaveInv ==
    FirstLeave => /\ leaves = 0 => BeforeLeave
                  /\ leaves = 1 => AfterLeave

LEMMA BeforeJoinStep ==
    ASSUME TypesOK, BeforeLeave, NEW j \in AllJoiners, Ask(j) \/ JoinStep(j)
    PROVE  BeforeLeave'
<1>1. /\ joiner \in [AllJoiners -> JoinRecords]
      /\ connected \subseteq 1 .. made /\ made \in Nat
      /\ \A i, k \in AllJoiners : HoldsConnectMu(i) /\ HoldsConnectMu(k) => i = k
  BY DEF TypesOK, JoinOK
<1>2. joiner' = [joiner EXCEPT ![j] = joiner'[j]]
  BY <1>1 DEF Ask, JoinStep, TriggerJoinAsync, JoinConferenceRoom, Connects, Joined, JoinFails,
       JoinReturns, JoinRecords, Asleep
<1>3. \A k \in AllJoiners \ {j} : joiner'[k] = joiner[k]
  BY <1>1, <1>2
<1>4. leave' = leave /\ ended' \in {"no", ended}
  BY DEF Ask, JoinStep, TriggerJoinAsync, JoinConferenceRoom, Connects, Joined, JoinFails,
       JoinReturns, leaveVars
<1>5. CASE Ask(j) \/ TriggerJoinAsync(j) \/ JoinReturns(j)
  <2>1. UNCHANGED <<room, connected, cut>>
    BY <1>5 DEF Ask, TriggerJoinAsync, JoinReturns
  <2>2. joiner[j].pc \notin {"dial", "publish"} /\ joiner'[j].pc \notin {"dial", "publish"}
    BY <1>1, <1>5 DEF Ask, TriggerJoinAsync, JoinReturns, JoinRecords, Asleep
  <2> QED
    BY <1>3, <1>4, <2>1, <2>2 DEF BeforeLeave, HoldsConnectMu
<1>6. CASE JoinConferenceRoom(j)
  <2>1. /\ UNCHANGED <<room, connected, cut>>
        /\ \A i \in AllJoiners : ~HoldsConnectMu(i)
        /\ joiner'[j].pc = IF IsConnected THEN "return" ELSE "dial"
    BY <1>1, <1>6 DEF JoinConferenceRoom, JoinRecords
  <2>2. connected \subseteq {room} /\ (~IsConnected => connected = {})
    BY <1>1, <2>1 DEF BeforeLeave, IsConnected, None
  <2> QED
    BY <1>3, <1>4, <2>1, <2>2 DEF BeforeLeave, HoldsConnectMu
<1>7. CASE Connects(j)
  <2>1. /\ connected' = {made + 1} /\ cut' = cut \cup connected
        /\ joiner'[j] = [pc |-> "publish", room |-> made + 1]
        /\ joiner[j].pc = "dial"
    BY <1>1, <1>7 DEF Connects
  <2>2. cut' = {} /\ \A i \in AllJoiners \ {j} : ~HoldsConnectMu(i)
    BY <1>1, <2>1 DEF BeforeLeave, HoldsConnectMu
  <2> QED
    BY <1>3, <1>4, <2>1, <2>2 DEF BeforeLeave, HoldsConnectMu
<1>8. CASE Joined(j)
  <2>1. /\ room' = joiner[j].room /\ connected' = connected /\ cut' = cut
        /\ joiner[j].pc = "publish" /\ joiner'[j].pc = "return"
    BY <1>1, <1>8 DEF Joined, Asleep
  <2>2. connected' \subseteq {room'} /\ \A i \in AllJoiners \ {j} : ~HoldsConnectMu(i)
    BY <1>1, <2>1 DEF BeforeLeave, HoldsConnectMu
  <2> QED
    BY <1>3, <1>4, <2>1, <2>2 DEF BeforeLeave, HoldsConnectMu
<1>9. CASE JoinFails(j)
  <2>1. /\ connected' = connected \ {joiner[j].room} /\ cut' = cut /\ room' = room
        /\ joiner'[j].pc \in {"wait", "return"} /\ HoldsConnectMu(j)
    BY <1>1, <1>9 DEF JoinFails, Asleep
  <2>2. connected' = {} /\ \A i \in AllJoiners \ {j} : ~HoldsConnectMu(i)
    BY <1>1, <2>1 DEF BeforeLeave, HoldsConnectMu
  <2> QED
    BY <1>3, <1>4, <2>1, <2>2 DEF BeforeLeave, HoldsConnectMu
<1> QED
  BY <1>5, <1>6, <1>7, <1>8, <1>9 DEF JoinStep

LEMMA AfterJoinStep ==
    ASSUME TypesOK, AfterLeave, NEW j \in AllJoiners, Ask(j) \/ JoinStep(j)
    PROVE  AfterLeave'
<1>1. CASE ended' # "calm"
  BY <1>1 DEF AfterLeave
<1>2. CASE ended' = "calm"
  <2>1. ended = "calm" /\ leave' = leave
    BY <1>2 DEF Ask, JoinStep, TriggerJoinAsync, JoinConferenceRoom, Connects, Joined, JoinFails,
         JoinReturns, leaveVars
  <2>2. joiner[j].pc \in {"idle", "return"}
    BY <2>1 DEF AfterLeave
  <2>3. JoinReturns(j)
    BY <1>2, <2>2 DEF Ask, JoinStep, TriggerJoinAsync, JoinConferenceRoom, Connects, Joined, JoinFails,
         HoldsConnectMu
  <2>4. /\ joiner' = [joiner EXCEPT ![j] = Asleep]
        /\ UNCHANGED <<room, connected, cut>>
    BY <2>3 DEF JoinReturns
  <2>5. \A i \in AllJoiners : joiner'[i].pc \in {"idle", "return"}
    BY <2>1, <2>4 DEF AfterLeave, Asleep, TypesOK, JoinOK
  <2> QED
    BY <2>1, <2>4, <2>5 DEF AfterLeave
<1> QED
  BY <1>1, <1>2

LEMMA LeaveInvNext == TypesOK /\ LeaveInv /\ [Next]_vars => LeaveInv'
<1> SUFFICES ASSUME TypesOK, LeaveInv, [Next]_vars, FirstLeave'
             PROVE  (leaves' = 0 => BeforeLeave') /\ (leaves' = 1 => AfterLeave')
  BY DEF LeaveInv
<1>1. ASSUME NEW j \in AllJoiners, Ask(j) \/ JoinStep(j)
      PROVE  (leaves' = 0 => BeforeLeave') /\ (leaves' = 1 => AfterLeave')
  <2>1. drops' = drops /\ leaves' = leaves
    BY <1>1 DEF Ask, JoinStep, TriggerJoinAsync, JoinConferenceRoom, Connects, Joined, JoinFails,
         JoinReturns, leaveVars
  <2> QED
    BY <1>1, <2>1, BeforeJoinStep, AfterJoinStep DEF LeaveInv, FirstLeave
<1>2. ASSUME NEW r \in Rooms, Drop(r)
      PROVE  FALSE
  BY <1>2 DEF Drop, FirstLeave, TypesOK, JoinOK
<1>3. ASSUME NEW r \in Rooms, markDisconnected(r)
      PROVE  (leaves' = 0 => BeforeLeave') /\ (leaves' = 1 => AfterLeave')
  <2>1. r \in cut /\ leaves' = leaves /\ ended' = ended /\ drops' = drops
    BY <1>3 DEF markDisconnected, leaveVars
  <2>2. leaves # 0 /\ (leaves = 1 => ended # "calm")
    BY <2>1 DEF LeaveInv, FirstLeave, BeforeLeave, AfterLeave
  <2> QED
    BY <2>1, <2>2 DEF AfterLeave
<1>4. CASE UNCHANGED <<room, connected, cut, joiner, drops, leave, leaves>> /\ ended' \in {"no", ended}
  BY <1>4 DEF LeaveInv, FirstLeave, BeforeLeave, AfterLeave, HoldsConnectMu
<1>5. ASSUME NEW r \in Rooms, handleTrackSubscribed(r) \/ TrackEnds(r)
      PROVE  UNCHANGED <<room, connected, cut, joiner, drops, leave, leaves>> /\ ended' \in {"no", ended}
  BY <1>5 DEF handleTrackSubscribed, TrackEnds, leaveVars
<1>6. ASSUME NEW g \in Streams, StreamStep(g) \/ Renew(g) \/ BedrockCloses(g)
      PROVE  UNCHANGED <<room, connected, cut, joiner, drops, leave, leaves>> /\ ended' \in {"no", ended}
  BY <1>6 DEF StreamStep, Renew, BedrockCloses, StartBedrockStream, InvokeFails, Invoke,
         SendInitSequence, InitSequenceFails, ProcessOutputEvents, OutputCloses, StreamEnds,
         roomVars, leaveVars
<1>7. ChatMessage \/ SetModel \/ SetModelCloses \/ UNCHANGED vars
          => UNCHANGED <<room, connected, cut, joiner, drops, leave, leaves>> /\ ended' \in {"no", ended}
  BY DEF ChatMessage, SetModel, SetModelCloses, vars, roomVars, leaveVars
<1>8. CASE LeaveConferenceRoom
  <2>1. /\ leaves' = leaves + 1 /\ leave'.pc = "close"
        /\ ended' = IF JoinUnderWay THEN "busy" ELSE "calm"
        /\ UNCHANGED <<room, connected, cut, joiner, drops>>
    BY <1>8 DEF LeaveConferenceRoom, NotLeaving, roomVars
  <2>2. leaves = 0 /\ leaves' = 1
    BY <2>1 DEF FirstLeave, TypesOK, LeaveOK
  <2>3. BeforeLeave
    BY <2>1, <2>2 DEF LeaveInv, FirstLeave
  <2>4. CASE JoinUnderWay
    BY <2>1, <2>2, <2>4 DEF AfterLeave
  <2>5. CASE ~JoinUnderWay
    <3>1. \A j \in AllJoiners : joiner[j].pc \in {"idle", "return"}
      BY <2>5 DEF JoinUnderWay, TypesOK, JoinOK, JoinRecords
    <3>2. connected \subseteq {room} /\ cut = {}
      BY <2>3, <3>1 DEF BeforeLeave, HoldsConnectMu
    <3> QED
      BY <2>1, <2>2, <3>1, <3>2 DEF AfterLeave
  <2> QED
    BY <2>4, <2>5
<1>9. CASE LeaveStep
  <2>1. /\ UNCHANGED <<cut, drops, joiner, leaves, ended>>
        /\ leave.pc # "idle"
    BY <1>9 DEF LeaveStep, LeaveClosesStream, LeaveForgetsRoom, LeaveDisconnects, roomVars
  <2>2. leaves = 1 /\ AfterLeave
    BY <2>1 DEF LeaveInv, FirstLeave, TypesOK, LeaveOK, BeforeLeave
  <2>3. CASE LeaveClosesStream
    <3>1. leave.pc = "close" /\ leave'.pc = "room" /\ UNCHANGED <<room, connected>>
      BY <2>3 DEF LeaveClosesStream, roomVars, TypesOK, LeaveOK, LeaveRecords
    <3> QED
      BY <2>1, <2>2, <3>1 DEF AfterLeave
  <2>4. CASE LeaveForgetsRoom
    <3>1. leave.pc = "room" /\ leave'.pc = "disconnect" /\ leave'.room = room /\ connected' = connected
      BY <2>4 DEF LeaveForgetsRoom, TypesOK, LeaveOK, LeaveRecords
    <3> QED
      BY <2>1, <2>2, <3>1 DEF AfterLeave
  <2>5. CASE LeaveDisconnects
    <3>1. leave.pc = "disconnect" /\ leave'.pc = "idle" /\ connected' = connected \ {leave.room}
      BY <2>5 DEF LeaveDisconnects, NotLeaving
    <3> QED
      BY <2>1, <2>2, <3>1 DEF AfterLeave
  <2> QED
    BY <1>9, <2>3, <2>4, <2>5 DEF LeaveStep
<1> QED
  BY <1>1, <1>2, <1>3, <1>4, <1>5, <1>6, <1>7, <1>8, <1>9 DEF Next, AllJoiners

LEMMA LeaveInvInit == Init => LeaveInv
<1> SUFFICES ASSUME Init
             PROVE  BeforeLeave /\ leaves = 0
  BY DEF LeaveInv
<1>1. connected = {} /\ cut = {} /\ leave.pc = "idle" /\ ended = "no" /\ leaves = 0
  BY DEF Init, NotLeaving
<1> QED
  BY <1>1 DEF BeforeLeave

\* Whatever the joins before it did, the first end of a meeting that finds no
\* join under way takes the agent out of the room, as long as LiveKit has cut no
\* connection (LeaveConferenceRoom).
THEOREM LeavesWhenCalm == Spec => [](FirstLeave => LeavesTheRoom)
<1>1. TypesOK /\ LeaveInv => (FirstLeave => LeavesTheRoom)
  BY DEF LeaveInv, FirstLeave, BeforeLeave, AfterLeave, LeavesTheRoom, LeftBehind, TypesOK, LeaveOK
<1>2. Spec => []LeaveInv
  BY LeaveInvInit, LeaveInvNext, TypesInvariant, PTL DEF Spec
<1> QED
  BY <1>1, <1>2, TypesInvariant, PTL

=============================================================================
