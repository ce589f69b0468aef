# Verification of Auto Bot's server

TLA+ specifications of `cmd/server`, the Go server of Auto Bot: a meeting with
a shared board, a voice agent that changes the board by tool calls, and Jira
behind it. TLC checks the specifications on small instances; TLAPS proves most
of their invariants, and the refinement among them, for every instance.

    tlc -workers 2 -config ConfirmationsGates.cfg ConfirmationsMC.tla
    tlapm ConfirmationsProofs.tla

and in the same way for the other modules of sections 2 and 3.

`PROJECT.json` lists the components, the runs, the source lines each
definition stands for, the hazards and the theorems. All paths below are in
`src/cmd/server/` unless they say otherwise.

## 1. The system and its components

One process serves HTTP and WebSocket clients, holds the board in memory and
in SQLite, takes part in a LiveKit room and streams audio to a Bedrock voice
model whose tool calls it executes. Concurrency is goroutines and mutexes:
`board.mu`, `meetingAccess.mu`, `authStore.mu`, and the voice app's `mu`,
`streamMu`, `connectMu`. The recurring difficulty is that no handler holds two
of these at once: it reads under one, releases it, and acts under another.

| component | state | operations | talks to | what makes it correct |
|---|---|---|---|---|
| **Confirmation gate** (`meeting_intelligence.go`, gates in `main.go`, `nova_sonic.go`) | `pendingConfirmations`: tool, requester, two minutes to live | stage, confirm, cancel, prune | meeting access (host?), board (execute) | only a caller who may resolves an action; each runs at most once, never late, never lost |
| **Meeting access and sessions** (`meeting_access.go`, `auth.go`) | active meeting, join code, member sessions; session store | setup, join, leave, switch type, login, logout, expiry | board (meeting started or ended) | memberships backed by sessions, distinct names, a meeting's end revokes its participants |
| **Board mutations and store** (`board.go`, `meeting_intelligence.go`, `board_store.go`) | cards, sequence number, audit history; SQLite snapshot and ledger | apply a tool call, record, save, attach external results, undo, reload | Jira, store | what was answered stays explained; undo takes back its target; reload finds the board |
| **Voice agent connections** (`nova_sonic.go`, `voice_models.go`) | LiveKit room, Bedrock stream, flags for a join or a stream under way | join, leave, start, renew, restart, switch model | LiveKit, Bedrock | never deaf for good, never left in a room after the meeting |
| **Jira synchronisation** (`jira*.go`) | card ids and aliases, last refresh, conflicts | refresh, write through, resolve, webhook | Jira, board | no local change is overwritten silently, no two cards for one issue |
| **Voice tool principals** (`nova_sonic.go`, `chat_messages.go`) | active speakers, last speaker, chat turns, handled call ids | attribute a tool call | confirmation gate | a call is attributed to who said it or to nobody |
| **Tool dispatch and ticket tools** (`board.go`, `scrum_tools.go`, `guardrails.go`) | cards | some 40 tools | board | arguments checked before anything changes |
| **Agent runs** (`agent_runs.go`, `bedrock_agents.go`, `github_app.go`) | the last 50 runs | assign, start, fail, finish | Bedrock, GitHub, board | a run ends in a final state |
| **Output pacing and mixing** (`nova_sonic_output.go`, `nova_sonic_mixer.go`, `room_audio.go`) | bounded audio queues | enqueue, tick, reset | LiveKit, Bedrock | bounded delay, one frame a tick |
| **Rate limiting** (`rate_limiter.go`) | window and count per client | allow | HTTP | the limit |
| **Meeting lifecycle and reports** (`scrum_tools.go`, `meeting_report*.go`) | the board's meeting, archived reports | start, end, archive | board | one meeting at a time, a report for each |
| **Chat** (`chat_messages.go`), **identity** (`alb_oidc.go`, `cf_access.go`), **HTTP** (`main.go`, `workspace.go`), **local operation** (`aws_refresh.go`), **codecs**, **audit log**, **web pages** | little or none | text, cryptography, I/O | | |
| **Extension contracts** (`src/internal/core`, `src/internal/mocks`) | an in-memory ledger used by tests | append, list | | ordered, copied entries |

The behaviours that are hard to test are listed as hazards in `PROJECT.json`,
each at its line: decisions made in one lock section and used in another,
writes to SQLite after the lock is released, callbacks of connections that are
no longer current, flags that only one goroutine may clear, restarts that
forget what is kept in memory only.

## 2. Modules

| module | models | checked by | proved in |
|---|---|---|---|
| `Confirmations` | confirmation gate | `ConfirmationsMC` | `ConfirmationsProofs` |
| `MeetingAccess` | meeting access and sessions | `MeetingAccessMC` | `MeetingAccessProofs` |
| `BoardStore` | how any tool call is applied, recorded, saved, undone, reloaded | `BoardStoreMC` | `BoardStoreProofs` |
| `TicketTools` | what each ticket tool does to the cards, as operators | through `JiraSync` | `JiraSyncProofs` |
| `JiraSync` (extends `TicketTools`) | write-through, polls, conflicts, undo in Jira | `JiraSyncMC` | `JiraSyncProofs`, from the invariants in `JiraSyncInv` |
| `NovaAgent` | voice agent connections | `NovaAgentMC` | `NovaAgentProofs` |
| `VoiceTools` | who a voice tool call is attributed to, and that it is applied once | `VoiceToolsMC` | `VoiceToolsProofs` |
| `MeetingRecord` | the meeting on the board, its report and archive | `MeetingRecordMC` | `MeetingRecordProofs` |
| `AgentRuns` | the life of an agent run | `AgentRunsMC` | `AgentRunsProofs` |
| `RunLedger` | what is promised about the record of a run; implemented by `AgentRuns` | `AgentRunsMC` | `AgentRunsProofs` (the implementation) |

An action is one lock section, or one call to the outside, of one goroutine. A
goroutine's locals are a record in `req`, `call`, `refresh`, `job`, `socket`,
`joiner` or `starter`, whose `pc` names the section that comes next. Operators
that begin with `Mutant` are plausible bugs of the definition that follows
them; no specification uses them, each shows that a property notices the bug.

How the modules fit together: a tool call of the voice model gets its speaker
label in `VoiceTools`; `Confirmations` takes the label and decides whether the
call is applied, using what `MeetingAccess` knows of hosts; `BoardStore` has
the lock sections of its application, `TicketTools` and `MeetingRecord` what it
changes, `JiraSync` how it reaches Jira, `AgentRuns` the work it may start.
Each module takes its neighbours as environment with more behaviours than they
have (a meeting that changes at any moment, any label, any content), so that
what holds of it alone holds of it beside them.

### Confirmations

`pending` is `board.pendingConfirmations`, `info` the tool and requester of
each entry, `hosts` and `guests` what `meetingAccess` answers about the
meeting, `upgraded` the role each WebSocket keeps from its upgrade, `req` the
requests in progress. Two paths reach the gate: a client command
(`handleClientKanbanCommand`) asks *may it* and *is it the host* in two
sections; a voice tool call (`handleToolUse`) asks *is it the host*, *may it*
with a look at the pending set, and *does the restriction apply* in three. The
resolution under `board.mu` (`confirmPendingAction`,
`cancelPendingConfirmation`) looks at the pending set again, takes what the
reference selects, and executes it one by one (`executePendingConfirmation`).
`outcome`, `cleared` and `wasHost` are history.

Abstractions: a confirmation id is its order of creation; a reference is the
ids it contains and whether it reads as a bare "yes", an explicit "all" or
neither; a speaker label is the sequence of identities in it, at most two;
two people never have names that differ only in case; an executed action "ran"
whether or not its tool succeeded; `isActive` and `isHost`, two sections in a
row, are one, and a meeting that ends in between could only add a refusal; the
token that `AUTH_MODE` asks for is assumed. `listPendingConfirmations`, which
only reads, is left out.

### MeetingAccess

`auth`, `created`, `about`, `expired` are the session store; `active`,
`meeting` (the join code), `hostIdentity`, `sessions` the meeting; `board` is
what the board was told. Each handler (`setupMeetingHandler`,
`joinMeetingHandler`, `leaveMeetingHandler`, `switchMeetingTypeHandler`,
`createSessionHandler`, `deleteSessionHandler`, the local login and
`createLocalBrowserSession`) is a request that goes through `lookup`, the
pruning callback `releaseSessions`, the checks, the section that changes the
meeting, the revocations one by one, and the board.

Left out: callers known by a bearer or SSO identity (`leaveByIdentity`); the
voice tool that switches the type; requests with a cookie whose session is
gone; what a meeting type is; two join codes that are equal. `isActive` and
`isHost` in the check of a setup are one section, as above.

### BoardStore

`cards` and `sequenceNumber` are the board, `history` is `mutationHistory`,
`snapshot` and `ledger` the tables `board_snapshots` and
`action_replay_events`. The content of a part of the board is the number of
the write it comes from, so that every lost or resurrected write shows. A call
goes through the snapshot before, the change, the snapshot after, the record,
the two saves, possibly the external confirmations with two saves more, and
the answer. `Restart` is a crash (`Crashes`) or an orderly one, and loads what
`newPersistentKanbanBoard` loads. `StoreError` is an SQLite error, which the
code logs and passes over.

`ByTime` gives the reloaded rows their places by counting the older ones, a
form the provers can reason about.

Left out: what a tool writes (`TicketTools`, `MeetingRecord`); the table of
events, which nothing reads back; an undo that finds no target. Rows are
reloaded in the order of their events; the code orders them by a timestamp as
text, a hazard of its own.

### TicketTools and JiraSync

`TicketTools` has one operator for each tool that changes cards: it takes the
board and the arguments and returns the next board, the card concerned and
what the result says. A card is named by an id or by a title
(`resolveCardReferenceLocked`), an id is local or an issue key, and
`RenameCardID` leaves the old id behind as an alias. Fields that hold one value
keep it; lists keep their length. `Ids`, `Refs`, `Cards`, `Boards` and `Args` are
the types of these.

In `JiraSync` a caller applies the tool (`Begin`), records it, asks what has to
be written through (`StartSync`; `RequestsOf` is the switch of `ApplyToolCall`,
`Acts` and `Requests` are the types), sends the requests one by one (`Write`),
and then renames the card a new issue was made from (`Rename`) or records the
failure as a conflict (`RecordJiraSyncFailure`); a confirmed set of actions is
a sequence of arguments. A refresher searches Jira (`Search`) and replaces the
cards later (`ApplyJiraCards`), keeping a local card whose change it knows of
(`HasLocalMutation`). `ResolveJiraConflict`, `UndoLastMutation` and `EditInJira` complete
it. A request may fail, and an answer may be lost after Jira did the work.

Left out: formats of requests and fields, account search, the webhook's
signature (a webhook asks for a refresh, and any number of refreshers may
run), and the order in which Jira ranks issues.

### NovaAgent

`room` is `app.room`, `connected` and `cut` what LiveKit holds and what it has
closed without having told the app yet; `stream` and `streamActive` are the
app's, `open` what Bedrock holds; `joiner`, `starter` and `leave` the
goroutines. LiveKit and Bedrock are environment: a connection, a stream or a
join may fail at any point, a second connection of the same identity cuts the
first, and a `Disconnect` by the client runs no callback. `MayHappen` bounds
ends of the meeting, cuts and switches of the model together.

Left out: audio, transcripts; tool calls, which are `VoiceTools`; the names of
prompts and sessions inside events; `Close` at exit; the limit of fifteen
attempts of the join at startup. Opening a stream and registering it is one
step. At most one meeting ends at a time.

### VoiceTools

The state under `speakerMu` (`activeSpeakers`, `lastUserSpeaker` with its age,
`chatTurnPrincipals` and `chatTurnSeen`) and `board.handledCalls`. Three kinds
of goroutine change it: LiveKit's callback for active speakers, the one that
reads the model's output (a text may be translated before it is noted,
`textOutput`, and while it is no tool call is read), and one for each
WebSocket that types (`beginChatTurn`, the send with its several events,
`abortChatTurn`, `socket`). `toolAuthorizationPrincipal` is the label that
`Confirmations` takes as given. Time is a clock of ticks: ages instead of
timestamps, three constants for the grace of a speaker (3 s), the life of a
typed turn (30 s) and the longest send (5 s). A message counts as having
reached the model once the last of its events is out. `typed`, `present`,
`spoke`, `withdrawn`, `applied` and `cleared` are history.

Left out: names shown to people, an empty identity, calls without an id, and
the reply language. A tick does not fall between two sections that follow each
other without a call to the outside.

### MeetingRecord

`meeting` is `board.meeting` (participants, updates, the current speaker,
items), `access` whether `meetingAccess` is active, `history` the recorded
changes with the time of each, `saved` the meeting in the saved board,
`reports` the table `meeting_reports`. Callers start and end meetings, set one
up by HTTP, switch its type, register, record updates, write items down and
ask for the next speaker; end and archive are two steps
(`applyToolCallWithConfirmationBypass`). A participant is found by id or by
name, as `sameParticipant` does, with everything that follows: entries that
appear, merge and receive ids.

An item stands for anything that is written down (agenda, decisions, risks,
action items, parking lot, follow-ups, blockers). A change is recorded and
saved with it, as the order of these is the subject of `BoardStore`. Ids of
meetings carry the time of the start; two starts are taken to be at least a
second apart, unless a caller gives the id. Left out: transcripts, modes, the
briefing, what a report takes from cards and browser sessions, reading reports.

### AgentRuns and RunLedger

`agentRuns` is the board's list, `rows` the table `agent_runs`, `job` the
goroutine of each run, `comments`, `inJira` and `reviews` what was written on
the card, in Jira and on GitHub. A run is assigned, saved, classified, gets its
pull request, is reviewed, told, and posted as a review; each change goes
through `UpdateAgentRun` and then `PersistAgentRun`. `Restart` stops every
goroutine and loads the rows. A lost answer is a POST that GitHub executed.
`RunLedger` is the abstract specification: the record of a run is made once,
only moves towards an end, ends once, and is marked published only after it
ended. `LedgerSpec` says that `rows` implements it.

Abstractions: a reading and the update that follows it are one step; what a
reviewer finds is whether there is something; the Jira client is configured;
the snapshot that is used when a card is gone is left out; a restart loads the
rows in any order, as their `updated_at` is compared as text.

## 3. Runs

| run | instance | properties | states |
|---|---|---|---|
| `confirm_gates` | one client and the voice, two identities, deletions and priority changes, two actions | `TypeOK`; `HostOnlyNeedsClearance`: a host-only action is resolved only by a caller who since its request began was host, or ran while there was no meeting; `OthersActionsNeedHost`: another requester's action only by one who was host of a meeting | 1.1 M |
| `confirm_sweeps` | one identity and unattributed voice calls, confirm and cancel, two actions of which one may lapse, restarts | `Accounted`: an action is pending, held by one request or settled; `BareAffirmationSingleRisk`; `AgeRespected`: no action runs late, none leaves the set early without a decision; `TakenSettles` (liveness) | 420 k |
| `meeting_members` | two handlers, three names, three sessions, two meetings, one expiry, local login | `TypeOK`, `MembershipBacked`, `DistinctNames`, `EndedMeetingRevoked` | 3.6 M |
| `board_together` | two callers, one card and the meeting, two changes, two undos (latest or by event), history of two, one crash | `TypeOK`, `AnsweredKept`, `NeverUndoneTwice` | 2.4 M |
| `board_alone` | one caller, two cards, three changes, two undos, one SQLite error, one orderly restart | `SnapshotCurrent`, `HistoryChains`, `UndoOnlyItsOwn` | 2.1 M |
| `nova_agent` | startup join and one background join, two connections, two streams, one end of the meeting, cut or switch of the model | `TypeOK` (one holder of `connectMu`), `NeverStuck`: a flag that forbids a second stream or join has a goroutine that clears it, `LeavesTheRoom` | 1.1 M |
| `nova_restarts` | one connection, two streams | `RestartsOnAudio` (liveness), violated | |
| `jira_tools` | every ticket tool on two issues and two local ids, two calls, or one and its undo, or a set of two actions; one failing request; one resolved conflict | `TypeOK`, `ShownOrListed`, `ConfirmedSent`, `UndoneInJira`, `PlacedWhereAsked` | 110 k |
| `jira_polls` | two callers who create and move, one refresher, one edit in Jira | `IdsDistinct`, `Converges` (liveness) | 210 k |
| `agent_runs` | two runs on one card that may be renamed or deleted, a list that keeps one, one SQLite error, lost answer or restart | `TypeOK`, `StoredAsShown`, `ToldAtTheEnd`, `PostedIsThere`, `RunEnds` (liveness), `LedgerSpec` (refinement) | 760 k |
| `meeting_record` | the voice and a host, two participants (one known by id), two meetings, two items, one restart or SQLite error | `TypeOK`, `SpokenHasUpdate`, `ReportKeepsTheMeeting`, `NobodyPassedOver` | 2.1 M |
| `voice_tools` | two people with a WebSocket each, two call ids of which one fits the table, three tool uses | `TypeOK`, `Attributed`, `AppliedOnce` | 2.6 M |

**Why these bounds are enough.** Every property is about at most two actors
and one or two objects, and the interesting cases need: two pending actions of
different risk (a mixed sweep), two requesters (a mismatch), one that lapses
beside one that does not; two handlers, a second meeting over the first, three
names so that two participants may clash beside a host; two callers whose four
sections interleave, a history shorter than the number of records, two undos
for the same target; two joins for one mutex and a stream that ends while the
next one starts; an issue to rank beside another, a created card between its
id and its key, a request that fails in the middle of a set; a list of runs
that one more run overflows; a report of a first meeting while a second one is
set up; a typed turn beside a spoken one, and times whose order is the code's
(grace < life of a turn, send <= life of a turn).
`CHECK_DEADLOCK FALSE` stands where a bound on the number of sessions, writes,
calls or connections ends a behaviour; the confirmation runs check for
deadlock. Symmetry is declared for callers, cards, names, handlers and speakers
only, and never in a run of a liveness property.

**What passing shows, and where it stops.** `SnapshotCurrent`,
`HistoryChains` and `UndoOnlyItsOwn` hold for one caller and fail for two.
`HistoryChains` and `SnapshotCurrent` except SQLite errors;
`UndoOnlyItsOwn` and `NeverUndoneTwice` stop at the first restart.
`LeavesTheRoom` holds if LiveKit cuts no connection and no join was under way
when the meeting ended. `HostOnlyNeedsClearance` uses the role of a WebSocket
as of its upgrade, as the code does. `ShownOrListed` is about cards named by
their keys and about one caller; an undo and a participant's blocker are
excepted (next section). `UndoneInJira` is about the column, title, assignee
and due date, and not about an undo that has to make an issue again.
`Converges` says that the board ends up as Jira is, which is what a refresh is
for; it does not say whose change survived. `ReportKeepsTheMeeting` and
`NobodyPassedOver` hold for one chair and for participants whose names
differ. `Attributed` holds for one WebSocket a person. `IdsDistinct` holds as
long as nothing is undone and no conflict is resolved. `ToldAtTheEnd` excepts a
run whose classification failed, which the code does not comment.

### Fairness

* `Confirmations`, `MeetingAccess`: weak fairness of `Advance`, the steps of a
  request that has begun. It is a goroutine that waits for nothing but mutexes
  and, when an action executes, for a call with a timeout. New requests,
  meetings, time, pruning and restarts are not fair.
* `NovaAgent`: weak fairness of the steps of a joining goroutine, a starting
  stream, a leave and a model switch; network calls return, with an error or
  without. Strong fairness of `JoinConferenceRoom`, which waits for
  `connectMu`: Go hands a contended mutex to whoever has waited for more than
  a millisecond. Nothing makes LiveKit, Bedrock, a participant or the host act.
* `JiraSync`: weak fairness of a call that has begun and of the poll, which a
  ticker starts again for ever; each request has a timeout. `FairSpec` is used
  by `jira_polls` only.
* `AgentRuns`: weak fairness of the goroutine of each run; `Start` gives it
  five minutes, after which every call it makes returns an error. Restarts,
  errors and deletions are not fair.
* `BoardStore`, `MeetingRecord` and `VoiceTools` have no liveness property and
  no fairness.

## 4. Where the code does not do what it says

`nova_restarts` is a run of its own: "will restart on next audio"
(`nova_sonic.go:494`), but only a new track or a chat message starts a stream.

The same models show more, in instances that are not among the runs. A name
with nothing after it is a configuration kept here; *X with P* is `X.cfg` with
its properties replaced by the one of the second column and with the constants
P. Each gives a counterexample within seconds:

| instance | property | behaviour |
|---|---|---|
| `ConfirmationsDeletions` | `AnyParticipantResolvesDeletions` | `main.go:468-481` lets any participant resolve a set of deletions; the requester check refuses all but the one who asked |
| `MeetingAccessAgain` | `NotAuthorizedAfterEnd` | a host who sets up again drops the participants without revoking their sessions; after the end of the new meeting they are authorized, unlike what `meeting_access_test.go:509` asks for |
| `MeetingAccessLocalHost` | `NeverTheHosts` | a local host session is attached under a connected participant's name (`auth.go:487`), which `meeting_access.go:35-38` excludes the other way round |
| `MeetingAccessAgain`, with `MaxSessions = 2`, `MaxMeetings = 1` | `BoardEndsWithMeeting` | a setup tells the board after the host's leave did (`meeting_access.go:939`) |
| `BoardStoreUndo` | `UndoOnlyItsOwn` | with two callers an undo takes away the change another goroutine has made and not yet recorded; the tool says "Undo the latest voice-driven board/Jira mutation" (`board.go:1430`) |
| `BoardStoreUndoEvent` | `UndoOnlyItsOwn` | the undo of an earlier `event_id` takes back everything after it (`meeting_intelligence.go:1083`) |
| `BoardStoreUndoAgain` | `UndoneOnce` | `Reverted` is forgotten by a restart and the same mutation is undone again (`meeting_intelligence.go:1096`) |
| `BoardStoreStale` | `SnapshotCurrent` | two calls save their snapshots in the opposite order of their changes (`meeting_intelligence.go:1700`) |
| `BoardStoreUnexplained` | `BoardExplained` | a crash between the save of the board and that of the record (`meeting_intelligence.go:1718`) |
| `NovaAgentLingers` | `NeverLingers` | a join under way when the meeting ends (`nova_sonic.go:387`) |
| `NovaAgentForgets` | `LeavesTheRoom` | the late callback of an earlier connection clears the current room (`nova_sonic.go:367`) |
| `NovaAgentClosed` | `StreamClosedAfterLeave` | a stream opened while the agent leaves (`nova_sonic.go:464`) |
| `NovaAgentModel` | `StreamUsesModel` | a model switch misses the stream being opened with the old model (`nova_sonic.go:327`) |
| `JiraSyncTools`, with `Asks <- ByTitle` | `ShownOrListed` | a card renamed by its title: the write looks for the old title again, fails, never reaches Jira, and the failure is listed under no card |
| `JiraSyncTools` | `ClaimsOnlyWrites` | a ranking that has nothing to send is answered "Jira API returned success for the requested write." (`jira.go:1329`) |
| `JiraSyncPolls`, with `Asks <- TwoCreates`, `MaxEdits = 0` | `KeyOfItsIssue` | a refresh drops a card whose issue is being made and hands its local id out again; the rename then gives the key to the other card (`board.go:2247`) |
| `JiraSyncPolls`, with `SPECIFICATION Spec`, `MaxCalls = 4`, `MaxUndos = 1`, `MaxEdits = 0` | `IdsDistinct` | an undo brings back a card under the local id it had before it was renamed; `createCardIDLocked` (`board.go:2051`) looks that id up through its alias, finds nothing, and hands it out a second time |
| `JiraSyncPolls`, with `SPECIFICATION Spec`, `Asks <- TwoCreates`, `Callers = {a}`, `MaxCalls = 3`, `MaxFaults = 1`, `MaxResolves = 1`, `MaxEdits = 0` | `IdsDistinct` | a failed creation leaves a conflict under a local id; a refresh drops the card and the id is handed out again and renamed; after one more refresh, which sets the index back, resolving the conflict for Jira's side puts the first card in the other's place (through the alias), and the next creation hands the id out once more |
| `MeetingRecordTwoChairs` | `ReportKeepsTheMeeting` | an end beside a start archives the new meeting and loses the old one's report (`board.go:396`) |
| `MeetingRecordTwoChairs` | `ArchivedNotActive` | the same archives a meeting that goes on; `board_store_test.go:187-189` says "archived report should not be active" |
| `MeetingRecordSameId` | `ReportKeepsTheMeeting` | a second start with the same `meeting_id` replaces the first report |
| `MeetingRecordNamesakes` | `NobodyPassedOver` | of three participants two share a name; `next_speaker` goes back and forth between the first two |
| `VoiceToolsTabs` | `Attributed` | one person types in two tabs; the failing send takes back the entry the other relies on, though a failed send "undoes only the entry it added" (`security_regression_test.go:265`) |
| `VoiceTools` | `EverySpeakerNamed` | of two people who spoke, only the last is added beside a typed turn (`nova_sonic.go:733` says anyone) |
| `VoiceTools` | `QuietRoomNamesNobody` | a text that arrives while nobody is active renews the last speaker's grace (`nova_sonic.go:1078`) |
| `VoiceTools` | `NeverAgain` | the table of handled calls is emptied at its limit and a repeated call is applied again (`board.go:329`) |

Two liveness properties hold in configurations of their own that are not among
the runs: `MeetingAccessRevokes` (`RevocationCompletes`: what a leave took out
of a meeting is revoked in the end) and `NovaAgentSettles` (`JoinSettles`: a
join ends).

Further behaviours that the models have and no property asks about:

* Jira: the undo of a deletion makes a new issue under another key; the undo of
  a creation cannot close the issue; a participant update with a status and a
  blocker leaves the card Blocked here and in the named column there
  (`Asks <- BlockedUpdate`); a change that is applied and not yet recorded is
  overwritten by a refresh without a conflict; a second refresh overwrites a
  local card the first one had kept.
* Runs: a run assigned under a local id is never commented in Jira; a run in
  progress at a restart stays in progress; a run pushed off the list while it
  works is no longer updated and its row stays in progress; after a lost answer
  GitHub has two reviews.
* Meetings: setups by HTTP keep the id of `board.meeting`, so that the second
  such meeting replaces the first one's report; a change recorded after a new
  start is listed in the new report; a host's leave clears the sessions before
  the report is built; a crash between the end and the archive loses the
  report; an end by voice leaves `meetingAccess` active.

## 5. Proofs

Each module of proofs EXTENDS the module it is about and holds for all values
of its constants that satisfy the assumptions stated there; further hypotheses
are in the statement of the theorem and in the table. Every candidate for an
inductive invariant was checked by TLC on the instance of a run before its
proof was attempted. Each proof of a step has one case per action, and each
action that changes lists or records has a lemma about what it leaves.

| theorem | states | under |
|---|---|---|
| `ConfirmationsProofs`: `TypeCorrect`, `ActionsAccounted`, `AgeDecidesLapsing`, `BareIsSingleRisk`, `ClearanceNeeded`, `HostNeededForOthers` | `TypeOK`, `Accounted`, `AgeRespected`, `BareAffirmationSingleRisk`, `HostOnlyNeedsClearance`, `OthersActionsNeedHost` | |
| `ConfirmationsProofs`: `OutcomesFinal` | `OutcomeFinal`: no outcome ever changes; not among the runs' properties | |
| `MeetingAccessProofs`: `AccessTypes`, `MembershipsBacked`, `NamesDistinct`, `EndedMeetingsRevoked` | `TypeOK`, `MembershipBacked`, `DistinctNames`, `EndedMeetingRevoked` | finitely many requests |
| `BoardStoreProofs`: `BoardTypes`, `AnsweredAreKept`, `NothingUndoneTwice` | `TypeOK`, `AnsweredKept`, `NeverUndoneTwice` | |
| `BoardStoreProofs`: `SavedIsCurrent` | `SnapshotCurrent` | one caller |
| `BoardStoreProofs`: `HistoryTellsOneStory` | `HistoryChains` | one caller, no crash |
| `BoardStoreProofs`: `UndoesOnlyItsOwn` | `UndoOnlyItsOwn` | one caller, undo of the latest |
| `NovaAgentProofs`: `AgentTypes`, `FlagsHaveOwners` | `TypeOK`, `NeverStuck` | |
| `NovaAgentProofs`: `LeavesWhenCalm` | `LeavesTheRoom` | while no connection was cut and one meeting has ended at most |
| `VoiceToolsProofs`: `VoiceTypes`, `CallsAppliedOnce` | `TypeOK`, `AppliedOnce` | |
| `VoiceToolsProofs`: `CallsAttributed` | `Attributed` | one WebSocket a person |
| `AgentRunsProofs`: `RunTypes`, `ShownIsStored`, `EndsToldOnce`, `MarksBacked` | `TypeOK`, `StoredAsShown`, `ToldAtTheEnd`, `PostedIsThere` | |
| `AgentRunsProofs`: `RowsAreLedger` | `LedgerSpec`: the rows implement `RunLedger` | |
| `MeetingRecordProofs`: `RecordTypes` | `TypeOK` | |
| `MeetingRecordProofs`: `ReportsKeep` | `ReportKeepsTheMeeting` | one chair, no ids given by callers |
| `MeetingRecordProofs`: `SpokenGaveUpdates` | `SpokenHasUpdate` | ids and names tell people apart, no list names one twice |
| `MeetingRecordProofs`: `TurnsPassNobodyOver` | `NobodyPassedOver` | the same, and no id is a name |
| `JiraSyncProofs`: `TypeCorrect`, `ConfirmedAreSent` | `TypeOK`, `ConfirmedSent` | |
| `JiraSyncProofs`: `IdsStayDistinct` | `IdsDistinct` | while nothing was undone and no conflict resolved |
| `JiraSyncProofs`: `RankedWhereAsked` | `PlacedWhereAsked` | where `IdsDistinct` holds |
| `JiraSyncProofs`: `UndoIsInJira` | `UndoneInJira` | one caller, no refresher, no edits in Jira |
| `JiraSyncProofs`: `CardsShownOrListed` | `ShownOrListed` | one caller, no refresher, no edits in Jira, no conflict resolved, calls of one `Simple` action |

The hypotheses are the ones the runs have as well, and, with the exceptions named
below, none is there for the prover's sake: without each of them TLC finds the
property violated, with two
callers (`BoardStoreUndo`, `BoardStoreStale`), undos by event
(`BoardStoreUndoEvent`), a crash between change and record, connections cut or
a second meeting (`NovaAgentForgets`), two tabs (`VoiceToolsTabs`), two chairs or
given ids (`MeetingRecordTwoChairs`, `MeetingRecordSameId`), namesakes
(`MeetingRecordNamesakes`, with `SpokenHasUpdate` too), an undo or a resolved
conflict (the two instances of `JiraSyncPolls` with `IdsDistinct`), and a second
caller, a poll or an edit in Jira while an undo is written through
(`JiraSyncPolls` with `SPECIFICATION Spec`, `MaxUndos = 1`, `UndoneInJira` and
one of the three). `ShownOrListed` fails likewise with a second caller, a poll or
an edit, when both touch one issue. `Simple` takes out four kinds of calls, and
TLC finds `ShownOrListed` violated by each of them alone: a tool that waits for
no confirmation and names its card by its title, `create_subtask` and
`rank_issue` with a column, and a participant's update that reports a blocker and
names another column than Blocked. Two restrictions of that theorem are the
proof's own: that a call is of one action, and that no conflict is resolved. The
run `jira_tools` covers a confirmed set of two actions and a resolved conflict and
finds nothing. Three more are not
of that kind: that no id is a name somebody goes by (`participantIndexLocked`
looks for the current speaker among both, and what it remembers is a name), that
requests are finitely many is taken for granted, as
goroutines are, and `RankedWhereAsked` speaks of boards without two cards of one
id, for on others no position is the one that was asked for.

**Confirmation gate.** `Accounted` is not inductive: nothing in it says that a
request that is not executing holds nothing, nor that ids not given out yet are
free. `Accounting` adds both. Its proof has a step per action; the lemmas state
what each kind of step does to the places an action can be in (staged, taken,
settled, pruned, lost). `OutcomeFinal` follows: a step gives an outcome only to
an id that is pending or held, and by `Accounting` that id has none yet.
`AgeRespected` is about single steps and needs no invariant beyond the types:
only `executePendingConfirmation` runs an action, after it looked at its age,
and what pruning takes is over. `BareAffirmationSingleRisk` is inductive beside
`Accounting`: what a request holds is neither pending, nor held by another, nor
yet to be numbered, so that no step of anybody else changes what it is known as
(`StillHolds`); the one step that gives it something new has looked at the
risks of the whole pending set.

`ClearanceNeeded` and `HostNeededForOthers` speak of a step and of what happened
since the request began, so the invariant has to carry it along. `Gates` says
that the histories `cleared` and `wasHost` hold everyone the meeting would clear
at this moment, and that each request is `Justified` by them: a client past its
gate, and the voice past its restriction unless it is restricted, is in
`cleared`; a request whose `isHost` flag is set is in `wasHost`. Nothing the
meeting does takes a caller out of a history while its request runs.
`TakingIsResolving` shows that a step that takes an action passed the gates
under the lock with that action selected; restricted requests then hold
deletions only, and the requester check lets only the flag through.

**Meeting access.** The four properties are parts of one invariant, `IInv`,
because each needs the others. A session that is no longer live keeps its
membership only while some handler has it on its list (`Deleted`), so a
membership cannot outlive its session; a join may be let in on a name only
because every other membership is backed (`DistinctNames`, with `Joining` and
`Attaching` for the handlers that have been let in and have not entered the
table yet); and the sessions of an ended meeting are the ones a leave took
(`Covered`: while the meeting runs, every live session made for it is a
member's or some handler's). `Room` bounds the counters by the requests that
will still raise them, which is why requests have to be finitely many.

**Board and store.** `AnsweredKept` rests on where a record is at each point of
its call (`KeptInv`: in the history from the record on, in the ledger once it is
past that write) and on the history being sorted by event, also when it was
reloaded (`ByTime`), so that what is pushed out is older than all that is left.
`NeverUndoneTwice` (`OnceInv`) says that an undo in progress owns its target: no
record and no other caller claims it. The three properties for one caller say
what the board is between the sections: `SavedInv` that the state a call carries
is the board; `ChainInv` that the history and the rows both lead, record by
record, to the board before the call in progress (`Story`), so that it does not
matter which of them a restart keeps; `UndoInv` the same of the records that can
still be undone, across the undone ones between them, which is why replacing the
whole board by the one before the target changes nothing else.

**Voice agent.** `NeverStuck` needs that the goroutine which clears a flag is
the one that set it, for every way a join or a stream may fail. `LeavesTheRoom`
is two invariants, one before the meeting ends (`BeforeLeave`: what LiveKit
holds is the room the agent remembers, or the one being joined) and one after
(`AfterLeave`: what is connected is on its way out, and nobody joins).

**Voice tool calls.** `AppliedOnce` counts: the calls so far are those that
filled the table each time it was emptied and those in it now (`Counted`).
`Attributed` compares ages. A turn that may be answered has an entry in
`chatTurnPrincipals` that is no older (`SendingNamed`, `TypedNamed`), whoever
spoke last has one while any turn is in flight (`SpokenNamed`), and an entry is
at most a term older than the last time its owner was heard (`NamedPresent`).
The proof finds what the comment in the code relies on: with one WebSocket a
person, an entry taken back by a failed send is not the one that another turn
needs.

**Agent runs.** `IInv` says, for each run alone, what its goroutine has done by
each of its stages, what is in its copy, and how the list, the row and the copy
are ordered in `RunLedger`'s order (`Grows`). `StoredAsShown`, `ToldAtTheEnd`
and `PostedIsThere` are consequences of it, and so is the refinement: the row of
a run is replaced only by a copy that has grown from it, and a restart loads
what is in the rows. The initial states map to `RunLedger`'s, each save of a row
to one of its steps or a stutter, every other action to a stutter.

**Meetings.** `ReportKeepsTheMeeting` needs the time: a report is built from the
changes since the meeting's start, so that an item of the meeting has to be
recorded no earlier (`Logs`); a promise has to be kept by the row, by the meeting
as long as it can be ended again, and by the meeting a restart would load
(`PromisesKept`); and a report that is built and not yet saved must hold all
that is promised (`Ending`). `SpokenHasUpdate` is stated of a list and a set of
updates (`Agrees`), for the board's and for the saved meeting; the lemmas say
where `upsert` and `markSpoken` find a person and that the loops change one
entry. `NobodyPassedOver` compares those who were named in this round with those
who wait, and neither says who comes next. `RoundInv` does: those named are one
stretch of the ring of participants, from somebody to the current speaker, less
those who have spoken, each once. `NextIs` computes what `next_speaker` finds
from there, the first who waits after the current speaker, so that the stretch
grows by this one (`RoundGoesOn`); or it has come round to somebody named before,
which it does only after everyone, for the places still ahead of the stretch
would have come first. Where the current speaker is found again, and nobody else
in their place, rests on `SpokenInv`: nobody is listed twice.

**Jira.** `ConfirmedSent` needs that a failure, once it happened, is remembered
until the whole set is answered (`CallOK`). The others rest on one
invariant, `IInv`. What a request needs (a field, a status, the card of an issue
to make) is decided by the tool when the board is changed and used several
sections later, so `Shape` says, for each point of a call, what its actions and
its remaining requests are: `Loose` of their kinds, `Plain` where no issue is
made, a creation in front where a key is waited for. `WritesTyped` shows this of
every tool's requests, with a lemma for each group of tools. `TypeOK` says more
than the kinds of things: an issue that exists has one of the four statuses, and
an entry of the history counts as newer than the last refresh only if the board
has changed since. For `IdsDistinct` the invariant adds `Ordered`, that local ids
on the board are below the next index, and `Found`, that a refresher holds cards
with distinct keys; each tool is shown to keep `Ordered` (`Good`), a rename
because it looks for the new key first, and a refresh whatever was there before,
because all its cards have the ids the search gave them. `RankedWhereAsked` is
about one step: only the change of the board itself gives a caller something to
record (`OnlyApplyMakes`), the arguments a ranking keeps are the ones it was
resolved with, and `MovedTo` and `ReorderGood` compute where a card stands after
it was taken out and put in, for each of the four places.

`UndoneInJira` is about many requests of which any may fail, so what is shown is
not what has been sent but what is still coming: `Coming` says of a set of
requests that they will make an issue like a card, attribute by attribute, or
that one of them is refused. `ComingStep` shows that a request which is made
keeps this of the rest, `RestoreComes` that the requests of `restoreJiraCard`
have it for whatever became of the issue before. `BackInv` then says, for every
card of the board at each point of an undo, that its issue is like it already,
will be by the requests in progress, or belongs to an action still to come
(`Due`). It needs two things of everything that happened before: that the record
which is taken back keeps cards with titles, no two of one issue (`Proper`, of
the board, of every record and of every board a call has kept; each tool and
each rename is shown to keep it), and that a call which still has something to
write through is the one that made the newest record (`Told`). A conflict that
is resolved for Jira's side puts a card on the board that nobody writes through,
which is why the property leaves it out.

`ShownOrListed` compares what some thirty tools do to the board with what they
send, at every point at which a request may fail. `ShownInv` says for each point
of a call that a card with a key is shown by Jira, or listed, or that its issue is
the one the call is about and the remaining requests are `Coming` for it (`Owed`).
What differs between the tools is in `Planned`: only the card of the action
changes, and the requests give its issue, attribute by attribute, what the tool
gave the card (`Gives`); there is a lemma for each group of tools, and
`PlannedOwes` is what all of them lead to. A request that is made keeps `Owed` of
the rest (`SentOwes`); one that fails leaves its issue to be listed, under the
id the requests were for, which by then may be a local id with a key
(`FailureListed`, with `AliasOK`: a local id with a key is no card's id any more).
A tool that is refused leaves the board as it was (`Unhurt`). An issue
that is still to be made owes what its creation does not carry (`ToMake`), to the
local card until it is renamed and to the card with the key from then on
(`RenameOwes`).

**Model-checked only.** Liveness (`TakenSettles`, `RunEnds`, `Converges`,
`RestartsOnAudio`), which the prover does not handle. Of `ShownOrListed`, the
confirmed sets of several actions and the resolved conflicts, as said above.
`KeyOfItsIssue` and `ClaimsOnlyWrites` do not hold.

## 6. What is not modelled, and the plan

Not modelled:

* audio queues and mixing (`nova_sonic_output.go`, `nova_sonic_mixer.go`,
  `room_audio.go`): sample arithmetic and queues of frames behind one lock
  each, driven by a ticker, tested frame by frame;
* rate limiting (`rate_limiter.go`): one map behind one lock; a fixed window
  lets two limits pass around its boundary by design;
* verification of identities, HTTP plumbing, text processing and calls to
  Bedrock for it, codecs, audit output, the web pages, the Helm chart, the
  build;
* the provider-neutral contracts of `src/internal`, which only tests use;
* within the modelled components, what each module's section lists as left out.

Planned, in order:

1. `ShownOrListed` for confirmed sets of several actions, where `Owed` has to
   speak of the actions still to come as `BackInv` does of an undo's, and for
   resolved conflicts, after which ids may no longer be distinct.
2. Identity callers in `MeetingAccess`.
3. A composition of `Confirmations` with `MeetingAccess`, against an abstract
   specification of who may resolve an action.
