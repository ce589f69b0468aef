------------------------------ MODULE AgentRuns ------------------------------
(***************************************************************************)
(* Autonomous agent runs (cmd/server/agent_runs.go, with github_app.go and *)
(* the table agent_runs of board_store.go).  A tool call assigns a card to *)
(* an agent: a run is put at the head of the board's list, which keeps the *)
(* latest fifty, is saved, and 100 ms later a goroutine takes it through   *)
(* classification, the fetch of a pull request, its review, a comment on   *)
(* the card and in Jira, and a review on GitHub.  Every change of a run is *)
(* made under board.mu and saved after the unlock.                         *)
(***************************************************************************)
EXTENDS Naturals, Sequences

CONSTANTS
    Cards,          \* tickets on the board
    Inputs,         \* what a call asks for: card, has a repository, has a pull request
    NoRun,          \* no run, no row, nothing to save
    MaxAssigned,    \* bound: calls of assign_ticket_to_agent
    MaxRuns,        \* runs the board keeps: 50 in the code
    MaxFaults,      \* bound: SQLite errors, lost answers and restarts
    GitHub,         \* is the GitHub App configured
    PRComments      \* is GITHUB_PR_COMMENTS_ENABLED

Runs == 1 .. MaxAssigned

Final == {"needs_input", "unsupported", "failed", "completed"}
InProgress == {"queued", "classifying", "fetching_context", "reviewing", "publishing"}
Published == {"no", "posted", "warned"}

\* agentRun: keyed is whether JiraIssueKey is an issue key rather than a local
\* card id; jira and review are JiraCommentPosted and PRReviewPosted, or their
\* warnings in PublishWarnings.
AgentRun ==
    [id : Runs, card : Cards, keyed : BOOLEAN, repo : BOOLEAN, pr : BOOLEAN,
     status : InProgress \cup Final, reviewable : BOOLEAN, findings : BOOLEAN,
     jira : Published, review : Published]

ASSUME InputsAssumption == Inputs \subseteq [card : Cards, repo : BOOLEAN, pr : BOOLEAN]
ASSUME MaxRunsAssumption == MaxRuns \in Nat \ {0}
ASSUME MaxAssignedAssumption == MaxAssigned \in Nat
ASSUME NoRunAssumption == NoRun \notin AgentRun
ASSUME MaxFaultsAssumption == MaxFaults \in Nat
ASSUME FlagsAssumption == GitHub \in BOOLEAN /\ PRComments \in BOOLEAN

VARIABLES
    cards,      \* the board's cards
    keyed,      \* those whose id is the key of a Jira issue
    agentRuns,  \* board.agentRuns, newest first
    rows,       \* rows[r]: table agent_runs
    job,        \* job[r]: its goroutine: pc, the run it still has to save, and the
                \* copy postRunJiraComment works on
    missed,     \* history: the runs whose latest save failed
    assigned,   \* calls so far
    faults,     \* faults so far
    comments,   \* history: comments[r]: the statuses its comments on the card tell
    inJira,     \* history: inJira[r]: the statuses its comments in Jira tell
    reviews,    \* history: reviews[r]: reviews posted on its pull request
    lost        \* history: lost[r]: requests for it that arrived and got no answer

vars == <<cards, keyed, agentRuns, rows, job, missed, assigned, faults, comments, inJira, reviews, lost>>
outside == <<comments, inJira, reviews, lost>>

Stages == {"none", "start", "classify", "route", "check", "fetch", "review", "publish", "complete",
           "comment", "jira", "jiraPosted", "jiraFailed",
           "pr", "retry", "prPosted", "prFailed", "done"}

Idle == [pc |-> "none", save |-> NoRun, copy |-> NoRun]

-----------------------------------------------------------------------------
(* The list of runs.                                                       *)

\* agentRunByID finds it
Known(r) == \E i \in DOMAIN agentRuns : agentRuns[i].id = r
Run(r) == agentRuns[CHOOSE i \in DOMAIN agentRuns : agentRuns[i].id = r]

\* Mutant: one more than fifty.
MutantCut(list) == SubSeq(list, 1, IF Len(list) <= MaxRuns THEN Len(list) ELSE MaxRuns + 1)

\* the first fifty
Cut(list) == SubSeq(list, 1, IF Len(list) < MaxRuns THEN Len(list) ELSE MaxRuns)

\* the list with the run of this id replaced
Replace(list, run) ==
    [i \in DOMAIN list |-> IF list[i].id = run.id THEN run ELSE list[i]]

\* Mutant: what is saved is the run as it was before the change.
MutantUpdateAgentRun(r, pc, run) ==
    IF Known(r)
    THEN /\ agentRuns' = Replace(agentRuns, run)
         /\ job' = [job EXCEPT ![r] = [pc |-> pc, save |-> Run(r), copy |-> NoRun]]
    ELSE /\ job' = [job EXCEPT ![r].pc = pc]
         /\ UNCHANGED agentRuns

\* updateAgentRun, then on to pc; a run that is gone is not updated
UpdateAgentRun(r, pc, run) ==
    IF Known(r)
    THEN /\ agentRuns' = Replace(agentRuns, run)
         /\ job' = [job EXCEPT ![r] = [pc |-> pc, save |-> run, copy |-> NoRun]]
    ELSE /\ job' = [job EXCEPT ![r].pc = pc]
         /\ UNCHANGED agentRuns

WithStatus(r, status) == [Run(r) EXCEPT !.status = status]

\* the goroutine of r is at pc and has saved its last change
At(r, pc) == job[r].pc = pc /\ job[r].save = NoRun

Goto(r, pc) == job' = [job EXCEPT ![r].pc = pc] /\ UNCHANGED agentRuns

-----------------------------------------------------------------------------
Init ==
    /\ cards = Cards
    /\ keyed = {}
    /\ agentRuns = <<>>
    /\ rows = [r \in Runs |-> NoRun]
    /\ job = [r \in Runs |-> Idle]
    /\ missed = {}
    /\ assigned = 0
    /\ faults = 0
    /\ comments = [r \in Runs |-> <<>>]
    /\ inJira = [r \in Runs |-> <<>>]
    /\ reviews = [r \in Runs |-> 0]
    /\ lost = [r \in Runs |-> 0]

\* renameCardID gives a local card the key of its issue
GetsKey(c) ==
    /\ c \in cards \ keyed
    /\ keyed' = keyed \cup {c}
    /\ UNCHANGED <<cards, agentRuns, rows, job, missed, assigned, faults, outside>>

\* deleteTicket
Deleted(c) ==
    /\ c \in cards
    /\ cards' = cards \ {c}
    /\ UNCHANGED <<keyed, agentRuns, rows, job, missed, assigned, faults, outside>>

\* The tool call: a card the board does not know is refused.
AssignTicketToAgent(in) ==
    /\ assigned < MaxAssigned
    /\ in.card \in cards
    /\ LET run == [id |-> assigned + 1, card |-> in.card, keyed |-> in.card \in keyed,
                   repo |-> in.repo, pr |-> in.pr, status |-> "queued", reviewable |-> FALSE,
                   findings |-> FALSE, jira |-> "no", review |-> "no"]
       IN  /\ agentRuns' = Cut(<<run>> \o agentRuns)
           /\ job' = [job EXCEPT ![run.id] = [Idle EXCEPT !.pc = "start", !.save = run]]
    /\ assigned' = assigned + 1
    /\ UNCHANGED <<cards, keyed, rows, missed, faults, outside>>

\* persistAgentRun
PersistAgentRun(r) ==
    /\ job[r].save # NoRun
    /\ rows' = [rows EXCEPT ![r] = job[r].save]
    /\ job' = [job EXCEPT ![r].save = NoRun]
    /\ missed' = missed \ {r}
    /\ UNCHANGED <<cards, keyed, agentRuns, assigned, faults, outside>>

\* an SQLite error is logged and passed over
StoreError(r) ==
    /\ faults < MaxFaults
    /\ faults' = faults + 1
    /\ job[r].save # NoRun
    /\ job' = [job EXCEPT ![r].save = NoRun]
    /\ missed' = missed \cup {r}
    /\ UNCHANGED <<cards, keyed, agentRuns, rows, assigned, outside>>

-----------------------------------------------------------------------------
(* The goroutine of a run.  Reading a run and the update that follows are  *)
(* one step: in between it can only fall off the list, and then the update *)
(* does as little as reading finds.                                        *)

Start(r) ==
    /\ At(r, "start")
    /\ UpdateAgentRun(r, IF Known(r) THEN "classify" ELSE "done", WithStatus(r, "classifying"))

\* Mutant: a run without a classification is left where it is.
MutantClassify(r) ==
    /\ At(r, "classify")
    /\ \/ \E reviewable \in BOOLEAN :
            UpdateAgentRun(r, "route", [Run(r) EXCEPT !.reviewable = reviewable])
       \/ Goto(r, "done")

\* classifyRun fails, and the run with it, or tells whether the reviewer can do it
Classify(r) ==
    /\ At(r, "classify")
    /\ \/ \E reviewable \in BOOLEAN :
            UpdateAgentRun(r, "route", [Run(r) EXCEPT !.reviewable = reviewable])
       \/ UpdateAgentRun(r, "done", WithStatus(r, "failed"))

\* a run that is gone reads as the zero value, which no reviewer can do
Route(r) ==
    /\ At(r, "route")
    /\ IF Known(r) /\ Run(r).reviewable
       THEN Goto(r, "check")
       ELSE UpdateAgentRun(r, "comment", WithStatus(r, "unsupported"))

\* what runCodeReview needs
Check(r) ==
    /\ At(r, "check")
    /\ \/ /\ ~Known(r)
          /\ Goto(r, "done")
       \/ /\ Known(r)
          /\ ~GitHub \/ ~Run(r).repo
          /\ UpdateAgentRun(r, "comment", WithStatus(r, "failed"))
       \/ /\ Known(r)
          /\ GitHub /\ Run(r).repo /\ ~Run(r).pr
          /\ UpdateAgentRun(r, "comment", WithStatus(r, "needs_input"))
       \/ /\ Known(r)
          /\ GitHub /\ Run(r).repo /\ Run(r).pr
          /\ UpdateAgentRun(r, "fetch", WithStatus(r, "fetching_context"))

\* Mutant: a fetch that fails is started again.
MutantFetchPullRequestFiles(r) ==
    /\ At(r, "fetch")
    /\ \/ UpdateAgentRun(r, "review", WithStatus(r, "reviewing"))
       \/ UpdateAgentRun(r, "classify", WithStatus(r, "classifying"))

FetchPullRequestFiles(r) ==
    /\ At(r, "fetch")
    /\ \/ UpdateAgentRun(r, "review", WithStatus(r, "reviewing"))
       \/ UpdateAgentRun(r, "comment", WithStatus(r, "failed"))

ReviewPullRequest(r) ==
    /\ At(r, "review")
    /\ \/ UpdateAgentRun(r, "publish", [Run(r) EXCEPT !.findings = TRUE])
       \/ UpdateAgentRun(r, "comment", WithStatus(r, "failed"))

Publish(r) ==
    /\ At(r, "publish")
    /\ UpdateAgentRun(r, "complete", WithStatus(r, "publishing"))

\* Mutant: the comment is posted before the run is completed.
MutantComplete(r) ==
    /\ At(r, "complete")
    /\ IF Known(r) /\ Run(r).jira = "no" /\ comments[r] = <<>>
       THEN Goto(r, "comment")
       ELSE UpdateAgentRun(r, "pr", WithStatus(r, "completed"))

Complete(r) ==
    /\ At(r, "complete")
    /\ UpdateAgentRun(r, "comment", WithStatus(r, "completed"))

\* where the goroutine goes after postRunJiraComment
AfterComment(r) == IF Known(r) /\ Run(r).status = "completed" /\ PRComments THEN "pr" ELSE "done"

\* Classify to Complete touch nothing but the run.
Work(r) ==
    /\ \/ Start(r)
       \/ Classify(r)
       \/ Route(r)
       \/ Check(r)
       \/ FetchPullRequestFiles(r)
       \/ ReviewPullRequest(r)
       \/ Publish(r)
       \/ Complete(r)
    /\ UNCHANGED <<cards, keyed, rows, missed, assigned, faults, outside>>

\* postRunJiraComment up to the request to Jira: the comment on the card,
\* when the card is still there
LocalComment(r) ==
    /\ At(r, "comment")
    /\ IF Known(r)
       THEN /\ job' = [job EXCEPT ![r].pc = "jira", ![r].copy = Run(r)]
            /\ UNCHANGED agentRuns
            /\ comments' = IF Run(r).card \in cards
                           THEN [comments EXCEPT ![r] = Append(@, Run(r).status)]
                           ELSE comments
       ELSE /\ Goto(r, "done")
            /\ UNCHANGED comments
    /\ UNCHANGED <<cards, keyed, rows, missed, assigned, faults, inJira, reviews, lost>>

\* A request is answered, refused, or arrives and its answer is lost.
Answered(r) == UNCHANGED <<faults, lost>>
Lost(r) ==
    /\ faults < MaxFaults
    /\ faults' = faults + 1
    /\ lost' = [lost EXCEPT ![r] = @ + 1]

\* AddComment: under the local id of a card no issue is found
JiraComment(r) ==
    /\ At(r, "jira")
    /\ \/ /\ job[r].copy.keyed
          /\ inJira' = [inJira EXCEPT ![r] = Append(@, job[r].copy.status)]
          /\ \/ Answered(r) /\ Goto(r, "jiraPosted")
             \/ Lost(r) /\ Goto(r, "jiraFailed")
       \/ /\ Goto(r, "jiraFailed")
          /\ Answered(r)
          /\ UNCHANGED inJira
    /\ UNCHANGED <<cards, keyed, rows, missed, assigned, comments, reviews>>

RecordJiraComment(r) ==
    /\ \/ /\ At(r, "jiraPosted")
          /\ UpdateAgentRun(r, AfterComment(r), [Run(r) EXCEPT !.jira = "posted"])
       \/ /\ At(r, "jiraFailed")
          /\ UpdateAgentRun(r, AfterComment(r), [Run(r) EXCEPT !.jira = "warned"])
    /\ UNCHANGED <<cards, keyed, rows, missed, assigned, faults, outside>>

\* Mutant: a review GitHub did not take counts as posted.
MutantCreatePullRequestReview(r) ==
    /\ At(r, "pr")
    /\ \/ /\ Known(r)
          /\ reviews' = [reviews EXCEPT ![r] = @ + 1]
          /\ \/ Answered(r) /\ Goto(r, "prPosted")
             \/ Lost(r) /\ Goto(r, "retry")
       \/ /\ Goto(r, "prPosted")
          /\ Answered(r)
          /\ UNCHANGED reviews
    /\ UNCHANGED <<cards, keyed, rows, missed, assigned, comments, inJira>>

\* CreatePullRequestReview: without an answer to the request with line comments
\* one without them follows; a run that has fallen off the list has no pull
\* request
CreatePullRequestReview(r) ==
    /\ At(r, "pr")
    /\ \/ /\ Known(r)
          /\ reviews' = [reviews EXCEPT ![r] = @ + 1]
          /\ \/ Answered(r) /\ Goto(r, "prPosted")
             \/ Lost(r) /\ Goto(r, "retry")
             \/ Lost(r) /\ Goto(r, "prFailed")
       \/ /\ Answered(r)
          /\ \/ Known(r) /\ Goto(r, "retry")
             \/ Goto(r, "prFailed")
          /\ UNCHANGED reviews
    /\ UNCHANGED <<cards, keyed, rows, missed, assigned, comments, inJira>>

\* the second request: the copy of the run it is made from was read before the first
RetryPullRequestReview(r) ==
    /\ At(r, "retry")
    /\ \/ /\ reviews' = [reviews EXCEPT ![r] = @ + 1]
          /\ \/ Answered(r) /\ Goto(r, "prPosted")
             \/ Lost(r) /\ Goto(r, "prFailed")
       \/ /\ Goto(r, "prFailed")
          /\ Answered(r)
          /\ UNCHANGED reviews
    /\ UNCHANGED <<cards, keyed, rows, missed, assigned, comments, inJira>>

RecordPullRequestReview(r) ==
    /\ \/ /\ At(r, "prPosted")
          /\ UpdateAgentRun(r, "done", [Run(r) EXCEPT !.review = "posted"])
       \/ /\ At(r, "prFailed")
          /\ UpdateAgentRun(r, "done", [Run(r) EXCEPT !.review = "warned"])
    /\ UNCHANGED <<cards, keyed, rows, missed, assigned, faults, outside>>

-----------------------------------------------------------------------------
\* Every goroutine ends; newPersistentKanbanBoard loads the rows, at most
\* fifty, by the text of their updated_at, which need not be the order of
\* their updates.
Restart ==
    /\ faults < MaxFaults
    /\ faults' = faults + 1
    /\ job' = [r \in Runs |-> Idle]
    /\ LET saved == {r \in Runs : rows[r] # NoRun}
       IN  \E order \in UNION {[1 .. n -> saved] : n \in 0 .. MaxRuns} :
            /\ \A i, k \in DOMAIN order : order[i] = order[k] => i = k
            /\ \/ Len(order) = MaxRuns
               \/ \A r \in saved : \E i \in DOMAIN order : order[i] = r
            /\ agentRuns' = [i \in DOMAIN order |-> rows[order[i]]]
    /\ UNCHANGED <<cards, keyed, rows, missed, assigned, outside>>

Goroutine(r) ==
    \/ PersistAgentRun(r)
    \/ Work(r)
    \/ LocalComment(r)
    \/ JiraComment(r)
    \/ RecordJiraComment(r)
    \/ CreatePullRequestReview(r)
    \/ RetryPullRequestReview(r)
    \/ RecordPullRequestReview(r)

Next ==
    \/ \E c \in Cards : GetsKey(c) \/ Deleted(c)
    \/ \E in \in Inputs : AssignTicketToAgent(in)
    \/ \E r \in Runs : Goroutine(r) \/ StoreError(r)
    \/ Restart

\* Each goroutine is scheduled, and Start gives it five minutes, after which
\* every call it makes returns an error.
Spec == Init /\ [][Next]_vars /\ \A r \in Runs : WF_vars(Goroutine(r))

-----------------------------------------------------------------------------
(* Properties.                                                             *)

TypeOK ==
    /\ cards \subseteq Cards
    /\ keyed \subseteq Cards
    /\ agentRuns \in Seq(AgentRun)
    /\ Len(agentRuns) <= MaxRuns
    /\ rows \in [Runs -> AgentRun \cup {NoRun}]
    /\ job \in [Runs -> [pc : Stages, save : AgentRun \cup {NoRun}, copy : AgentRun \cup {NoRun}]]
    /\ missed \subseteq Runs
    /\ assigned \in 0 .. MaxAssigned
    /\ faults \in 0 .. MaxFaults
    /\ reviews \in [Runs -> Nat]
    /\ lost \in [Runs -> Nat]

\* What the board shows of a run is what a restart would find, once the
\* goroutine of the run has saved its last change and SQLite took it
\* (updateAgentRun and persistAgentRun, SaveAgentRun).
StoredAsShown ==
    \A r \in Runs : Known(r) /\ job[r].save = NoRun /\ r \notin missed => rows[r] = Run(r)

\* A run is commented at most once, on the card and in Jira, the comment tells
\* how it ended, as its saved record does, and every run that ended and is still
\* listed is commented on its card, except one whose classification failed
\* (postRunJiraComment).
ToldAtTheEnd ==
    \A r \in Runs :
        /\ Len(comments[r]) <= 1 /\ Len(inJira[r]) <= 1
        /\ \A told \in {comments[r], inJira[r]} :
            told # <<>> => /\ told[1] \in Final
                          /\ (job[r].save = NoRun /\ r \notin missed => rows[r].status = told[1])
        /\ job[r].pc = "done" /\ Known(r) =>
            \/ comments[r] # <<>>
            \/ Run(r).card \notin cards
            \/ Run(r).status = "failed" /\ ~Run(r).reviewable

\* A run is shown and saved as posted to Jira or GitHub only if it is there, and
\* GitHub has a second review of it only where a request arrived whose answer was
\* lost (postRunJiraComment, CreatePullRequestReview).
PostedIsThere ==
    /\ \A run \in {agentRuns[i] : i \in DOMAIN agentRuns} \cup ({rows[r] : r \in Runs} \ {NoRun}) :
        /\ run.jira = "posted" => inJira[run.id] # <<>>
        /\ run.review = "posted" => reviews[run.id] > 0
    /\ \A r \in Runs : reviews[r] <= 1 + lost[r]

\* A run that was started ends, unless it falls off the list or the process
\* stops: nothing resumes a run (Start).
RunEnds ==
    \A r \in Runs :
        job[r].pc = "start" ~> (Known(r) /\ Run(r).status \in Final) \/ ~Known(r) \/ job[r].pc = "none"

\* The saved records of runs behave as RunLedger promises, through restarts and
\* failed saves.
Ledger == INSTANCE RunLedger WITH
    NoRecord <- NoRun,
    record <- [r \in Runs |->
                  IF rows[r] = NoRun THEN NoRun
                  ELSE [status |-> rows[r].status, jira |-> rows[r].jira, review |-> rows[r].review]]
LedgerSpec == Ledger!Spec

=============================================================================
