--------------------------- MODULE AgentRunsProofs ---------------------------
(***************************************************************************)
(* Proofs about AgentRuns, for any cards and inputs, number of runs, length *)
(* of the list and number of faults.                                       *)
(***************************************************************************)
EXTENDS AgentRuns, SequenceTheorems, TLAPS

USE MaxRunsAssumption, MaxAssignedAssumption, MaxFaultsAssumption, FlagsAssumption

-----------------------------------------------------------------------------
(* The list of runs.                                                       *)

\* The records the board shows, as a set, and that of r among them.
Listed == {agentRuns[i] : i \in DOMAIN agentRuns}
Shown(r) == {x \in Listed : x.id = r}

LEMMA FunctionSeq ==
    ASSUME NEW S, NEW n \in Nat, NEW f \in [1 .. n -> S]
    PROVE  f \in Seq(S) /\ Len(f) = n
<1>1. f \in Seq(S)
  BY SeqDef
<1>2. 1 .. Len(f) = 1 .. n /\ Len(f) \in Nat
  BY <1>1, LenProperties
<1> QED
  BY <1>1, <1>2

\* A record that replaces the one of its id.
LEMMA ReplaceList ==
    ASSUME NEW list \in Seq(AgentRun), NEW run \in AgentRun
    PROVE  /\ Replace(list, run) \in Seq(AgentRun)
           /\ Len(Replace(list, run)) = Len(list)
           /\ \A i \in 1 .. Len(list) : list[i] \in AgentRun
           /\ \A i \in 1 .. Len(list) :
                 Replace(list, run)[i] = IF list[i].id = run.id THEN run ELSE list[i]
<1>1. DOMAIN list = 1 .. Len(list) /\ Len(list) \in Nat
  BY LenProperties
<1>2. \A i \in 1 .. Len(list) : list[i] \in AgentRun
  BY ElementOfSeq
<1>3. Replace(list, run) \in [1 .. Len(list) -> AgentRun]
  BY <1>1, <1>2 DEF Replace
<1>4. Replace(list, run) \in Seq(AgentRun) /\ Len(Replace(list, run)) = Len(list)
  BY <1>1, <1>3, FunctionSeq
<1> QED
  BY <1>1, <1>2, <1>4 DEF Replace

\* A record put at the head of the list, which is then cut.
LEMMA CutList ==
    ASSUME NEW list \in Seq(AgentRun), NEW run \in AgentRun
    PROVE  /\ Cut(<<run>> \o list) \in Seq(AgentRun)
           /\ Len(Cut(<<run>> \o list)) <= MaxRuns
           /\ \A i \in 1 .. Len(Cut(<<run>> \o list)) :
                 \/ Cut(<<run>> \o list)[i] = run
                 \/ \E k \in 1 .. Len(list) : Cut(<<run>> \o list)[i] = list[k]
<1> DEFINE longer == <<run>> \o list
           n == IF Len(longer) < MaxRuns THEN Len(longer) ELSE MaxRuns
<1>1. <<run>> \in Seq(AgentRun) /\ Len(<<run>>) = 1 /\ <<run>>[1] = run
  OBVIOUS
<1>2. /\ longer \in Seq(AgentRun)
      /\ Len(longer) = 1 + Len(list) /\ Len(list) \in Nat
      /\ \A i \in 1 .. 1 + Len(list) : longer[i] = IF i <= 1 THEN <<run>>[i] ELSE list[i - 1]
  BY <1>1, ConcatProperties, LenProperties
<1>3. n \in Nat /\ 1 <= n /\ n <= MaxRuns /\ n <= Len(longer)
  BY <1>2
<1>4. \A i \in 1 .. n : longer[i] \in AgentRun
  BY <1>2, <1>3, ElementOfSeq
<1>5. Cut(longer) = SubSeq(longer, 1, n)
  BY DEF Cut
<1> HIDE DEF longer, n
<1>6. /\ SubSeq(longer, 1, n) \in Seq(AgentRun)
      /\ Len(SubSeq(longer, 1, n)) = n
      /\ \A i \in 1 .. n : SubSeq(longer, 1, n)[i] = longer[i]
  <2>1. /\ SubSeq(longer, 1, n) \in Seq(AgentRun)
        /\ Len(SubSeq(longer, 1, n)) = IF 1 <= n THEN n - 1 + 1 ELSE 0
        /\ \A i \in 1 .. n - 1 + 1 : SubSeq(longer, 1, n)[i] = longer[1 + i - 1]
    BY <1>3, <1>4, SubSeqProperties
  <2> QED
    BY <2>1, <1>3
<1>7. ASSUME NEW i \in 1 .. n
      PROVE  longer[i] = run \/ \E k \in 1 .. Len(list) : longer[i] = list[k]
  <2>1. CASE i = 1
    BY <2>1, <1>1, <1>2
  <2>2. CASE i > 1
    <3>1. i - 1 \in 1 .. Len(list) /\ longer[i] = list[i - 1]
      BY <2>2, <1>2, <1>3
    <3> QED
      BY <3>1
  <2> QED
    BY <2>1, <2>2
<1>8. /\ Cut(longer) \in Seq(AgentRun)
      /\ Len(Cut(longer)) <= MaxRuns
      /\ \A i \in 1 .. Len(Cut(longer)) :
            Cut(longer)[i] = run \/ \E k \in 1 .. Len(list) : Cut(longer)[i] = list[k]
  BY <1>3, <1>5, <1>6, <1>7
<1> QED
  BY <1>8 DEF longer

LEMMA ListedType ==
    ASSUME agentRuns \in Seq(AgentRun)
    PROVE  /\ Listed \subseteq AgentRun
           /\ \A r : Known(r) <=> Shown(r) # {}
           /\ \A r : Known(r) => Run(r) \in AgentRun /\ Run(r) \in Shown(r) /\ Run(r).id = r
<1>1. DOMAIN agentRuns = 1 .. Len(agentRuns)
  BY LenProperties
<1>2. Listed \subseteq AgentRun
  BY <1>1, ElementOfSeq DEF Listed
<1>3. ASSUME NEW r
      PROVE  /\ Known(r) <=> Shown(r) # {}
             /\ Known(r) => Run(r) \in Listed /\ Run(r).id = r
  BY DEF Known, Run, Shown, Listed
<1> QED
  BY <1>2, <1>3 DEF Shown

-----------------------------------------------------------------------------
(* Types.                                                                  *)

Jobs == [pc : Stages, save : AgentRun \cup {NoRun}, copy : AgentRun \cup {NoRun}]

LEMMA WithStatusType ==
    ASSUME NEW x \in AgentRun, NEW s \in InProgress \cup Final
    PROVE  /\ [x EXCEPT !.status = s] \in AgentRun
           /\ [x EXCEPT !.status = s].status = s
           /\ \A f \in {"id", "card", "keyed", "repo", "pr", "reviewable", "findings", "jira", "review"} :
                 [x EXCEPT !.status = s][f] = x[f]
BY DEF AgentRun

\* The list and the jobs after a step.
ListTyped ==
    /\ agentRuns' \in Seq(AgentRun) /\ Len(agentRuns') <= MaxRuns
    /\ job' \in [Runs -> Jobs]

\* A run updated on the board, where there is one, and a job that saves it.
UpdateTyped(r, pc, run) ==
    /\ pc \in Stages
    /\ Known(r) => run \in AgentRun

LEMMA UpdateTypes ==
    ASSUME TypeOK, NEW r \in Runs, NEW pc, NEW run, UpdateTyped(r, pc, run),
           UpdateAgentRun(r, pc, run)
    PROVE  ListTyped
<1>1. job \in [Runs -> Jobs] /\ agentRuns \in Seq(AgentRun) /\ Len(agentRuns) <= MaxRuns
  BY DEF TypeOK, Jobs
<1>2. CASE Known(r)
  <2>1. run \in AgentRun /\ pc \in Stages
    BY <1>2 DEF UpdateTyped
  <2>2. agentRuns' = Replace(agentRuns, run)
    BY <1>2 DEF UpdateAgentRun
  <2>3. agentRuns' \in Seq(AgentRun) /\ Len(agentRuns') <= MaxRuns
    BY <1>1, <2>1, <2>2, ReplaceList
  <2>4. [pc |-> pc, save |-> run, copy |-> NoRun] \in Jobs
    BY <2>1 DEF Jobs
  <2> QED
    BY <1>1, <1>2, <2>3, <2>4 DEF UpdateAgentRun, ListTyped
<1>3. CASE ~Known(r)
  BY <1>1, <1>3 DEF UpdateAgentRun, UpdateTyped, Jobs, ListTyped
<1> QED
  BY <1>2, <1>3

LEMMA GotoTypes ==
    ASSUME TypeOK, NEW r \in Runs, NEW pc \in Stages, Goto(r, pc)
    PROVE  ListTyped
BY DEF TypeOK, Goto, Jobs, ListTyped

LEMMA WorkTypes ==
    ASSUME TypeOK, NEW r \in Runs, Work(r)
    PROVE  TypeOK'
<1> SUFFICES ListTyped
  BY DEF Work, TypeOK, Jobs, ListTyped, outside
<1>1. Known(r) => Run(r) \in AgentRun
  BY ListedType DEF TypeOK
<1>2. ASSUME NEW pc \in Stages, NEW s \in InProgress \cup Final,
             UpdateAgentRun(r, pc, WithStatus(r, s))
      PROVE  ListTyped
  <2>1. UpdateTyped(r, pc, WithStatus(r, s))
    BY <1>1, WithStatusType DEF UpdateTyped, WithStatus
  <2> QED
    BY <1>2, <2>1, UpdateTypes
<1>3. CASE Start(r)
  <2>1. (IF Known(r) THEN "classify" ELSE "done") \in Stages /\ "classifying" \in InProgress \cup Final
    BY DEF Stages, InProgress
  <2> QED
    BY <1>2, <1>3, <2>1 DEF Start
<1>4. CASE Classify(r)
  <2>1. ASSUME NEW reviewable \in BOOLEAN,
               UpdateAgentRun(r, "route", [Run(r) EXCEPT !.reviewable = reviewable])
        PROVE  ListTyped
    <3>1. UpdateTyped(r, "route", [Run(r) EXCEPT !.reviewable = reviewable])
      BY <1>1 DEF UpdateTyped, Stages, AgentRun
    <3> QED
      BY <2>1, <3>1, UpdateTypes
  <2>2. "done" \in Stages /\ "failed" \in InProgress \cup Final
    BY DEF Stages, Final
  <2> QED
    BY <1>2, <1>4, <2>1, <2>2 DEF Classify
<1>5. CASE Route(r)
  <2>1. "comment" \in Stages /\ "check" \in Stages /\ "unsupported" \in InProgress \cup Final
    BY DEF Stages, Final
  <2>2. CASE Goto(r, "check")
    BY <2>1, <2>2, GotoTypes
  <2>3. CASE UpdateAgentRun(r, "comment", WithStatus(r, "unsupported"))
    BY <1>2, <2>1, <2>3
  <2> QED
    BY <1>5, <2>2, <2>3 DEF Route
<1>6. CASE Check(r)
  <2>1. /\ "comment" \in Stages /\ "done" \in Stages /\ "fetch" \in Stages
        /\ "failed" \in InProgress \cup Final /\ "needs_input" \in InProgress \cup Final
        /\ "fetching_context" \in InProgress \cup Final
    BY DEF Stages, Final, InProgress
  <2>2. CASE Goto(r, "done")
    BY <2>1, <2>2, GotoTypes
  <2> QED
    BY <1>2, <1>6, <2>1, <2>2 DEF Check
<1>7. CASE FetchPullRequestFiles(r)
  <2>1. /\ "comment" \in Stages /\ "review" \in Stages
        /\ "failed" \in InProgress \cup Final /\ "reviewing" \in InProgress \cup Final
    BY DEF Stages, Final, InProgress
  <2> QED
    BY <1>2, <1>7, <2>1 DEF FetchPullRequestFiles
<1>8. CASE ReviewPullRequest(r)
  <2>1. "comment" \in Stages /\ "failed" \in InProgress \cup Final
    BY DEF Stages, Final, InProgress
  <2>2. CASE UpdateAgentRun(r, "publish", [Run(r) EXCEPT !.findings = TRUE])
    <3>1. UpdateTyped(r, "publish", [Run(r) EXCEPT !.findings = TRUE])
      BY <1>1 DEF UpdateTyped, Stages, AgentRun
    <3> QED
      BY <2>2, <3>1, UpdateTypes
  <2> QED
    BY <1>2, <1>8, <2>1, <2>2 DEF ReviewPullRequest
<1>9. CASE Publish(r) \/ Complete(r)
  <2>1. /\ "complete" \in Stages /\ "comment" \in Stages
        /\ "publishing" \in InProgress \cup Final /\ "completed" \in InProgress \cup Final
    BY DEF Stages, Final, InProgress
  <2> QED
    BY <1>2, <1>9, <2>1 DEF Publish, Complete
<1> QED
  BY <1>3, <1>4, <1>5, <1>6, <1>7, <1>8, <1>9 DEF Work

LEMMA AfterCommentType == \A r : AfterComment(r) \in Stages /\ AfterComment(r) \in {"pr", "done"}
BY DEF AfterComment, Stages

LEMMA RecordTypes ==
    ASSUME TypeOK, NEW r \in Runs, RecordJiraComment(r) \/ RecordPullRequestReview(r)
    PROVE  TypeOK'
<1>1. Known(r) => Run(r) \in AgentRun
  BY ListedType DEF TypeOK
<1>2. ASSUME NEW p \in Published, UpdateAgentRun(r, AfterComment(r), [Run(r) EXCEPT !.jira = p])
      PROVE  ListTyped
  <2>1. UpdateTyped(r, AfterComment(r), [Run(r) EXCEPT !.jira = p])
    BY <1>1, AfterCommentType DEF UpdateTyped, AgentRun
  <2> QED
    BY <1>2, <2>1, UpdateTypes
<1>3. ASSUME NEW p \in Published, UpdateAgentRun(r, "done", [Run(r) EXCEPT !.review = p])
      PROVE  ListTyped
  <2>1. UpdateTyped(r, "done", [Run(r) EXCEPT !.review = p])
    BY <1>1 DEF UpdateTyped, AgentRun, Stages
  <2> QED
    BY <1>3, <2>1, UpdateTypes
<1>4. "posted" \in Published /\ "warned" \in Published
  BY DEF Published
<1>5. ListTyped
  BY <1>2, <1>3, <1>4 DEF RecordJiraComment, RecordPullRequestReview
<1> QED
  BY <1>5 DEF RecordJiraComment, RecordPullRequestReview, TypeOK, Jobs, ListTyped, outside

LEMMA AskTypes ==
    ASSUME TypeOK, NEW r \in Runs,
           \/ LocalComment(r) \/ JiraComment(r)
           \/ CreatePullRequestReview(r) \/ RetryPullRequestReview(r)
    PROVE  TypeOK'
<1>1. /\ faults' \in 0 .. MaxFaults
      /\ lost' \in [Runs -> Nat]
      /\ reviews' \in [Runs -> Nat]
  <2>1. UNCHANGED <<faults, lost>> \/ Lost(r)
    BY DEF LocalComment, JiraComment, CreatePullRequestReview, RetryPullRequestReview, Answered
  <2>2. reviews' = reviews \/ reviews' = [reviews EXCEPT ![r] = @ + 1]
    BY DEF LocalComment, JiraComment, CreatePullRequestReview, RetryPullRequestReview
  <2>3. faults \in 0 .. MaxFaults /\ lost \in [Runs -> Nat] /\ reviews \in [Runs -> Nat]
    BY DEF TypeOK
  <2>4. faults' \in 0 .. MaxFaults /\ lost' \in [Runs -> Nat]
    BY <2>1, <2>3 DEF Lost
  <2> QED
    BY <2>2, <2>3, <2>4
<1>2. ListTyped
  <2>1. CASE LocalComment(r)
    <3>1. CASE Known(r)
      <4>1. Run(r) \in AgentRun /\ "jira" \in Stages
        BY <3>1, ListedType DEF TypeOK, Stages
      <4> QED
        <5>1. job' = [job EXCEPT ![r].pc = "jira", ![r].copy = Run(r)] /\ agentRuns' = agentRuns
          BY <2>1, <3>1 DEF LocalComment
        <5>2. job' \in [Runs -> Jobs]
          BY <4>1, <5>1 DEF TypeOK, Jobs
        <5> QED
          BY <5>1, <5>2 DEF TypeOK, ListTyped
    <3>2. CASE ~Known(r)
      <4>1. Goto(r, "done") /\ "done" \in Stages
        BY <2>1, <3>2 DEF LocalComment, Stages
      <4> QED
        BY <4>1, GotoTypes
    <3> QED
      BY <3>1, <3>2
  <2>2. CASE JiraComment(r) \/ CreatePullRequestReview(r) \/ RetryPullRequestReview(r)
    <3>1. \E pc \in {"jiraPosted", "jiraFailed", "retry", "prPosted", "prFailed"} : Goto(r, pc)
      BY <2>2 DEF JiraComment, CreatePullRequestReview, RetryPullRequestReview
    <3> QED
      BY <3>1, GotoTypes DEF Stages
  <2> QED
    BY <2>1, <2>2
<1> QED
  BY <1>1, <1>2 DEF TypeOK, Jobs, ListTyped, LocalComment, JiraComment, CreatePullRequestReview,
         RetryPullRequestReview

\* The run a call assigns.
Queued(in) ==
    [id |-> assigned + 1, card |-> in.card, keyed |-> in.card \in keyed,
     repo |-> in.repo, pr |-> in.pr, status |-> "queued", reviewable |-> FALSE,
     findings |-> FALSE, jira |-> "no", review |-> "no"]

LEMMA AssignEffect ==
    ASSUME TypeOK, NEW in \in Inputs, AssignTicketToAgent(in)
    PROVE  /\ Queued(in) \in AgentRun
           /\ Queued(in).id = assigned + 1 /\ assigned + 1 \in Runs
           /\ agentRuns' = Cut(<<Queued(in)>> \o agentRuns)
           /\ job' = [job EXCEPT ![assigned + 1] = [Idle EXCEPT !.pc = "start", !.save = Queued(in)]]
           /\ assigned' = assigned + 1
           /\ UNCHANGED <<cards, keyed, rows, missed, faults, outside>>
<1>1. in.card \in Cards /\ in.repo \in BOOLEAN /\ in.pr \in BOOLEAN /\ in.card \in cards
  BY InputsAssumption DEF AssignTicketToAgent
<1>2. assigned + 1 \in Runs
  BY DEF TypeOK, AssignTicketToAgent, Runs
<1>3. (in.card \in keyed) \in BOOLEAN
  OBVIOUS
<1>4. Queued(in) \in AgentRun
  BY <1>1, <1>2, <1>3 DEF Queued, AgentRun, InProgress, Published
<1> QED
  BY <1>2, <1>4 DEF AssignTicketToAgent, Queued

LEMMA RestartEffect ==
    ASSUME TypeOK, Restart
    PROVE  /\ agentRuns' \in Seq(AgentRun) /\ Len(agentRuns') <= MaxRuns
           /\ \A i \in DOMAIN agentRuns' : \E r \in Runs : rows[r] # NoRun /\ agentRuns'[i] = rows[r]
<1> DEFINE saved == {r \in Runs : rows[r] # NoRun}
<1>1. PICK n \in 0 .. MaxRuns :
              \E o \in [1 .. n -> saved] : agentRuns' = [i \in DOMAIN o |-> rows[o[i]]]
  BY DEF Restart
<1>a. PICK order \in [1 .. n -> saved] : agentRuns' = [i \in DOMAIN order |-> rows[order[i]]]
  BY <1>1
<1>2. n \in Nat /\ n <= MaxRuns /\ DOMAIN order = 1 .. n
  BY <1>1
<1>3. \A r \in saved : rows[r] \in AgentRun
  BY DEF TypeOK
<1>4. agentRuns' \in [1 .. n -> AgentRun]
  BY <1>a, <1>2, <1>3
<1> QED
  BY <1>a, <1>2, <1>4, FunctionSeq

LEMMA TypesNext == TypeOK /\ [Next]_vars => TypeOK'
<1> SUFFICES ASSUME TypeOK, [Next]_vars
             PROVE  TypeOK'
  OBVIOUS
<1>1. ASSUME NEW c \in Cards, GetsKey(c) \/ Deleted(c)
      PROVE  TypeOK'
  BY <1>1 DEF TypeOK, GetsKey, Deleted, outside
<1>2. ASSUME NEW in \in Inputs, AssignTicketToAgent(in)
      PROVE  TypeOK'
  <2>1. /\ Queued(in) \in AgentRun /\ assigned + 1 \in Runs
        /\ agentRuns' = Cut(<<Queued(in)>> \o agentRuns)
        /\ job' = [job EXCEPT ![assigned + 1] = [Idle EXCEPT !.pc = "start", !.save = Queued(in)]]
        /\ assigned' = assigned + 1
        /\ UNCHANGED <<cards, keyed, rows, missed, faults, outside>>
    BY <1>2, AssignEffect
  <2>2. agentRuns' \in Seq(AgentRun) /\ Len(agentRuns') <= MaxRuns
    BY <2>1, CutList DEF TypeOK
  <2>3. [Idle EXCEPT !.pc = "start", !.save = Queued(in)] \in Jobs
    BY <2>1 DEF Idle, Jobs, Stages
  <2>4. job' \in [Runs -> Jobs] /\ assigned' \in 0 .. MaxAssigned
    BY <2>1, <2>3 DEF TypeOK, Jobs, Runs
  <2> QED
    BY <2>1, <2>2, <2>4 DEF TypeOK, Jobs, outside
<1>3. ASSUME NEW r \in Runs, PersistAgentRun(r) \/ StoreError(r)
      PROVE  TypeOK'
  <2>1. job[r].save \in AgentRun
    BY <1>3 DEF TypeOK, PersistAgentRun, StoreError
  <2>2. /\ rows' \in [Runs -> AgentRun \cup {NoRun}]
        /\ job' \in [Runs -> Jobs]
        /\ missed' \subseteq Runs
        /\ faults' \in 0 .. MaxFaults
    <3>1. job' = [job EXCEPT ![r].save = NoRun]
      BY <1>3 DEF PersistAgentRun, StoreError
    <3>2. job' \in [Runs -> Jobs]
      BY <3>1 DEF TypeOK, Jobs
    <3>3. rows' = [rows EXCEPT ![r] = job[r].save] \/ rows' = rows
      BY <1>3 DEF PersistAgentRun, StoreError
    <3>4. rows' \in [Runs -> AgentRun \cup {NoRun}]
      BY <2>1, <3>3 DEF TypeOK
    <3>5. missed' \subseteq missed \cup {r} /\ faults' \in 0 .. MaxFaults
      <4>1. missed' \subseteq missed \cup {r}
        BY <1>3 DEF PersistAgentRun, StoreError
      <4>2. faults' = faults \/ (faults < MaxFaults /\ faults' = faults + 1)
        BY <1>3 DEF PersistAgentRun, StoreError
      <4> QED
        BY <4>1, <4>2 DEF TypeOK
    <3> QED
      BY <3>2, <3>4, <3>5 DEF TypeOK
  <2>3. UNCHANGED <<cards, keyed, agentRuns, assigned, reviews, lost>>
    BY <1>3 DEF PersistAgentRun, StoreError, outside
  <2> QED
    BY <2>2, <2>3 DEF TypeOK, Jobs
<1>4. ASSUME NEW r \in Runs, Goroutine(r)
      PROVE  TypeOK'
  BY <1>3, <1>4, WorkTypes, RecordTypes, AskTypes DEF Goroutine
<1>5. CASE Restart
  <2>1. agentRuns' \in Seq(AgentRun) /\ Len(agentRuns') <= MaxRuns
    BY <1>5, RestartEffect
  <2>2. Idle \in Jobs
    BY DEF Idle, Jobs, Stages
  <2> QED
    BY <1>5, <2>1, <2>2 DEF Restart, TypeOK, Jobs, outside
<1>6. CASE UNCHANGED vars
  BY <1>6 DEF TypeOK, vars
<1> QED
  BY <1>1, <1>2, <1>3, <1>4, <1>5, <1>6 DEF Next

LEMMA TypesInit == Init => TypeOK
<1> SUFFICES ASSUME Init
             PROVE  TypeOK
  OBVIOUS
<1>1. agentRuns \in Seq(AgentRun) /\ Len(agentRuns) <= MaxRuns
  BY EmptySeq DEF Init
<1>2. Idle \in Jobs
  BY DEF Idle, Jobs, Stages
<1> QED
  BY <1>1, <1>2 DEF Init, TypeOK, Jobs, Runs

\* Whatever is asked, however many runs there are and however long the list is:
\* the board's list and the saved rows hold runs, and the list no more than it
\* may (Cut).
THEOREM RunTypes == Spec => []TypeOK
BY TypesInit, TypesNext, PTL DEF Spec

-----------------------------------------------------------------------------
(* The inductive invariant: what holds of each run.                        *)

\* Every record there is of r: shown, saved, or waiting to be saved.
Kept(r) == Shown(r) \cup ({rows[r], job[r].save} \ {NoRun})

\* There is nothing yet of the runs of later calls.
Fresh(r) ==
    r > assigned =>
        /\ job[r] = Idle
        /\ Kept(r) = {}
        /\ comments[r] = <<>> /\ inJira[r] = <<>> /\ reviews[r] = 0

\* The records of r are records of one run, in the order board, pending save, row.
Kin(r) ==
    /\ \A x \in Kept(r) : x.id = r /\ Ledger!Grows(x, x)
    /\ rows[r] # NoRun => \A x \in Kept(r) : Ledger!Grows(rows[r], x)
    /\ \A x, y \in Shown(r) : x = y
    /\ job[r].save # NoRun => \A x \in Shown(r) : x = job[r].save
    /\ job[r].save = NoRun /\ r \notin missed => \A x \in Shown(r) : x = rows[r]

\* What a shown run looks like when its goroutine is at pc.
StagedAt(pc, x) ==
    /\ pc = "start" => x.status = "queued" /\ ~x.reviewable
    /\ pc = "classify" => x.status = "classifying" /\ ~x.reviewable
    /\ pc \in {"route", "check"} => x.status = "classifying"
    /\ pc = "fetch" => x.status = "fetching_context"
    /\ pc \in {"review", "publish"} => x.status = "reviewing"
    /\ pc = "complete" => x.status = "publishing"
    /\ pc \in {"comment", "jira", "jiraPosted", "jiraFailed", "done"} => x.status \in Final
    /\ pc \in {"pr", "retry", "prPosted", "prFailed"} => x.status = "completed"
    /\ pc \notin {"pr", "retry", "prPosted", "prFailed", "done", "none"} => x.jira = "no"
    /\ pc \notin {"done", "none"} => x.review = "no"
Staged(r) == \A x \in Shown(r) : StagedAt(job[r].pc, x)

\* The stages before a run is told of on its card.
Untold == {"start", "classify", "route", "check", "fetch", "review", "publish", "complete", "comment"}

\* The statuses told of r, and the one it is about to tell Jira.
Telling(r) ==
    {comments[r][i] : i \in DOMAIN comments[r]} \cup {inJira[r][i] : i \in DOMAIN inJira[r]}
        \cup {x.status : x \in IF job[r].pc = "jira" THEN {job[r].copy} ELSE {}}

ToldOnce(r) ==
    /\ Len(comments[r]) <= 1 /\ Len(inJira[r]) <= 1
    /\ job[r].pc \in Untold => comments[r] = <<>>
    /\ job[r].pc \in Untold \cup {"jira"} => inJira[r] = <<>>
    /\ job[r].pc = "jira" => job[r].copy # NoRun /\ job[r].save = NoRun

\* What is told stays true of every record of r that is yet to be saved, and of
\* the saved one unless the latest save failed.
ToldTrue(r) ==
    \A s \in Telling(r) :
        /\ s \in Final
        /\ job[r].save # NoRun => job[r].save.status = s
        /\ job[r].pc # "none" => \A x \in Shown(r) : x.status = s
        /\ r \notin missed => rows[r] # NoRun /\ rows[r].status = s

\* Past the comment a shown run has it, or its card is gone, or it was never classified.
ToldIfShown(r) ==
    job[r].pc \notin Untold \cup {"none"} =>
        \A x \in Shown(r) :
            \/ comments[r] # <<>>
            \/ x.card \notin cards
            \/ job[r].pc = "done" /\ x.status = "failed" /\ ~x.reviewable

\* What is marked as posted, or about to be, is there.
Posted(r) ==
    /\ \A x \in Kept(r) : /\ x.jira = "posted" => inJira[r] # <<>>
                          /\ x.review = "posted" => reviews[r] > 0
    /\ job[r].pc = "jiraPosted" => inJira[r] # <<>>
    /\ job[r].pc = "prPosted" => reviews[r] > 0

\* Before the answer that ends the goroutine every review there is was lost.
Reviewed(r) ==
    /\ reviews[r] <= 1 + lost[r]
    /\ job[r].pc \notin {"prPosted", "done", "none"} => reviews[r] <= lost[r]

RunOK(r) ==
    /\ Fresh(r) /\ Kin(r) /\ Staged(r)
    /\ ToldOnce(r) /\ ToldTrue(r) /\ ToldIfShown(r)
    /\ Posted(r) /\ Reviewed(r)

\* Only an end is told.
ToldTyped ==
    /\ comments \in [Runs -> Seq(Final)]
    /\ inJira \in [Runs -> Seq(Final)]

IInv == ToldTyped /\ \A r \in Runs : RunOK(r)

-----------------------------------------------------------------------------
(* How records grow (RunLedger).                                           *)

LEMMA GrowsFacts ==
    ASSUME NEW a \in AgentRun, NEW b \in AgentRun, NEW c \in AgentRun
    PROVE  /\ Ledger!Grows(a, b) => Ledger!Grows(b, b)
           /\ Ledger!Grows(a, b) /\ Ledger!Grows(b, c) => Ledger!Grows(a, c)
<1>1. \A x \in AgentRun : Ledger!Rank[x.status] \in 0 .. 5
  BY DEF AgentRun, InProgress, Final, Ledger!Rank
<1>2. Ledger!Rank[a.status] \in 0 .. 5 /\ Ledger!Rank[b.status] \in 0 .. 5 /\ Ledger!Rank[c.status] \in 0 .. 5
  BY <1>1
<1> QED
  BY <1>2 DEF Ledger!Grows

LEMMA LedgerFinal == Ledger!Final = Final
BY DEF Ledger!Final, Final, Ledger!Statuses, Ledger!Rank

\* A run that is not published may take a later status.
LEMMA GrowsStatus ==
    ASSUME NEW x \in AgentRun, NEW y \in AgentRun,
           x.jira = "no", x.review = "no", y.jira = "no", y.review = "no",
           \/ x.status = y.status
           \/ x.status = "queued" /\ y.status # "queued"
           \/ x.status = "classifying" /\ y.status \notin {"queued", "classifying"}
           \/ x.status = "fetching_context" /\ y.status \in Final \cup {"reviewing", "publishing"}
           \/ x.status = "reviewing" /\ y.status \in Final \cup {"publishing"}
           \/ x.status = "publishing" /\ y.status \in Final
    PROVE  Ledger!Grows(x, y)
BY DEF AgentRun, InProgress, Final, Ledger!Rank, Ledger!Grows

\* A run that ended may be marked as published.
LEMMA GrowsMarks ==
    ASSUME NEW x \in AgentRun, NEW y \in AgentRun, Ledger!Grows(x, x),
           y.status = x.status, x.status \in Final,
           \/ x.jira = "no" /\ y.review = x.review
           \/ x.review = "no" /\ y.jira = x.jira /\ x.status = "completed"
    PROVE  Ledger!Grows(x, y)
BY LedgerFinal DEF Ledger!Grows

-----------------------------------------------------------------------------
(* What the steps do to the runs shown.                                    *)

LEMMA UpdateEffect ==
    ASSUME TypeOK, NEW r \in Runs, NEW pc, NEW run, UpdateTyped(r, pc, run),
           Known(r) => run.id = r,
           UpdateAgentRun(r, pc, run)
    PROVE  /\ \A q \in Runs \ {r} : Shown(q)' = Shown(q) /\ job'[q] = job[q]
           /\ ~Known(r) => Shown(r)' = {} /\ job'[r] = [job[r] EXCEPT !.pc = pc]
           /\ Known(r) => Shown(r)' \subseteq {run} /\ job'[r] = [pc |-> pc, save |-> run, copy |-> NoRun]
<1>1. agentRuns \in Seq(AgentRun) /\ job \in [Runs -> Jobs]
  BY DEF TypeOK, Jobs
<1>2. CASE ~Known(r)
  <2>1. agentRuns' = agentRuns /\ job' = [job EXCEPT ![r].pc = pc]
    BY <1>2 DEF UpdateAgentRun
  <2>2. \A q : Shown(q)' = Shown(q)
    BY <2>1 DEF Shown, Listed
  <2>3. Shown(r) = {}
    BY <1>1, <1>2, ListedType
  <2> QED
    BY <1>1, <1>2, <2>1, <2>2, <2>3
<1>3. CASE Known(r)
  <2>1. run \in AgentRun /\ run.id = r
    BY <1>3 DEF UpdateTyped
  <2>2. /\ agentRuns' = Replace(agentRuns, run)
        /\ job' = [job EXCEPT ![r] = [pc |-> pc, save |-> run, copy |-> NoRun]]
    BY <1>3 DEF UpdateAgentRun
  <2>3. DOMAIN agentRuns = 1 .. Len(agentRuns)
    BY <1>1, LenProperties
  <2>4. /\ DOMAIN agentRuns' = 1 .. Len(agentRuns)
        /\ \A i \in 1 .. Len(agentRuns) :
              agentRuns'[i] = IF agentRuns[i].id = r THEN run ELSE agentRuns[i]
    <3>1. /\ Replace(agentRuns, run) \in Seq(AgentRun)
          /\ Len(Replace(agentRuns, run)) = Len(agentRuns)
          /\ \A i \in 1 .. Len(agentRuns) :
                Replace(agentRuns, run)[i] = IF agentRuns[i].id = run.id THEN run ELSE agentRuns[i]
      BY <1>1, <2>1, ReplaceList
    <3>2. DOMAIN Replace(agentRuns, run) = 1 .. Len(agentRuns)
      BY <3>1, LenProperties
    <3> QED
      BY <2>1, <2>2, <3>1, <3>2
  <2>5. Listed' = {agentRuns'[i] : i \in 1 .. Len(agentRuns)}
    BY <2>4 DEF Listed
  <2>6. Listed = {agentRuns[i] : i \in 1 .. Len(agentRuns)}
    BY <2>3 DEF Listed
  <2>7. Shown(r)' \subseteq {run}
    <3> SUFFICES ASSUME NEW x \in Listed', x.id = r
                 PROVE  x = run
      BY DEF Shown
    <3>1. PICK i \in 1 .. Len(agentRuns) : x = agentRuns'[i]
      BY <2>5
    <3> QED
      BY <2>4, <3>1
  <2>8. ASSUME NEW q \in Runs \ {r}
        PROVE  Shown(q)' = Shown(q)
    <3>1. \A x : x \in Listed' /\ x.id = q <=> x \in Listed /\ x.id = q
      BY <2>1, <2>4, <2>5, <2>6
    <3> QED
      BY <3>1 DEF Shown
  <2> QED
    BY <1>1, <1>3, <2>2, <2>7, <2>8
<1> QED
  BY <1>2, <1>3

LEMMA GotoEffect ==
    ASSUME TypeOK, NEW r \in Runs, NEW pc, Goto(r, pc)
    PROVE  /\ \A q \in Runs \ {r} : job'[q] = job[q]
           /\ \A q \in Runs : Shown(q)' = Shown(q)
           /\ job'[r] = [job[r] EXCEPT !.pc = pc]
BY DEF Goto, TypeOK, Shown, Listed

\* A step that does not concern run q.
Same(q) ==
    /\ Shown(q)' \subseteq Shown(q)
    /\ rows'[q] = rows[q] /\ job'[q] = job[q] /\ (q \in missed' <=> q \in missed)
    /\ comments'[q] = comments[q] /\ inJira'[q] = inJira[q]
    /\ reviews'[q] = reviews[q] /\ lost'[q] = lost[q]
    /\ cards' \subseteq cards
    /\ assigned' >= assigned

LEMMA SameKeeps ==
    ASSUME TypeOK, TypeOK', NEW q \in Runs, RunOK(q), Same(q)
    PROVE  RunOK(q)'
<1>1. Kept(q)' \subseteq Kept(q)
  BY DEF Same, Kept
<1>2. Telling(q)' = Telling(q)
  BY DEF Same, Telling
<1>3. Fresh(q)'
  <2>1. q \in Nat /\ assigned \in Nat /\ assigned' \in Nat /\ assigned' >= assigned
    BY DEF Same, TypeOK, Runs
  <2>2. q > assigned' => q > assigned
    BY <2>1
  <2> QED
    BY <1>1, <2>2 DEF Same, RunOK, Fresh
<1>4. Kin(q)'
  BY <1>1 DEF Same, RunOK, Kin
<1>5. Staged(q)'
  BY DEF Same, RunOK, Staged
<1>6. ToldOnce(q)'
  BY DEF Same, RunOK, ToldOnce
<1>7. ToldTrue(q)'
  BY <1>2 DEF Same, RunOK, ToldTrue
<1>8. ToldIfShown(q)'
  BY DEF Same, RunOK, ToldIfShown
<1>9. Posted(q)' /\ Reviewed(q)'
  BY <1>1 DEF Same, RunOK, Posted, Reviewed
<1> QED
  BY <1>3, <1>4, <1>5, <1>6, <1>7, <1>8, <1>9 DEF RunOK

\* What is known of a run that is listed.
LEMMA RunFacts ==
    ASSUME TypeOK, NEW r \in Runs, RunOK(r), Known(r)
    PROVE  /\ Run(r) \in AgentRun /\ Run(r).id = r
           /\ Shown(r) = {Run(r)}
           /\ Run(r) \in Kept(r) /\ Ledger!Grows(Run(r), Run(r))
           /\ StagedAt(job[r].pc, Run(r))
<1>1. Run(r) \in AgentRun /\ Run(r).id = r /\ Run(r) \in Shown(r)
  BY ListedType DEF TypeOK
<1>2. Shown(r) = {Run(r)} /\ Run(r) \in Kept(r)
  BY <1>1 DEF RunOK, Kin, Kept
<1> QED
  BY <1>1, <1>2 DEF RunOK, Kin, Staged

LEMMA KeptTypes ==
    ASSUME TypeOK, NEW r \in Runs
    PROVE  Kept(r) \subseteq AgentRun /\ NoRun \notin Kept(r)
<1>1. Shown(r) \subseteq AgentRun
  BY ListedType DEF TypeOK, Shown
<1> QED
  BY <1>1, NoRunAssumption DEF Kept, TypeOK

\* A run may be updated to one that is later, and looks as at the new stage it should.
Follows(r, pc, run) ==
    /\ run \in AgentRun /\ run.id = r
    /\ Ledger!Grows(Run(r), run)
    /\ StagedAt(pc, run)

LEMMA UpdateKeepsKin ==
    ASSUME TypeOK, NEW r \in Runs, RunOK(r), job[r].save = NoRun,
           NEW pc \in Stages \ {"none", "start"}, NEW run,
           UpdateAgentRun(r, pc, run),
           UNCHANGED <<cards, rows, missed, assigned, outside>>,
           job[r].pc # "none",
           Known(r) => Follows(r, pc, run)
    PROVE  /\ Fresh(r)' /\ Kin(r)' /\ Staged(r)'
           /\ job'[r].pc = pc
           /\ Known(r) => Shown(r)' \subseteq {run} /\ job'[r].save = run /\ Kept(r)' \subseteq Kept(r) \cup {run}
           /\ ~Known(r) => Shown(r)' = {} /\ job'[r].save = NoRun /\ Kept(r)' \subseteq Kept(r)
<1>1. /\ job[r] \in Jobs
      /\ ~Known(r) => Shown(r)' = {} /\ job'[r] = [job[r] EXCEPT !.pc = pc]
      /\ Known(r) => Shown(r)' \subseteq {run} /\ job'[r] = [pc |-> pc, save |-> run, copy |-> NoRun]
  <2>1. UpdateTyped(r, pc, run) /\ (Known(r) => run.id = r)
    BY DEF Follows, UpdateTyped
  <2>2. job[r] \in Jobs
    BY DEF TypeOK, Jobs
  <2> QED
    BY <2>1, <2>2, UpdateEffect
<1>2. job'[r].pc = pc
  BY <1>1 DEF Jobs
<1>3. Fresh(r)'
  <2>1. ~(r > assigned) /\ assigned' = assigned
    BY DEF RunOK, Fresh, Idle
  <2> QED
    BY <2>1 DEF Fresh
<1>4. CASE ~Known(r)
  <2>1. Shown(r)' = {} /\ job'[r].save = NoRun /\ rows'[r] = rows[r] /\ missed' = missed
    BY <1>1, <1>4 DEF Jobs
  <2>2. Kept(r)' \subseteq Kept(r)
    BY <2>1 DEF Kept
  <2>3. Kin(r)' /\ Staged(r)'
    BY <2>1, <2>2 DEF RunOK, Kin, Staged
  <2> QED
    BY <1>2, <1>3, <1>4, <2>1, <2>2, <2>3
<1>5. CASE Known(r)
  <2>1. /\ Shown(r)' \subseteq {run} /\ job'[r].save = run
        /\ rows'[r] = rows[r] /\ missed' = missed
        /\ run \in AgentRun /\ run.id = r /\ Ledger!Grows(Run(r), run) /\ StagedAt(pc, run)
    BY <1>1, <1>5 DEF Follows
  <2>2. run # NoRun
    BY <2>1, NoRunAssumption
  <2>3. Kept(r)' \subseteq {run} \cup ({rows[r]} \ {NoRun})
    BY <2>1 DEF Kept
  <2>4. /\ Run(r) \in AgentRun /\ Run(r) \in Kept(r)
        /\ Kept(r) \subseteq AgentRun
        /\ rows[r] # NoRun => rows[r] \in Kept(r)
    BY <1>5, RunFacts, KeptTypes DEF Kept
  <2>5. Ledger!Grows(run, run)
    BY <2>1, <2>4, GrowsFacts
  <2>6. rows[r] # NoRun => Ledger!Grows(rows[r], run) /\ Ledger!Grows(rows[r], rows[r]) /\ rows[r].id = r
    <3>1. rows[r] # NoRun => Ledger!Grows(rows[r], Run(r)) /\ Ledger!Grows(rows[r], rows[r]) /\ rows[r].id = r
      BY <2>4 DEF RunOK, Kin
    <3> QED
      BY <2>1, <2>4, <3>1, GrowsFacts
  <2>7. Kin(r)'
    BY <2>1, <2>2, <2>3, <2>5, <2>6 DEF Kin
  <2>8. Staged(r)'
    BY <1>2, <2>1 DEF Staged
  <2>9. Kept(r)' \subseteq Kept(r) \cup {run}
    BY <2>3 DEF Kept
  <2> QED
    BY <1>2, <1>3, <1>5, <2>1, <2>7, <2>8, <2>9
<1> QED
  BY <1>4, <1>5

\* Up to the comment on the card.
LEMMA UpdateUntold ==
    ASSUME TypeOK, NEW r \in Runs, RunOK(r), job[r].save = NoRun,
           job[r].pc \in Untold,
           NEW pc \in Untold \cup {"done"}, pc # "start", NEW run,
           UpdateAgentRun(r, pc, run),
           UNCHANGED <<cards, rows, missed, assigned, outside>>,
           Known(r) => /\ Follows(r, pc, run)
                       /\ run.jira = "no" /\ run.review = "no"
                       /\ pc = "done" => run.status = "failed" /\ ~run.reviewable
    PROVE  RunOK(r)'
<1>1. /\ Fresh(r)' /\ Kin(r)' /\ Staged(r)'
      /\ job'[r].pc = pc
      /\ Known(r) => Shown(r)' \subseteq {run} /\ job'[r].save = run /\ Kept(r)' \subseteq Kept(r) \cup {run}
      /\ ~Known(r) => Shown(r)' = {} /\ job'[r].save = NoRun /\ Kept(r)' \subseteq Kept(r)
  <2>1. pc \in Stages \ {"none", "start"} /\ job[r].pc # "none"
    BY DEF Untold, Stages
  <2> QED
    BY <2>1, UpdateKeepsKin
<1>2. comments[r] = <<>> /\ inJira[r] = <<>> /\ UNCHANGED <<comments, inJira, reviews, lost, cards>>
  BY DEF RunOK, ToldOnce, outside
<1>3. pc # "jira" /\ pc # "jiraPosted" /\ pc # "prPosted" /\ pc \notin {"none"}
  BY DEF Untold
<1>4. ToldOnce(r)'
  <2>1. Len(<<>>) = 0
    BY EmptySeq
  <2>2. comments'[r] = <<>> /\ inJira'[r] = <<>>
    BY <1>2
  <2> QED
    BY <1>1, <1>3, <2>1, <2>2 DEF ToldOnce
<1>5. Telling(r)' = {}
  BY <1>1, <1>2, <1>3 DEF Telling
<1>6. ToldTrue(r)'
  BY <1>5 DEF ToldTrue
<1>7. ToldIfShown(r)'
  <2>1. \A x \in Shown(r)' : Known(r) /\ x = run
    BY <1>1
  <2> QED
    BY <1>1, <2>1 DEF ToldIfShown, Untold
<1>8. Posted(r)'
  <2>1. \A x \in Kept(r)' : x \in Kept(r) \/ (x.jira = "no" /\ x.review = "no")
    BY <1>1
  <2>2. \A x \in Kept(r) : /\ x.jira = "posted" => inJira[r] # <<>>
                           /\ x.review = "posted" => reviews[r] > 0
    BY DEF RunOK, Posted
  <2>3. \A x \in Kept(r)' : /\ x.jira = "posted" => inJira[r] # <<>>
                            /\ x.review = "posted" => reviews[r] > 0
    BY <2>1, <2>2
  <2> QED
    BY <1>1, <1>2, <1>3, <2>3 DEF Posted
<1>9. Reviewed(r)'
  <2>1. reviews[r] <= 1 + lost[r] /\ reviews[r] <= lost[r]
    BY DEF RunOK, Reviewed, Untold
  <2> QED
    BY <1>2, <2>1 DEF Reviewed
<1> QED
  BY <1>1, <1>4, <1>6, <1>7, <1>8, <1>9 DEF RunOK

\* The goroutine goes on without an update.
LEMMA GotoKeepsKin ==
    ASSUME TypeOK, NEW r \in Runs, RunOK(r), job[r].save = NoRun,
           NEW pc \in Stages \ {"none", "start"}, Goto(r, pc),
           UNCHANGED <<cards, rows, missed, assigned>>,
           job[r].pc # "none",
           Known(r) => StagedAt(pc, Run(r))
    PROVE  /\ Fresh(r)' /\ Kin(r)' /\ Staged(r)'
           /\ job'[r] = [job[r] EXCEPT !.pc = pc] /\ job'[r].pc = pc /\ job'[r].save = NoRun
           /\ Shown(r)' = Shown(r) /\ Kept(r)' = Kept(r)
<1>1. /\ job[r] \in Jobs
      /\ Shown(r)' = Shown(r) /\ job'[r] = [job[r] EXCEPT !.pc = pc]
  BY GotoEffect DEF TypeOK, Jobs
<1>2. job'[r].pc = pc /\ job'[r].save = NoRun
  BY <1>1 DEF Jobs
<1>3. Kept(r)' = Kept(r)
  BY <1>1, <1>2 DEF Kept
<1>4. Fresh(r)'
  <2>1. ~(r > assigned) /\ assigned' = assigned
    BY DEF RunOK, Fresh, Idle
  <2> QED
    BY <2>1 DEF Fresh
<1>5. Kin(r)'
  BY <1>1, <1>2, <1>3 DEF RunOK, Kin
<1>6. Staged(r)'
  <2>1. \A x \in Shown(r) : StagedAt(pc, x)
    BY RunFacts, ListedType DEF TypeOK
  <2> QED
    BY <1>1, <1>2, <2>1 DEF Staged
<1> QED
  BY <1>1, <1>2, <1>3, <1>4, <1>5, <1>6

LEMMA GotoUntold ==
    ASSUME TypeOK, NEW r \in Runs, RunOK(r), job[r].save = NoRun,
           job[r].pc \in Untold,
           NEW pc \in Untold \cup {"done"}, pc # "start", Goto(r, pc),
           UNCHANGED <<cards, rows, missed, assigned, outside>>,
           Known(r) => StagedAt(pc, Run(r)) /\ pc # "done"
    PROVE  RunOK(r)'
<1>1. /\ Fresh(r)' /\ Kin(r)' /\ Staged(r)'
      /\ job'[r].pc = pc /\ job'[r].save = NoRun
      /\ Shown(r)' = Shown(r) /\ Kept(r)' = Kept(r)
  <2>1. pc \in Stages \ {"none", "start"} /\ job[r].pc # "none"
    BY DEF Untold, Stages
  <2> QED
    BY <2>1, GotoKeepsKin
<1>2. comments[r] = <<>> /\ inJira[r] = <<>> /\ UNCHANGED <<comments, inJira, reviews, lost, cards>>
  BY DEF RunOK, ToldOnce, outside
<1>3. pc # "jira" /\ pc # "jiraPosted" /\ pc # "prPosted" /\ pc \notin {"none"}
  BY DEF Untold
<1>4. ToldOnce(r)'
  <2>1. Len(<<>>) = 0
    BY EmptySeq
  <2>2. comments'[r] = <<>> /\ inJira'[r] = <<>>
    BY <1>2
  <2> QED
    BY <1>1, <1>3, <2>1, <2>2 DEF ToldOnce
<1>5. Telling(r)' = {}
  BY <1>1, <1>2, <1>3 DEF Telling
<1>6. ToldTrue(r)'
  BY <1>5 DEF ToldTrue
<1>7. ToldIfShown(r)'
  <2>1. pc = "done" => Shown(r)' = {}
    BY <1>1, ListedType DEF TypeOK
  <2> QED
    BY <1>1, <2>1 DEF ToldIfShown, Untold
<1>8. Posted(r)'
  BY <1>1, <1>2, <1>3 DEF RunOK, Posted
<1>9. Reviewed(r)'
  <2>1. reviews[r] <= 1 + lost[r] /\ reviews[r] <= lost[r]
    BY DEF RunOK, Reviewed, Untold
  <2> QED
    BY <1>2, <2>1 DEF Reviewed
<1> QED
  BY <1>1, <1>4, <1>6, <1>7, <1>8, <1>9 DEF RunOK

\* A run under way that takes a later status.
LEMMA StatusFollows ==
    ASSUME TypeOK, NEW r \in Runs, RunOK(r), Known(r), job[r].pc \in Untold,
           NEW s \in InProgress \cup Final, NEW pc \in Untold \cup {"done"},
           \/ Run(r).status = s
           \/ Run(r).status = "queued" /\ s # "queued"
           \/ Run(r).status = "classifying" /\ s \notin {"queued", "classifying"}
           \/ Run(r).status = "fetching_context" /\ s \in Final \cup {"reviewing", "publishing"}
           \/ Run(r).status = "reviewing" /\ s \in Final \cup {"publishing"}
           \/ Run(r).status = "publishing" /\ s \in Final,
           \/ pc = "classify" /\ s = "classifying" /\ ~Run(r).reviewable
           \/ pc = "fetch" /\ s = "fetching_context"
           \/ pc = "review" /\ s = "reviewing"
           \/ pc = "complete" /\ s = "publishing"
           \/ pc \in {"comment", "done"} /\ s \in Final
    PROVE  /\ Follows(r, pc, WithStatus(r, s))
           /\ WithStatus(r, s).jira = "no" /\ WithStatus(r, s).review = "no"
           /\ WithStatus(r, s).status = s /\ WithStatus(r, s).reviewable = Run(r).reviewable
<1> DEFINE x == Run(r)
           y == WithStatus(r, s)
<1>1. x \in AgentRun /\ x.id = r /\ StagedAt(job[r].pc, x)
  BY RunFacts
<1>2. /\ y \in AgentRun /\ y.status = s /\ y.id = r
      /\ y.jira = x.jira /\ y.review = x.review /\ y.reviewable = x.reviewable
  BY <1>1 DEF WithStatus, AgentRun
<1>3. x.jira = "no" /\ x.review = "no"
  BY <1>1 DEF StagedAt, Untold
<1> HIDE DEF x, y
<1>4. Ledger!Grows(x, y)
  BY <1>1, <1>2, <1>3, GrowsStatus DEF x
<1>5. StagedAt(pc, y)
  BY <1>2, <1>3 DEF StagedAt, Untold, x
<1> QED
  BY <1>2, <1>3, <1>4, <1>5 DEF Follows, x, y

LEMMA WorkKeeps ==
    ASSUME TypeOK, NEW r \in Runs, RunOK(r), Work(r)
    PROVE  RunOK(r)'
<1>1. UNCHANGED <<cards, rows, missed, assigned, outside>>
  BY DEF Work
<1>2. Known(r) => Run(r) \in AgentRun /\ Run(r).id = r /\ Ledger!Grows(Run(r), Run(r)) /\ StagedAt(job[r].pc, Run(r))
  BY RunFacts
<1>3. ASSUME job[r].save = NoRun, job[r].pc \in Untold,
             NEW s \in InProgress \cup Final, NEW pc \in Untold \cup {"done"}, pc # "start",
             UpdateAgentRun(r, pc, WithStatus(r, s)),
             Known(r) => /\ \/ Run(r).status = s
                            \/ Run(r).status = "queued" /\ s # "queued"
                            \/ Run(r).status = "classifying" /\ s \notin {"queued", "classifying"}
                            \/ Run(r).status = "fetching_context" /\ s \in Final \cup {"reviewing", "publishing"}
                            \/ Run(r).status = "reviewing" /\ s \in Final \cup {"publishing"}
                            \/ Run(r).status = "publishing" /\ s \in Final
                         /\ \/ pc = "classify" /\ s = "classifying" /\ ~Run(r).reviewable
                            \/ pc = "fetch" /\ s = "fetching_context"
                            \/ pc = "review" /\ s = "reviewing"
                            \/ pc = "complete" /\ s = "publishing"
                            \/ pc = "comment" /\ s \in Final
                            \/ pc = "done" /\ s = "failed" /\ ~Run(r).reviewable
      PROVE  RunOK(r)'
  <2>1. Known(r) => /\ Follows(r, pc, WithStatus(r, s))
                    /\ WithStatus(r, s).jira = "no" /\ WithStatus(r, s).review = "no"
                    /\ WithStatus(r, s).status = s /\ WithStatus(r, s).reviewable = Run(r).reviewable
    BY <1>3, StatusFollows DEF Final
  <2>2. Known(r) /\ pc = "done" => s = "failed" /\ ~Run(r).reviewable
    BY <1>3
  <2> QED
    BY <1>1, <1>3, <2>1, <2>2, UpdateUntold
<1>4. CASE Start(r)
  <2>1. job[r].save = NoRun /\ job[r].pc = "start" /\ job[r].pc \in Untold
    BY <1>4 DEF Start, At, Untold
  <2>2. Known(r) => Run(r).status = "queued" /\ ~Run(r).reviewable
    BY <1>2, <2>1 DEF StagedAt
  <2>3. CASE Known(r)
    <3>1. UpdateAgentRun(r, "classify", WithStatus(r, "classifying"))
      BY <1>4, <2>3 DEF Start
    <3>2. "classify" \in Untold \cup {"done"} /\ "classifying" \in InProgress \cup Final
      BY DEF Untold, InProgress
    <3> QED
      BY <1>3, <2>1, <2>2, <3>1, <3>2
  <2>4. CASE ~Known(r)
    <3>1. UpdateAgentRun(r, "done", WithStatus(r, "classifying"))
      BY <1>4, <2>4 DEF Start
    <3>2. "done" \in Untold \cup {"done"} /\ "classifying" \in InProgress \cup Final
      BY DEF InProgress
    <3> QED
      BY <1>3, <2>1, <2>4, <3>1, <3>2
  <2> QED
    BY <2>3, <2>4
<1>5. CASE Classify(r)
  <2>1. job[r].save = NoRun /\ job[r].pc = "classify" /\ job[r].pc \in Untold
    BY <1>5 DEF Classify, At, Untold
  <2>2. Known(r) => /\ Run(r).status = "classifying" /\ ~Run(r).reviewable
                    /\ Run(r).jira = "no" /\ Run(r).review = "no"
    BY <1>2, <2>1 DEF StagedAt
  <2>3. ASSUME NEW reviewable \in BOOLEAN,
               UpdateAgentRun(r, "route", [Run(r) EXCEPT !.reviewable = reviewable])
        PROVE  RunOK(r)'
    <3> DEFINE y == [Run(r) EXCEPT !.reviewable = reviewable]
    <3>1. Known(r) => /\ y \in AgentRun /\ y.id = r /\ y.status = "classifying"
                      /\ y.jira = "no" /\ y.review = "no"
      BY <1>2, <2>2 DEF AgentRun
    <3> HIDE DEF y
    <3>2. Known(r) => Ledger!Grows(Run(r), y)
      BY <1>2, <2>2, <3>1, GrowsStatus
    <3>3. Known(r) => Follows(r, "route", y)
      BY <3>1, <3>2 DEF Follows, StagedAt
    <3>4. "route" \in Untold \cup {"done"} /\ UpdateAgentRun(r, "route", y)
      BY <2>3 DEF Untold, y
    <3> QED
      BY <1>1, <2>1, <3>1, <3>3, <3>4, UpdateUntold
  <2>4. "done" \in Untold \cup {"done"} /\ "failed" \in InProgress \cup Final /\ "failed" \in Final
    BY DEF Final
  <2> QED
    BY <1>3, <1>5, <2>1, <2>2, <2>3, <2>4 DEF Classify
<1>6. CASE Route(r)
  <2>1. job[r].save = NoRun /\ job[r].pc = "route" /\ job[r].pc \in Untold
    BY <1>6 DEF Route, At, Untold
  <2>2. Known(r) => Run(r).status = "classifying" /\ Run(r).jira = "no" /\ Run(r).review = "no"
    BY <1>2, <2>1 DEF StagedAt
  <2>3. CASE Known(r) /\ Goto(r, "check")
    <3>1. StagedAt("check", Run(r)) /\ "check" \in Untold \cup {"done"}
      BY <2>2, <2>3 DEF StagedAt, Untold
    <3> QED
      BY <1>1, <2>1, <2>3, <3>1, GotoUntold
  <2>4. "comment" \in Untold \cup {"done"} /\ "unsupported" \in InProgress \cup Final /\ "unsupported" \in Final
    BY DEF Untold, Final
  <2>5. CASE UpdateAgentRun(r, "comment", WithStatus(r, "unsupported"))
    BY <1>3, <2>1, <2>2, <2>4, <2>5
  <2> QED
    BY <1>6, <2>3, <2>5 DEF Route
<1>7. CASE Check(r)
  <2>1. job[r].save = NoRun /\ job[r].pc = "check" /\ job[r].pc \in Untold
    BY <1>7 DEF Check, At, Untold
  <2>2. Known(r) => Run(r).status = "classifying"
    BY <1>2, <2>1 DEF StagedAt
  <2>3. CASE ~Known(r) /\ Goto(r, "done")
    BY <1>1, <2>1, <2>3, GotoUntold
  <2>4. /\ "comment" \in Untold \cup {"done"} /\ "fetch" \in Untold \cup {"done"}
        /\ "failed" \in Final /\ "needs_input" \in Final
        /\ "failed" \in InProgress \cup Final /\ "needs_input" \in InProgress \cup Final
        /\ "fetching_context" \in InProgress \cup Final
    BY DEF Untold, Final, InProgress
  <2>5. CASE UpdateAgentRun(r, "comment", WithStatus(r, "failed"))
    BY <1>3, <2>1, <2>2, <2>4, <2>5
  <2>6. CASE UpdateAgentRun(r, "comment", WithStatus(r, "needs_input"))
    BY <1>3, <2>1, <2>2, <2>4, <2>6
  <2>7. CASE UpdateAgentRun(r, "fetch", WithStatus(r, "fetching_context"))
    BY <1>3, <2>1, <2>2, <2>4, <2>7
  <2> QED
    BY <1>7, <2>3, <2>5, <2>6, <2>7 DEF Check
<1>8. CASE FetchPullRequestFiles(r)
  <2>1. job[r].save = NoRun /\ job[r].pc = "fetch" /\ job[r].pc \in Untold
    BY <1>8 DEF FetchPullRequestFiles, At, Untold
  <2>2. Known(r) => Run(r).status = "fetching_context"
    BY <1>2, <2>1 DEF StagedAt
  <2>3. /\ "comment" \in Untold \cup {"done"} /\ "review" \in Untold \cup {"done"}
        /\ "failed" \in Final /\ "failed" \in InProgress \cup Final
        /\ "reviewing" \in InProgress \cup Final
    BY DEF Untold, Final, InProgress
  <2>4. CASE UpdateAgentRun(r, "comment", WithStatus(r, "failed"))
    BY <1>3, <2>1, <2>2, <2>3, <2>4
  <2>5. CASE UpdateAgentRun(r, "review", WithStatus(r, "reviewing"))
    BY <1>3, <2>1, <2>2, <2>3, <2>5
  <2> QED
    BY <1>8, <2>4, <2>5 DEF FetchPullRequestFiles
<1>9. CASE ReviewPullRequest(r)
  <2>1. job[r].save = NoRun /\ job[r].pc = "review" /\ job[r].pc \in Untold
    BY <1>9 DEF ReviewPullRequest, At, Untold
  <2>2. Known(r) => Run(r).status = "reviewing" /\ Run(r).jira = "no" /\ Run(r).review = "no"
    BY <1>2, <2>1 DEF StagedAt
  <2>3. CASE UpdateAgentRun(r, "publish", [Run(r) EXCEPT !.findings = TRUE])
    <3> DEFINE y == [Run(r) EXCEPT !.findings = TRUE]
    <3>1. Known(r) => /\ y \in AgentRun /\ y.id = r /\ y.status = "reviewing"
                      /\ y.jira = "no" /\ y.review = "no"
      BY <1>2, <2>2 DEF AgentRun
    <3> HIDE DEF y
    <3>2. Known(r) => Ledger!Grows(Run(r), y)
      BY <1>2, <2>2, <3>1, GrowsStatus
    <3>3. Known(r) => Follows(r, "publish", y)
      BY <3>1, <3>2 DEF Follows, StagedAt
    <3>4. "publish" \in Untold \cup {"done"} /\ UpdateAgentRun(r, "publish", y)
      BY <2>3 DEF Untold, y
    <3> QED
      BY <1>1, <2>1, <3>1, <3>3, <3>4, UpdateUntold
  <2>4. /\ "comment" \in Untold \cup {"done"}
        /\ "failed" \in Final /\ "failed" \in InProgress \cup Final
    BY DEF Untold, Final
  <2>5. CASE UpdateAgentRun(r, "comment", WithStatus(r, "failed"))
    BY <1>3, <2>1, <2>2, <2>4, <2>5
  <2> QED
    BY <1>9, <2>3, <2>5 DEF ReviewPullRequest
<1>10. CASE Publish(r)
  <2>1. /\ job[r].save = NoRun /\ job[r].pc = "publish" /\ job[r].pc \in Untold
        /\ UpdateAgentRun(r, "complete", WithStatus(r, "publishing"))
    BY <1>10 DEF Publish, At, Untold
  <2>2. Known(r) => Run(r).status = "reviewing"
    BY <1>2, <2>1 DEF StagedAt
  <2>3. "complete" \in Untold \cup {"done"} /\ "publishing" \in InProgress \cup Final
    BY DEF Untold, InProgress
  <2> QED
    BY <1>3, <2>1, <2>2, <2>3
<1>11. CASE Complete(r)
  <2>1. /\ job[r].save = NoRun /\ job[r].pc = "complete" /\ job[r].pc \in Untold
        /\ UpdateAgentRun(r, "comment", WithStatus(r, "completed"))
    BY <1>11 DEF Complete, At, Untold
  <2>2. Known(r) => Run(r).status = "publishing"
    BY <1>2, <2>1 DEF StagedAt
  <2>3. "comment" \in Untold \cup {"done"} /\ "completed" \in InProgress \cup Final /\ "completed" \in Final
    BY DEF Untold, Final
  <2> QED
    BY <1>3, <2>1, <2>2, <2>3
<1> QED
  BY <1>4, <1>5, <1>6, <1>7, <1>8, <1>9, <1>10, <1>11 DEF Work

LEMMA SingleSeq ==
    ASSUME NEW S, NEW e \in S
    PROVE  /\ <<e>> \in Seq(S) /\ Len(<<e>>) = 1 /\ <<e>> # <<>>
           /\ DOMAIN <<e>> = {1} /\ <<e>>[1] = e
           /\ Append(<<>>, e) = <<e>>
OBVIOUS

LEMMA LocalCommentKeeps ==
    ASSUME TypeOK, ToldTyped, NEW r \in Runs, RunOK(r), LocalComment(r)
    PROVE  RunOK(r)' /\ ToldTyped'
<1>1. /\ job[r].save = NoRun /\ job[r].pc = "comment" /\ job[r].pc \in Untold
      /\ UNCHANGED <<cards, rows, missed, assigned, inJira, reviews, lost>>
  BY DEF LocalComment, At, Untold
<1>2. comments[r] = <<>> /\ inJira[r] = <<>>
  BY <1>1 DEF RunOK, ToldOnce
<1>3. CASE ~Known(r)
  <2>1. Goto(r, "done") /\ comments' = comments
    BY <1>3 DEF LocalComment
  <2>2. "done" \in Untold \cup {"done"} /\ UNCHANGED outside
    BY <1>1, <2>1 DEF outside
  <2> QED
    BY <1>1, <1>3, <2>1, <2>2, GotoUntold DEF ToldTyped
<1>4. CASE Known(r)
  <2> DEFINE x == Run(r)
             s == Run(r).status
  <2>1. /\ x \in AgentRun /\ Shown(r) = {x} /\ s \in Final
        /\ x.jira = "no" /\ x.review = "no" /\ StagedAt("jira", x)
    BY <1>1, <1>4, RunFacts DEF StagedAt
  <2>2. /\ agentRuns' = agentRuns /\ job' = [job EXCEPT ![r].pc = "jira", ![r].copy = x]
        /\ comments' = IF x.card \in cards THEN [comments EXCEPT ![r] = Append(@, s)] ELSE comments
    BY <1>4 DEF LocalComment
  <2>3. job'[r].pc = "jira" /\ job'[r].copy = x /\ job'[r].save = NoRun
    BY <1>1, <2>2 DEF TypeOK
  <2>4. Shown(r)' = {x}
    BY <2>1, <2>2 DEF Shown, Listed
  <2>5. Kept(r)' = Kept(r)
    BY <1>1, <2>1, <2>3, <2>4 DEF Kept
  <2>6. /\ comments'[r] = IF x.card \in cards THEN <<s>> ELSE <<>>
        /\ comments' \in [Runs -> Seq(Final)]
    <3>1. Append(comments[r], s) = <<s>> /\ <<s>> \in Seq(Final)
      BY <1>2, <2>1, SingleSeq
    <3> QED
      BY <1>2, <2>2, <3>1 DEF ToldTyped
  <2> HIDE DEF x, s
  <2>7. Fresh(r)'
    <3>1. ~(r > assigned) /\ assigned' = assigned
      BY <1>1 DEF RunOK, Fresh, Idle
    <3> QED
      BY <3>1 DEF Fresh
  <2>8. Kin(r)' /\ Staged(r)'
    BY <1>1, <2>1, <2>3, <2>4, <2>5 DEF RunOK, Kin, Staged
  <2>9. ToldOnce(r)'
    <3>1. Len(<<s>>) = 1 /\ Len(<<>>) = 0
      BY <2>1, SingleSeq, EmptySeq
    <3>2. inJira'[r] = <<>>
      BY <1>1, <1>2
    <3>3. x # NoRun
      BY <2>1, NoRunAssumption
    <3> QED
      BY <2>3, <2>6, <3>1, <3>2, <3>3 DEF ToldOnce, Untold
  <2>10. ToldTrue(r)'
    <3>1. \A i \in DOMAIN comments'[r] : comments'[r][i] = s
      BY <2>1, <2>6, SingleSeq
    <3>2. DOMAIN inJira'[r] = {}
      BY <1>1, <1>2
    <3>3. x.status = s
      BY DEF x, s
    <3>4. Telling(r)' \subseteq {s}
      BY <2>3, <3>1, <3>2, <3>3 DEF Telling
    <3>5. r \notin missed => rows[r] = x
      BY <1>1, <2>1 DEF RunOK, Kin
    <3>6. x # NoRun
      BY <2>1, NoRunAssumption
    <3> QED
      BY <1>1, <2>1, <2>3, <2>4, <3>3, <3>4, <3>5, <3>6 DEF ToldTrue
  <2>11. ToldIfShown(r)'
    <3>1. x.card \in cards => comments'[r] # <<>>
      BY <2>1, <2>6, SingleSeq
    <3> QED
      BY <1>1, <2>4, <3>1 DEF ToldIfShown
  <2>12. Posted(r)' /\ Reviewed(r)'
    <3>1. reviews[r] <= lost[r]
      BY <1>1 DEF RunOK, Reviewed
    <3> QED
      BY <1>1, <2>3, <2>5, <3>1 DEF RunOK, Posted, Reviewed
  <2> QED
    BY <1>1, <2>6, <2>7, <2>8, <2>9, <2>10, <2>11, <2>12 DEF RunOK, ToldTyped
<1> QED
  BY <1>3, <1>4

\* After the comment on the card the goroutine asks Jira and GitHub, and goes on
\* with their answer.
LEMMA AskKeeps ==
    ASSUME TypeOK, TypeOK', NEW r \in Runs, RunOK(r), job[r].save = NoRun,
           job[r].pc \in {"jira", "pr", "retry"},
           NEW pc \in {"jiraPosted", "jiraFailed", "retry", "prPosted", "prFailed"}, Goto(r, pc),
           pc \in {"jiraPosted", "jiraFailed"} <=> job[r].pc = "jira",
           UNCHANGED <<cards, rows, missed, assigned, comments>>,
           \/ inJira'[r] = inJira[r]
           \/ job[r].pc = "jira" /\ inJira'[r] = Append(<<>>, job[r].copy.status),
           pc = "jiraPosted" => inJira'[r] # inJira[r],
           reviews'[r] >= reviews[r],
           pc = "prPosted" => reviews'[r] > 0,
           reviews'[r] <= 1 + lost'[r],
           pc # "prPosted" => reviews'[r] <= lost'[r]
    PROVE  RunOK(r)'
<1>1. Known(r) => StagedAt(pc, Run(r))
  BY RunFacts DEF StagedAt
<1>2. /\ Fresh(r)' /\ Kin(r)' /\ Staged(r)'
      /\ job'[r] = [job[r] EXCEPT !.pc = pc] /\ job'[r].pc = pc /\ job'[r].save = NoRun
      /\ Shown(r)' = Shown(r) /\ Kept(r)' = Kept(r)
  <2>1. pc \in Stages \ {"none", "start"} /\ job[r].pc # "none"
    BY DEF Stages
  <2> QED
    BY <1>1, <2>1, GotoKeepsKin
<1>3. job[r].pc = "jira" => job[r].copy.status \in Final /\ inJira[r] = <<>>
  BY DEF RunOK, ToldTrue, ToldOnce, Telling
<1>4. ToldOnce(r)'
  <2>1. Len(inJira'[r]) <= 1
    <3>1. job[r].pc = "jira" => Len(Append(<<>>, job[r].copy.status)) = 1
      BY <1>3, SingleSeq
    <3>2. CASE inJira'[r] = inJira[r]
      BY <3>2 DEF RunOK, ToldOnce
    <3>3. CASE job[r].pc = "jira" /\ inJira'[r] = Append(<<>>, job[r].copy.status)
      BY <3>1, <3>3
    <3> QED
      BY <3>2, <3>3
  <2>2. pc \notin Untold /\ pc # "jira"
    BY DEF Untold
  <2> QED
    BY <1>2, <2>1, <2>2 DEF RunOK, ToldOnce
<1>5. Telling(r)' \subseteq Telling(r)
  <2>1. \A i \in DOMAIN inJira'[r] : inJira'[r][i] \in Telling(r)
    BY <1>3, SingleSeq DEF Telling
  <2> QED
    BY <1>2, <2>1 DEF Telling
<1>6. ToldTrue(r)'
  BY <1>2, <1>5 DEF RunOK, ToldTrue
<1>7. ToldIfShown(r)'
  BY <1>2 DEF RunOK, ToldIfShown, Untold
<1>8. Posted(r)'
  <2>1. inJira[r] # <<>> => inJira'[r] # <<>>
    BY <1>3
  <2>2. reviews[r] > 0 => reviews'[r] > 0
    BY DEF TypeOK
  <2>3. pc = "jiraPosted" => inJira'[r] # <<>>
    BY <1>3
  <2> QED
    BY <1>2, <2>1, <2>2, <2>3 DEF RunOK, Posted
<1>9. Reviewed(r)'
  BY <1>2 DEF Reviewed
<1> QED
  BY <1>2, <1>4, <1>6, <1>7, <1>8, <1>9 DEF RunOK

LEMMA JiraCommentKeeps ==
    ASSUME TypeOK, TypeOK', ToldTyped, NEW r \in Runs, RunOK(r), JiraComment(r)
    PROVE  RunOK(r)' /\ ToldTyped'
<1>1. /\ job[r].save = NoRun /\ job[r].pc = "jira"
      /\ UNCHANGED <<cards, rows, missed, assigned, comments, reviews>>
  BY DEF JiraComment, At
<1>2. inJira[r] = <<>> /\ job[r].copy.status \in Final
  BY <1>1 DEF RunOK, ToldTrue, ToldOnce, Telling
<1>3. reviews[r] \in Nat /\ lost[r] \in Nat /\ reviews[r] <= lost[r] /\ reviews'[r] = reviews[r] /\ lost'[r] >= lost[r] /\ lost'[r] \in Nat
  <2>1. UNCHANGED <<faults, lost>> \/ Lost(r)
    BY DEF JiraComment, Answered
  <2>2. lost \in [Runs -> Nat] /\ reviews \in [Runs -> Nat]
    BY DEF TypeOK
  <2>3. lost'[r] >= lost[r] /\ lost'[r] \in Nat
    BY <2>1, <2>2 DEF Lost
  <2>4. reviews[r] <= lost[r]
    BY <1>1 DEF RunOK, Reviewed
  <2> QED
    BY <1>1, <2>2, <2>3, <2>4
<1>4. CASE inJira' = [inJira EXCEPT ![r] = Append(@, job[r].copy.status)] /\ \E pc \in {"jiraPosted", "jiraFailed"} : Goto(r, pc)
  <2>1. inJira'[r] = Append(<<>>, job[r].copy.status)
    BY <1>2, <1>4 DEF ToldTyped
  <2>2. inJira'[r] \in Seq(Final) /\ inJira'[r] # <<>>
    BY <1>2, <2>1, SingleSeq
  <2>3. ToldTyped'
    BY <1>1, <1>4, <2>2 DEF ToldTyped
  <2>4. PICK pc \in {"jiraPosted", "jiraFailed"} : Goto(r, pc)
    BY <1>4
  <2>5. RunOK(r)'
    <3>1. /\ reviews'[r] >= reviews[r] /\ reviews'[r] <= 1 + lost'[r] /\ reviews'[r] <= lost'[r]
          /\ pc \in {"jiraPosted", "jiraFailed", "retry", "prPosted", "prFailed"} /\ pc # "prPosted"
      BY <1>3
    <3>2. inJira'[r] # inJira[r]
      BY <1>2, <2>2
    <3>3. job[r].pc \in {"jira", "pr", "retry"} /\ (pc \in {"jiraPosted", "jiraFailed"} <=> job[r].pc = "jira")
      BY <1>1, <2>4
    <3>4. Goto(r, pc)
      BY <2>4
    <3> QED
      BY <1>1, <2>1, <3>1, <3>2, <3>3, <3>4, AskKeeps
  <2> QED
    BY <2>3, <2>5
<1>5. CASE inJira' = inJira /\ Goto(r, "jiraFailed")
  <2>1. inJira'[r] = inJira[r] /\ Goto(r, "jiraFailed")
    BY <1>5
  <2>2. reviews'[r] >= reviews[r] /\ reviews'[r] <= 1 + lost'[r] /\ reviews'[r] <= lost'[r]
    BY <1>3
  <2>3. RunOK(r)'
    BY <1>1, <2>1, <2>2, AskKeeps
  <2>4. ToldTyped'
    BY <1>1, <1>5 DEF ToldTyped
  <2> QED
    BY <2>3, <2>4
<1> QED
  BY <1>4, <1>5 DEF JiraComment

LEMMA ReviewKeeps ==
    ASSUME TypeOK, TypeOK', NEW r \in Runs, RunOK(r),
           CreatePullRequestReview(r) \/ RetryPullRequestReview(r)
    PROVE  RunOK(r)'
<1>1. /\ job[r].save = NoRun /\ job[r].pc \in {"pr", "retry"}
      /\ UNCHANGED <<cards, rows, missed, assigned, comments, inJira>>
  BY DEF CreatePullRequestReview, RetryPullRequestReview, At
<1>2. reviews[r] \in Nat /\ lost[r] \in Nat /\ reviews[r] <= lost[r]
  BY <1>1 DEF RunOK, Reviewed, TypeOK
<1>3. \E pc \in {"retry", "prPosted", "prFailed"} :
        /\ Goto(r, pc)
        /\ \/ reviews'[r] = reviews[r] + 1 /\ lost'[r] = lost[r] + 1
           \/ reviews'[r] = reviews[r] + 1 /\ lost'[r] = lost[r] /\ pc = "prPosted"
           \/ reviews'[r] = reviews[r] /\ lost'[r] = lost[r] /\ pc # "prPosted"
  <2>1. reviews \in [Runs -> Nat] /\ lost \in [Runs -> Nat]
    BY DEF TypeOK
  <2>2. CASE CreatePullRequestReview(r)
    BY <2>1, <2>2 DEF CreatePullRequestReview, Answered, Lost
  <2>3. CASE RetryPullRequestReview(r)
    BY <2>1, <2>3 DEF RetryPullRequestReview, Answered, Lost
  <2> QED
    BY <2>2, <2>3
<1>4. PICK pc \in {"retry", "prPosted", "prFailed"} :
        /\ Goto(r, pc)
        /\ reviews'[r] >= reviews[r]
        /\ pc = "prPosted" => reviews'[r] > 0
        /\ reviews'[r] <= 1 + lost'[r]
        /\ pc # "prPosted" => reviews'[r] <= lost'[r]
  BY <1>2, <1>3
<1> QED
  BY <1>1, <1>4, AskKeeps

\* The answers of Jira and GitHub are marked on a run that ended.
LEMMA MarkKeeps ==
    ASSUME TypeOK, NEW r \in Runs, RunOK(r), job[r].save = NoRun,
           job[r].pc \in {"jiraPosted", "jiraFailed", "prPosted", "prFailed"},
           NEW pc \in {"pr", "done"}, NEW run,
           UpdateAgentRun(r, pc, run),
           UNCHANGED <<cards, rows, missed, assigned, outside>>,
           Known(r) => /\ Follows(r, pc, run)
                       /\ run.status = Run(r).status /\ run.card = Run(r).card
                       /\ run.jira = "posted" => Run(r).jira = "posted" \/ job[r].pc = "jiraPosted"
                       /\ run.review = "posted" => Run(r).review = "posted" \/ job[r].pc = "prPosted",
           pc = "pr" => job[r].pc \in {"jiraPosted", "jiraFailed"}
    PROVE  RunOK(r)'
<1>1. /\ Fresh(r)' /\ Kin(r)' /\ Staged(r)'
      /\ job'[r].pc = pc
      /\ Known(r) => Shown(r)' \subseteq {run} /\ job'[r].save = run /\ Kept(r)' \subseteq Kept(r) \cup {run}
      /\ ~Known(r) => Shown(r)' = {} /\ job'[r].save = NoRun /\ Kept(r)' \subseteq Kept(r)
  <2>1. pc \in Stages \ {"none", "start"} /\ job[r].pc # "none"
    BY DEF Stages
  <2> QED
    BY <2>1, UpdateKeepsKin
<1>2. UNCHANGED <<comments, inJira, reviews, lost, cards, rows, missed>>
  BY DEF outside
<1>3. Known(r) => Run(r) \in Shown(r) /\ Run(r) \in Kept(r)
  BY RunFacts
<1>4. ToldOnce(r)'
  BY <1>1, <1>2 DEF RunOK, ToldOnce, Untold
<1>5. Telling(r)' \subseteq Telling(r)
  BY <1>1, <1>2 DEF Telling
<1>6. ToldTrue(r)'
  <2> SUFFICES ASSUME NEW s \in Telling(r)
               PROVE  /\ s \in Final
                      /\ job'[r].save # NoRun => job'[r].save.status = s
                      /\ \A x \in Shown(r)' : x.status = s
                      /\ r \notin missed => rows[r] # NoRun /\ rows[r].status = s
    BY <1>2, <1>5 DEF ToldTrue
  <2>1. /\ s \in Final
        /\ \A x \in Shown(r) : x.status = s
        /\ r \notin missed => rows[r] # NoRun /\ rows[r].status = s
    BY DEF RunOK, ToldTrue
  <2>2. Known(r) => run.status = s
    BY <1>3, <2>1
  <2> QED
    BY <1>1, <2>1, <2>2
<1>7. ToldIfShown(r)'
  <2>1. Known(r) => comments[r] # <<>> \/ run.card \notin cards
    BY <1>3 DEF RunOK, ToldIfShown, Untold
  <2>2. \A x \in Shown(r)' : Known(r) /\ x = run
    BY <1>1
  <2> QED
    BY <1>2, <2>1, <2>2 DEF ToldIfShown
<1>8. Posted(r)'
  <2>1. \A x \in Kept(r) : /\ x.jira = "posted" => inJira[r] # <<>>
                           /\ x.review = "posted" => reviews[r] > 0
    BY DEF RunOK, Posted
  <2>2. /\ job[r].pc = "jiraPosted" => inJira[r] # <<>>
        /\ job[r].pc = "prPosted" => reviews[r] > 0
    BY DEF RunOK, Posted
  <2>3. Known(r) => /\ run.jira = "posted" => inJira[r] # <<>>
                    /\ run.review = "posted" => reviews[r] > 0
    BY <1>3, <2>1, <2>2
  <2>4. \A x \in Kept(r)' : x \in Kept(r) \/ (Known(r) /\ x = run)
    BY <1>1
  <2>5. \A x \in Kept(r)' : /\ x.jira = "posted" => inJira[r] # <<>>
                            /\ x.review = "posted" => reviews[r] > 0
    BY <2>1, <2>3, <2>4
  <2> QED
    BY <1>1, <1>2, <2>5 DEF Posted
<1>9. Reviewed(r)'
  BY <1>1, <1>2 DEF RunOK, Reviewed
<1> QED
  BY <1>1, <1>4, <1>6, <1>7, <1>8, <1>9 DEF RunOK

LEMMA RecordKeeps ==
    ASSUME TypeOK, NEW r \in Runs, RunOK(r), RecordJiraComment(r) \/ RecordPullRequestReview(r)
    PROVE  RunOK(r)'
<1>1. /\ job[r].save = NoRun
      /\ job[r].pc \in {"jiraPosted", "jiraFailed", "prPosted", "prFailed"}
      /\ UNCHANGED <<cards, rows, missed, assigned, outside>>
  BY DEF RecordJiraComment, RecordPullRequestReview, At
<1>2. Known(r) => /\ Run(r) \in AgentRun /\ Run(r).id = r
                  /\ Ledger!Grows(Run(r), Run(r)) /\ StagedAt(job[r].pc, Run(r))
  BY RunFacts
<1>3. ASSUME NEW p \in {"posted", "warned"},
             job[r].pc = "jiraPosted" \/ (job[r].pc = "jiraFailed" /\ p = "warned"),
             UpdateAgentRun(r, AfterComment(r), [Run(r) EXCEPT !.jira = p])
      PROVE  RunOK(r)'
  <2> DEFINE y == [Run(r) EXCEPT !.jira = p]
  <2>1. Known(r) => /\ y \in AgentRun /\ y.id = r /\ y.jira = p
                    /\ y.status = Run(r).status /\ y.card = Run(r).card /\ y.review = Run(r).review
    BY <1>2 DEF AgentRun, Published
  <2>2. Known(r) => Run(r).status \in Final /\ Run(r).jira = "no" /\ Run(r).review = "no"
    BY <1>2, <1>3 DEF StagedAt
  <2>3. UpdateAgentRun(r, AfterComment(r), y)
    BY <1>3
  <2> HIDE DEF y
  <2>4. Known(r) => Ledger!Grows(Run(r), y)
    BY <1>2, <2>1, <2>2, GrowsMarks
  <2>5. AfterComment(r) \in {"pr", "done"} /\ (Known(r) /\ AfterComment(r) = "pr" => Run(r).status = "completed")
    BY DEF AfterComment
  <2>6. Known(r) => StagedAt(AfterComment(r), y)
    BY <2>1, <2>2, <2>5 DEF StagedAt
  <2> QED
    BY <1>1, <1>3, <2>1, <2>2, <2>3, <2>4, <2>5, <2>6, MarkKeeps DEF Follows
<1>4. ASSUME NEW p \in {"posted", "warned"},
             job[r].pc = "prPosted" \/ (job[r].pc = "prFailed" /\ p = "warned"),
             UpdateAgentRun(r, "done", [Run(r) EXCEPT !.review = p])
      PROVE  RunOK(r)'
  <2> DEFINE y == [Run(r) EXCEPT !.review = p]
  <2>1. Known(r) => /\ y \in AgentRun /\ y.id = r /\ y.review = p
                    /\ y.status = Run(r).status /\ y.card = Run(r).card /\ y.jira = Run(r).jira
    BY <1>2 DEF AgentRun, Published
  <2>2. Known(r) => Run(r).status = "completed" /\ Run(r).review = "no" /\ Run(r).status \in Final
    BY <1>2, <1>4 DEF StagedAt, Final
  <2>3. UpdateAgentRun(r, "done", y)
    BY <1>4
  <2> HIDE DEF y
  <2>4. Known(r) => Ledger!Grows(Run(r), y)
    BY <1>2, <2>1, <2>2, GrowsMarks
  <2>5. Known(r) => StagedAt("done", y)
    BY <2>1, <2>2 DEF StagedAt
  <2> QED
    BY <1>1, <1>4, <2>1, <2>2, <2>3, <2>4, <2>5, MarkKeeps DEF Follows
<1> QED
  BY <1>3, <1>4 DEF RecordJiraComment, RecordPullRequestReview, At

\* The latest change of a run is saved, or lost to an SQLite error.
LEMMA SaveKeeps ==
    ASSUME TypeOK, NEW r \in Runs, RunOK(r), PersistAgentRun(r) \/ StoreError(r)
    PROVE  RunOK(r)'
<1>1. /\ job[r].save \in AgentRun /\ job[r].save # NoRun
      /\ job' = [job EXCEPT ![r].save = NoRun]
      /\ UNCHANGED <<cards, agentRuns, assigned, comments, inJira, reviews, lost>>
  BY DEF PersistAgentRun, StoreError, TypeOK, outside
<1>2. \/ rows'[r] = job[r].save
      \/ rows'[r] = rows[r] /\ r \in missed'
  BY DEF PersistAgentRun, StoreError, TypeOK
<1>3. job'[r].save = NoRun /\ job'[r].pc = job[r].pc /\ job'[r].copy = job[r].copy
  BY <1>1 DEF TypeOK
<1>4. Shown(r)' = Shown(r) /\ Telling(r)' = Telling(r)
  BY <1>1, <1>3 DEF Shown, Listed, Telling
<1>5. Kept(r)' \subseteq Kept(r)
  BY <1>1, <1>2, <1>3, <1>4 DEF Kept
<1>6. Fresh(r)'
  <2>1. ~(r > assigned)
    BY <1>1 DEF RunOK, Fresh, Idle
  <2> QED
    BY <1>1, <2>1 DEF Fresh
<1>7. Kin(r)'
  <2>1. job[r].save \in Kept(r) /\ \A x \in Shown(r) : x = job[r].save
    BY <1>1 DEF Kept, RunOK, Kin
  <2>2. CASE rows'[r] = job[r].save
    <3>1. Kept(r)' \subseteq {job[r].save}
      BY <1>3, <1>4, <2>1, <2>2 DEF Kept
    <3> QED
      BY <1>1, <1>3, <1>4, <2>1, <2>2, <3>1 DEF RunOK, Kin
  <2>3. CASE rows'[r] = rows[r] /\ r \in missed'
    BY <1>1, <1>3, <1>4, <1>5, <2>1, <2>3 DEF RunOK, Kin
  <2> QED
    BY <1>2, <2>2, <2>3
<1>8. Staged(r)' /\ ToldOnce(r)' /\ ToldIfShown(r)'
  BY <1>1, <1>3, <1>4 DEF RunOK, Staged, ToldOnce, ToldIfShown
<1>9. ToldTrue(r)'
  BY <1>1, <1>2, <1>3, <1>4 DEF RunOK, ToldTrue
<1>10. Posted(r)' /\ Reviewed(r)'
  BY <1>1, <1>3, <1>5 DEF RunOK, Posted, Reviewed
<1> QED
  BY <1>6, <1>7, <1>8, <1>9, <1>10 DEF RunOK

-----------------------------------------------------------------------------
(* The other runs.                                                         *)

OthersKept(r) == \A q \in Runs \ {r} : Shown(q)' = Shown(q) /\ job'[q] = job[q]

LEMMA UpdateOthers ==
    ASSUME TypeOK, NEW r \in Runs, NEW pc, NEW run, Known(r) => run.id = r,
           UpdateAgentRun(r, pc, run) \/ Goto(r, pc)
    PROVE  OthersKept(r)
<1>1. \A q \in Runs \ {r} : job'[q] = job[q]
  BY DEF UpdateAgentRun, Goto, TypeOK
<1>2. CASE agentRuns' = agentRuns
  BY <1>1, <1>2 DEF OthersKept, Shown, Listed
<1>3. CASE Known(r) /\ agentRuns' = Replace(agentRuns, run)
  <2> SUFFICES ASSUME NEW q \in Runs \ {r}
               PROVE  Shown(q)' = Shown(q)
    BY <1>1 DEF OthersKept
  <2>1. /\ DOMAIN agentRuns' = DOMAIN agentRuns
        /\ \A i \in DOMAIN agentRuns :
              agentRuns'[i] = IF agentRuns[i].id = r THEN run ELSE agentRuns[i]
    BY <1>3 DEF Replace
  <2>2. \A x : x \in Listed' /\ x.id = q <=> x \in Listed /\ x.id = q
    BY <1>3, <2>1 DEF Listed
  <2> QED
    BY <2>2 DEF Shown
<1> QED
  BY <1>2, <1>3 DEF UpdateAgentRun, Goto

LEMMA OthersSame ==
    ASSUME TypeOK, ToldTyped, NEW r \in Runs, Goroutine(r) \/ StoreError(r)
    PROVE  \A q \in Runs \ {r} : Same(q)
<1>1. Known(r) => Run(r) \in AgentRun /\ Run(r).id = r
  BY ListedType DEF TypeOK
<1>2. Known(r) => /\ \A s : WithStatus(r, s).id = r
                  /\ \A b : [Run(r) EXCEPT !.reviewable = b].id = r
                  /\ \A b : [Run(r) EXCEPT !.findings = b].id = r
                  /\ \A p : [Run(r) EXCEPT !.jira = p].id = r
                  /\ \A p : [Run(r) EXCEPT !.review = p].id = r
  BY <1>1 DEF WithStatus, AgentRun
<1>3. Work(r) => OthersKept(r)
  BY <1>2, UpdateOthers DEF Work, Start, Classify, Route, Check, FetchPullRequestFiles,
         ReviewPullRequest, Publish, Complete
<1>4. RecordJiraComment(r) \/ RecordPullRequestReview(r) => OthersKept(r)
  BY <1>2, UpdateOthers DEF RecordJiraComment, RecordPullRequestReview
<1>5. JiraComment(r) \/ CreatePullRequestReview(r) \/ RetryPullRequestReview(r) => OthersKept(r)
  <2>1. \A pc : Goto(r, pc) => OthersKept(r)
    BY <1>1, UpdateOthers
  <2> QED
    BY <2>1 DEF JiraComment, CreatePullRequestReview, RetryPullRequestReview
<1>6. LocalComment(r) \/ PersistAgentRun(r) \/ StoreError(r) => OthersKept(r)
  BY DEF LocalComment, PersistAgentRun, StoreError, Goto, TypeOK, OthersKept, Shown, Listed
<1>7. OthersKept(r)
  BY <1>3, <1>4, <1>5, <1>6 DEF Goroutine
<1>8. \A q \in Runs \ {r} : /\ rows'[q] = rows[q]
                            /\ q \in missed' <=> q \in missed
  BY DEF Goroutine, Work, RecordJiraComment, RecordPullRequestReview, JiraComment,
         CreatePullRequestReview, RetryPullRequestReview, LocalComment, PersistAgentRun,
         StoreError, TypeOK
<1>9. cards' = cards /\ assigned' = assigned
  BY DEF Goroutine, Work, RecordJiraComment, RecordPullRequestReview, JiraComment,
         CreatePullRequestReview, RetryPullRequestReview, LocalComment, PersistAgentRun,
         StoreError
<1>10. \A q \in Runs \ {r} : /\ comments'[q] = comments[q] /\ inJira'[q] = inJira[q]
                             /\ reviews'[q] = reviews[q] /\ lost'[q] = lost[q]
  <2>1. /\ comments' = comments \/ \E e : comments' = [comments EXCEPT ![r] = e]
        /\ inJira' = inJira \/ \E e : inJira' = [inJira EXCEPT ![r] = e]
        /\ reviews' = reviews \/ \E e : reviews' = [reviews EXCEPT ![r] = e]
        /\ lost' = lost \/ \E e : lost' = [lost EXCEPT ![r] = e]
    BY DEF Goroutine, Work, RecordJiraComment, RecordPullRequestReview, JiraComment,
           CreatePullRequestReview, RetryPullRequestReview, LocalComment, PersistAgentRun,
           StoreError, Answered, Lost, outside
  <2> QED
    BY <2>1 DEF TypeOK, ToldTyped
<1>11. assigned' >= assigned
  BY <1>9 DEF TypeOK
<1> QED
  BY <1>7, <1>8, <1>9, <1>10, <1>11 DEF Same, OthersKept

-----------------------------------------------------------------------------
(* The invariant is kept.                                                  *)

LEMMA AssignKeeps ==
    ASSUME TypeOK, TypeOK', IInv, NEW in \in Inputs, AssignTicketToAgent(in)
    PROVE  IInv'
<1> SUFFICES ASSUME NEW new \in Runs, new = assigned + 1
             PROVE  IInv'
  BY AssignEffect
<1> DEFINE run == Queued(in)
<1>1. /\ run \in AgentRun /\ run.id = new
      /\ agentRuns' = Cut(<<run>> \o agentRuns)
      /\ job' = [job EXCEPT ![new] = [Idle EXCEPT !.pc = "start", !.save = run]]
      /\ assigned' = new
      /\ UNCHANGED <<cards, keyed, rows, missed, faults, outside>>
      /\ run.status = "queued" /\ run.jira = "no" /\ run.review = "no" /\ run.reviewable = FALSE
  BY AssignEffect DEF Queued
<1>2. UNCHANGED <<comments, inJira, reviews, lost>>
  BY <1>1 DEF outside
<1> HIDE DEF run
<1>3. Listed' \subseteq Listed \cup {run}
  <2>1. DOMAIN agentRuns = 1 .. Len(agentRuns) /\ DOMAIN agentRuns' = 1 .. Len(agentRuns')
    BY LenProperties DEF TypeOK
  <2>2. \A i \in 1 .. Len(agentRuns') :
           agentRuns'[i] = run \/ \E k \in 1 .. Len(agentRuns) : agentRuns'[i] = agentRuns[k]
    <3> DEFINE list == Cut(<<run>> \o agentRuns)
    <3>1. \A i \in 1 .. Len(list) : list[i] = run \/ \E k \in 1 .. Len(agentRuns) : list[i] = agentRuns[k]
      BY <1>1, CutList DEF TypeOK
    <3>2. agentRuns' = list
      BY <1>1
    <3> HIDE DEF list
    <3> QED
      BY <3>1, <3>2
  <2> QED
    BY <2>1, <2>2 DEF Listed
<1>4. ASSUME NEW q \in Runs \ {new}
      PROVE  RunOK(q)'
  <2>1. Shown(q)' \subseteq Shown(q)
    BY <1>1, <1>3 DEF Shown
  <2>2. job'[q] = job[q]
    BY <1>1 DEF TypeOK
  <2>3. assigned' >= assigned
    BY <1>1 DEF TypeOK
  <2>4. Same(q)
    BY <1>1, <1>2, <2>1, <2>2, <2>3 DEF Same
  <2> QED
    BY <2>4, SameKeeps DEF IInv
<1>5. RunOK(new)'
  <2>1. /\ job[new] = Idle /\ Kept(new) = {}
        /\ comments[new] = <<>> /\ inJira[new] = <<>> /\ reviews[new] = 0
    <3>1. new > assigned
      BY DEF TypeOK
    <3> QED
      BY <1>1, <3>1 DEF IInv, RunOK, Fresh
  <2>2. Shown(new)' \subseteq {run}
    <3>1. Shown(new) = {}
      BY <2>1 DEF Kept
    <3> QED
      BY <1>1, <1>3, <3>1 DEF Shown
  <2>3. job'[new].pc = "start" /\ job'[new].save = run /\ job'[new].copy = NoRun
    BY <1>1 DEF Idle, TypeOK
  <2>4. Kept(new)' \subseteq {run} /\ rows'[new] = NoRun
    <3>1. rows[new] = NoRun
      BY <2>1 DEF Kept
    <3> QED
      BY <1>1, <2>2, <2>3, <3>1 DEF Kept
  <2>5. run # NoRun
    BY <1>1, NoRunAssumption
  <2>6. Fresh(new)'
    BY <1>1 DEF Fresh, TypeOK
  <2>7. Kin(new)'
    <3>1. Ledger!Grows(run, run)
      BY <1>1, GrowsStatus
    <3> QED
      BY <1>1, <2>2, <2>3, <2>4, <2>5, <3>1 DEF Kin
  <2>8. Staged(new)'
    BY <1>1, <2>2, <2>3 DEF Staged, StagedAt
  <2>9. ToldOnce(new)'
    <3>1. Len(<<>>) = 0
      BY EmptySeq
    <3> QED
      BY <1>2, <2>1, <2>3, <3>1 DEF ToldOnce
  <2>10. ToldTrue(new)'
    <3>1. Telling(new)' = {}
      BY <1>2, <2>1, <2>3 DEF Telling
    <3> QED
      BY <3>1 DEF ToldTrue
  <2>11. ToldIfShown(new)'
    BY <2>3 DEF ToldIfShown, Untold
  <2>12. Posted(new)'
    BY <1>1, <2>3, <2>4 DEF Posted
  <2>13. Reviewed(new)'
    <3>1. reviews'[new] = 0 /\ lost'[new] \in Nat
      BY <1>1, <1>2, <2>1 DEF TypeOK
    <3> QED
      BY <3>1 DEF Reviewed
  <2> QED
    BY <2>6, <2>7, <2>8, <2>9, <2>10, <2>11, <2>12, <2>13 DEF RunOK
<1>6. ToldTyped'
  BY <1>2 DEF IInv, ToldTyped
<1> QED
  BY <1>4, <1>5, <1>6 DEF IInv

LEMMA RestartKeeps ==
    ASSUME TypeOK, IInv, Restart
    PROVE  IInv'
<1>1. /\ job' = [r \in Runs |-> Idle]
      /\ UNCHANGED <<cards, rows, missed, assigned, comments, inJira, reviews, lost>>
  BY DEF Restart, outside
<1>2. ASSUME NEW r \in Runs
      PROVE  RunOK(r)'
  <2>1. job'[r].pc = "none" /\ job'[r].save = NoRun /\ job'[r] = Idle
    BY <1>1 DEF Idle
  <2>2. Shown(r)' \subseteq {rows[r]} \ {NoRun}
    <3> SUFFICES ASSUME NEW x \in Listed', x.id = r
                 PROVE  x = rows[r] /\ x # NoRun
      BY DEF Shown
    <3>1. PICK q \in Runs : rows[q] # NoRun /\ x = rows[q]
      BY RestartEffect DEF Listed
    <3>2. rows[q].id = q
      BY <3>1 DEF IInv, RunOK, Kin, Kept
    <3> QED
      BY <3>1, <3>2
  <2>3. Kept(r)' \subseteq {rows[r]} \ {NoRun} /\ Kept(r)' \subseteq Kept(r)
    BY <1>1, <2>1, <2>2 DEF Kept
  <2>4. Telling(r)' \subseteq Telling(r)
    BY <1>1, <2>1 DEF Telling
  <2>5. Fresh(r)'
    BY <1>1, <2>1, <2>3 DEF IInv, RunOK, Fresh
  <2>6. Kin(r)'
    BY <1>1, <2>1, <2>2, <2>3 DEF IInv, RunOK, Kin
  <2>7. Staged(r)'
    BY <2>1 DEF Staged, StagedAt
  <2>8. ToldOnce(r)'
    BY <1>1, <2>1 DEF IInv, RunOK, ToldOnce, Untold
  <2>9. ToldTrue(r)'
    BY <1>1, <2>1, <2>4 DEF IInv, RunOK, ToldTrue
  <2>10. ToldIfShown(r)'
    BY <2>1 DEF ToldIfShown
  <2>11. Posted(r)' /\ Reviewed(r)'
    BY <1>1, <2>1, <2>3 DEF IInv, RunOK, Posted, Reviewed
  <2> QED
    BY <2>5, <2>6, <2>7, <2>8, <2>9, <2>10, <2>11 DEF RunOK
<1>3. ToldTyped'
  BY <1>1 DEF IInv, ToldTyped
<1> QED
  BY <1>2, <1>3 DEF IInv

LEMMA InvariantInit == Init => IInv
<1> SUFFICES ASSUME Init
             PROVE  IInv
  OBVIOUS
<1>1. Listed = {}
  BY DEF Init, Listed
<1>2. ASSUME NEW r \in Runs
      PROVE  RunOK(r)
  <2>1. /\ Shown(r) = {} /\ rows[r] = NoRun /\ job[r] = Idle
        /\ comments[r] = <<>> /\ inJira[r] = <<>> /\ reviews[r] = 0 /\ lost[r] = 0
    BY <1>1 DEF Init, Shown
  <2>2. job[r].pc = "none" /\ job[r].save = NoRun
    BY <2>1 DEF Idle
  <2>3. Kept(r) = {}
    BY <2>1, <2>2 DEF Kept
  <2>4. Telling(r) = {}
    BY <2>1, <2>2 DEF Telling
  <2>5. Len(<<>>) = 0
    BY EmptySeq
  <2>6. Fresh(r) /\ Kin(r) /\ Staged(r)
    BY <2>1, <2>2, <2>3 DEF Fresh, Kin, Staged
  <2>7. ToldOnce(r) /\ ToldTrue(r) /\ ToldIfShown(r)
    BY <2>1, <2>2, <2>4, <2>5 DEF ToldOnce, ToldTrue, ToldIfShown, Untold
  <2>8. Posted(r) /\ Reviewed(r)
    BY <2>1, <2>2, <2>3 DEF Posted, Reviewed
  <2> QED
    BY <2>6, <2>7, <2>8 DEF RunOK
<1>3. ToldTyped
  BY EmptySeq DEF Init, ToldTyped
<1> QED
  BY <1>2, <1>3 DEF IInv

LEMMA InvariantNext == TypeOK /\ TypeOK' /\ IInv /\ [Next]_vars => IInv'
<1> SUFFICES ASSUME TypeOK, TypeOK', IInv, [Next]_vars
             PROVE  IInv'
  OBVIOUS
<1>1. ASSUME NEW r \in Runs, Goroutine(r) \/ StoreError(r)
      PROVE  IInv'
  <2>1. \A q \in Runs \ {r} : RunOK(q)'
    BY <1>1, OthersSame, SameKeeps DEF IInv
  <2>2. RunOK(r) /\ ToldTyped
    BY DEF IInv
  <2>3. RunOK(r)'
    BY <1>1, <2>2, WorkKeeps, LocalCommentKeeps, JiraCommentKeeps, RecordKeeps, ReviewKeeps, SaveKeeps
       DEF Goroutine
  <2>4. ToldTyped'
    <3>1. CASE LocalComment(r) \/ JiraComment(r)
      BY <2>2, <3>1, LocalCommentKeeps, JiraCommentKeeps
    <3>2. CASE UNCHANGED <<comments, inJira>>
      BY <2>2, <3>2 DEF ToldTyped
    <3> QED
      BY <1>1, <3>1, <3>2 DEF Goroutine, Work, RecordJiraComment, RecordPullRequestReview,
         CreatePullRequestReview, RetryPullRequestReview, PersistAgentRun, StoreError, outside
  <2> QED
    BY <2>1, <2>3, <2>4 DEF IInv
<1>2. ASSUME NEW c \in Cards, GetsKey(c) \/ Deleted(c)
      PROVE  IInv'
  <2>1. /\ UNCHANGED <<agentRuns, rows, job, missed, assigned, comments, inJira, reviews, lost>>
        /\ cards' \subseteq cards
    BY <1>2 DEF GetsKey, Deleted, outside
  <2>2. \A q \in Runs : Same(q)
    BY <2>1 DEF Same, Shown, Listed, TypeOK
  <2> QED
    BY <2>1, <2>2, SameKeeps DEF IInv, ToldTyped
<1>3. CASE UNCHANGED vars
  <2>1. UNCHANGED <<cards, agentRuns, rows, job, missed, assigned, comments, inJira, reviews, lost>>
    BY <1>3 DEF vars
  <2>2. \A q \in Runs : Same(q)
    BY <2>1 DEF Same, Shown, Listed, TypeOK
  <2> QED
    BY <2>1, <2>2, SameKeeps DEF IInv, ToldTyped
<1>4. CASE \E in \in Inputs : AssignTicketToAgent(in)
  BY <1>4, AssignKeeps
<1> QED
  BY <1>1, <1>2, <1>3, <1>4, RestartKeeps DEF Next

LEMMA Invariant == Spec => [](TypeOK /\ IInv)
<1>1. Init => TypeOK /\ IInv
  BY TypesInit, InvariantInit
<1>2. TypeOK /\ IInv /\ [Next]_vars => (TypeOK /\ IInv)'
  BY TypesNext, InvariantNext
<1> QED
  BY <1>1, <1>2, PTL DEF Spec

-----------------------------------------------------------------------------
(* The properties.                                                         *)

\* However runs, faults and restarts interleave, what the board shows of a run
\* is its saved row, unless a save is under way or was lost (updateAgentRun,
\* persistAgentRun).
THEOREM ShownIsStored == Spec => []StoredAsShown
<1>1. TypeOK /\ IInv => StoredAsShown
  BY RunFacts DEF IInv, RunOK, Kin, StoredAsShown
<1> QED
  BY <1>1, Invariant, PTL

\* A run is told of once, as it ended and as it is saved, and none that ended is
\* passed over but one that could not be classified (postRunJiraComment).
THEOREM EndsToldOnce == Spec => []ToldAtTheEnd
<1>1. TypeOK /\ IInv => ToldAtTheEnd
  <2> SUFFICES ASSUME TypeOK, IInv, NEW r \in Runs
               PROVE  /\ Len(comments[r]) <= 1 /\ Len(inJira[r]) <= 1
                      /\ \A told \in {comments[r], inJira[r]} :
                            told # <<>> => /\ told[1] \in Final
                                          /\ (job[r].save = NoRun /\ r \notin missed => rows[r].status = told[1])
                      /\ job[r].pc = "done" /\ Known(r) =>
                            \/ comments[r] # <<>>
                            \/ Run(r).card \notin cards
                            \/ Run(r).status = "failed" /\ ~Run(r).reviewable
    BY DEF ToldAtTheEnd
  <2>1. RunOK(r) /\ comments[r] \in Seq(Final) /\ inJira[r] \in Seq(Final)
    BY DEF IInv, ToldTyped
  <2>2. ASSUME NEW told \in {comments[r], inJira[r]}, told # <<>>
        PROVE  told[1] \in Telling(r)
    <3>1. told \in Seq(Final) /\ Len(told) \in Nat \ {0}
      BY <2>1, <2>2, EmptySeq
    <3>2. 1 \in DOMAIN told
      BY <3>1, LenProperties
    <3> QED
      BY <3>2 DEF Telling
  <2>3. \A told \in {comments[r], inJira[r]} :
            told # <<>> => /\ told[1] \in Final
                          /\ (r \notin missed => rows[r].status = told[1])
    BY <2>1, <2>2 DEF RunOK, ToldTrue
  <2>4. job[r].pc = "done" /\ Known(r) =>
            \/ comments[r] # <<>>
            \/ Run(r).card \notin cards
            \/ Run(r).status = "failed" /\ ~Run(r).reviewable
    BY <2>1, RunFacts DEF RunOK, ToldIfShown, Untold
  <2> QED
    BY <2>1, <2>3, <2>4 DEF RunOK, ToldOnce
<1> QED
  BY <1>1, Invariant, PTL

\* Whatever answers are lost: what is shown or saved as posted is there, and the
\* reviews of a pull request beyond the first are as many as answers were lost,
\* at most (postRunJiraComment, CreatePullRequestReview).
THEOREM MarksBacked == Spec => []PostedIsThere
<1>1. TypeOK /\ IInv => PostedIsThere
  <2> SUFFICES ASSUME TypeOK, IInv
               PROVE  PostedIsThere
    OBVIOUS
  <2>1. \A r \in Runs : /\ reviews[r] <= 1 + lost[r]
                        /\ \A x \in Kept(r) : /\ x.id = r
                                              /\ x.jira = "posted" => inJira[r] # <<>>
                                              /\ x.review = "posted" => reviews[r] > 0
    BY DEF IInv, RunOK, Posted, Reviewed, Kin
  <2>2. ASSUME NEW x \in Listed
        PROVE  x.id \in Runs /\ x \in Kept(x.id)
    BY ListedType DEF TypeOK, AgentRun, Kept, Shown
  <2>3. ASSUME NEW x \in {rows[r] : r \in Runs} \ {NoRun}
        PROVE  x.id \in Runs /\ x \in Kept(x.id)
    <3>1. PICK r \in Runs : x = rows[r]
      OBVIOUS
    <3>2. x \in Kept(r)
      BY <3>1 DEF Kept
    <3> QED
      BY <2>1, <3>2
  <2> QED
    BY <2>1, <2>2, <2>3 DEF PostedIsThere, Listed
<1> QED
  BY <1>1, Invariant, PTL

-----------------------------------------------------------------------------
(* AgentRuns implements RunLedger.                                         *)

\* The ledger's record of a run, and its ledger.
Entry(x) == IF x = NoRun THEN NoRun ELSE [status |-> x.status, jira |-> x.jira, review |-> x.review]
Entries == [r \in Runs |-> Entry(rows[r])]

LEMMA EntryGrows ==
    ASSUME NEW x \in AgentRun, Ledger!Grows(x, x)
    PROVE  /\ Entry(x) \in Ledger!Records
           /\ Ledger!Grows([status |-> "queued", jira |-> "no", review |-> "no"], Entry(x))
           /\ \A y \in AgentRun : Ledger!Grows(y, x) => Ledger!Grows(Entry(y), Entry(x))
<1>1. /\ Entry(x) = [status |-> x.status, jira |-> x.jira, review |-> x.review]
      /\ \A y \in AgentRun : Entry(y) = [status |-> y.status, jira |-> y.jira, review |-> y.review]
  BY NoRunAssumption DEF Entry
<1>2. /\ x.status \in Ledger!Statuses /\ x.jira \in Ledger!Published /\ x.review \in Ledger!Published
      /\ "queued" = x.status \/ Ledger!Rank["queued"] < Ledger!Rank[x.status]
  BY DEF AgentRun, InProgress, Final, Published, Ledger!Published, Ledger!Statuses, Ledger!Rank
<1>3. Entry(x) \in Ledger!Records
  BY <1>1, <1>2 DEF Ledger!Records
<1>4. Ledger!Grows([status |-> "queued", jira |-> "no", review |-> "no"], Entry(x))
  BY <1>1, <1>2 DEF Ledger!Grows
<1>5. ASSUME NEW y \in AgentRun, Ledger!Grows(y, x)
      PROVE  Ledger!Grows(Entry(y), Entry(x))
  BY <1>1, <1>5 DEF Ledger!Grows
<1> QED
  BY <1>3, <1>4, <1>5

\* Only the save of a run changes the ledger, and it replaces the record of that
\* run by a later one.
LEMMA LedgerStep == TypeOK /\ IInv /\ [Next]_vars => [Ledger!Next]_Entries
<1> SUFFICES ASSUME TypeOK, IInv, [Next]_vars
             PROVE  [Ledger!Next]_Entries
  OBVIOUS
<1>1. ASSUME NEW r \in Runs, PersistAgentRun(r)
      PROVE  Ledger!Next
  <2> DEFINE x == job[r].save
  <2>1. x \in AgentRun /\ x # NoRun /\ rows' = [rows EXCEPT ![r] = x]
    BY <1>1 DEF PersistAgentRun, TypeOK
  <2>2. x \in Kept(r)
    BY <2>1 DEF Kept
  <2>3. Ledger!Grows(x, x) /\ (rows[r] # NoRun => Ledger!Grows(rows[r], x))
    BY <2>2 DEF IInv, RunOK, Kin
  <2>4. rows'[r] = x /\ \A q \in Runs \ {r} : rows'[q] = rows[q]
    BY <2>1 DEF TypeOK
  <2>5. rows[r] # NoRun => rows[r] \in AgentRun
    BY DEF TypeOK
  <2> HIDE DEF x
  <2>6. Entries'[r] = Entry(x) /\ Entries[r] = Entry(rows[r])
    BY <2>4 DEF Entries
  <2>7. Entries' = [Entries EXCEPT ![r] = Entries'[r]]
    BY <2>4 DEF Entries
  <2>8. Entry(x) \in Ledger!Records
    BY <2>1, <2>3, EntryGrows
  <2>9. Ledger!Only(r)
    BY <2>6, <2>7, <2>8 DEF Ledger!Only, Entries, Entry
  <2>10. CASE Entries[r] = NoRun
    <3>1. Ledger!Grows([status |-> "queued", jira |-> "no", review |-> "no"], Entries'[r])
      BY <2>1, <2>3, <2>6, EntryGrows
    <3>2. Ledger!Assign(r)
      BY <2>9, <2>10, <3>1 DEF Ledger!Assign, Entries, Entry
    <3> QED
      BY <3>2 DEF Ledger!Next
  <2>11. CASE Entries[r] # NoRun
    <3>1. rows[r] # NoRun
      BY <2>6, <2>11 DEF Entry
    <3>2. Ledger!Grows(Entries[r], Entries'[r])
      BY <2>1, <2>3, <2>5, <2>6, <3>1, EntryGrows
    <3>3. Ledger!Advance(r)
      BY <2>9, <2>11, <3>2 DEF Ledger!Advance, Entries, Entry
    <3> QED
      BY <3>3 DEF Ledger!Next
  <2> QED
    BY <2>10, <2>11
<1>2. CASE rows' = rows
  BY <1>2 DEF Entries
<1>3. rows' = rows \/ \E r \in Runs : PersistAgentRun(r)
  BY DEF Next, Goroutine, Work, RecordJiraComment, RecordPullRequestReview, JiraComment,
         CreatePullRequestReview, RetryPullRequestReview, LocalComment, StoreError, Restart,
         GetsKey, Deleted, AssignTicketToAgent, vars
<1> QED
  BY <1>1, <1>2, <1>3

LEMMA LedgerInit == Init => Ledger!Init
BY DEF Init, Ledger!Init

\* For any runs, faults and restarts the saved rows behave as RunLedger promises:
\* a run's record only moves towards an end, ends once, and is marked as
\* published only after it ended (SaveAgentRun).
THEOREM RowsAreLedger == Spec => LedgerSpec
<1>1. TypeOK /\ IInv /\ [Next]_vars => [Ledger!Next]_Entries
  BY LedgerStep
<1>2. Spec => Ledger!Init
  BY LedgerInit, PTL DEF Spec
<1>3. Spec => [][Ledger!Next]_Entries
  BY <1>1, Invariant, PTL DEF Spec
<1> QED
  BY <1>2, <1>3, PTL DEF LedgerSpec, Ledger!Spec, Entries, Entry

=============================================================================
