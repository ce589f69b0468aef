------------------------------ MODULE RunLedger ------------------------------
(***************************************************************************)
(* What Auto Bot promises about the record it keeps of an agent run        *)
(* (cmd/server/agent_runs.go, table agent_runs of board_store.go): a run   *)
(* is recorded once, its record only moves towards an end, ends once, and  *)
(* is marked published only after it ended.  AgentRuns implements this     *)
(* through the rows it saves.                                              *)
(***************************************************************************)
EXTENDS Naturals

CONSTANTS
    Runs,       \* agent runs
    NoRecord    \* of a run that is not recorded

VARIABLE record

\* How far a run has come (agentRunStatus).
Rank == [queued |-> 0, classifying |-> 1, fetching_context |-> 2, reviewing |-> 3,
         publishing |-> 4, needs_input |-> 5, unsupported |-> 5, failed |-> 5, completed |-> 5]

Statuses == DOMAIN Rank
Final == {s \in Statuses : Rank[s] = 5}
Published == {"no", "posted", "warned"}
Records == [status : Statuses, jira : Published, review : Published]

\* A record may be replaced by a later one of the same run.
Grows(old, new) ==
    /\ \/ old.status = new.status
       \/ Rank[old.status] < Rank[new.status]
    /\ old.jira # "no" => new.jira = old.jira
    /\ old.review # "no" => new.review = old.review
    /\ new.jira # "no" => new.status \in Final
    /\ new.review # "no" => new.status = "completed"

Init == record = [r \in Runs |-> NoRecord]

\* Only the record of r changes.
Only(r) ==
    /\ record'[r] \in Records
    /\ record' = [record EXCEPT ![r] = record'[r]]

\* A first record: of a run that was queued, or, when saving that failed, later.
Assign(r) ==
    /\ record[r] = NoRecord
    /\ Only(r)
    /\ Grows([status |-> "queued", jira |-> "no", review |-> "no"], record'[r])

Advance(r) ==
    /\ record[r] # NoRecord
    /\ Only(r)
    /\ Grows(record[r], record'[r])

Next == \E r \in Runs : Assign(r) \/ Advance(r)

Spec == Init /\ [][Next]_record

=============================================================================
