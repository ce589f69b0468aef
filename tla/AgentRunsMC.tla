----------------------------- MODULE AgentRunsMC -----------------------------
(***************************************************************************)
(* AgentRuns for TLC.                                                      *)
(***************************************************************************)
EXTENDS AgentRuns, TLC

CONSTANT c1

\* A card with a repository and a pull request, or without one of them.
Asked == {[card |-> c1, repo |-> TRUE, pr |-> TRUE],
          [card |-> c1, repo |-> FALSE, pr |-> TRUE],
          [card |-> c1, repo |-> TRUE, pr |-> FALSE]}

=============================================================================
