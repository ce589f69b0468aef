----------------------------- MODULE JiraSyncMC -----------------------------
(***************************************************************************)
(* JiraSync for TLC: what callers ask for.                                 *)
(***************************************************************************)
EXTENDS JiraSync, TLC

Ask(tool, card) == [NoArgs EXCEPT !.tool = tool, !.card = card]
First == Key(1)
Second == Key(2)
Named == {First, NoCard}      \* four tools take the latest card for none

Creates ==
    {[Ask("create_ticket", NoCard) EXCEPT !.title = 3, !.status = status] :
        status \in {"", "In Progress", "Blocked"}}
    \cup {[Ask("create_subtask", NoCard) EXCEPT !.title = 3, !.other = parent] :
        parent \in {First, TitleRef(3)}}
Statuses3 == {"In Progress", "Blocked", "Done"}
Moves ==
    {[Ask("move_ticket", d) EXCEPT !.status = status] :
        d \in {First}, status \in Statuses3}
Texts ==
    {[Ask("update_ticket", First) EXCEPT !.title = 3, !.notes = {1}],
     [Ask("set_blocked", First) EXCEPT !.notes = {1}, !.tags = {"risk"}]}
    \cup {[Ask("append_notes", d) EXCEPT !.notes = {1}] : d \in Named}
    \cup {[Ask(tool, First) EXCEPT !.tags = {"tag"}] : tool \in {"add_tags", "remove_tags"}}
Fields ==
    {[Ask(tool, First) EXCEPT !.v = 1] :
        tool \in {"set_priority", "set_story_points", "set_estimate", "add_worklog",
                  "set_sprint", "set_components", "set_fix_versions",
                  "set_custom_field", "add_remote_link", "set_reporter",
                  "add_watcher", "unassign_ticket"}}
    \cup {[Ask(tool, d) EXCEPT !.v = 1] :
        tool \in {"assign_ticket", "set_eta", "add_comment"}, d \in Named}
Ranks ==
    {[Ask(tool, First) EXCEPT !.other = Second, !.place = place] :
        tool \in {"prioritize_ticket", "rank_issue"}, place \in Relative}
    \cup {[Ask("prioritize_ticket", First) EXCEPT !.place = place, !.status = status] :
        place \in {"top", "bottom"}, status \in {"", "Done"}}
Updates ==
    {[Ask("record_participant_update", d) EXCEPT !.status = status, !.v = 1, !.notes = {1}] :
        d \in {First, NoCard}, status \in {"", "Blocked", "Done"}}
Links == {[Ask("link_issues", First) EXCEPT !.other = d] : d \in {Second, TitleRef(2)}}
Deletes == {Ask("delete_ticket", d) : d \in {First, TitleRef(1)}}

Once(asks) == {<<a>> : a \in asks}
EveryTool ==
    Once(Creates \cup Moves \cup Texts \cup Fields \cup Ranks \cup Updates
         \cup Links \cup Deletes)
    \cup {<<[Ask("assign_ticket", First) EXCEPT !.v = 1],
            [Ask("set_eta", Second) EXCEPT !.v = 1]>>}
\* Cards named by their title, by tools that wait for no confirmation.
ByTitle ==
    Once({[Ask("move_ticket", TitleRef(1)) EXCEPT !.status = "Done"],
          [Ask("update_ticket", TitleRef(1)) EXCEPT !.title = 3]})
Few ==
    Once({[Ask("create_ticket", NoCard) EXCEPT !.title = 3],
          [Ask("move_ticket", First) EXCEPT !.status = "Done"]})
TwoCreates ==
    Once({[Ask("create_ticket", NoCard) EXCEPT !.title = title] : title \in {3, 4}})
\* A participant who names a status and reports a blocker.
BlockedUpdate ==
    Once({[Ask("record_participant_update", First)
              EXCEPT !.status = "In Progress", !.blocker = TRUE]})

Alike == Permutations(Callers)
=============================================================================
