----------------------- MODULE MCSubagentCoordinator -----------------------
(* TLC instances of SubagentCoordinator: request menus and input sets.     *)
EXTENDS SubagentCoordinator, TLC

CONSTANTS s1, s2, a, b, d

\* A Task request, and a workflow's agent request.
Task(s, p, mode) == [session |-> s, prompt |-> p, run |-> NoRun, mode |-> mode, surface |-> TRUE]
Agent(s, r, mode) == [session |-> s, prompt |-> "p", run |-> r, mode |-> mode, surface |-> FALSE]

\* Foreground and background Tasks of two sessions.
TwoSessions == {Task(s1, "p", "foreground"), Task(s2, "p", "background")}

\* Tasks of one session and of children running in it, and a workflow's agents.
NestedAndWorkflow ==
    {Task(s1, "p", "completion"), Task(a, "p", "background")}
        \cup {Agent(s1, r, "completion") : r \in Runs}

\* One session's Tasks.
OneTurn == {Task(s1, "p", "foreground"), Task(s1, "p", "completion"), Task(s1, "q", "background")}

IdSymmetry == Permutations(Ids)

ScopeP == {<<s1, "p">>}
=============================================================================
