----------------------------- MODULE TaskBoard -----------------------------
(***************************************************************************)
(* The vocabulary the task components share: the statuses of a task, the   *)
(* transitions set_status lets through, and the dispatch check that every  *)
(* reservation and every claim makes (src/dyro/tasks.py).                  *)
(*                                                                         *)
(* The module has no state of its own.  A component passes the part of the *)
(* workspace the check reads: the status files, the set of tasks whose     *)
(* recorded heads are in their line, and the set of live claims.           *)
(***************************************************************************)
EXTENDS Integers, FiniteSets

CONSTANTS
    Tasks,          \* the tasks of the workspace
    NoGroup,        \* the empty conflict_group
    ConflictGroup,  \* [Tasks -> groups \cup {NoGroup}], from task.toml
    DependsOn,      \* [Tasks -> SUBSET Tasks], from task.toml
    Mode            \* policy.execution_mode: "local" or "external"

ASSUME ModeAssumption == Mode \in {"local", "external"}

\* The task graph is validated before every reservation: no task depends on
\* itself (graph.py rejects every cycle; only self loops matter below).
ASSUME GraphAssumption ==
    /\ DependsOn \in [Tasks -> SUBSET Tasks]
    /\ \A t \in Tasks : t \notin DependsOn[t]

Statuses ==
    {"backlog", "assigned", "in_progress", "waiting_answer", "review",
     "review_pending_signoff", "done", "failed"}

\* Statuses only the evidence flow may write: `task status` is refused them.
QualityGates == {"review", "review_pending_signoff", "done"}

Transitions ==
    [backlog                |-> {"assigned"},
     assigned               |-> {"in_progress", "failed"},
     in_progress            |-> {"waiting_answer", "review", "failed"},
     waiting_answer         |-> {"assigned", "in_progress", "failed"},
     review                 |-> {"review_pending_signoff", "done", "failed"},
     review_pending_signoff |-> {"done", "failed"},
     failed                 |-> {"assigned"},
     done                   |-> {}]

\* The jumps set_status makes without --force (writing the current status
\* again returns early and changes nothing).
MayMove(from, to) == from = to \/ to \in Transitions[from]

SameGroup(t, u) ==
    /\ t # u
    /\ ConflictGroup[t] # NoGroup
    /\ ConflictGroup[t] = ConflictGroup[u]

\* What makes a task occupy its conflict group.
Occupies(u, status, live) ==
    \/ status[u] = "in_progress"
    \/ Mode = "external" /\ status[u] = "assigned" /\ u \in live

\* Mutant: a dependency that is done need not be merged.
DispatchableUnmerged(t, status, integrated, live) ==
    /\ \A d \in DependsOn[t] : status[d] = "done"
    /\ \A u \in Tasks : SameGroup(t, u) => ~Occupies(u, status, live)

\* check_dispatchable: every dependency is done and its heads are in the line,
\* and no other task of the conflict group is active.  The checks the model
\* leaves out (decision points, the branch the line worktree is on) only
\* refuse more.
Dispatchable(t, status, integrated, live) ==
    /\ \A d \in DependsOn[t] : status[d] = "done" /\ d \in integrated
    /\ \A u \in Tasks : SameGroup(t, u) => ~Occupies(u, status, live)

-----------------------------------------------------------------------------
\* Boards to look at: no task waits for another, and none or all share a group.
NoDependencies == [t \in Tasks |-> {}]
Ungrouped == [t \in Tasks |-> NoGroup]
OneGroup == [t \in Tasks |-> "group"]
=============================================================================
