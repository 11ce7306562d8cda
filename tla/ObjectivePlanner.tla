------------------------- MODULE ObjectivePlanner --------------------------
(***************************************************************************)
(* What the continuation planner makes of one look at the workspace        *)
(* (src/dyro/continuation/planner.py and engine.py, snapshot.py, graph.py, *)
(* attention.py): the readiness of tasks, the plan of an Objective, and    *)
(* the wave a scheduler tick selects from it.  The module has no state.    *)
(*                                                                         *)
(* A board `b` is the part of the workspace a snapshot samples:            *)
(*   status, integrated, open (decisions), deps (depends_on of task.toml). *)
(* The execution mode is local, so there are no external claims, and the   *)
(* Objectives are supervised and may both execute and review.              *)
(***************************************************************************)
EXTENDS Integers, FiniteSets, FiniteSetsExt, SequencesExt

CONSTANTS
    Tasks,
    ConflictGroup,  \* [Tasks -> groups \cup {NoGroup}]
    NoGroup,
    BlockedOn,      \* [Tasks -> SUBSET decisions]
    Executor,       \* [Tasks -> agents]
    Reviewer,       \* [Tasks -> agents]
    TaskOrder,      \* the tasks in the order of their names
    MaxParallel     \* budget.max_parallel

ASSUME PlannerAssumption ==
    /\ TaskOrder \in Seq(Tasks)
    /\ ToSet(TaskOrder) = Tasks /\ Len(TaskOrder) = Cardinality(Tasks)
    /\ MaxParallel \in Nat \ {0}

-----------------------------------------------------------------------------
(* The task graph *)

\* The tasks `targets` rest on, themselves included: the scope of an Objective.
\* n walks reach everything, as a walk repeats no task.
Closure(targets, deps) ==
    LET reach[n \in 0..Cardinality(Tasks)] ==
            IF n = 0 THEN targets
            ELSE reach[n - 1] \cup UNION {deps[t] : t \in reach[n - 1]}
    IN  reach[Cardinality(Tasks)]

\* validate_task_graph finds nothing: no task depends on itself, directly or
\* through others.
GraphValid(deps) == \A t \in Tasks : t \notin Closure(deps[t], deps)

-----------------------------------------------------------------------------
(* Readiness *)

Merged(b, t) == b.status[t] = "done" /\ t \in b.integrated

\* The other tasks that are running in t's conflict group.
Rivals(b, t) ==
    {u \in Tasks \ {t} : /\ ConflictGroup[t] # NoGroup
                         /\ ConflictGroup[u] = ConflictGroup[t]
                         /\ b.status[u] = "in_progress"}

\* Why a queued task cannot start, in the order build_task_readiness asks.
Blocker(b, t) ==
    CASE BlockedOn[t] \cap b.open # {} -> "decision"
      [] \E d \in b.deps[t] : b.status[d] # "done" -> "dependency"
      [] \E d \in b.deps[t] : ~Merged(b, d) -> "integration"
      [] Rivals(b, t) # {} -> "conflict"
      [] OTHER -> "none"

Queued(b) == {t \in Tasks : b.status[t] \in {"backlog", "assigned"}}

Ready(b) == {t \in Queued(b) : Blocker(b, t) = "none"}

\* check_dispatchable of tasks.py: the question the reservation of a task asks,
\* in the dispatcher's words and not the planner's.  (That the worktrees of the
\* line are on the line's branch, only the dispatcher asks.)
Dispatchable(b, t) ==
    /\ GraphValid(b.deps)
    /\ \A d \in BlockedOn[t] : d \notin b.open
    /\ \A d \in b.deps[t] : b.status[d] = "done" /\ d \in b.integrated
    /\ ConflictGroup[t] # NoGroup =>
         \A u \in Tasks : u = t \/ ConflictGroup[u] # ConflictGroup[t]
                                \/ b.status[u] # "in_progress"

-----------------------------------------------------------------------------
(* The plan of an Objective; r is its record, with its targets and scope *)

Do(kind, t) == [kind |-> kind, task |-> t]
All(kind, S) == {Do(kind, t) : t \in S}

Complete(b, r) == \A t \in r.targets : Merged(b, t)

\* Mutant: an answer that is waited for is not shown.
SelectedMute(b, r) ==
    All("execute", Ready(b) \cap r.scope)
      \cup All("review", {t \in r.scope : b.status[t] = "review"})

Selected(b, r) ==
    All("execute", Ready(b) \cap r.scope)
      \cup All("review", {t \in r.scope : b.status[t] = "review"})
      \cup All("ask", {t \in r.scope : b.status[t] = "waiting_answer"})

Blocked(b, r) ==
    All("execute", (Queued(b) \ Ready(b)) \cap r.scope)
      \cup All("merge", {t \in r.scope : /\ b.status[t] = "done"
                                         /\ t \notin b.integrated})

Attention(b, r) ==
    All("answer", {t \in r.scope : b.status[t] = "waiting_answer"})
      \cup All("failed", {t \in r.scope : b.status[t] = "failed"})

\* build_continuation_plan for an active Objective whose contracts stand.
PlanOf(b, r) ==
    IF Complete(b, r)
    THEN [selected |-> {}, blocked |-> {}, attention |-> {}]
    ELSE [selected |-> Selected(b, r), blocked |-> Blocked(b, r),
          attention |-> Attention(b, r)]

-----------------------------------------------------------------------------
(* The wave of a tick *)

\* What a planned mutation claims against the others of its wave.
Resources(a) ==
    IF a.kind = "execute"
    THEN {<<"task", a.task>>, <<"agent", Executor[a.task]>>}
           \cup {<<"conflict", g>> : g \in {ConflictGroup[a.task]} \ {NoGroup}}
    ELSE {<<"task", a.task>>, <<"agent", Reviewer[a.task]>>}

ActiveParallel(b, r) == Cardinality({t \in r.scope : b.status[t] = "in_progress"})

\* What a tick considers, in its order: the execution of each task, then the review.
Considered ==
    LET of(kind) == [i \in 1..Len(TaskOrder) |-> Do(kind, TaskOrder[i])]
    IN  of("execute") \o of("review")

\* A planned mutation joins the wave unless it collides with one that has, or the
\* wave is full.
Joins(a, wave, plan, room) ==
    /\ a \in plan.selected
    /\ \A w \in wave : Resources(w) \cap Resources(a) = {}
    /\ Cardinality(wave) < room

\* build_scheduler_tick: the wave after each of them.
Waves(b, r) ==
    LET plan == PlanOf(b, r)
        room == MaxParallel - ActiveParallel(b, r)
        wave[n \in 0..Len(Considered)] ==
            IF n = 0 THEN {}
            ELSE wave[n - 1] \cup {a \in {Considered[n]} : Joins(a, wave[n - 1], plan, room)}
    IN  wave

Wave(b, r) == Waves(b, r)[Len(Considered)]

============================================================================
