-------------------------- MODULE ObjectiveScopes --------------------------
(***************************************************************************)
(* Several Objectives, the old task loop and the people of a workspace     *)
(* over one task board: who may run what (src/dyro/continuation/store.py), *)
(* and whether what the planner shows (ObjectivePlanner) is enough to      *)
(* bring every Objective to its end.                                       *)
(*                                                                         *)
(* An Objective's commands run under objectives.lock and the dispatch      *)
(* lock, each in one action; that a command that dies in its transaction   *)
(* is completed or dropped is shown by ObjectiveActions, with the journal, *)
(* the owner lease and the budget.                                         *)
(* A supervised wave (supervision.py) plans each action afresh, starts it  *)
(* in the journal and then runs it through the task commands; the old loop *)
(* (tasks.py) is fenced from the tasks of Objectives that own them.        *)
(***************************************************************************)
EXTENDS ObjectivePlanner

CONSTANTS
    Objectives,
    InitialTargets, \* [Objectives -> SUBSET Tasks]: the contract each is made from
    DepsOf,         \* [Tasks -> sequence of SUBSET Tasks]: depends_on in each
                    \* version of the task's contract
    Decisions,
    Nothing,        \* no record, no task
    MaxEvents,      \* bound: events of all Objectives together
    MaxFailed     \* bound: runs and reviews that fail, processes that die

ASSUME ScopesAssumption ==
    /\ InitialTargets \in [Objectives -> SUBSET Tasks]
    /\ DepsOf \in [Tasks -> Seq(SUBSET Tasks)] /\ \A t \in Tasks : Len(DepsOf[t]) > 0
    /\ Nothing \notin Tasks
    /\ Nothing \notin [targets : SUBSET Tasks, state : {"active", "paused", "stopped"},
                       seq : Nat, scope : SUBSET Tasks,
                       pins : UNION {[S -> Nat] : S \in SUBSET Tasks}]
    /\ MaxEvents \in Nat /\ MaxFailed \in Nat

VARIABLES
    status, integrated, open, version,   \* the board
    record,    \* [Objectives -> Nothing or the record of the last event]
    sup,       \* [Objectives -> the supervised process: pc, action, seq, pin]
    manual,    \* Nothing or the task a person runs
    loop,      \* the old task loop: pc, task, and whether it passed no fence
    failures

board  == <<status, integrated, open, version>>
scopeVars   == <<board, record, sup, loop, manual, failures>>

NoAction == Do("none", Nothing)
IdleSup  == [pc |-> "idle", act |-> NoAction, pin |-> 0]
IdleLoop == [pc |-> "idle", task |-> Nothing, blind |-> FALSE]

Deps == [t \in Tasks |-> DepsOf[t][version[t]]]
Board == [status |-> status, integrated |-> integrated, open |-> open, deps |-> Deps]

ScopesInit ==
    /\ status = [t \in Tasks |-> "backlog"]
    /\ integrated = {}
    /\ open = Decisions
    /\ version = [t \in Tasks |-> 1]
    /\ record = [o \in Objectives |-> Nothing]
    /\ sup = [o \in Objectives |-> IdleSup]
    /\ loop = IdleLoop /\ manual = Nothing
    /\ failures = 0

-----------------------------------------------------------------------------
(* Ownership *)

\* An action of o that was started and has no receipt.
InDoubt(o) == sup[o].pc \in {"started", "running", "ran", "lost"}

\* _retains_mutation_scope: the Objective is active, or was when an action of
\* it started whose end nobody knows.
Owns(o, r) == r.state = "active" \/ InDoubt(o)

\* There is a directory .dyro/objectives: some Objective was made.
Rooted == \E o \in Objectives : record[o] # Nothing

\* _assert_ownership_available for a new record r of o.
Available(o, r) ==
    Owns(o, r) =>
        \A p \in Objectives \ {o} :
            record[p] # Nothing /\ Owns(p, record[p])
                => record[p].scope \cap r.scope = {}

\* _assert_no_inflight_tasks.
Quiet(r) == \A t \in r.scope : status[t] # "in_progress"

\* The record a contract with these targets has now, and whether a record is
\* what that contract would give.
Record(targets, st, n) ==
    LET scope == Closure(targets, Deps)
    IN  [targets |-> targets, state |-> st, seq |-> n, scope |-> scope,
         pins |-> [t \in scope |-> version[t]]]

Drifted(r) ==
    \/ ~GraphValid(Deps)
    \/ LET now == Record(r.targets, r.state, r.seq) IN now # r

-----------------------------------------------------------------------------
(* The commands of an Objective *)

Events == MapThenSumSet(LAMBDA o : IF record[o] = Nothing THEN 0 ELSE record[o].seq, Objectives)

\* commit_event: the record r is o's.
CommitEvent(o, r) ==
    /\ Events < MaxEvents
    /\ record' = [record EXCEPT ![o] = r]
    /\ UNCHANGED <<board, sup, loop, manual, failures>>

\* create_objective.
Create(o) ==
    LET r == Record(InitialTargets[o], "active", 1) IN
    /\ record[o] = Nothing
    /\ GraphValid(Deps) /\ Available(o, r) /\ Quiet(r)
    /\ CommitEvent(o, r)

\* _persist_revision: the contract is read again, perhaps with other targets.
Revise(o, targets) ==
    LET r == Record(targets, record[o].state, record[o].seq + 1) IN
    /\ record[o] # Nothing
    /\ record[o].state # "stopped"
    /\ GraphValid(Deps) /\ targets # {}
    /\ Available(o, r) /\ Quiet(r) /\ ~InDoubt(o)
    /\ CommitEvent(o, r)

Reconcile(o)       == record[o] # Nothing /\ Revise(o, record[o].targets)
AddTarget(o, t)    == /\ record[o] # Nothing /\ t \notin record[o].targets
                      /\ Revise(o, record[o].targets \cup {t})
RemoveTarget(o, t) == /\ record[o] # Nothing /\ t \in record[o].targets
                      /\ Revise(o, record[o].targets \ {t})

\* _transition_objective: to the state the Objective is in, nothing is written.
Transition(o, st) ==
    LET r == [record[o] EXCEPT !.state = st, !.seq = @ + 1] IN
    /\ record[o] # Nothing
    /\ record[o].state # st
    /\ Quiet(r)
    /\ CommitEvent(o, r)

Pause(o) == Transition(o, "paused")
Stop(o)  == Transition(o, "stopped")

\* Mutant: a paused Objective takes its tasks back without asking.
ResumeUnasked(o) ==
    /\ record[o] # Nothing /\ record[o].state # "stopped" /\ ~Drifted(record[o])
    /\ Transition(o, "active")

Resume(o) ==
    /\ record[o] # Nothing /\ record[o].state # "stopped" /\ ~Drifted(record[o])
    /\ Available(o, [record[o] EXCEPT !.state = "active"])
    /\ Transition(o, "active")

-----------------------------------------------------------------------------
(* Runs of tasks *)

\* _reserve_local_execution gives the task to a run, if it may start.
Reservable(t) ==
    /\ status[t] \in {"backlog", "failed"}
    /\ Dispatchable(Board, t)

Takes(t) == status' = [status EXCEPT ![t] = "in_progress"]

\* The agent ends: with work to review, a question, or in failure.
RunEnds(t) ==
    \/ /\ status' = [status EXCEPT ![t] = "review"]
       /\ UNCHANGED failures
    \/ /\ failures < MaxFailed
       /\ status' \in {[status EXCEPT ![t] = s] : s \in {"waiting_answer", "failed"}}
       /\ failures' = failures + 1

\* The reviewer passes the work, or sends it back.
ReviewEnds(t) ==
    \/ /\ status' = [status EXCEPT ![t] = "done"]
       /\ UNCHANGED failures
    \/ /\ failures < MaxFailed
       /\ status' = [status EXCEPT ![t] = "failed"]
       /\ failures' = failures + 1

-----------------------------------------------------------------------------
(* Supervised waves *)

\* The planner plans for o: it is active and its contracts stand.
Acting(o) ==
    /\ record[o] # Nothing /\ record[o].state = "active"
    /\ GraphValid(Deps) /\ ~Drifted(record[o])

Set(o, s) == sup' = [sup EXCEPT ![o] = s]
Puts(o, pc, a) == Set(o, [pc |-> pc, act |-> a, pin |-> 0])

\* Someone confirms the wave of this moment.  Each of its actions is planned
\* again before it is started, so one of them at a time says it all.  An action
\* is started in the journal under objectives.lock, bound to the event it was
\* planned on (ObjectiveActions): as if it were planned under the lock.
StartAction(o) ==
    /\ sup[o].pc = "idle" /\ Acting(o)
    /\ \E a \in Wave(Board, record[o]) :
          Set(o, [pc |-> "started", act |-> a, pin |-> record[o].pins[a.task]])
    /\ UNCHANGED <<board, record, loop, manual, failures>>

\* The task command takes the task if it is still the task that was pinned and
\* may start.  A refusal is an exception after the start, and its receipt says
\* that the outcome is uncertain.
Launch(o) ==
    LET t == sup[o].act.task IN
    /\ sup[o].pc = "started"
    /\ IF sup[o].act.kind = "execute" /\ version[t] = sup[o].pin /\ Reservable(t)
       THEN Takes(t) /\ Puts(o, "running", sup[o].act)
       ELSE UNCHANGED status
            /\ IF /\ sup[o].act.kind = "review"
                  /\ version[t] = sup[o].pin /\ status[t] = "review"
               THEN Puts(o, "running", sup[o].act)
               ELSE Puts(o, "lost", NoAction)
    /\ UNCHANGED <<integrated, open, version, record, loop, manual, failures>>

\* The run of the task, or its review, ends.
Finish(o) ==
    LET t == sup[o].act.task IN
    /\ sup[o].pc = "running"
    /\ IF sup[o].act.kind = "execute" THEN RunEnds(t)
       ELSE IF status[t] = "review" THEN ReviewEnds(t)
       ELSE UNCHANGED <<status, failures>>
    /\ Puts(o, "ran", NoAction)
    /\ UNCHANGED <<integrated, open, version, record, loop, manual>>

WriteReceipt(o) ==
    /\ sup[o].pc = "ran"
    /\ Set(o, IdleSup)
    /\ UNCHANGED <<board, record, loop, manual, failures>>

\* The process dies.  Nobody writes the receipt, and nobody takes the task of
\* a run that was cut off back.
Lose(o) ==
    /\ sup[o].pc \in {"started", "running", "ran"} /\ failures < MaxFailed
    /\ Puts(o, "lost", NoAction)
    /\ failures' = failures + 1
    /\ UNCHANGED <<board, record, loop, manual>>

-----------------------------------------------------------------------------
(* The old loop *)

\* assert_legacy_scheduler_allowed: nobody owns these tasks.
Unfenced(S) ==
    /\ \A o \in Objectives :
          record[o] # Nothing /\ Owns(o, record[o]) => record[o].scope \cap S = {}

Fenced(t) == Unfenced({t})

\* A task comes up and is reserved under both locks, if the fence lets it pass.
LoopTake(t) ==
    /\ loop.pc = "idle" /\ Rooted /\ Fenced(t) /\ Reservable(t)
    /\ Takes(t)
    /\ loop' = [pc |-> "running", task |-> t, blind |-> FALSE]
    /\ UNCHANGED <<integrated, open, version, record, sup, manual, failures>>

\* Where no Objective was ever made there is no lock to hold over the
\* reservation, and by the time the dispatch lock is had there may be one.
LoopPass(t) ==
    /\ loop.pc = "idle" /\ ~Rooted
    /\ loop' = [pc |-> "passed", task |-> t, blind |-> TRUE]
    /\ UNCHANGED <<board, record, sup, manual, failures>>

LoopReserve ==
    /\ loop.pc = "passed"
    /\ IF Reservable(loop.task)
       THEN Takes(loop.task) /\ loop' = [loop EXCEPT !.pc = "running"]
       ELSE UNCHANGED status /\ loop' = IdleLoop
    /\ UNCHANGED <<integrated, open, version, record, sup, manual, failures>>

LoopRan ==
    /\ loop.pc = "running"
    /\ RunEnds(loop.task)
    /\ loop' = IdleLoop
    /\ UNCHANGED <<integrated, open, version, record, sup, manual>>

\* Then it reviews whatever is in review; no fence is asked.
LoopReview(t) ==
    /\ loop.pc = "idle" /\ status[t] = "review"
    /\ ReviewEnds(t)
    /\ UNCHANGED <<integrated, open, version, record, sup, loop, manual>>

-----------------------------------------------------------------------------
(* The people *)

\* The contract of a task is written anew.
Edit(t) ==
    /\ version[t] < Len(DepsOf[t])
    /\ version' = [version EXCEPT ![t] = @ + 1]
    /\ UNCHANGED <<status, integrated, open, record, sup, loop, manual, failures>>

\* The plan of o shows what o waits for.
Shows(o, part, a) ==
    /\ Acting(o)
    /\ a \in PlanOf(Board, record[o])[part]

\* People act on what a plan shows them: the merge a task waits for, ...
CanMerge(o, t) == Shows(o, "blocked", Do("merge", t))
MergeTask(o, t) ==
    /\ CanMerge(o, t)
    /\ integrated' = integrated \cup {t}
    /\ UNCHANGED <<status, open, version, record, sup, loop, manual, failures>>

\* ... the answer it waits for or the failure to look at, upon which they run
\* the task themselves, ...
CanRerun(o, t) ==
    /\ \/ Shows(o, "selected", Do("ask", t)) /\ status[t] = "waiting_answer"
       \/ Shows(o, "attention", Do("failed", t)) /\ status[t] = "failed"
    /\ manual = Nothing /\ Dispatchable(Board, t)
Rerun(o, t) ==
    /\ CanRerun(o, t)
    /\ Takes(t)
    /\ manual' = t
    /\ UNCHANGED <<integrated, open, version, record, sup, loop, failures>>

\* ... and the decision.
CanDecide(o, t) ==
    Shows(o, "blocked", Do("execute", t)) /\ Blocker(Board, t) = "decision"
Decide(o, t) ==
    /\ CanDecide(o, t)
    /\ open' = open \ BlockedOn[t]
    /\ UNCHANGED <<status, integrated, version, record, sup, loop, manual, failures>>

\* The run they started ends.
ManualRan ==
    /\ manual # Nothing
    /\ RunEnds(manual)
    /\ manual' = Nothing
    /\ UNCHANGED <<integrated, open, version, record, sup, loop>>

-----------------------------------------------------------------------------
Command(o) ==
    \/ Create(o) \/ Reconcile(o) \/ Pause(o) \/ Stop(o) \/ Resume(o)
    \/ \E t \in Tasks : AddTarget(o, t) \/ RemoveTarget(o, t)

Supervise(o) == StartAction(o) \/ Launch(o) \/ Finish(o) \/ WriteReceipt(o)

Loop ==
    \/ LoopReserve \/ LoopRan
    \/ \E t \in Tasks : LoopTake(t) \/ LoopPass(t) \/ LoopReview(t)

Attend(o, t) == MergeTask(o, t) \/ Rerun(o, t) \/ Decide(o, t)

ScopesNext ==
    \/ \E o \in Objectives :
         \/ Command(o) \/ Supervise(o) \/ Lose(o)
         \/ \E t \in Tasks : Attend(o, t)
    \/ Loop \/ ManualRan
    \/ \E t \in Tasks : Edit(t)

ScopesSpec == ScopesInit /\ [][ScopesNext]_scopeVars

-----------------------------------------------------------------------------
(* Properties *)

Owner(o) == record[o] # Nothing /\ (record[o].state = "active" \/ InDoubt(o))

\* No task is in the scope of two Objectives that own their scopes, whatever
\* was paused, resumed, reconciled over edited contracts.
ScopesDisjoint ==
    \A o, p \in Objectives :
        o # p /\ Owner(o) /\ Owner(p) => record[o].scope \cap record[p].scope = {}

\* A run has one authority: the run of a supervised action belongs to an
\* Objective that owns the task, and the run of the loop to a task nobody owns
\* (unless it began before there was any Objective).
OneAuthority ==
    /\ \A o \in Objectives :
         sup[o].pc = "running" =>
            /\ Owner(o) /\ sup[o].act.task \in record[o].scope
            /\ ~(loop.pc = "running" /\ loop.task = sup[o].act.task)
    /\ loop.pc = "running" /\ ~loop.blind =>
         \A o \in Objectives : Owner(o) => loop.task \notin record[o].scope

\* The wave of an Objective can run as a whole: whichever part of it is running
\* already, the dispatcher takes the rest.  And a task of the scope that the
\* dispatcher would take is planned.
WaveRunnable ==
    \A o \in Objectives :
        record[o] # Nothing /\ GraphValid(Deps) /\ ~Complete(Board, record[o]) =>
            LET r == record[o]
                starts == {a.task : a \in {w \in Wave(Board, r) : w.kind = "execute"}}
                after(S) == [Board EXCEPT !.status =
                               [t \in Tasks |-> IF t \in S THEN "in_progress" ELSE status[t]]]
            IN  /\ \A S \in SUBSET starts : \A t \in starts \ S : Dispatchable(after(S), t)
                /\ \A t \in r.scope \cap Queued(Board) :
                      Dispatchable(Board, t) => Do("execute", t) \in PlanOf(Board, r).selected

\* An active Objective whose contracts stand never comes to a halt unseen: until
\* it is complete, a run is under way, or its wave has something to start, or
\* its plan names something that people can do.  (An action whose outcome is
\* uncertain, whose process died or whose task was refused, nobody ends.)
NeverStuck ==
    \A o \in Objectives :
        Acting(o) =>
            \/ Complete(Board, record[o])
            \/ \E p \in Objectives : sup[p].pc # "idle"
            \/ loop.pc = "running" \/ manual # Nothing
            \/ Wave(Board, record[o]) # {}
            \/ \E t \in Tasks : CanMerge(o, t) \/ CanRerun(o, t) \/ CanDecide(o, t)

\* A task, and each of its runs, has one authority.
AuthorityHolds == ScopesDisjoint /\ OneAuthority

\* A wave that is planned can run, and an Objective is never stuck.
WavesGo == NeverStuck /\ WaveRunnable

============================================================================
