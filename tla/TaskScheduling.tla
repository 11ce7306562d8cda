-------------------------- MODULE TaskScheduling ---------------------------
(***************************************************************************)
(* Local execution of tasks: `dyro task run`, `dyro task answer`, the task *)
(* daemon's workers and an operator, all separate processes on one         *)
(* workspace, coordinating through status files and three kinds of lock    *)
(* (src/dyro/tasks.py):                                                    *)
(*                                                                         *)
(*   execLock[t]   one command executes t; held from the first step of the *)
(*                 command to its last (run_task, answer_task)             *)
(*   dispatchLock  one reservation at a time in the workspace              *)
(*   stateLock[t]  one read-check-write of t's status at a time            *)
(*                                                                         *)
(* A process that dies drops its locks (flock) and leaves the files as     *)
(* they are.  What a run leaves behind besides the status (receipt, heads, *)
(* attempt binding) is module TaskEvidence; how a done task gets into its  *)
(* line is module LineMerge.  Here both are one step each.                 *)
(***************************************************************************)
EXTENDS TaskBoard

CONSTANTS
    Procs,         \* command processes: shells, daemon workers
    NoProc,        \* a free lock
    NoTask,        \* the task of an idle process
    BlockedOn,     \* the tasks whose task.toml names open decisions
    MaxCommands,   \* bound: run and answer commands given
    MaxOutside     \* bound: `task review` and `task status` commands given

ASSUME ProcsAssumption == NoProc \notin Procs /\ NoTask \notin Tasks
ASSUME BlockedAssumption == BlockedOn \subseteq Tasks
ASSUME BoundsAssumption == MaxCommands \in Nat /\ MaxOutside \in Nat

VARIABLES
    status,        \* [Tasks -> Statuses], the file <task>/status
    open,          \* tasks with a blocked_on decision that is not resolved
    integrated,    \* tasks whose recorded heads are ancestors of the line
    attempt,       \* [Tasks -> Nat], last_attempt in execution-run.json
    execLock,      \* [Tasks -> Procs \cup {NoProc}]
    stateLock,     \* [Tasks -> Procs \cup {NoProc}]
    dispatchLock,  \* Procs \cup {NoProc}
    proc,          \* the program counter and the locals of each process
    reviewing,     \* tasks that a local review is looking at (review lock)
    ousted,        \* history: tasks that somebody else than the command executing
                   \* them took out of in_progress: an operator, a late review
    reopened,      \* history: done tasks reopened with --force
    commands,      \* number of run and answer commands so far
    outside        \* number of `task review` and `task status` commands so far

files   == <<status, open, integrated, attempt>>
locks   == <<execLock, stateLock, dispatchLock>>
history == <<ousted, reopened, commands, outside>>
vars    == <<files, locks, proc, reviewing, history>>

Commands == {"run", "answer"}
Pcs == {"idle", "exec", "locked", "reserved", "begin", "agent", "report",
        "raised", "finish", "abort", "recover"}
\* What the agent, its receipt and the gates add up to.
Results == {"failed", "waiting_answer", "review", "raise"}

\* The status a review's PASS and FAIL ask for.
Verdicts == {"done", "failed"}

Idle == [pc |-> "idle", task |-> NoTask, cmd |-> "run", attempt |-> 0,
         result |-> "failed"]

\* The statuses a command starts from.
Allowed(cmd) == IF cmd = "run" THEN {"backlog", "assigned", "failed"}
                               ELSE {"waiting_answer"}

\* No task of a local workspace occupies its group by a claim.
CanDispatch(t) == t \notin open /\ Dispatchable(t, status, integrated, {})

\* Mutant: the lock is not re-entrant.
StateFreeOnce(t, p) == stateLock[t] = NoProc

\* p may enter t's state lock: nobody else is inside (the lock is re-entrant).
StateFree(t, p) == stateLock[t] \in {NoProc, p}

Goto(p, pc) == proc' = [proc EXCEPT ![p].pc = pc]

\* The command returns: its execution lock is released.
End(p) ==
    /\ execLock' = [execLock EXCEPT ![proc[p].task] = NoProc]
    /\ proc' = [proc EXCEPT ![p] = Idle]

Init ==
    /\ status = [t \in Tasks |-> "backlog"]
    /\ open = BlockedOn
    /\ integrated = {}
    /\ attempt = [t \in Tasks |-> 0]
    /\ execLock = [t \in Tasks |-> NoProc]
    /\ stateLock = [t \in Tasks |-> NoProc]
    /\ dispatchLock = NoProc
    /\ proc = [p \in Procs |-> Idle]
    /\ reviewing = {}
    /\ ousted = {}
    /\ reopened = {}
    /\ commands = 0
    /\ outside = 0

-----------------------------------------------------------------------------
(* run_task and answer_task *)

\* The command takes the execution lock; while another process holds it the
\* command gives up after one second and changes nothing.
StartCommand(p, t, cmd) ==
    /\ proc[p].pc = "idle"
    /\ execLock[t] = NoProc
    /\ commands < MaxCommands
    /\ commands' = commands + 1
    /\ execLock' = [execLock EXCEPT ![t] = p]
    /\ proc' = [proc EXCEPT ![p] = [Idle EXCEPT !.pc = "exec", !.task = t,
                                                !.cmd = cmd]]
    /\ UNCHANGED <<files, stateLock, dispatchLock, reviewing, ousted, reopened, outside>>

\* Mutant: reservations do not exclude each other.
ReserveUnlocked(p) ==
    /\ proc[p].pc = "exec"
    /\ dispatchLock' = p
    /\ Goto(p, "locked")
    /\ UNCHANGED <<files, execLock, stateLock, reviewing, history>>

\* _reserve_local_execution, outer lock.
TakeDispatchLock(p) ==
    /\ proc[p].pc = "exec"
    /\ dispatchLock = NoProc
    /\ dispatchLock' = p
    /\ Goto(p, "locked")
    /\ UNCHANGED <<files, execLock, stateLock, reviewing, history>>

\* A lock is not granted within 15 seconds.
LockTimeout(p) ==
    LET t == proc[p].task IN
    /\ \/ proc[p].pc = "exec" /\ dispatchLock # NoProc
       \/ proc[p].pc = "locked" /\ ~StateFree(t, p)
    /\ dispatchLock' = IF dispatchLock = p THEN NoProc ELSE dispatchLock
    /\ Goto(p, "abort")
    /\ UNCHANGED <<files, execLock, stateLock, reviewing, history>>

\* Inside both locks: the status is one the command starts from and the task
\* is dispatchable; a fresh or failed task becomes assigned first.
ReserveAssign(p) ==
    LET t == proc[p].task IN
    /\ proc[p].pc = "locked"
    /\ StateFree(t, p)
    /\ status[t] \in Allowed(proc[p].cmd)
    /\ CanDispatch(t)
    /\ stateLock' = [stateLock EXCEPT ![t] = p]
    /\ status' = IF status[t] \in {"backlog", "failed"}
                 THEN [status EXCEPT ![t] = "assigned"] ELSE status
    /\ Goto(p, "reserved")
    /\ UNCHANGED <<open, integrated, attempt, execLock, dispatchLock, reviewing, history>>

\* The reservation is refused: the status or the dispatch check says no, or the
\* task graph, the line worktree or the contract cannot be read.
ReserveRefuse(p) ==
    LET t == proc[p].task IN
    /\ proc[p].pc = "locked"
    /\ StateFree(t, p)
    /\ dispatchLock' = NoProc
    /\ Goto(p, "abort")
    /\ UNCHANGED <<files, execLock, stateLock, reviewing, history>>

\* The task becomes in_progress (set_status enters the state lock again, which
\* its holder may) and both locks are released.
ReserveStart(p) ==
    LET t == proc[p].task IN
    /\ proc[p].pc = "reserved"
    /\ StateFree(t, p)
    /\ status' = [status EXCEPT ![t] = "in_progress"]
    /\ stateLock' = [stateLock EXCEPT ![t] = NoProc]
    /\ dispatchLock' = NoProc
    /\ Goto(p, "begin")
    /\ ousted' = ousted \ {t}
    /\ UNCHANGED <<open, integrated, attempt, execLock, reviewing, reopened, commands, outside>>

\* begin_execution_attempt: the attempt gets the next number.
BeginAttempt(p) ==
    LET t == proc[p].task IN
    /\ proc[p].pc = "begin"
    /\ attempt' = [attempt EXCEPT ![t] = @ + 1]
    /\ proc' = [proc EXCEPT ![p].pc = "agent", ![p].attempt = attempt[t] + 1]
    /\ UNCHANGED <<status, open, integrated, locks, reviewing, history>>

\* begin_execution_attempt or the plan snapshot raises.
BeginFails(p) ==
    /\ proc[p].pc = "begin"
    /\ Goto(p, "abort")
    /\ UNCHANGED <<files, locks, reviewing, history>>

\* The exception path around the reservation.  run_task reads the status, not
\* under the state lock, and goes on to fail a task it finds in_progress (this
\* is what recovers a task whose process died); answer_task has no such handler
\* and just ends.
Abort(p) ==
    LET t == proc[p].task IN
    /\ proc[p].pc = "abort"
    /\ IF proc[p].cmd = "run" /\ status[t] = "in_progress"
       THEN Goto(p, "recover") /\ UNCHANGED execLock
       ELSE End(p)
    /\ UNCHANGED <<files, stateLock, dispatchLock, reviewing, history>>

\* set_status(failed) on an exception path: the write is refused when the status
\* read before is gone and the table has no such jump.  The command ends.
Recover(p) ==
    LET t == proc[p].task IN
    /\ proc[p].pc = "recover"
    /\ StateFree(t, p)
    /\ status' = IF MayMove(status[t], "failed")
                 THEN [status EXCEPT ![t] = "failed"] ELSE status
    /\ End(p)
    /\ UNCHANGED <<open, integrated, attempt, stateLock, dispatchLock, reviewing, history>>

\* The agent ran, or its timeout did: exit code, receipt, gates.  A finished run
\* records new heads, which the line need not contain.
RunAgent(p, result) ==
    LET t == proc[p].task IN
    /\ proc[p].pc = "agent"
    /\ proc' = [proc EXCEPT ![p].pc = "report", ![p].result = result]
    /\ integrated' \in IF result = "review"
                       THEN {integrated, integrated \ {t}} ELSE {integrated}
    /\ UNCHANGED <<status, open, attempt, locks, reviewing, history>>

\* _run_task writes the outcome through set_status, which refuses a jump the
\* table does not have: that raises, like a failure of the agent itself.
Report(p) ==
    LET t == proc[p].task
        outcome == proc[p].result IN
    /\ proc[p].pc = "report"
    /\ StateFree(t, p)
    /\ IF outcome # "raise" /\ MayMove(status[t], outcome)
       THEN status' = [status EXCEPT ![t] = outcome] /\ Goto(p, "finish")
       ELSE Goto(p, "raised") /\ UNCHANGED status
    /\ UNCHANGED <<open, integrated, attempt, locks, reviewing, history>>

\* _complete_execution_attempt after an exception: a task that is still this
\* attempt's and in_progress is to be failed.
Raised(p) ==
    LET t == proc[p].task IN
    /\ proc[p].pc = "raised"
    /\ IF attempt[t] = proc[p].attempt /\ status[t] = "in_progress"
       THEN Goto(p, "recover") /\ UNCHANGED execLock
       ELSE End(p)
    /\ UNCHANGED <<files, stateLock, dispatchLock, reviewing, history>>

\* finish_execution_attempt, then the execution lock is released.
Finish(p) ==
    /\ proc[p].pc = "finish"
    /\ End(p)
    /\ UNCHANGED <<files, stateLock, dispatchLock, reviewing, history>>

\* The process dies.  The kernel drops its locks, the files stay.
Crash(p) ==
    /\ proc[p].pc # "idle"
    /\ proc' = [proc EXCEPT ![p] = Idle]
    /\ execLock' = [t \in Tasks |-> IF execLock[t] = p THEN NoProc ELSE execLock[t]]
    /\ stateLock' = [t \in Tasks |-> IF stateLock[t] = p THEN NoProc ELSE stateLock[t]]
    /\ dispatchLock' = IF dispatchLock = p THEN NoProc ELSE dispatchLock
    /\ UNCHANGED <<files, reviewing, history>>

-----------------------------------------------------------------------------
(* The other writers of the status file *)

\* `dyro task status t s [--force]`.
SetStatus(t, s, force) ==
    /\ outside < MaxOutside
    /\ stateLock[t] = NoProc
    /\ s \in Statuses \ QualityGates
    /\ s # status[t]
    /\ force \/ s \in Transitions[status[t]]
    /\ status' = [status EXCEPT ![t] = s]
    /\ ousted' = IF status[t] = "in_progress" THEN ousted \cup {t}
                                                  ELSE ousted
    /\ reopened' = IF status[t] = "done" /\ force THEN reopened \cup {t}
                                                   ELSE reopened
    /\ outside' = outside + 1
    /\ UNCHANGED <<open, integrated, attempt, locks, proc, reviewing, commands>>

\* `dyro task review t` reads the status, then the reviewer works for minutes.
\* Only another local review of t is kept out meanwhile.
ReviewStart(t) ==
    /\ t \notin reviewing /\ outside < MaxOutside
    /\ status[t] = "review"
    /\ reviewing' = reviewing \cup {t}
    /\ outside' = outside + 1
    /\ UNCHANGED <<files, locks, proc, ousted, reopened, commands>>

\* The reviewer's verdict goes through set_status, which compares it with the
\* table but not with the status the review began with: a FAIL is let through
\* from in_progress too.  (A re-run that has begun has no attempt of its own to
\* bind a review to, so the review of the run before still matches.)
ReviewEnd(t, verdict) ==
    /\ t \in reviewing
    /\ stateLock[t] = NoProc
    /\ MayMove(status[t], verdict)
    /\ status' = [status EXCEPT ![t] = verdict]
    /\ ousted' = IF status[t] = "in_progress" THEN ousted \cup {t} ELSE ousted
    /\ reviewing' = reviewing \ {t}
    /\ UNCHANGED <<open, integrated, attempt, locks, proc, reopened, commands, outside>>

\* The review ends without a verdict that counts: the reviewer failed or wrote
\* none, its evidence does not match, the jump is refused, or the process died.
ReviewDrop(t) ==
    /\ t \in reviewing
    /\ reviewing' = reviewing \ {t}
    /\ UNCHANGED <<files, locks, proc, history>>

\* `dyro task import-review t`: status read and verdict written under the state
\* lock; a local review of t may be running.
ImportReview(t, verdict) ==
    /\ status[t] = "review"
    /\ stateLock[t] = NoProc
    /\ status' = [status EXCEPT ![t] = verdict]
    /\ UNCHANGED <<open, integrated, attempt, locks, proc, reviewing, history>>

\* `dyro task merge t`: the reviewed heads reach the line.
Merge(t) ==
    /\ status[t] = "done"
    /\ integrated' = integrated \cup {t}
    /\ UNCHANGED <<status, open, attempt, locks, proc, reviewing, history>>

\* A human resolves the decisions t waits for.
Resolve(t) ==
    /\ t \in open
    /\ open' = open \ {t}
    /\ UNCHANGED <<status, integrated, attempt, locks, proc, reviewing, history>>

-----------------------------------------------------------------------------
Progress(p) ==
    \/ TakeDispatchLock(p) \/ LockTimeout(p)
    \/ ReserveAssign(p) \/ ReserveRefuse(p) \/ ReserveStart(p)
    \/ BeginAttempt(p) \/ BeginFails(p) \/ Abort(p) \/ Recover(p)
    \/ \E result \in Results : RunAgent(p, result)
    \/ Report(p) \/ Raised(p) \/ Finish(p)

Next ==
    \/ \E p \in Procs : Progress(p) \/ Crash(p)
    \/ \E p \in Procs, t \in Tasks, cmd \in Commands : StartCommand(p, t, cmd)
    \/ \E t \in Tasks, s \in Statuses, force \in BOOLEAN : SetStatus(t, s, force)
    \/ \E t \in Tasks, verdict \in Verdicts : ReviewEnd(t, verdict) \/ ImportReview(t, verdict)
    \/ \E t \in Tasks : ReviewStart(t) \/ ReviewDrop(t) \/ Merge(t) \/ Resolve(t)

Spec == Init /\ [][Next]_vars

\* A process that is scheduled keeps taking its steps: agents, gates and lock
\* waits all have timeouts.  Nothing forces an operator to type a command.
Fairness == \A p \in Procs : WF_vars(Progress(p))
FairSpec == Spec /\ Fairness

-----------------------------------------------------------------------------
(* Properties *)

\* p is past its reservation and has neither reported nor failed.
Executing(p) == proc[p].pc \in {"begin", "agent", "report"}

\* An idle process has no task, a command has one.
ProcOK ==
    /\ proc \in [Procs -> [pc: Pcs, task: Tasks \cup {NoTask}, cmd: Commands,
                           attempt: Nat, result: Results]]
    /\ \A p \in Procs : proc[p].pc # "idle" => proc[p].task \in Tasks

TypeOK ==
    /\ status \in [Tasks -> Statuses]
    /\ open \subseteq Tasks
    /\ integrated \subseteq Tasks
    /\ attempt \in [Tasks -> Nat]
    /\ execLock \in [Tasks -> Procs \cup {NoProc}]
    /\ stateLock \in [Tasks -> Procs \cup {NoProc}]
    /\ dispatchLock \in Procs \cup {NoProc}
    /\ ProcOK
    /\ reviewing \subseteq Tasks
    /\ ousted \subseteq Tasks
    /\ reopened \subseteq Tasks
    /\ commands \in Nat
    /\ outside \in Nat

\* conflict_group is mutual exclusion: two commands never execute tasks of one
\* group at a time, whatever crashes and recoveries came before.  Two things break
\* it, both by taking one of the tasks out of in_progress under its agent: an
\* operator's `task status`, and the FAIL of a review that began before the task
\* was executed again.
AgentsExclusive ==
    \A p, q \in Procs :
        /\ Executing(p) /\ Executing(q)
        /\ SameGroup(proc[p].task, proc[q].task)
        => proc[p].task \in ousted \/ proc[q].task \in ousted

\* A task is executed on top of its dependencies: while an agent works on it,
\* each is done and in the line, although reservations read the dependencies'
\* files without their locks, unless someone reopened the dependency by force.
DependenciesHold ==
    \A p \in Procs : Executing(p) =>
        \A d \in DependsOn[proc[p].task] :
            (status[d] = "done" /\ d \in integrated) \/ d \in reopened

\* A second command on a task, a late report or a recovery never undoes a
\* verdict: a done task leaves done only by `task status --force`.
DoneIsFinal ==
    [][\A t \in Tasks : status[t] = "done" /\ status'[t] # "done"
                        => t \in reopened']_vars

\* No command waits for ever on the locks of others: each started command ends,
\* even when the process it waits for dies holding a lock.
CommandsEnd == \A p \in Procs : proc[p].pc # "idle" ~> proc[p].pc = "idle"

\* What a verdict settled holds: while an agent builds on it, and against late commands.
VerdictsHold == [][DependenciesHold']_vars /\ DoneIsFinal

=============================================================================
