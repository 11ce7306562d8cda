----------------------------- MODULE TaskDaemon -----------------------------
(***************************************************************************)
(* `dyro task daemon` (cmd_task_daemon in src/dyro/cli.py): round after    *)
(* round it selects a wave of ready tasks (tasks.py), binds each to an     *)
(* agent that is installed (peer_wave.py), runs the wave and reviews what  *)
(* is in review, each in a pool of threads.  A task that fails ends the    *)
(* daemon after the round; one that is refused or breaks off does not.     *)
(*                                                                         *)
(* What makes a task ready is the planner's (ObjectivePlanner); here tasks *)
(* have no dependencies and no decisions, and all of them write.           *)
(***************************************************************************)
EXTENDS ObjectivePlanner

CONSTANTS
  Providers,    \* the agents that dispatch can write with, in their order
  Auto,         \* the executor of a task that leaves the choice to the wave
  Configured,   \* agents with an adapter in the profile
  Barred,       \* agents that may not write: the Cursor agent, and those whose
                \* capability card does not grant execution
  Parallel,     \* --parallel
  PerBackend,   \* MAX_PER_BACKEND
  MaxOthers,    \* bound: runs by other commands
  MaxComings    \* bound: how often an agent is installed, signed in or not any more

ASSUME DaemonAssumption ==
  /\ {Parallel, PerBackend} \subseteq Nat \ {0} /\ {MaxOthers, MaxComings} \subseteq Nat
  /\ Auto \notin ToSet(Providers) \cup Configured \cup Barred

VARIABLES
  progress,             \* [Tasks -> status]
  installed, signedIn,  \* the agents of the machine
  daemon,               \* where the daemon is, its wave and whether a task failed
  binding,              \* [tasks of the wave that are run -> agent]
  thread,               \* [Tasks -> what the pool does with it]
  other,                \* the tasks other commands run
  others, comings       \* how often others ran a task, and an agent came or went

agents == <<installed, signedIn, comings>>
daemonVars == <<progress, agents, daemon, binding, thread, other, others>>

Off == [pc |-> "off", wave |-> <<>>, failed |-> FALSE]
NoThreads == [t \in Tasks |-> "none"]

DaemonInit ==
  /\ progress = [t \in Tasks |-> "backlog"]
  /\ installed \in SUBSET ToSet(Providers) /\ signedIn \in SUBSET installed
  /\ daemon \in {Off, [Off EXCEPT !.pc = "idle"]}
  /\ binding = <<>> /\ thread = NoThreads
  /\ other = {} /\ others = 0 /\ comings = 0

Others == UNCHANGED <<agents, other, others>>
Becomes(t, status) == progress' = [progress EXCEPT ![t] = status]
DaemonBoard ==
  [status |-> progress, integrated |-> {}, open |-> {}, deps |-> [t \in Tasks |-> {}]]

-----------------------------------------------------------------------------
(* A wave: plan_tasks, select_task_wave, bind_wave_executors                *)

SameGroup(t, u) == ConflictGroup[t] # NoGroup /\ ConflictGroup[u] = ConflictGroup[t]

\* One task of a conflict group, as many as there may be threads.
SelectedWave ==
  LET ready == SelectSeq(TaskOrder, LAMBDA t : t \in Ready(DaemonBoard))
      join(wave, t) ==
        IF \/ Len(wave) >= Parallel
           \/ \E u \in ToSet(wave) : SameGroup(t, u)
        THEN wave ELSE Append(wave, t)
  IN FoldLeft(join, <<>>, ready)

Load(bound, agent) == Cardinality({t \in DOMAIN bound : bound[t] = agent})
HasRoom(bound, agent) == Load(bound, agent) < PerBackend

\* _take_idle: the first that is not fully used by the wave.
TakeIdle(bound, available) ==
  LET pool == SelectSeq(Providers, LAMBDA a : a \in available \ Barred /\ HasRoom(bound, a))
  IN {pool[k] : k \in {1} \cap DOMAIN pool}

\* MUTANT for QueueMoves: an agent that is named must be available.
AgentsPresent(t, bound, available) ==
  CASE Executor[t] \in Barred -> {}
    [] Executor[t] = Auto -> TakeIdle(bound, available)
    [] OTHER -> {a \in {Executor[t]} : a \in available /\ HasRoom(bound, a)}

\* The agent of a task in a wave of which `bound` is bound already, if it has one.
\* Only an agent that is available is limited.
AgentsFor(t, bound, available) ==
  CASE Executor[t] \in Barred -> {}
    [] Executor[t] = Auto -> TakeIdle(bound, available)
    [] OTHER -> {a \in {Executor[t]} : a \in available => HasRoom(bound, a)}

Bindings(wave, available) ==
  LET take(bound, t) ==
        IF AgentsFor(t, bound, available) = {} THEN bound
        ELSE bound @@ (t :> CHOOSE a \in AgentsFor(t, bound, available) : TRUE)
  IN FoldLeft(take, <<>>, wave)

-----------------------------------------------------------------------------
(* A round                                                                  *)

StartDaemon ==
  /\ daemon.pc = "off"
  /\ daemon' = [Off EXCEPT !.pc = "idle"]
  /\ UNCHANGED <<progress, binding, thread>> /\ Others

Look ==
  /\ daemon.pc = "idle"
  /\ daemon' = [daemon EXCEPT !.pc = "bind", !.wave = SelectedWave]
  /\ UNCHANGED <<progress, binding, thread>> /\ Others

Bind ==
  /\ daemon.pc = "bind"
  /\ binding' = Bindings(daemon.wave, installed)
  /\ thread' = [t \in Tasks |-> IF t \in DOMAIN binding' THEN "waiting" ELSE "none"]
  /\ daemon' = [daemon EXCEPT !.pc = "work"]
  /\ UNCHANGED progress /\ Others

Ends(t) == thread' = [thread EXCEPT ![t] = "none"]

\* run_task reserves the task under its locks, or is refused: it is not ready any
\* more.  One that failed meanwhile is run again.
Start(t) ==
  /\ daemon.pc = "work" /\ thread[t] = "waiting"
  /\ IF progress[t] \in {"backlog", "failed"} /\ Dispatchable(DaemonBoard, t)
       THEN Becomes(t, "in_progress") /\ thread' = [thread EXCEPT ![t] = "running"]
       ELSE Ends(t) /\ UNCHANGED progress
  /\ UNCHANGED <<daemon, binding>> /\ Others

\* An agent that was installed must also be signed in when it is started.
CanRun(agent) == agent \in (installed \cap signedIn) \cup Configured

RunEnd(t) ==
  /\ thread[t] = "running" /\ Ends(t)
  /\ \/ CanRun(binding[t]) /\ UNCHANGED daemon
        /\ \E status \in {"review", "waiting_answer"} : Becomes(t, status)
     \/ CanRun(binding[t]) /\ daemon' = [daemon EXCEPT !.failed = TRUE]
        /\ Becomes(t, "failed")
     \/ UNCHANGED daemon /\ Becomes(t, "failed")
  /\ UNCHANGED binding /\ Others

Review ==
  /\ daemon.pc = "work" /\ thread = NoThreads
  /\ daemon' = [daemon EXCEPT !.pc = "review"]
  /\ thread' = [t \in Tasks |-> IF progress[t] = "review" THEN "reviewing" ELSE "none"]
  /\ binding' = <<>>
  /\ UNCHANGED progress /\ Others

\* Passed, sent back, or kept in review; or somebody else was faster.
ReviewEnd(t) ==
  /\ thread[t] = "reviewing" /\ Ends(t)
  /\ \/ progress[t] = "review" /\ Becomes(t, "done") /\ UNCHANGED daemon
     \/ progress[t] = "review" /\ Becomes(t, "failed")
        /\ daemon' = [daemon EXCEPT !.failed = TRUE]
     \/ UNCHANGED <<progress, daemon>>
  /\ UNCHANGED binding /\ Others

Sleep ==
  /\ daemon.pc = "review" /\ thread = NoThreads
  /\ daemon' = IF daemon.failed THEN Off ELSE [Off EXCEPT !.pc = "idle"]
  /\ UNCHANGED <<progress, binding, thread>> /\ Others

-----------------------------------------------------------------------------
(* Meanwhile                                                                *)

OtherRun(t) ==
  /\ others < MaxOthers /\ others' = others + 1
  /\ progress[t] \in {"backlog", "failed"} /\ Dispatchable(DaemonBoard, t)
  /\ Becomes(t, "in_progress") /\ other' = other \cup {t}
  /\ UNCHANGED <<agents, daemon, binding, thread>>

OtherEnd(t) ==
  /\ t \in other /\ other' = other \ {t}
  /\ \E status \in {"review", "failed"} : Becomes(t, status)
  /\ UNCHANGED <<agents, daemon, binding, thread, others>>

AgentComesOrGoes(a) ==
  /\ comings < MaxComings /\ comings' = comings + 1
  /\ \/ installed' = installed \cup {a} /\ UNCHANGED signedIn
     \/ installed' = installed \ {a} /\ UNCHANGED signedIn
     \/ signedIn' = signedIn \cup {a} /\ UNCHANGED installed
     \/ signedIn' = signedIn \ {a} /\ UNCHANGED installed
  /\ UNCHANGED <<progress, daemon, binding, thread, other, others>>

-----------------------------------------------------------------------------
DaemonStep ==
  \/ Look \/ Bind \/ Review \/ Sleep
  \/ \E t \in Tasks : Start(t) \/ RunEnd(t) \/ ReviewEnd(t)

DaemonNext ==
  \/ StartDaemon \/ DaemonStep
  \/ \E t \in Tasks : OtherRun(t) \/ OtherEnd(t)
  \/ \E a \in ToSet(Providers) : AgentComesOrGoes(a)

\* Agents have timeouts, and the daemon sleeps at most for its interval.
DaemonFairness ==
  /\ WF_daemonVars(DaemonStep)
  /\ \A t \in Tasks : WF_daemonVars(OtherEnd(t))

-----------------------------------------------------------------------------
(***************************************************************************)
(* No agent is there for the task; and such tasks before t.  They stay in  *)
(* the queue, and keep their places and conflict groups in every wave      *)
(* (tasks.py:1066-1095, peer_wave.py:229-248).                             *)
(***************************************************************************)
Unbindable(t) ==
  Executor[t] \in Barred \/ (Executor[t] = Auto /\ installed \subseteq Barred)

InTheWay(t) ==
  LET place(u) == CHOOSE k \in DOMAIN TaskOrder : TaskOrder[k] = u
  IN {u \in Tasks : progress[u] = "backlog" /\ Unbindable(u) /\ place(u) < place(t)}

Held(t) ==
  \/ Unbindable(t)
  \/ Cardinality(InTheWay(t)) >= Parallel
  \/ \E u \in InTheWay(t) : SameGroup(t, u)

(***************************************************************************)
(* While the daemon goes on, a task that some agent takes does not wait    *)
(* for ever, unless tasks that no agent takes hold every place of the wave *)
(* or its conflict group: whatever runs, reviews that are kept, refusals   *)
(* and agents that come and go (cli.py:4475-4535).                         *)
(***************************************************************************)
QueueMoves ==
  \A t \in Tasks : []<>(progress[t] # "backlog" \/ daemon.pc = "off" \/ Held(t))
=============================================================================
