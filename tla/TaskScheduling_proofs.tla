----------------------- MODULE TaskScheduling_proofs -----------------------
(***************************************************************************)
(* Conflict groups are mutual exclusion between local executions, for any  *)
(* number of tasks, processes, commands, reviews and operator overrides.   *)
(***************************************************************************)
EXTENDS TaskScheduling, TLAPS

\* The record of an idle process is well typed.
LEMMA IdleType ==
    /\ Idle \in [pc: Pcs, task: Tasks \cup {NoTask}, cmd: Commands,
                 attempt: Nat, result: Results]
    /\ Idle.pc = "idle"
BY DEF Idle, Pcs, Commands, Results

\* Moving a command to its next step keeps the processes well typed.
LEMMA GotoType ==
    ASSUME ProcOK, NEW p \in Procs, proc[p].pc # "idle",
           NEW pc \in Pcs, Goto(p, pc)
    PROVE  ProcOK'
BY DEF ProcOK, Goto

\* So does ending it.
LEMMA EndType ==
    ASSUME ProcOK, NEW p \in Procs, End(p)
    PROVE  ProcOK'
BY IdleType DEF ProcOK, End

\* Every variable keeps its type: in particular the status files only ever hold
\* one of the eight statuses, and locks are held by processes.
THEOREM TypeCorrect == Spec => []TypeOK
<1>1. Init => TypeOK
  BY IdleType, BlockedAssumption DEF Init, TypeOK, ProcOK, Statuses
<1>2. TypeOK /\ [Next]_vars => TypeOK'
  <2> SUFFICES ASSUME TypeOK, [Next]_vars PROVE TypeOK'
    OBVIOUS
  <2> USE DEF TypeOK, files, locks, history
  <2>1. ASSUME NEW p \in Procs, NEW t \in Tasks, NEW cmd \in Commands,
               StartCommand(p, t, cmd)
        PROVE  TypeOK'
    <3> DEFINE started == [Idle EXCEPT !.pc = "exec", !.task = t, !.cmd = cmd]
    <3>1. /\ started \in [pc: Pcs, task: Tasks \cup {NoTask}, cmd: Commands,
                           attempt: Nat, result: Results]
          /\ started.task \in Tasks
      BY IdleType DEF Pcs
    <3>2. proc' = [proc EXCEPT ![p] = started]
      BY <2>1 DEF StartCommand
    <3>3. ProcOK'
      BY <3>1, <3>2 DEF ProcOK
    <3> QED BY <2>1, <3>3 DEF StartCommand
  <2>2. ASSUME NEW p \in Procs, Progress(p) PROVE TypeOK'
    <3> USE DEF Pcs
    <3>1. CASE TakeDispatchLock(p)
      <4>1. ProcOK'
        BY <3>1, GotoType, EndType DEF TakeDispatchLock
      <4> QED BY <3>1, <4>1 DEF TakeDispatchLock
    <3>2. CASE LockTimeout(p)
      <4>1. ProcOK'
        BY <3>2, GotoType, EndType DEF LockTimeout
      <4> QED BY <3>2, <4>1 DEF LockTimeout
    <3>3. CASE ReserveAssign(p)
      <4>1. ProcOK'
        BY <3>3, GotoType, EndType DEF ReserveAssign
      <4> QED BY <3>3, <4>1 DEF ReserveAssign, Statuses
    <3>4. CASE ReserveRefuse(p)
      <4>1. ProcOK'
        BY <3>4, GotoType, EndType DEF ReserveRefuse
      <4> QED BY <3>4, <4>1 DEF ReserveRefuse
    <3>5. CASE ReserveStart(p)
      <4>1. ProcOK'
        BY <3>5, GotoType, EndType DEF ReserveStart
      <4> QED BY <3>5, <4>1 DEF ReserveStart, Statuses
    <3>6. CASE BeginAttempt(p)
      <4> DEFINE n == attempt[proc[p].task] + 1
      <4> DEFINE began == [proc[p] EXCEPT !.pc = "agent", !.attempt = n]
      <4>1. proc[p].task \in Tasks /\ n \in Nat
        BY <3>6 DEF BeginAttempt, ProcOK
      <4>2. proc' = [proc EXCEPT ![p] = began]
        BY <3>6 DEF BeginAttempt
      <4>3. /\ began \in [pc: Pcs, task: Tasks \cup {NoTask}, cmd: Commands,
                          attempt: Nat, result: Results]
            /\ began.task = proc[p].task
        BY <4>1 DEF ProcOK
      <4>4. ProcOK'
        BY <4>1, <4>2, <4>3 DEF ProcOK
      <4>5. attempt' \in [Tasks -> Nat]
        BY <3>6, <4>1 DEF BeginAttempt
      <4> QED BY <3>6, <4>4, <4>5 DEF BeginAttempt
    <3>7. CASE BeginFails(p)
      <4>1. ProcOK'
        BY <3>7, GotoType, EndType DEF BeginFails
      <4> QED BY <3>7, <4>1 DEF BeginFails
    <3>8. CASE Abort(p)
      <4>1. ProcOK'
        BY <3>8, GotoType, EndType DEF Abort
      <4> QED BY <3>8, <4>1 DEF Abort, End
    <3>9. CASE Recover(p)
      <4>1. ProcOK'
        BY <3>9, GotoType, EndType DEF Recover
      <4> QED BY <3>9, <4>1 DEF Recover, End, Statuses
    <3>10. CASE \E result \in Results : RunAgent(p, result)
      <4>1. PICK result \in Results : RunAgent(p, result)
        BY <3>10
      <4> DEFINE ran == [proc[p] EXCEPT !.pc = "report", !.result = result]
      <4>2. proc' = [proc EXCEPT ![p] = ran]
        BY <4>1 DEF RunAgent
      <4>3. proc[p].task \in Tasks
        BY <4>1 DEF RunAgent, ProcOK
      <4>4. /\ ran \in [pc: Pcs, task: Tasks \cup {NoTask}, cmd: Commands,
                        attempt: Nat, result: Results]
            /\ ran.task = proc[p].task
        BY DEF ProcOK
      <4>5. ProcOK'
        BY <4>2, <4>3, <4>4 DEF ProcOK
      <4>6. UNCHANGED <<status, open, attempt, locks, reviewing, history>>
        BY <4>1 DEF RunAgent
      <4>7. integrated' \subseteq Tasks
        BY <4>1 DEF RunAgent
      <4> QED BY <4>5, <4>6, <4>7
    <3>11. CASE Report(p)
      <4>1. ProcOK'
        BY <3>11, GotoType, EndType DEF Report
      <4>2. proc[p].result # "raise" => proc[p].result \in Statuses
        BY DEF ProcOK, Results, Statuses
      <4> QED BY <3>11, <4>1, <4>2 DEF Report, Goto
    <3>12. CASE Raised(p)
      <4>1. ProcOK'
        BY <3>12, GotoType, EndType DEF Raised
      <4> QED BY <3>12, <4>1 DEF Raised, End
    <3>13. CASE Finish(p)
      <4>1. ProcOK'
        BY <3>13, GotoType, EndType DEF Finish
      <4> QED BY <3>13, <4>1 DEF Finish, End
    <3> QED BY <2>2, <3>1, <3>2, <3>3, <3>4, <3>5, <3>6, <3>7, <3>8, <3>9,
               <3>10, <3>11, <3>12, <3>13 DEF Progress
  <2>3. ASSUME NEW p \in Procs, Crash(p) PROVE TypeOK'
    <3>1. ProcOK'
      BY <2>3, IdleType DEF Crash, ProcOK
    <3> QED BY <2>3, <3>1 DEF Crash
  <2>4. ASSUME NEW t \in Tasks, NEW s \in Statuses, NEW force \in BOOLEAN,
               SetStatus(t, s, force)
        PROVE  TypeOK'
    BY <2>4 DEF SetStatus, ProcOK
  <2>5. ASSUME NEW t \in Tasks, NEW verdict \in Verdicts,
               ReviewEnd(t, verdict) \/ ImportReview(t, verdict)
        PROVE  TypeOK'
    BY <2>5 DEF ReviewEnd, ImportReview, Verdicts, ProcOK, Statuses
  <2>6. ASSUME NEW t \in Tasks,
               ReviewStart(t) \/ ReviewDrop(t) \/ Merge(t) \/ Resolve(t)
        PROVE  TypeOK'
    BY <2>6 DEF ReviewStart, ReviewDrop, Merge, Resolve, ProcOK
  <2>7. CASE UNCHANGED vars
    BY <2>7 DEF vars, ProcOK
  <2> QED BY <2>1, <2>2, <2>3, <2>4, <2>5, <2>6, <2>7 DEF Next
<1> QED BY <1>1, <1>2, PTL DEF Spec

-----------------------------------------------------------------------------
(***************************************************************************)
(* AgentsExclusive is not inductive.  The induction needs who holds which  *)
(* lock at which step, that an executed task is still in_progress unless   *)
(* it was ousted, and that a task whose reservation has passed the     *)
(* dispatch check meets no executing task of its group.                    *)
(***************************************************************************)
LocksHeld ==
    \A p \in Procs :
        /\ proc[p].pc # "idle" => execLock[proc[p].task] = p
        /\ proc[p].pc \in {"locked", "reserved"} => dispatchLock = p
        /\ proc[p].pc = "reserved" => stateLock[proc[p].task] = p

Owns ==
    \A p \in Procs : Executing(p) =>
        \/ status[proc[p].task] = "in_progress"
        \/ proc[p].task \in ousted

ReservationClear ==
    \A p, q \in Procs :
        /\ proc[p].pc = "reserved" /\ Executing(q)
        /\ SameGroup(proc[p].task, proc[q].task)
        => proc[q].task \in ousted

IInv == TypeOK /\ LocksHeld /\ Owns /\ ReservationClear /\ AgentsExclusive

\* The invariant is preserved by every step that keeps the types.
LEMMA Inductive == IInv /\ TypeOK' /\ [Next]_vars => IInv'
<1> SUFFICES ASSUME IInv, TypeOK', [Next]_vars
             PROVE  LocksHeld' /\ Owns' /\ ReservationClear' /\ AgentsExclusive'
  BY DEF IInv
<1> USE DEF IInv, TypeOK, ProcOK, LocksHeld, Owns, ReservationClear,
            AgentsExclusive, Executing, files, locks, history
<1>1. ASSUME NEW p \in Procs, NEW t \in Tasks, NEW cmd \in Commands,
             StartCommand(p, t, cmd)
      PROVE  LocksHeld' /\ Owns' /\ ReservationClear' /\ AgentsExclusive'
  BY <1>1, ProcsAssumption DEF StartCommand, Idle
<1>2. ASSUME NEW p \in Procs, Progress(p)
      PROVE  LocksHeld' /\ Owns' /\ ReservationClear' /\ AgentsExclusive'
  <2>1. CASE TakeDispatchLock(p)
    BY <2>1, ProcsAssumption DEF TakeDispatchLock, Goto
  <2>2. CASE LockTimeout(p)
    BY <2>2, ProcsAssumption DEF LockTimeout, Goto
  <2>3. CASE ReserveAssign(p)
    <3> DEFINE t == proc[p].task
    <3>1. /\ proc' = [proc EXCEPT ![p].pc = "reserved"]
          /\ execLock' = execLock /\ dispatchLock' = dispatchLock
          /\ stateLock' = [stateLock EXCEPT ![t] = p]
          /\ ousted' = ousted
          /\ proc[p].pc = "locked" /\ t \in Tasks
      BY <2>3 DEF ReserveAssign, Goto
    <3>2. \A q \in Procs \ {p} : proc[q].pc # "idle" => proc[q].task # t
      BY <3>1
    <3>3. \A u \in Tasks \ {t} : status'[u] = status[u]
      BY <2>3 DEF ReserveAssign
    <3>4. LocksHeld'
      BY <3>1, <3>2
    <3>5. Owns'
      BY <3>1, <3>2, <3>3
    <3>6. \A u \in Tasks : SameGroup(t, u) => status[u] # "in_progress"
      BY <2>3 DEF ReserveAssign, CanDispatch, Dispatchable, Occupies
    <3>7. ReservationClear'
      BY <3>1, <3>6
    <3>8. AgentsExclusive'
      BY <3>1
    <3> QED BY <3>4, <3>5, <3>7, <3>8
  <2>4. CASE ReserveRefuse(p)
    BY <2>4, ProcsAssumption DEF ReserveRefuse, Goto
  <2>5. CASE ReserveStart(p)
    <3> DEFINE t == proc[p].task
    <3>1. /\ proc' = [proc EXCEPT ![p].pc = "begin"]
          /\ status' = [status EXCEPT ![t] = "in_progress"]
          /\ execLock' = execLock /\ dispatchLock' = NoProc
          /\ stateLock' = [stateLock EXCEPT ![t] = NoProc]
          /\ ousted' = ousted \ {t}
          /\ proc[p].pc = "reserved" /\ t \in Tasks
      BY <2>5 DEF ReserveStart, Goto
    <3>2. \A q \in Procs \ {p} :
            /\ proc[q].pc # "idle" => proc[q].task # t
            /\ proc[q].pc \notin {"locked", "reserved"}
      BY <3>1
    <3>3. LocksHeld'
      BY <3>1, <3>2
    <3>4. Owns'
      BY <3>1, <3>2
    <3>5. ReservationClear'
      BY <3>1, <3>2
    <3>6. \A q \in Procs \ {p} : Executing(q) =>
            (SameGroup(t, proc[q].task) => proc[q].task \in ousted')
      BY <3>1, <3>2
    <3>7. \A u, v \in Tasks : SameGroup(u, v) => SameGroup(v, u)
      BY DEF SameGroup
    <3>8. \A q, r \in Procs \ {p} :
            /\ Executing(q) /\ Executing(r)
            /\ SameGroup(proc[q].task, proc[r].task)
            => proc[q].task \in ousted' \/ proc[r].task \in ousted'
      BY <3>1, <3>2
    <3>9. ~SameGroup(t, t)
      BY DEF SameGroup
    <3>10. AgentsExclusive'
      BY <3>1, <3>6, <3>7, <3>8, <3>9
    <3> QED BY <3>3, <3>4, <3>5, <3>10
  <2>6. CASE BeginAttempt(p)
    BY <2>6, ProcsAssumption, SMTT(60) DEF BeginAttempt
  <2>7. CASE BeginFails(p)
    BY <2>7, ProcsAssumption DEF BeginFails, Goto
  <2>8. CASE Abort(p)
    <3>1. CASE Goto(p, "recover") /\ UNCHANGED execLock
      BY <2>8, <3>1 DEF Abort, Goto
    <3>2. CASE End(p)
      BY <2>8, <3>2, ProcsAssumption DEF Abort, End, Idle
    <3> QED BY <2>8, <3>1, <3>2 DEF Abort
  <2>9. CASE Recover(p)
    BY <2>9, ProcsAssumption DEF Recover, End, Idle
  <2>10. CASE \E result \in Results : RunAgent(p, result)
    BY <2>10, ProcsAssumption DEF RunAgent
  <2>11. CASE Report(p)
    <3>1. \/ proc' = [proc EXCEPT ![p].pc = "finish"]
          \/ proc' = [proc EXCEPT ![p].pc = "raised"]
      BY <2>11 DEF Report, Goto
    <3>2. UNCHANGED <<execLock, stateLock, dispatchLock, ousted>>
      BY <2>11 DEF Report
    <3>3. \A q \in Procs \ {p} : proc[q].pc # "idle" =>
             proc[q].task # proc[p].task
      BY <2>11 DEF Report
    <3>4. \A u \in Tasks \ {proc[p].task} : status'[u] = status[u]
      BY <2>11 DEF Report
    <3>5. proc[p].task \in Tasks /\ proc[p].pc = "report"
      BY <2>11 DEF Report
    <3> HIDE <2>11
    <3>6. LocksHeld'
      BY <3>1, <3>2, <3>5
    <3>7. Owns'
      BY <3>1, <3>2, <3>3, <3>4
    <3>8. CASE proc' = [proc EXCEPT ![p].pc = "finish"]
      BY <3>2, <3>6, <3>7, <3>8
    <3>9. CASE proc' = [proc EXCEPT ![p].pc = "raised"]
      BY <3>2, <3>6, <3>7, <3>9
    <3> QED BY <3>1, <3>8, <3>9
  <2>12. CASE Raised(p)
    <3>1. CASE Goto(p, "recover") /\ UNCHANGED execLock
      BY <2>12, <3>1 DEF Raised, Goto
    <3>2. CASE End(p)
      BY <2>12, <3>2, ProcsAssumption DEF Raised, End, Idle
    <3> QED BY <2>12, <3>1, <3>2 DEF Raised
  <2>13. CASE Finish(p)
    BY <2>13, ProcsAssumption DEF Finish, End, Idle
  <2> QED BY <1>2, <2>1, <2>2, <2>3, <2>4, <2>5, <2>6, <2>7, <2>8, <2>9,
             <2>10, <2>11, <2>12, <2>13 DEF Progress
<1>3. ASSUME NEW p \in Procs, Crash(p)
      PROVE  LocksHeld' /\ Owns' /\ ReservationClear' /\ AgentsExclusive'
  BY <1>3, ProcsAssumption DEF Crash, Idle
<1>4. ASSUME NEW t \in Tasks, NEW s \in Statuses, NEW force \in BOOLEAN,
             SetStatus(t, s, force)
      PROVE  LocksHeld' /\ Owns' /\ ReservationClear' /\ AgentsExclusive'
  BY <1>4 DEF SetStatus
<1>5. ASSUME NEW t \in Tasks, NEW verdict \in Verdicts,
             ReviewEnd(t, verdict) \/ ImportReview(t, verdict)
      PROVE  LocksHeld' /\ Owns' /\ ReservationClear' /\ AgentsExclusive'
  BY <1>5 DEF ReviewEnd, ImportReview
<1>6. ASSUME NEW t \in Tasks,
             ReviewStart(t) \/ ReviewDrop(t) \/ Merge(t) \/ Resolve(t)
      PROVE  LocksHeld' /\ Owns' /\ ReservationClear' /\ AgentsExclusive'
  BY <1>6 DEF ReviewStart, ReviewDrop, Merge, Resolve
<1>7. CASE UNCHANGED vars
  BY <1>7 DEF vars
<1> QED BY <1>1, <1>2, <1>3, <1>4, <1>5, <1>6, <1>7 DEF Next

\* So every reachable state has it.
LEMMA Invariance == Spec => []IInv
<1>1. Init => IInv
  BY ProcsAssumption, BlockedAssumption
     DEF Init, IInv, TypeOK, ProcOK, LocksHeld, Owns, ReservationClear,
         AgentsExclusive, Executing, Idle, Statuses, Pcs, Commands, Results
<1>2. IInv /\ TypeOK' /\ [Next]_vars => IInv'
  BY Inductive
<1> QED BY <1>1, <1>2, TypeCorrect, PTL DEF Spec

\* Conflict groups are mutual exclusion between executions, except where an
\* operator or a late review took a task out of in_progress under its agent.
THEOREM ConflictGroupsExclusive == Spec => []AgentsExclusive
<1>1. Spec => []IInv
  BY Invariance
<1>2. IInv => AgentsExclusive
  BY DEF IInv
<1> QED BY <1>1, <1>2, PTL

-----------------------------------------------------------------------------
(***************************************************************************)
(* VerdictsHold.  The dependencies of a task are read at its reservation,  *)
(* and their status files change later.  They stay done because a task     *)
(* that is reserved or executed is not done (Undone): whatever a command   *)
(* writes late, it writes to a task no other task builds on.               *)
(***************************************************************************)
Undone ==
    \A p \in Procs :
        /\ proc[p].pc = "reserved" =>
              status[proc[p].task] \in {"assigned", "waiting_answer"}
        /\ Executing(p) => status[proc[p].task] \notin QualityGates

\* DependenciesHold, from the reservation on.
DependenciesClear ==
    \A p \in Procs : proc[p].pc = "reserved" \/ Executing(p) =>
        \A d \in DependsOn[proc[p].task] :
            (status[d] = "done" /\ d \in integrated) \/ d \in reopened

Kept == \A t \in Tasks : status[t] = "done" /\ status'[t] # "done" => t \in reopened'

\* A command works on a task of its own: no other command's step touches it.
Mine(p) ==
    /\ \A q \in Procs \ {p} : proc'[q] = proc[q]
    /\ \A t \in Tasks \ {proc[p].task} :
          status'[t] = status[t] /\ (t \in integrated => t \in integrated')
    /\ reopened' = reopened

\* A step of a command that moves on to somewhere before or after the agent.
LEMMA MineKeeps ==
  ASSUME IInv, Undone, DependenciesClear, NEW p \in Procs, proc[p].pc # "idle", Mine(p),
         proc'[p].pc = "reserved" \/ Executing(p)' =>
           /\ proc'[p].task = proc[p].task
           /\ \A d \in DependsOn[proc[p].task] :
                 (status[d] = "done" /\ d \in integrated) \/ d \in reopened,
         proc'[p].pc = "reserved" =>
           status'[proc[p].task] \in {"assigned", "waiting_answer"},
         Executing(p)' => status'[proc[p].task] \notin QualityGates,
         status[proc[p].task] = "done" =>
           status'[proc[p].task] = "done" /\ integrated \subseteq integrated'
  PROVE  Undone' /\ DependenciesClear' /\ Kept
<1> DEFINE t == proc[p].task
<1>1. t \in Tasks /\ \A q \in Procs \ {p} : proc[q].pc # "idle" => proc[q].task # t
  BY DEF IInv, TypeOK, ProcOK, LocksHeld
<1>2. Kept
  BY DEF Kept, Mine
<1>3. \A d \in Tasks : (status[d] = "done" /\ d \in integrated) \/ d \in reopened
        => (status'[d] = "done" /\ d \in integrated') \/ d \in reopened'
  BY DEF Mine
<1>4. \A q \in Procs \ {p} : /\ Executing(q)' <=> Executing(q)
                            /\ proc'[q].pc = proc[q].pc /\ proc'[q].task = proc[q].task
  BY DEF Mine, Executing
<1>5. \A q \in Procs \ {p} : proc[q].pc = "reserved" \/ Executing(q) =>
        proc[q].task \in Tasks \ {t}
  BY <1>1 DEF Executing, IInv, TypeOK, ProcOK
<1>6. Undone'
  BY <1>4, <1>5 DEF Undone, Mine
<1>7. DependenciesClear'
  <2> SUFFICES ASSUME NEW q \in Procs, proc'[q].pc = "reserved" \/ Executing(q)',
                      NEW d \in DependsOn[proc'[q].task]
               PROVE  (status'[d] = "done" /\ d \in integrated') \/ d \in reopened'
    BY DEF DependenciesClear
  <2>1. proc'[q].task \in Tasks
    BY <1>1, <1>4, <1>5
  <2>2. d \in Tasks
    BY <2>1, GraphAssumption
  <2>3. (status[d] = "done" /\ d \in integrated) \/ d \in reopened
    BY <1>4 DEF DependenciesClear
  <2> QED
    BY <1>3, <2>2, <2>3
<1> QED
  BY <1>2, <1>6, <1>7

\* Nothing takes a done task out of done but an operator with --force, and no
\* agent is left working on what is not done.
LEMMA VerdictsStay ==
  ASSUME IInv, Undone, DependenciesClear, [Next]_vars
  PROVE  Undone' /\ DependenciesClear' /\ Kept
<1>0. TypeOK /\ ProcOK /\ LocksHeld
  BY DEF IInv, TypeOK
<1>1. ASSUME NEW p \in Procs, NEW t \in Tasks, NEW cmd \in Commands, StartCommand(p, t, cmd)
      PROVE  Undone' /\ DependenciesClear' /\ Kept
  BY <1>0, <1>1 DEF StartCommand, Idle, Undone, DependenciesClear, Kept, Executing, ProcOK, files
<1>2. ASSUME NEW p \in Procs, Progress(p)
      PROVE  Undone' /\ DependenciesClear' /\ Kept
  <2> DEFINE t == proc[p].task
  <2> USE DEF Mine, files, locks, history
  <2>a. proc[p].pc # "idle"
    BY <1>2 DEF Progress, TakeDispatchLock, LockTimeout, ReserveAssign, ReserveRefuse,
         ReserveStart, BeginAttempt, BeginFails, Abort, Recover, RunAgent, Report, Raised, Finish
  <2>b. t \in Tasks /\ proc \in [Procs -> [pc: Pcs, task: Tasks \cup {NoTask}, cmd: Commands,
                                          attempt: Nat, result: Results]]
    BY <1>0, <2>a DEF ProcOK
  <2>c. status \in [Tasks -> Statuses]
    BY <1>0 DEF TypeOK
  <2>1. CASE ReserveAssign(p)
    <3>1. proc' = [proc EXCEPT ![p].pc = "reserved"] /\ UNCHANGED <<integrated, reopened>>
      BY <2>1 DEF ReserveAssign, Goto
    <3>2. \A d \in DependsOn[t] : status[d] = "done" /\ d \in integrated
      BY <2>1 DEF ReserveAssign, CanDispatch, Dispatchable
    <3>3. /\ status[t] \in {"backlog", "assigned", "failed", "waiting_answer"}
          /\ status' = IF status[t] \in {"backlog", "failed"}
                       THEN [status EXCEPT ![t] = "assigned"] ELSE status
      BY <2>1 DEF ReserveAssign, Allowed
    <3>4. status'[t] \in {"assigned", "waiting_answer"}
      BY <2>b, <2>c, <3>3
    <3>5. Mine(p)
      BY <2>b, <2>c, <3>1, <3>3
    <3>6. proc'[p].pc = "reserved" /\ ~Executing(p)' /\ proc'[p].task = t
      BY <2>b, <3>1 DEF Executing
    <3> QED
      BY <2>a, <3>2, <3>3, <3>4, <3>5, <3>6, MineKeeps
  <2>2. CASE ReserveStart(p)
    <3>1. /\ proc' = [proc EXCEPT ![p].pc = "begin"] /\ UNCHANGED <<integrated, reopened>>
          /\ status' = [status EXCEPT ![t] = "in_progress"] /\ proc[p].pc = "reserved"
      BY <2>2 DEF ReserveStart, Goto
    <3>2. status[t] \in {"assigned", "waiting_answer"}
      BY <3>1 DEF Undone
    <3>3. status'[t] = "in_progress" /\ Mine(p)
      BY <2>b, <2>c, <3>1
    <3>4. proc'[p].pc = "begin" /\ proc'[p].task = t
      BY <2>b, <3>1
    <3> QED
      BY <2>a, <3>1, <3>2, <3>3, <3>4, MineKeeps DEF DependenciesClear, QualityGates
  <2>3. CASE BeginAttempt(p)
    <3>1. /\ proc' = [proc EXCEPT ![p].pc = "agent", ![p].attempt = attempt[t] + 1]
          /\ UNCHANGED <<status, integrated, reopened>> /\ Executing(p)
      BY <2>3 DEF BeginAttempt, Executing
    <3>2. proc'[p].pc = "agent" /\ proc'[p].task = t /\ Mine(p)
      BY <2>b, <3>1
    <3> QED
      BY <2>a, <3>1, <3>2, MineKeeps DEF DependenciesClear, Undone
  <2>4. CASE \E result \in Results : RunAgent(p, result)
    <3>1. PICK result \in Results : RunAgent(p, result)
      BY <2>4
    <3>2. /\ proc' = [proc EXCEPT ![p].pc = "report", ![p].result = result]
          /\ UNCHANGED <<status, reopened>> /\ Executing(p)
          /\ integrated \ {t} \subseteq integrated'
      BY <3>1 DEF RunAgent, Executing
    <3>3. proc'[p].pc = "report" /\ proc'[p].task = t /\ Mine(p)
      BY <2>b, <3>2
    <3>4. status[t] # "done"
      BY <3>2 DEF Undone, QualityGates
    <3> QED
      BY <2>a, <3>2, <3>3, <3>4, MineKeeps DEF DependenciesClear, Undone
  <2>5. CASE Report(p) \/ Recover(p)
    <3>1. UNCHANGED <<integrated, reopened>>
      BY <2>5 DEF Report, Recover
    <3>2. \/ status' = status
          \/ \E s : status' = [status EXCEPT ![t] = s] /\ MayMove(status[t], s)
      BY <2>5 DEF Report, Recover
    <3>3. /\ \A q \in Procs \ {p} : proc'[q] = proc[q]
          /\ proc'[p].pc \in {"finish", "raised", "idle"}
      BY <2>b, <2>5 DEF Report, Recover, Goto, End, Idle
    <3>4. Mine(p)
      BY <2>b, <2>c, <3>1, <3>2, <3>3
    <3>5. status[t] = "done" => status'[t] = "done"
      BY <2>b, <2>c, <3>2 DEF MayMove, Transitions
    <3> QED
      BY <2>a, <3>1, <3>3, <3>4, <3>5, MineKeeps DEF Executing
  <2>6. CASE \/ TakeDispatchLock(p) \/ LockTimeout(p) \/ ReserveRefuse(p) \/ BeginFails(p)
             \/ Abort(p) \/ Raised(p) \/ Finish(p)
    <3>1. UNCHANGED <<status, integrated, reopened>>
      BY <2>6 DEF TakeDispatchLock, LockTimeout, ReserveRefuse, BeginFails, Abort, Raised, Finish
    <3>2. \/ \E place \in {"locked", "abort", "recover"} : Goto(p, place)
          \/ End(p)
      BY <2>6 DEF TakeDispatchLock, LockTimeout, ReserveRefuse, BeginFails, Abort, Raised, Finish
    <3>3. /\ \A q \in Procs \ {p} : proc'[q] = proc[q]
          /\ proc'[p].pc \in {"locked", "abort", "recover", "idle"}
      BY <2>b, <3>2 DEF Goto, End, Idle
    <3> QED
      BY <2>a, <3>1, <3>3, MineKeeps DEF Executing
  <2> QED
    BY <1>2, <2>1, <2>2, <2>3, <2>4, <2>5, <2>6 DEF Progress
<1>3. ASSUME NEW p \in Procs, Crash(p)
      PROVE  Undone' /\ DependenciesClear' /\ Kept
  BY <1>0, <1>3 DEF Crash, Idle, Undone, DependenciesClear, Kept, Executing, ProcOK, files, history
<1>4. ASSUME NEW t \in Tasks, NEW s \in Statuses, NEW force \in BOOLEAN, SetStatus(t, s, force)
      PROVE  Undone' /\ DependenciesClear' /\ Kept
  <2>1. /\ status' = [status EXCEPT ![t] = s] /\ s \notin QualityGates
        /\ UNCHANGED <<integrated, proc>> /\ stateLock[t] = NoProc
        /\ reopened \subseteq reopened'
        /\ status[t] = "done" => t \in reopened'
    BY <1>0, <1>4 DEF SetStatus, Transitions, TypeOK
  <2>2. status \in [Tasks -> Statuses]
    BY <1>0 DEF TypeOK
  <2>3. \A p \in Procs : proc[p].pc = "reserved" => proc[p].task # t
    BY <1>0, <2>1, ProcsAssumption DEF LocksHeld
  <2>4. \A p \in Procs : proc[p].pc = "reserved" \/ Executing(p) =>
          proc[p].task \in Tasks /\ DependsOn[proc[p].task] \subseteq Tasks
    BY <1>0, GraphAssumption DEF ProcOK, Executing
  <2>5. Kept
    BY <2>1, <2>2 DEF Kept
  <2>6. Undone'
    BY <2>1, <2>2, <2>3, <2>4 DEF Undone, Executing
  <2>7. DependenciesClear'
    BY <2>1, <2>4, <2>5 DEF DependenciesClear, Executing, Kept
  <2> QED
    BY <2>5, <2>6, <2>7
<1>5. ASSUME NEW t \in Tasks, NEW verdict \in Verdicts,
             ReviewEnd(t, verdict) \/ ImportReview(t, verdict)
      PROVE  Undone' /\ DependenciesClear' /\ Kept
  <2>1. /\ status' = [status EXCEPT ![t] = verdict] /\ MayMove(status[t], verdict)
        /\ UNCHANGED <<integrated, proc, reopened>> /\ stateLock[t] = NoProc
    BY <1>5 DEF ReviewEnd, ImportReview, history, MayMove, Transitions, Verdicts
  <2>2. status \in [Tasks -> Statuses]
    BY <1>0 DEF TypeOK
  <2>3. \A p \in Procs : proc[p].pc = "reserved" => proc[p].task # t
    BY <1>0, <2>1, ProcsAssumption DEF LocksHeld
  <2>4. \A p \in Procs : proc[p].pc = "reserved" \/ Executing(p) =>
          proc[p].task \in Tasks /\ DependsOn[proc[p].task] \subseteq Tasks
    BY <1>0, GraphAssumption DEF ProcOK, Executing
  <2>5. Kept
    BY <2>1, <2>2 DEF Kept, MayMove, Transitions
  <2>6. status[t] \notin QualityGates => status'[t] \notin QualityGates
    BY <2>1, <2>2 DEF MayMove, Transitions, QualityGates, Verdicts, Statuses
  <2>7. Undone'
    BY <2>1, <2>2, <2>3, <2>4, <2>6 DEF Undone, Executing
  <2>8. DependenciesClear'
    BY <2>1, <2>4, <2>5 DEF DependenciesClear, Executing, Kept
  <2> QED
    BY <2>5, <2>7, <2>8
<1>6. ASSUME NEW t \in Tasks,
             ReviewStart(t) \/ ReviewDrop(t) \/ Merge(t) \/ Resolve(t)
      PROVE  Undone' /\ DependenciesClear' /\ Kept
  BY <1>6 DEF ReviewStart, ReviewDrop, Merge, Resolve, Undone, DependenciesClear, Kept,
              Executing, files, history
<1>7. CASE UNCHANGED vars
  BY <1>7 DEF vars, files, history, Undone, DependenciesClear, Kept, Executing
<1> QED
  BY <1>1, <1>2, <1>3, <1>4, <1>5, <1>6, <1>7 DEF Next

\* What a verdict settled holds: while an agent builds on a task it stays done
\* and in its line, and done is final, unless it was reopened by force.
THEOREM VerdictsStand == Spec => VerdictsHold
<1>1. Init => Undone /\ DependenciesClear
  BY DEF Init, Idle, Undone, DependenciesClear, Executing
<1>2. Spec => [](IInv /\ Undone /\ DependenciesClear)
  BY <1>1, VerdictsStay, Invariance, PTL DEF Spec
<1>3. DependenciesClear => DependenciesHold
  BY DEF DependenciesClear, DependenciesHold
<1>4. IInv /\ Undone /\ DependenciesClear /\ [Next]_vars =>
        [\A t \in Tasks : status[t] = "done" /\ status'[t] # "done" => t \in reopened']_vars
  BY VerdictsStay DEF Kept
<1> QED
  BY <1>2, <1>3, <1>4, PTL DEF Spec, VerdictsHold, DoneIsFinal
=============================================================================
