-------------------------- MODULE DispatchRun_proofs --------------------------
(* The dispatch run store, slots and supervisor, for any runs, workers, backends
   and slots: a backend works in its slots only, a heartbeat that gave up stops it
   for good, and the run store keeps what RunLifecycle promises.  And the batches
   of runs, for any plans, members and starting commands: a request executes each
   member once. *)
EXTENDS DispatchRun, DispatchBatch, FiniteSetTheorems, WellFoundedInduction, TLAPS

(* From the claim to the verdict. *)
AtWork == {"work", "gated", "binding", "bound", "checked", "running"}
Closing == {"cleanup", "release", "decide", "publish"}
Busy == {"bind"} \cup AtWork \cup Closing

(* The run is claimed by the generation, with the slots it holds. *)
Executes(w) ==
  LET r == proc[w].run
  IN /\ r \in Runs /\ run[r].status = "running" /\ run[r].token = w /\ run[r].worker = w
     /\ run[r].slots = proc[w].held

(* The slots it holds are one of its backend and a global one. *)
Slotted(w) ==
  /\ \E s \in proc[w].held : ScopeOf[s] = BackendOf[proc[w].run]
  /\ \E s \in proc[w].held : ScopeOf[s] = Global

(* All of them carry its lease, bound to the run. *)
Leased(w) == \A s \in proc[w].held : lease[s] = Lease(w, proc[w].run)

(* What a worker has at each step. *)
Staged ==
  \A w \in Workers :
    /\ proc[w].pc # "idle" => proc[w].run \in Runs
    /\ proc[w].pc \in {"idle", "reserved", "backend_slot"} => proc[w].held = {}
    /\ proc[w].pc = "global_slot" =>
         \E s \in proc[w].held : ScopeOf[s] = BackendOf[proc[w].run]
    /\ proc[w].pc \in {"claim"} \cup Busy => Slotted(w)
    /\ proc[w].pc \in {"idle", "reserved", "backend_slot", "global_slot", "claim", "bind"} =>
         proc[w].beat = "off"
    /\ proc[w].pc \in Closing => proc[w].outcome \in Verdicts
    /\ child[w] = "gated" => proc[w].pc \in {"gated", "binding", "bound", "checked"}
    /\ child[w] = "live" => proc[w].pc \in {"running", "dead"}

Executing == \A w \in Workers : proc[w].pc \in Busy => Executes(w)

(* A live backend, whose worker may be dead, is the backend of a run that goes on. *)
Living ==
  \A w \in Workers : child[w] = "live" =>
    Executes(w) /\ Slotted(w) /\ run[proc[w].run].backend = w

Leasing == \A w \in Workers : proc[w].pc \in AtWork \/ child[w] = "live" => Leased(w)

(* Behind the gate the backend is known to the record, until the heartbeat cleans up. *)
Gated ==
  \A w \in Workers :
    /\ proc[w].pc \in {"bound", "checked"} /\ proc[w].beat # "stopped" =>
         run[proc[w].run].backend = w
    /\ proc[w].beat = "stopped" =>
         child[w] # "live" /\ (proc[w].pc = "checked" => child[w] = "none")

(* Before a run is claimed nobody executes it and nobody asked to cancel it. *)
Unclaimed ==
  \A r \in Runs : run[r].status \in {"absent", "accepted"} =>
    ~run[r].cancel /\ run[r].worker = None

IInv == TypeOK /\ Staged /\ Executing /\ Living /\ Leasing /\ Gated /\ Unclaimed

-----------------------------------------------------------------------------
(* No run is there and no worker. *)
LEMMA Initially == Init => IInv
<1> SUFFICES ASSUME Init PROVE IInv
  OBVIOUS
<1>1. TypeOK
  BY DEF Init, TypeOK, RunRecord, SlotState, WorkerState, Statuses, Pcs, Beats, NewRun, Idle
<1>2. Staged /\ Executing /\ Living /\ Leasing /\ Gated /\ Unclaimed
  BY DEF Init, NewRun, Idle, Staged, Executing, Living, Leasing, Gated, Unclaimed, AtWork,
         Closing, Busy
<1> QED
  BY <1>1, <1>2 DEF IInv

(* A lease of a run that goes on is not taken, whoever cannot see its owner. *)
LEMMA NotTaken ==
  ASSUME NEW w \in Workers, NEW s \in proc[w].held, NEW blind \in BOOLEAN,
         Executes(w), lease[s] = Lease(w, proc[w].run)
  PROVE  ~MayTake(s, blind)
  BY DispatchAssumption
  DEF Executes, Lease, MayTake, Held, RunState, BoundRunState, Verdicts


(* What the store, the reapers and the workers write is a record of a run. *)
LEMMA Recorded ==
  ASSUME NEW rec \in RunRecord
  PROVE  /\ Cancelled(rec) \in RunRecord /\ FailedBy(rec) \in RunRecord
         /\ Cleaned(rec) \in RunRecord
         /\ \A s \in Statuses : [rec EXCEPT !.status = s] \in RunRecord
         /\ \A w \in Workers :
              /\ [rec EXCEPT !.token = w] \in RunRecord /\ [rec EXCEPT !.backend = w] \in RunRecord
              /\ \A slots \in SUBSET Slots :
                   [rec EXCEPT !.status = "running", !.token = w, !.worker = w, !.slots = slots]
                     \in RunRecord
  BY DEF RunRecord, Cancelled, FailedBy, Cleaned, Statuses, Verdicts

(* The worker takes a step and keeps its run and slots. *)
Steps(w) ==
  /\ proc' \in [Workers -> WorkerState]
  /\ \A v \in Workers : v # w => proc'[v] = proc[v]
  /\ proc'[w].run = proc[w].run /\ proc'[w].held = proc[w].held

(* Going on changes the program counter alone. *)
LEMMA GoSteps ==
  ASSUME TypeOK, NEW w \in Workers, NEW pc \in Pcs, Go(w, pc)
  PROVE  /\ Steps(w) /\ proc'[w].pc = pc
         /\ proc'[w].beat = proc[w].beat /\ proc'[w].outcome = proc[w].outcome
  BY DEF TypeOK, WorkerState, Go, Steps

(* Leaving, there is an outcome as well. *)
LEMMA LeaveSteps ==
  ASSUME TypeOK, NEW w \in Workers, NEW outcome \in Verdicts, Leave(w, outcome)
  PROVE  /\ Steps(w) /\ proc'[w].pc = "cleanup"
         /\ proc'[w].beat = proc[w].beat /\ proc'[w].outcome = outcome
<1>1. "cleanup" \in Pcs
  BY DEF Pcs
<1> QED
  BY <1>1 DEF TypeOK, WorkerState, Leave, Steps

(* CleanupProven writes at most the record of the run and the child. *)
LEMMA CleanupRecords ==
  ASSUME TypeOK, NEW w, CleanupProven(w)
  PROVE  run' \in [Runs -> RunRecord] /\ child' \in [Workers -> {"none", "gated", "live"}]
<1>1. CASE proc[w].run \in Runs
  <2>1. Cleaned(run[proc[w].run]) \in RunRecord
    BY <1>1, Recorded DEF TypeOK
  <2> QED
    BY <1>1, <2>1 DEF TypeOK, CleanupProven
<1>2. CASE proc[w].run \notin Runs
  BY <1>2 DEF TypeOK, CleanupProven
<1> QED
  BY <1>1, <1>2

(* A worker that leaves its work leaves no backend. *)
LEMMA AbandonKeeps ==
  ASSUME IInv, NEW w \in Workers, proc[w].pc \in AtWork, NEW outcome \in Verdicts,
         Abandon(w, outcome)
  PROVE  IInv'
<1>1. /\ Steps(w) /\ proc'[w].pc = "cleanup" /\ proc'[w].outcome = outcome
      /\ proc'[w].beat = proc[w].beat
      /\ child' = [child EXCEPT ![w] = "none"] /\ UNCHANGED <<run, lease>>
  BY LeaveSteps DEF Abandon, IInv
<1>2. /\ child' \in [Workers -> {"none", "gated", "live"}] /\ child'[w] = "none"
      /\ \A v \in Workers : v # w => child'[v] = child[v]
  BY <1>1 DEF IInv, TypeOK
<1>3. TypeOK'
  BY <1>1 DEF IInv, TypeOK, Steps
<1>4. Staged'
  BY <1>1, <1>2 DEF IInv, Staged, Slotted, Steps, Busy
<1>5. Executing'
  BY <1>1, <1>2 DEF IInv, Executing, Executes, Steps, Busy
<1>6. Living'
  BY <1>1, <1>2 DEF IInv, Living, Executes, Slotted, Steps
<1>7. Leasing'
  BY <1>1, <1>2 DEF IInv, Leasing, Leased, Steps
<1>8. Gated' /\ Unclaimed'
  BY <1>1, <1>2 DEF IInv, Gated, Unclaimed, Steps
<1> QED
  BY <1>3, <1>4, <1>5, <1>6, <1>7, <1>8 DEF IInv

(* A worker that goes on with its work keeps to its slots and its run. *)
LEMMA WorksOnKeeps ==
  ASSUME IInv, NEW w \in Workers, proc[w].pc \in AtWork, NEW pc \in AtWork \ {"work"}, Go(w, pc),
         UNCHANGED lease,
         child' = child \/ (child[w] # "live" /\ child' = [child EXCEPT ![w] = "live"]),
         run' = run \/ (run' = [run EXCEPT ![proc[w].run].backend = w]),
         child'[w] = "live" => pc = "running" /\ run'[proc[w].run].backend = w,
         child'[w] = "gated" => pc # "running",
         pc \in {"bound", "checked"} /\ proc[w].beat # "stopped" => run'[proc[w].run].backend = w,
         pc = "checked" \/ child'[w] = "live" => proc[w].beat # "stopped"
  PROVE  IInv'
<1> DEFINE r == proc[w].run
<1>1. /\ Steps(w) /\ proc'[w].pc = pc /\ proc'[w].beat = proc[w].beat
      /\ proc'[w].outcome = proc[w].outcome
  BY GoSteps DEF IInv, AtWork, Pcs
<1>2. r \in Runs /\ Executes(w) /\ Slotted(w)
  BY DEF IInv, Staged, Executing, Executes, Busy
<1>3. /\ run' \in [Runs -> RunRecord]
      /\ \A q \in Runs : /\ q # r => run'[q] = run[q]
                         /\ run'[q].status = run[q].status /\ run'[q].token = run[q].token
                         /\ run'[q].worker = run[q].worker /\ run'[q].slots = run[q].slots
                         /\ run'[q].cancel = run[q].cancel
  <2>1. CASE run' = run
    BY <2>1 DEF IInv, TypeOK
  <2>2. CASE run' = [run EXCEPT ![r].backend = w]
    <3>1. run[r] \in RunRecord /\ [run[r] EXCEPT !.backend = w] \in RunRecord
      BY <1>2, Recorded DEF IInv, TypeOK
    <3> QED
      BY <1>2, <2>2, <3>1 DEF IInv, TypeOK
  <2> QED
    BY <2>1, <2>2
<1>4. /\ child' \in [Workers -> {"none", "gated", "live"}]
      /\ \A v \in Workers : v # w => child'[v] = child[v]
  BY DEF IInv, TypeOK
<1>5. \A v \in Workers : v # w /\ Executes(v) => proc[v].run # r
  BY <1>2 DEF Executes
<1> HIDE DEF r
<1>6. TypeOK'
  BY <1>1, <1>3, <1>4 DEF IInv, TypeOK, Steps
<1>7. Staged'
  BY <1>1, <1>2, <1>4 DEF IInv, Staged, Slotted, Steps, AtWork, Closing
<1>8. Executing'
  BY <1>1, <1>3 DEF IInv, Executing, Executes, Steps, Busy
<1>9. Living'
  BY <1>1, <1>2, <1>3, <1>4, <1>5 DEF r, IInv, Living, Executes, Slotted, Steps
<1>10. Leasing'
  BY <1>1, <1>4 DEF IInv, Leasing, Leased, Steps
<1>11. Gated'
  <2>1. \A v \in Workers : v # w /\ proc[v].pc \in {"bound", "checked"} => Executes(v)
    BY DEF IInv, Executing, Busy, AtWork
  <2> QED
    BY <1>1, <1>2, <1>3, <1>4, <1>5, <2>1 DEF r, IInv, Gated, Steps, Executes
<1>12. Unclaimed'
  BY <1>3 DEF IInv, Unclaimed
<1> QED
  BY <1>6, <1>7, <1>8, <1>9, <1>10, <1>11, <1>12 DEF IInv

(* A run that is accepted is new: no worker holds slots for it. *)
LEMMA AcceptKeeps ==
  ASSUME IInv, NEW r \in Runs, Accept(r)
  PROVE  IInv'
<1>1. TypeOK'
  <2>1. run' \in [Runs -> RunRecord]
    BY DispatchAssumption DEF Accept, IInv, TypeOK, RunRecord, Statuses, Verdicts
  <2>2. lease' \in [Slots -> SlotState]
    BY DispatchAssumption DEF Accept, IInv, TypeOK
  <2>3. proc' \in [Workers -> WorkerState]
    BY DispatchAssumption DEF Accept, IInv, TypeOK
  <2>4. child' \in [Workers -> {"none", "gated", "live"}]
    BY DEF Accept, IInv, TypeOK
  <2> QED
    BY <2>1, <2>2, <2>3, <2>4 DEF TypeOK
<1>2. Staged'
  BY DispatchAssumption DEF Accept, IInv, TypeOK, RunRecord, WorkerState, Staged, Slotted
<1>3. Executing'
  BY DispatchAssumption
  DEF Accept, IInv, TypeOK, RunRecord, WorkerState, Staged, Executing, Executes
<1>4. Living'
  BY DispatchAssumption
  DEF Accept, IInv, TypeOK, RunRecord, WorkerState, Staged, Living, Executing, Executes,
      Slotted
<1>5. Leasing'
  BY DispatchAssumption
  DEF Accept, IInv, TypeOK, RunRecord, WorkerState, Staged, Living, Leasing, Leased
<1>6. Gated'
  BY DispatchAssumption
  DEF Accept, IInv, TypeOK, RunRecord, WorkerState, Staged, Living, Executing, Executes,
      Gated
<1>7. Unclaimed'
  BY DispatchAssumption
  DEF Accept, IInv, TypeOK, RunRecord, WorkerState, Staged, Executing, Executes, Unclaimed
<1> QED
  BY <1>1, <1>2, <1>3, <1>4, <1>5, <1>6, <1>7 DEF IInv

(* A request marks a record; a run that is not claimed is cancelled at once. *)
LEMMA RequestCancelKeeps ==
  ASSUME IInv, NEW r \in Runs, RequestCancel(r)
  PROVE  IInv'
<1>1. TypeOK'
  <2>1. run' \in [Runs -> RunRecord]
    <3>1. run[r] \in RunRecord
      BY DEF IInv, TypeOK
    <3> QED
      BY <3>1, Recorded DEF RequestCancel, IInv, TypeOK
  <2>2. lease' \in [Slots -> SlotState]
    BY DispatchAssumption DEF RequestCancel, IInv, TypeOK
  <2>3. proc' \in [Workers -> WorkerState]
    BY DispatchAssumption DEF RequestCancel, IInv, TypeOK
  <2>4. child' \in [Workers -> {"none", "gated", "live"}]
    BY DEF RequestCancel, IInv, TypeOK
  <2> QED
    BY <2>1, <2>2, <2>3, <2>4 DEF TypeOK
<1>2. Staged'
  BY DispatchAssumption
  DEF RequestCancel, IInv, TypeOK, RunRecord, WorkerState, Staged, Slotted
<1>3. Executing'
  BY DispatchAssumption
  DEF RequestCancel, IInv, TypeOK, RunRecord, WorkerState, Staged, Executing, Executes,
      Cancelled
<1>4. Living'
  BY DispatchAssumption
  DEF RequestCancel, IInv, TypeOK, RunRecord, WorkerState, Staged, Living, Executing,
      Executes, Slotted, Cancelled
<1>5. Leasing'
  BY DispatchAssumption
  DEF RequestCancel, IInv, TypeOK, RunRecord, WorkerState, Staged, Living, Executing,
      Leasing, Leased
<1>6. Gated'
  BY DispatchAssumption
  DEF RequestCancel, IInv, TypeOK, RunRecord, WorkerState, Staged, Living, Executing,
      Executes, Gated, Closing, Cancelled
<1>7. Unclaimed'
  BY DispatchAssumption
  DEF RequestCancel, IInv, TypeOK, RunRecord, WorkerState, Staged, Executing, Executes,
      Unclaimed, Cancelled
<1> QED
  BY <1>1, <1>2, <1>3, <1>4, <1>5, <1>6, <1>7 DEF IInv

(* A reservation that fails belongs to a run that nobody executes. *)
LEMMA FailReservedKeeps ==
  ASSUME IInv, NEW r \in Runs, FailReserved(r)
  PROVE  IInv'
<1>1. TypeOK'
  <2>1. run' \in [Runs -> RunRecord]
    <3>1. run[r] \in RunRecord
      BY DEF IInv, TypeOK
    <3> QED
      BY <3>1, Recorded DEF FailReserved, IInv, TypeOK, Statuses, Verdicts
  <2>2. lease' \in [Slots -> SlotState]
    BY DispatchAssumption DEF FailReserved, IInv, TypeOK
  <2>3. proc' \in [Workers -> WorkerState]
    BY DispatchAssumption DEF FailReserved, IInv, TypeOK
  <2>4. child' \in [Workers -> {"none", "gated", "live"}]
    BY DEF FailReserved, IInv, TypeOK
  <2> QED
    BY <2>1, <2>2, <2>3, <2>4 DEF TypeOK
<1>2. Staged'
  BY DispatchAssumption
  DEF FailReserved, IInv, TypeOK, RunRecord, WorkerState, Staged, Slotted
<1>3. Executing'
  BY DispatchAssumption
  DEF FailReserved, IInv, TypeOK, RunRecord, WorkerState, Staged, Executing, Executes
<1>4. Living'
  BY DispatchAssumption
  DEF FailReserved, IInv, TypeOK, RunRecord, WorkerState, Staged, Living, Executing,
      Executes, Slotted
<1>5. Leasing'
  BY DispatchAssumption
  DEF FailReserved, IInv, TypeOK, RunRecord, WorkerState, Staged, Living, Leasing, Leased
<1>6. Gated'
  BY DispatchAssumption
  DEF FailReserved, IInv, TypeOK, RunRecord, WorkerState, Staged, Living, Executing,
      Executes, Gated
<1>7. Unclaimed'
  BY DispatchAssumption
  DEF FailReserved, IInv, TypeOK, RunRecord, WorkerState, Staged, Executing, Executes,
      Unclaimed
<1> QED
  BY <1>1, <1>2, <1>3, <1>4, <1>5, <1>6, <1>7 DEF IInv

(* Reconciliation stops a backend whose worker is dead and clears it in the record. *)
LEMMA ReconcileCleanupKeeps ==
  ASSUME IInv, NEW r \in Runs, ReconcileCleanup(r)
  PROVE  IInv'
<1>1. TypeOK'
  <2>1. run' \in [Runs -> RunRecord]
    BY CleanupRecords DEF ReconcileCleanup, IInv
  <2>2. lease' \in [Slots -> SlotState]
    BY DispatchAssumption DEF ReconcileCleanup, IInv, TypeOK
  <2>3. proc' \in [Workers -> WorkerState]
    BY DispatchAssumption DEF ReconcileCleanup, IInv, TypeOK
  <2>4. child' \in [Workers -> {"none", "gated", "live"}]
    BY CleanupRecords DEF ReconcileCleanup, IInv
  <2> QED
    BY <2>1, <2>2, <2>3, <2>4 DEF TypeOK
<1>2. Staged'
  BY DispatchAssumption
  DEF ReconcileCleanup, IInv, TypeOK, RunRecord, WorkerState, Staged, Living, Slotted,
      Executes, Closing, CleanupProven
<1>3. Executing'
  BY SMTT(20), DispatchAssumption
  DEF ReconcileCleanup, IInv, TypeOK, RunRecord, WorkerState, Staged, Executing, Executes,
      AtWork, Closing, Busy, CleanupProven, Owns, Dead
<1>4. Living'
  BY SMTT(20), DispatchAssumption
  DEF ReconcileCleanup, IInv, TypeOK, RunRecord, WorkerState, Staged, Living, Executing,
      Executes, Slotted, AtWork, Closing, Busy, Gated, CleanupProven, Owns, Cleaned,
      Verdicts
<1>5. Leasing'
  BY DispatchAssumption
  DEF ReconcileCleanup, IInv, TypeOK, RunRecord, WorkerState, Staged, Living, Executing,
      Leasing, Leased, Executes, AtWork, Closing, CleanupProven
<1>6. Gated'
  BY SMTT(20), DispatchAssumption
  DEF ReconcileCleanup, IInv, TypeOK, RunRecord, WorkerState, Staged, Living, Executing,
      Executes, Gated, AtWork, Closing, Busy, CleanupProven, Owns, Dead
<1>7. Unclaimed'
  BY SMTT(20), DispatchAssumption
  DEF ReconcileCleanup, IInv, TypeOK, RunRecord, WorkerState, Staged, Executing, Executes,
      Unclaimed, AtWork, Closing, Busy, CleanupProven, Owns, Cleaned
<1> QED
  BY <1>1, <1>2, <1>3, <1>4, <1>5, <1>6, <1>7 DEF IInv

(* A run is failed in the place of its worker only when nothing of it lives. *)
LEMMA ReconcileFailKeeps ==
  ASSUME IInv, NEW r \in Runs, ReconcileFail(r)
  PROVE  IInv'
<1>1. TypeOK'
  <2>1. run' \in [Runs -> RunRecord]
    <3>1. run[r] \in RunRecord
      BY DEF IInv, TypeOK
    <3> QED
      BY <3>1, Recorded DEF ReconcileFail, IInv, TypeOK
  <2>2. lease' \in [Slots -> SlotState]
    BY DispatchAssumption DEF ReconcileFail, IInv, TypeOK
  <2>3. proc' \in [Workers -> WorkerState]
    BY DispatchAssumption DEF ReconcileFail, IInv, TypeOK
  <2>4. child' \in [Workers -> {"none", "gated", "live"}]
    BY DEF ReconcileFail, IInv, TypeOK
  <2> QED
    BY <2>1, <2>2, <2>3, <2>4 DEF TypeOK
<1>2. Staged'
  BY DispatchAssumption
  DEF ReconcileFail, IInv, TypeOK, RunRecord, WorkerState, Staged, Slotted
<1>3. Executing'
  BY DispatchAssumption
  DEF ReconcileFail, IInv, TypeOK, RunRecord, WorkerState, Staged, Executing, Executes,
      AtWork, Closing, Busy, Dead
<1>4. Living'
  BY DispatchAssumption
  DEF ReconcileFail, IInv, TypeOK, RunRecord, WorkerState, Staged, Living, Executing,
      Executes, Slotted
<1>5. Leasing'
  BY DispatchAssumption
  DEF ReconcileFail, IInv, TypeOK, RunRecord, WorkerState, Staged, Living, Executing,
      Leasing, Leased
<1>6. Gated'
  BY DispatchAssumption DEF ReconcileFail, IInv, TypeOK, RunRecord, Gated
<1>7. Unclaimed'
  BY DispatchAssumption
  DEF ReconcileFail, IInv, TypeOK, RunRecord, WorkerState, Staged, Executing, Executes,
      Unclaimed, FailedBy
<1> QED
  BY <1>1, <1>2, <1>3, <1>4, <1>5, <1>6, <1>7 DEF IInv

(* A record that is removed has a verdict, so that no worker executes it. *)
LEMMA GcKeeps ==
  ASSUME IInv, NEW r \in Runs, Gc(r)
  PROVE  IInv'
<1>1. TypeOK'
  <2>1. run' \in [Runs -> RunRecord]
    BY DispatchAssumption
    DEF Gc, IInv, TypeOK, RunRecord, Statuses, Staged, NewRun, Verdicts
  <2>2. lease' \in [Slots -> SlotState]
    BY DispatchAssumption DEF Gc, IInv, TypeOK
  <2>3. proc' \in [Workers -> WorkerState]
    BY DispatchAssumption DEF Gc, IInv, TypeOK
  <2>4. child' \in [Workers -> {"none", "gated", "live"}]
    BY DEF Gc, IInv, TypeOK
  <2> QED
    BY <2>1, <2>2, <2>3, <2>4 DEF TypeOK
<1>2. Staged'
  BY DispatchAssumption DEF Gc, IInv, TypeOK, RunRecord, WorkerState, Staged, Slotted
<1>3. Executing'
  BY DispatchAssumption
  DEF Gc, IInv, TypeOK, RunRecord, WorkerState, Staged, Executing, Executes, Verdicts
<1>4. Living'
  BY DispatchAssumption
  DEF Gc, IInv, TypeOK, RunRecord, WorkerState, Staged, Living, Executing, Executes,
      Slotted, Verdicts
<1>5. Leasing'
  BY DispatchAssumption
  DEF Gc, IInv, TypeOK, RunRecord, WorkerState, Staged, Living, Executing, Leasing, Leased
<1>6. Gated'
  BY DispatchAssumption
  DEF Gc, IInv, TypeOK, RunRecord, WorkerState, Staged, Living, Executing, Executes, Gated,
      AtWork, Closing, Busy, Verdicts
<1>7. Unclaimed'
  BY DispatchAssumption DEF Gc, IInv, TypeOK, RunRecord, Unclaimed
<1> QED
  BY <1>1, <1>2, <1>3, <1>4, <1>5, <1>6, <1>7 DEF IInv

(* A spawned worker starts with the reservation of its run and without slots. *)
LEMMA StartAsyncKeeps ==
  ASSUME IInv, NEW w \in Workers, StartAsync(w)
  PROVE  IInv'
<1>1. TypeOK'
  <2>1. run' \in [Runs -> RunRecord]
    BY DispatchAssumption DEF StartAsync, IInv, TypeOK
  <2>2. lease' \in [Slots -> SlotState]
    BY DispatchAssumption DEF StartAsync, IInv, TypeOK
  <2>3. proc' \in [Workers -> WorkerState]
    BY DispatchAssumption DEF StartAsync, IInv, TypeOK, WorkerState, Staged, Go, Pcs
  <2>4. child' \in [Workers -> {"none", "gated", "live"}]
    BY DEF StartAsync, IInv, TypeOK
  <2> QED
    BY <2>1, <2>2, <2>3, <2>4 DEF TypeOK
<1>2. Staged'
  BY DispatchAssumption
  DEF StartAsync, IInv, TypeOK, RunRecord, WorkerState, Staged, Living, Slotted, Executes,
      AtWork, Closing, Busy, Go
<1>3. Executing'
  BY DispatchAssumption
  DEF StartAsync, IInv, TypeOK, RunRecord, WorkerState, Staged, Executing, Executes, AtWork,
      Closing, Busy, Go
<1>4. Living'
  BY DispatchAssumption
  DEF StartAsync, IInv, TypeOK, RunRecord, WorkerState, Staged, Living, Executing, Executes,
      Slotted, Go
<1>5. Leasing'
  BY DispatchAssumption
  DEF StartAsync, IInv, TypeOK, RunRecord, WorkerState, Staged, Living, Executing, Leasing,
      Leased, Executes, Go
<1>6. Gated'
  BY DispatchAssumption
  DEF StartAsync, IInv, TypeOK, RunRecord, WorkerState, Staged, Living, Executing, Executes,
      Gated, Closing, Go
<1>7. Unclaimed'
  BY DispatchAssumption DEF StartAsync, IInv, TypeOK, RunRecord, Unclaimed
<1> QED
  BY <1>1, <1>2, <1>3, <1>4, <1>5, <1>6, <1>7 DEF IInv

(* A worker that gets no slot gives back what it has and ends. *)
LEMMA NoSlotKeeps ==
  ASSUME IInv, NEW w \in Workers, NoSlot(w)
  PROVE  IInv'
<1>1. TypeOK'
  <2>1. run' \in [Runs -> RunRecord]
    BY DispatchAssumption DEF NoSlot, IInv, TypeOK
  <2>2. lease' \in [Slots -> SlotState]
    BY DispatchAssumption DEF NoSlot, IInv, TypeOK, SlotState, Released
  <2>3. proc' \in [Workers -> WorkerState]
    BY DispatchAssumption DEF NoSlot, IInv, TypeOK, WorkerState
  <2>4. child' \in [Workers -> {"none", "gated", "live"}]
    BY DEF NoSlot, IInv, TypeOK
  <2> QED
    BY <2>1, <2>2, <2>3, <2>4 DEF TypeOK
<1>2. Staged'
  BY DispatchAssumption DEF NoSlot, IInv, TypeOK, WorkerState
<1>3. Executing'
  BY DispatchAssumption DEF NoSlot, IInv, TypeOK, RunRecord, WorkerState
<1>4. Living'
  BY DispatchAssumption DEF NoSlot, IInv, TypeOK, WorkerState
<1>5. Leasing'
  BY DispatchAssumption DEF NoSlot, IInv, TypeOK, RunRecord, WorkerState
<1>6. Gated'
  BY DispatchAssumption DEF NoSlot, IInv, TypeOK, RunRecord, WorkerState
<1>7. Unclaimed'
  BY DispatchAssumption DEF NoSlot, IInv, TypeOK, WorkerState
<1> QED
  BY <1>1, <1>2, <1>3, <1>4, <1>5, <1>6, <1>7 DEF IInv

(* The worker claims the run with the slots it holds, and executes it from there on. *)
LEMMA ClaimKeeps ==
  ASSUME IInv, NEW w \in Workers, Claim(w)
  PROVE  IInv'
<1>1. TypeOK'
  <2>1. run' \in [Runs -> RunRecord]
    <3>1. proc[w].run \in Runs /\ run[proc[w].run] \in RunRecord /\ proc[w].held \in SUBSET Slots
      BY DEF Claim, IInv, TypeOK, Staged, WorkerState
    <3> QED
      BY <3>1, Recorded DEF Claim, IInv, TypeOK
  <2>2. lease' \in [Slots -> SlotState]
    BY DispatchAssumption DEF Claim, IInv, TypeOK
  <2>3. proc' \in [Workers -> WorkerState]
    BY DispatchAssumption DEF Claim, IInv, TypeOK, WorkerState, Staged, Go, Pcs
  <2>4. child' \in [Workers -> {"none", "gated", "live"}]
    BY DEF Claim, IInv, TypeOK
  <2> QED
    BY <2>1, <2>2, <2>3, <2>4 DEF TypeOK
<1>2. Staged'
  BY DispatchAssumption
  DEF Claim, IInv, TypeOK, RunRecord, WorkerState, Staged, Living, Slotted, Executes,
      AtWork, Closing, Busy, Go
<1>3. Executing'
  BY DispatchAssumption
  DEF Claim, IInv, TypeOK, RunRecord, WorkerState, Staged, Executing, Executes, Go, MayClaim
<1>4. Living'
  BY DispatchAssumption
  DEF Claim, IInv, TypeOK, RunRecord, WorkerState, Staged, Living, Executing, Executes,
      Slotted, Go, MayClaim
<1>5. Leasing'
  BY DispatchAssumption
  DEF Claim, IInv, TypeOK, RunRecord, WorkerState, Staged, Living, Executing, Leasing,
      Leased, Executes, AtWork, Closing, Go
<1>6. Gated'
  BY DispatchAssumption
  DEF Claim, IInv, TypeOK, RunRecord, WorkerState, Staged, Living, Executing, Executes,
      Gated, Go
<1>7. Unclaimed'
  BY DispatchAssumption DEF Claim, IInv, TypeOK, Unclaimed
<1> QED
  BY <1>1, <1>2, <1>3, <1>4, <1>5, <1>6, <1>7 DEF IInv

(* A claim that is refused leaves the run to whoever has it. *)
LEMMA ClaimFailsKeeps ==
  ASSUME IInv, NEW w \in Workers, ClaimFails(w)
  PROVE  IInv'
<1>1. TypeOK'
  <2>1. run' \in [Runs -> RunRecord]
    BY DispatchAssumption DEF ClaimFails, IInv, TypeOK
  <2>2. lease' \in [Slots -> SlotState]
    BY DispatchAssumption DEF ClaimFails, IInv, TypeOK, SlotState, Released
  <2>3. proc' \in [Workers -> WorkerState]
    BY DispatchAssumption
    DEF ClaimFails, IInv, TypeOK, WorkerState, Staged, Go, Verdicts, Pcs, Beats
  <2>4. child' \in [Workers -> {"none", "gated", "live"}]
    BY DEF ClaimFails, IInv, TypeOK
  <2> QED
    BY <2>1, <2>2, <2>3, <2>4 DEF TypeOK
<1>2. Staged'
  BY DispatchAssumption
  DEF ClaimFails, IInv, TypeOK, RunRecord, WorkerState, Staged, Living, Slotted, Executes,
      Closing, Go
<1>3. Executing'
  BY DispatchAssumption
  DEF ClaimFails, IInv, TypeOK, RunRecord, WorkerState, Staged, Executing, Executes, AtWork,
      Closing, Busy, Go
<1>4. Living'
  BY DispatchAssumption
  DEF ClaimFails, IInv, TypeOK, RunRecord, WorkerState, Staged, Living, Executing, Executes,
      Slotted, AtWork, Closing, Busy, Go
<1>5. Leasing'
  BY DispatchAssumption
  DEF ClaimFails, IInv, TypeOK, RunRecord, WorkerState, Staged, Living, Executing, Leasing,
      Leased, Executes, AtWork, Closing, Busy, Go, MayClaim, Released, Lease
<1>6. Gated'
  BY DispatchAssumption
  DEF ClaimFails, IInv, TypeOK, RunRecord, WorkerState, Staged, Living, Executing, Executes,
      Gated, Closing, Go
<1>7. Unclaimed'
  BY DispatchAssumption
  DEF ClaimFails, IInv, TypeOK, RunRecord, WorkerState, Staged, Executing, Executes,
      Unclaimed
<1> QED
  BY <1>1, <1>2, <1>3, <1>4, <1>5, <1>6, <1>7 DEF IInv

(* The heartbeat starts when the slots carry the lease bound to the run. *)
LEMMA StartHeartbeatKeeps ==
  ASSUME IInv, NEW w \in Workers, StartHeartbeat(w)
  PROVE  IInv'
<1>1. TypeOK'
  <2>1. run' \in [Runs -> RunRecord]
    BY DispatchAssumption DEF StartHeartbeat, IInv, TypeOK
  <2>2. lease' \in [Slots -> SlotState]
    BY DispatchAssumption DEF StartHeartbeat, IInv, TypeOK
  <2>3. proc' \in [Workers -> WorkerState]
    BY DispatchAssumption DEF StartHeartbeat, IInv, TypeOK, WorkerState, Staged
  <2>4. child' \in [Workers -> {"none", "gated", "live"}]
    BY DEF StartHeartbeat, IInv, TypeOK
  <2> QED
    BY <2>1, <2>2, <2>3, <2>4 DEF TypeOK
<1>2. Staged'
  BY DispatchAssumption DEF StartHeartbeat, IInv, TypeOK, RunRecord, WorkerState, Staged
<1>3. Executing'
  BY DispatchAssumption DEF StartHeartbeat, IInv, TypeOK, RunRecord, WorkerState, Staged
<1>4. Living'
  BY DispatchAssumption DEF StartHeartbeat, IInv, TypeOK, RunRecord, WorkerState, Staged
<1>5. Leasing'
  BY DispatchAssumption DEF StartHeartbeat, IInv, TypeOK, RunRecord, WorkerState, Staged
<1>6. Gated'
  BY DispatchAssumption DEF StartHeartbeat, IInv, TypeOK, RunRecord, WorkerState, Staged
<1>7. Unclaimed'
  BY DispatchAssumption DEF StartHeartbeat, IInv, TypeOK, RunRecord, WorkerState, Staged
<1> QED
  BY <1>1, <1>2, <1>3, <1>4, <1>5, <1>6, <1>7 DEF IInv

(* A worker that sees the cancellation or the end of its heartbeat leaves its work. *)
LEMMA WorkRefusedKeeps ==
  ASSUME IInv, NEW w \in Workers, WorkRefused(w)
  PROVE  IInv'
<1>1. TypeOK'
  <2>1. run' \in [Runs -> RunRecord]
    BY DispatchAssumption DEF WorkRefused, IInv, TypeOK
  <2>2. lease' \in [Slots -> SlotState]
    BY DispatchAssumption DEF WorkRefused, IInv, TypeOK
  <2>3. proc' \in [Workers -> WorkerState]
    <3>1. (IF Checks(w) THEN "failed" ELSE WhyNot(w)) \in Verdicts
      BY DEF WhyNot, Verdicts
    <3> QED
      BY <3>1, LeaveSteps DEF WorkRefused, IInv, Steps
  <2>4. child' \in [Workers -> {"none", "gated", "live"}]
    BY DEF WorkRefused, IInv, TypeOK
  <2> QED
    BY <2>1, <2>2, <2>3, <2>4 DEF TypeOK
<1>2. Staged'
  BY SMTT(20), DispatchAssumption
  DEF WorkRefused, IInv, TypeOK, RunRecord, WorkerState, Staged, Living, Slotted, Executes,
      AtWork, Closing, Busy, Leave, Checks, WhyNot
<1>3. Executing'
  BY DispatchAssumption
  DEF WorkRefused, IInv, TypeOK, RunRecord, WorkerState, Staged, Executing, Executes,
      AtWork, Closing, Busy, Leave
<1>4. Living'
  BY DispatchAssumption
  DEF WorkRefused, IInv, TypeOK, RunRecord, WorkerState, Staged, Living, Executing,
      Executes, Slotted, Closing, Leave
<1>5. Leasing'
  BY DispatchAssumption
  DEF WorkRefused, IInv, TypeOK, RunRecord, WorkerState, Staged, Living, Executing, Leasing,
      Leased, Executes, AtWork, Closing, Leave
<1>6. Gated'
  BY DispatchAssumption
  DEF WorkRefused, IInv, TypeOK, RunRecord, WorkerState, Staged, Living, Executing,
      Executes, Gated, Leave
<1>7. Unclaimed'
  BY DispatchAssumption
  DEF WorkRefused, IInv, TypeOK, RunRecord, WorkerState, Staged, Executing, Executes,
      Unclaimed
<1> QED
  BY <1>1, <1>2, <1>3, <1>4, <1>5, <1>6, <1>7 DEF IInv

(* The backend is started behind the gate and does not work yet. *)
LEMMA SpawnGatedKeeps ==
  ASSUME IInv, NEW w \in Workers, SpawnGated(w)
  PROVE  IInv'
<1>1. TypeOK'
  <2>1. run' \in [Runs -> RunRecord]
    BY DispatchAssumption DEF SpawnGated, IInv, TypeOK
  <2>2. lease' \in [Slots -> SlotState]
    BY DispatchAssumption DEF SpawnGated, IInv, TypeOK
  <2>3. proc' \in [Workers -> WorkerState]
    BY DispatchAssumption DEF SpawnGated, IInv, TypeOK, WorkerState, Staged, Go, Checks, Pcs
  <2>4. child' \in [Workers -> {"none", "gated", "live"}]
    BY DEF SpawnGated, IInv, TypeOK
  <2> QED
    BY <2>1, <2>2, <2>3, <2>4 DEF TypeOK
<1>2. Staged'
  BY DispatchAssumption
  DEF SpawnGated, IInv, TypeOK, RunRecord, WorkerState, Staged, Living, Slotted, Executes,
      AtWork, Closing, Busy, Go
<1>3. Executing'
  BY DispatchAssumption
  DEF SpawnGated, IInv, TypeOK, RunRecord, WorkerState, Staged, Executing, Executes, AtWork,
      Busy, Go
<1>4. Living'
  BY DispatchAssumption
  DEF SpawnGated, IInv, TypeOK, RunRecord, WorkerState, Staged, Living, Executing, Executes,
      Slotted, Go
<1>5. Leasing'
  BY DispatchAssumption
  DEF SpawnGated, IInv, TypeOK, RunRecord, WorkerState, Staged, Living, Executing, Leasing,
      Leased, Executes, AtWork, Go
<1>6. Gated'
  BY DispatchAssumption
  DEF SpawnGated, IInv, TypeOK, RunRecord, WorkerState, Staged, Living, Executing, Executes,
      Gated, Go
<1>7. Unclaimed'
  BY DispatchAssumption
  DEF SpawnGated, IInv, TypeOK, RunRecord, WorkerState, Staged, Executing, Unclaimed
<1> QED
  BY <1>1, <1>2, <1>3, <1>4, <1>5, <1>6, <1>7 DEF IInv

(* The check before the binding goes on or leaves. *)
LEMMA CheckGatedKeeps ==
  ASSUME IInv, NEW w \in Workers, CheckGated(w)
  PROVE  IInv'
<1>1. proc[w].pc \in AtWork /\ WhyNot(w) \in Verdicts
  BY DEF CheckGated, AtWork, WhyNot, Verdicts
<1>2. CASE ~Checks(w) /\ Abandon(w, WhyNot(w))
  BY <1>1, <1>2, AbandonKeeps
<1>3. CASE Checks(w) /\ Go(w, "binding") /\ UNCHANGED <<run, lease, child>>
  <2>1. child[w] # "live"
    BY DEF CheckGated, IInv, Staged
  <2> QED
    BY <1>1, <1>3, <2>1, WorksOnKeeps DEF AtWork
<1> QED
  BY <1>2, <1>3 DEF CheckGated

(* The backend is written to the record of the run its worker executes. *)
LEMMA BindBackendKeeps ==
  ASSUME IInv, NEW w \in Workers, BindBackend(w)
  PROVE  IInv'
<1>1. proc[w].pc \in AtWork /\ "failed" \in Verdicts
  BY DEF BindBackend, AtWork, Verdicts
<1>2. CASE ~MayBind(w)
  BY <1>1, <1>2, AbandonKeeps DEF BindBackend
<1>3. CASE MayBind(w)
  <2>1. /\ child[w] # "live" /\ run' = [run EXCEPT ![proc[w].run].backend = w]
        /\ Go(w, "bound") /\ UNCHANGED <<lease, child>>
    BY <1>3 DEF BindBackend, IInv, Staged
  <2>2. run'[proc[w].run].backend = w
    BY <2>1 DEF BindBackend, IInv, TypeOK, Staged
  <2> QED
    BY <1>1, <2>1, <2>2, WorksOnKeeps DEF AtWork
<1> QED
  BY <1>2, <1>3

(* The check after the binding goes on or leaves. *)
LEMMA CheckBoundKeeps ==
  ASSUME IInv, NEW w \in Workers, CheckBound(w)
  PROVE  IInv'
<1>1. proc[w].pc \in AtWork /\ WhyNot(w) \in Verdicts
  BY DEF CheckBound, AtWork, WhyNot, Verdicts
<1>2. CASE ~Checks(w) /\ Abandon(w, WhyNot(w))
  BY <1>1, <1>2, AbandonKeeps
<1>3. CASE Checks(w) /\ Go(w, "checked") /\ UNCHANGED <<run, lease, child>>
  <2>1. child[w] # "live" /\ proc[w].beat = "ok" /\ run[proc[w].run].backend = w
    BY <1>3 DEF CheckBound, Checks, IInv, Staged, Gated
  <2> QED
    BY <1>1, <1>3, <2>1, WorksOnKeeps DEF AtWork
<1> QED
  BY <1>2, <1>3 DEF CheckBound

(* The gate is opened for a backend that the record knows. *)
LEMMA OpenGateKeeps ==
  ASSUME IInv, NEW w \in Workers, OpenGate(w)
  PROVE  IInv'
<1>1. proc[w].pc \in AtWork /\ "failed" \in Verdicts
  BY DEF OpenGate, AtWork, Verdicts
<1>2. CASE child[w] = "none" /\ Abandon(w, "failed")
  BY <1>1, <1>2, AbandonKeeps
<1>3. CASE /\ child[w] = "gated" /\ child' = [child EXCEPT ![w] = "live"]
           /\ Go(w, "running") /\ UNCHANGED <<run, lease>>
  <2>1. proc[w].beat # "stopped" /\ run[proc[w].run].backend = w
    BY <1>3 DEF OpenGate, IInv, Gated
  <2>2. child'[w] = "live"
    BY <1>3 DEF IInv, TypeOK
  <2> QED
    BY <1>1, <1>3, <2>1, <2>2, WorksOnKeeps DEF AtWork
<1> QED
  BY <1>2, <1>3 DEF OpenGate

(* A backend that ended lives no more. *)
LEMMA RunEndsKeeps ==
  ASSUME IInv, NEW w \in Workers, RunEnds(w)
  PROVE  IInv'
<1>1. PICK outcome \in Verdicts : Abandon(w, IF Checks(w) THEN outcome ELSE WhyNot(w))
  BY DEF RunEnds
<1>2. proc[w].pc \in AtWork /\ (IF Checks(w) THEN outcome ELSE WhyNot(w)) \in Verdicts
  BY DEF RunEnds, AtWork, WhyNot, Verdicts
<1> QED
  BY <1>1, <1>2, AbandonKeeps

(* The worker stops its backend before it decides. *)
LEMMA CleanupKeeps ==
  ASSUME IInv, NEW w \in Workers, Cleanup(w)
  PROVE  IInv'
<1>1. TypeOK'
  <2>1. run' \in [Runs -> RunRecord]
    BY CleanupRecords DEF Cleanup, IInv
  <2>2. lease' \in [Slots -> SlotState]
    BY DispatchAssumption DEF Cleanup, IInv, TypeOK
  <2>3. proc' \in [Workers -> WorkerState]
    BY DispatchAssumption DEF Cleanup, IInv, TypeOK, WorkerState, Staged, Go, Pcs
  <2>4. child' \in [Workers -> {"none", "gated", "live"}]
    BY CleanupRecords DEF Cleanup, IInv
  <2> QED
    BY <2>1, <2>2, <2>3, <2>4 DEF TypeOK
<1>2. Staged'
  BY DispatchAssumption
  DEF Cleanup, IInv, TypeOK, RunRecord, WorkerState, Staged, Living, Slotted, Executes,
      AtWork, Closing, Busy, Go, CleanupProven
<1>3. Executing'
  BY DispatchAssumption
  DEF Cleanup, IInv, TypeOK, RunRecord, WorkerState, Staged, Executing, Executes, AtWork,
      Closing, Busy, Go, CleanupProven, Cleaned
<1>4. Living'
  BY DispatchAssumption
  DEF Cleanup, IInv, TypeOK, RunRecord, WorkerState, Staged, Living, Executing, Executes,
      Slotted, AtWork, Closing, Busy, Gated, Go, CleanupProven
<1>5. Leasing'
  BY DispatchAssumption
  DEF Cleanup, IInv, TypeOK, RunRecord, WorkerState, Staged, Living, Executing, Leasing,
      Leased, Executes, AtWork, Closing, Busy, Go, CleanupProven
<1>6. Gated'
  BY DispatchAssumption
  DEF Cleanup, IInv, TypeOK, RunRecord, WorkerState, Staged, Living, Executing, Executes,
      Gated, AtWork, Closing, Busy, Go, CleanupProven
<1>7. Unclaimed'
  BY DispatchAssumption
  DEF Cleanup, IInv, TypeOK, RunRecord, WorkerState, Staged, Executing, Executes, Unclaimed,
      AtWork, Closing, Busy, Go, CleanupProven, Cleaned
<1> QED
  BY <1>1, <1>2, <1>3, <1>4, <1>5, <1>6, <1>7 DEF IInv

(* Where the end of the backend cannot be proved the worker ends and the run goes on. *)
LEMMA CleanupFailsKeeps ==
  ASSUME IInv, NEW w \in Workers, CleanupFails(w)
  PROVE  IInv'
<1>1. TypeOK'
  <2>1. run' \in [Runs -> RunRecord]
    BY DispatchAssumption DEF CleanupFails, IInv, TypeOK
  <2>2. lease' \in [Slots -> SlotState]
    BY DispatchAssumption DEF CleanupFails, IInv, TypeOK
  <2>3. proc' \in [Workers -> WorkerState]
    BY SMTT(20), DispatchAssumption DEF CleanupFails, IInv, TypeOK, WorkerState, Staged, Go, Pcs
  <2>4. child' \in [Workers -> {"none", "gated", "live"}]
    BY DEF CleanupFails, IInv, TypeOK
  <2> QED
    BY <2>1, <2>2, <2>3, <2>4 DEF TypeOK
<1>2. Staged'
  BY DispatchAssumption
  DEF CleanupFails, IInv, TypeOK, RunRecord, WorkerState, Staged, Living, Slotted, Executes,
      AtWork, Closing, Busy, Go
<1>3. Executing'
  BY DispatchAssumption
  DEF CleanupFails, IInv, TypeOK, RunRecord, WorkerState, Staged, Executing, Executes,
      AtWork, Closing, Busy, Go
<1>4. Living'
  BY DispatchAssumption
  DEF CleanupFails, IInv, TypeOK, RunRecord, WorkerState, Staged, Living, Executing,
      Executes, Slotted, Go
<1>5. Leasing'
  BY DispatchAssumption
  DEF CleanupFails, IInv, TypeOK, RunRecord, WorkerState, Staged, Living, Executing,
      Leasing, Leased, Executes, AtWork, Closing, Go
<1>6. Gated'
  BY DispatchAssumption
  DEF CleanupFails, IInv, TypeOK, RunRecord, WorkerState, Staged, Living, Executing,
      Executes, Gated, Go
<1>7. Unclaimed'
  BY DispatchAssumption DEF CleanupFails, IInv, TypeOK, Unclaimed
<1> QED
  BY <1>1, <1>2, <1>3, <1>4, <1>5, <1>6, <1>7 DEF IInv

(* The slots are given back after the backend is gone. *)
LEMMA ReleaseKeeps ==
  ASSUME IInv, NEW w \in Workers, Release(w)
  PROVE  IInv'
<1>1. TypeOK'
  <2>1. run' \in [Runs -> RunRecord]
    BY DispatchAssumption DEF Release, IInv, TypeOK
  <2>2. lease' \in [Slots -> SlotState]
    BY DispatchAssumption DEF Release, IInv, TypeOK, SlotState, Released
  <2>3. proc' \in [Workers -> WorkerState]
    <3>1. "decide" \in Pcs /\ "off" \in Beats
      BY DEF Pcs, Beats
    <3>2. PICK o \in Verdicts \cup {"none"} :
            proc' = [proc EXCEPT ![w].pc = "decide", ![w].beat = "off", ![w].outcome = o]
      BY DEF Release, IInv, TypeOK, WorkerState, Verdicts
    <3>3. [proc[w] EXCEPT !.pc = "decide", !.beat = "off", !.outcome = o] \in WorkerState
      BY <3>1 DEF IInv, TypeOK, WorkerState
    <3>4. proc' = [proc EXCEPT ![w] = [@ EXCEPT !.pc = "decide", !.beat = "off",
                                               !.outcome = o]]
      BY <3>2 DEF IInv, TypeOK
    <3> QED
      BY <3>3, <3>4 DEF IInv, TypeOK
  <2>4. child' \in [Workers -> {"none", "gated", "live"}]
    BY DEF Release, IInv, TypeOK
  <2> QED
    BY <2>1, <2>2, <2>3, <2>4 DEF TypeOK
<1>2. Staged'
  BY DispatchAssumption
  DEF Release, IInv, TypeOK, RunRecord, WorkerState, Staged, Living, Slotted, Executes,
      AtWork, Closing, Busy
<1>3. Executing'
  BY DispatchAssumption
  DEF Release, IInv, TypeOK, RunRecord, WorkerState, Staged, Executing, Executes, AtWork,
      Closing, Busy
<1>4. Living'
  BY DispatchAssumption
  DEF Release, IInv, TypeOK, RunRecord, WorkerState, Staged, Living, Executing, Executes,
      Slotted
<1>5. Leasing'
  BY DispatchAssumption
  DEF Release, IInv, TypeOK, RunRecord, WorkerState, Staged, Living, Executing, Leasing,
      Leased, Executes, AtWork, Closing, Busy, Released, Held, Lease, Verdicts
<1>6. Gated'
  BY DispatchAssumption
  DEF Release, IInv, TypeOK, RunRecord, WorkerState, Staged, Living, Executing, Gated
<1>7. Unclaimed'
  BY DispatchAssumption
  DEF Release, IInv, TypeOK, RunRecord, WorkerState, Staged, Executing, Unclaimed
<1> QED
  BY <1>1, <1>2, <1>3, <1>4, <1>5, <1>6, <1>7 DEF IInv

(* The outcome becomes a verdict, which a cancellation replaces. *)
LEMMA DecideKeeps ==
  ASSUME IInv, NEW w \in Workers, Decide(w)
  PROVE  IInv'
<1>1. TypeOK'
  <2>1. run' \in [Runs -> RunRecord]
    BY DispatchAssumption DEF Decide, IInv, TypeOK
  <2>2. lease' \in [Slots -> SlotState]
    BY DispatchAssumption DEF Decide, IInv, TypeOK
  <2>3. proc' \in [Workers -> WorkerState]
    <3>1. "publish" \in Pcs
      BY DEF Pcs
    <3>2. PICK o \in Verdicts \cup {"none"} :
            proc' = [proc EXCEPT ![w].pc = "publish", ![w].outcome = o]
      BY DEF Decide, IInv, TypeOK, WorkerState, Verdicts
    <3> QED
      BY ZenonT(30), <3>1, <3>2 DEF IInv, TypeOK, WorkerState
  <2>4. child' \in [Workers -> {"none", "gated", "live"}]
    BY DEF Decide, IInv, TypeOK
  <2> QED
    BY <2>1, <2>2, <2>3, <2>4 DEF TypeOK
<1>2. Staged'
  BY SMTT(20), DispatchAssumption
  DEF Decide, IInv, TypeOK, RunRecord, WorkerState, Staged, Living, Slotted, Executes,
      AtWork, Closing, Busy, Verdicts
<1>3. Executing'
  BY DispatchAssumption
  DEF Decide, IInv, TypeOK, RunRecord, WorkerState, Staged, Executing, Executes, Closing,
      Busy
<1>4. Living'
  BY DispatchAssumption
  DEF Decide, IInv, TypeOK, RunRecord, WorkerState, Staged, Living, Executes, Slotted
<1>5. Leasing'
  BY DispatchAssumption
  DEF Decide, IInv, TypeOK, RunRecord, WorkerState, Staged, Living, Executing, Leasing,
      Leased, Executes, AtWork
<1>6. Gated'
  BY DispatchAssumption
  DEF Decide, IInv, TypeOK, RunRecord, WorkerState, Staged, Living, Executing, Executes,
      Gated
<1>7. Unclaimed'
  BY DispatchAssumption DEF Decide, IInv, TypeOK, RunRecord, Unclaimed
<1> QED
  BY <1>1, <1>2, <1>3, <1>4, <1>5, <1>6, <1>7 DEF IInv

(* The verdict is written by the worker that executes the run, or is decided again. *)
LEMMA PublishKeeps ==
  ASSUME IInv, NEW w \in Workers, Publish(w)
  PROVE  IInv'
<1> DEFINE r == proc[w].run
<1>1. /\ r \in Runs /\ Executes(w) /\ child[w] = "none" /\ run[r] \in RunRecord
      /\ proc[w].outcome \in Statuses \ {"absent", "accepted"} /\ r = proc[w].run
  BY DEF Publish, IInv, TypeOK, Staged, Executing, Busy, Closing, Statuses, Verdicts
<1>2. PICK pc \in {"ended", "decide"} : Go(w, pc) /\ (pc = "decide" => run' = run)
  BY DEF Publish
<1>3. Steps(w) /\ proc'[w].pc = pc /\ proc'[w].beat = proc[w].beat
      /\ proc'[w].outcome = proc[w].outcome
  BY <1>2, GoSteps DEF IInv, Pcs
<1>4. /\ UNCHANGED <<lease, child>> /\ run' \in [Runs -> RunRecord]
      /\ \A q \in Runs : q # r => run'[q] = run[q]
      /\ run' = run \/ (run[r].backend = None /\ run'[r].status = proc[w].outcome)
  <2>1. CASE /\ MayPublish(run[r], w, proc[w].outcome)
             /\ run' = [run EXCEPT ![r].status = proc[w].outcome]
    <3>1. [run[r] EXCEPT !.status = proc[w].outcome] \in RunRecord
      BY <1>1, Recorded
    <3>2. run[r].backend = None
      BY <2>1 DEF MayPublish
    <3> QED
      BY <1>1, <2>1, <3>1, <3>2 DEF Publish, IInv, TypeOK
  <2>2. CASE UNCHANGED run
    BY <2>2 DEF Publish, IInv, TypeOK
  <2> QED
    BY <2>1, <2>2 DEF Publish
<1>5. \A v \in Workers : v # w /\ Executes(v) => proc[v].run # r
  BY <1>1 DEF Executes
<1> HIDE DEF r
<1>6. TypeOK'
  BY <1>3, <1>4 DEF IInv, TypeOK, Steps
<1>7. Staged'
  BY <1>1, <1>2, <1>3, <1>4 DEF Publish, IInv, Staged, Slotted, Steps, Closing, Busy
<1>8. Executing'
  BY <1>2, <1>3, <1>4, <1>5
  DEF r, Publish, IInv, Executing, Executes, Steps, AtWork, Busy, Closing
<1>9. Living'
  BY <1>1, <1>3, <1>4, <1>5 DEF r, IInv, Living, Executes, Slotted, Steps
<1>10. Leasing'
  BY <1>2, <1>3, <1>4 DEF IInv, Leasing, Leased, Steps, AtWork
<1>11. Gated'
  <2>1. \A v \in Workers : v # w /\ proc[v].pc \in {"bound", "checked"} =>
          Executes(v) /\ proc[v].run \in Runs
    BY DEF IInv, Executing, Executes, Busy, AtWork
  <2> QED
    BY <1>1, <1>2, <1>3, <1>4, <1>5, <2>1 DEF IInv, Gated, Steps
<1>12. Unclaimed'
  BY <1>1, <1>4 DEF IInv, Unclaimed
<1> QED
  BY <1>6, <1>7, <1>8, <1>9, <1>10, <1>11, <1>12 DEF IInv

(* A dead worker leaves its record, its leases and perhaps a live backend. *)
LEMMA CrashKeeps ==
  ASSUME IInv, NEW w \in Workers, Crash(w)
  PROVE  IInv'
<1>1. TypeOK'
  <2>1. run' \in [Runs -> RunRecord]
    BY DispatchAssumption DEF Crash, IInv, TypeOK
  <2>2. lease' \in [Slots -> SlotState]
    BY DispatchAssumption DEF Crash, IInv, TypeOK
  <2>3. proc' \in [Workers -> WorkerState]
    BY DispatchAssumption DEF Crash, IInv, TypeOK, WorkerState, Staged, Go, Pcs
  <2>4. child' \in [Workers -> {"none", "gated", "live"}]
    BY DEF Crash, IInv, TypeOK
  <2> QED
    BY <2>1, <2>2, <2>3, <2>4 DEF TypeOK
<1>2. Staged'
  BY DispatchAssumption
  DEF Crash, IInv, TypeOK, RunRecord, WorkerState, Staged, Living, Slotted, Executes,
      AtWork, Closing, Busy, Go, Alive
<1>3. Executing'
  BY DispatchAssumption
  DEF Crash, IInv, TypeOK, RunRecord, WorkerState, Staged, Executing, Executes, AtWork,
      Closing, Busy, Go
<1>4. Living'
  BY DispatchAssumption
  DEF Crash, IInv, TypeOK, RunRecord, WorkerState, Staged, Living, Executing, Executes,
      Slotted, Go
<1>5. Leasing'
  BY DispatchAssumption
  DEF Crash, IInv, TypeOK, RunRecord, WorkerState, Staged, Living, Executing, Leasing,
      Leased, Executes, AtWork, Closing, Go
<1>6. Gated'
  BY DispatchAssumption
  DEF Crash, IInv, TypeOK, RunRecord, WorkerState, Staged, Living, Executing, Executes,
      Gated, Go
<1>7. Unclaimed'
  BY DispatchAssumption DEF Crash, IInv, TypeOK, Unclaimed
<1> QED
  BY <1>1, <1>2, <1>3, <1>4, <1>5, <1>6, <1>7 DEF IInv

(* The backend of a dead worker may end by itself. *)
LEMMA BackendExitsKeeps ==
  ASSUME IInv, NEW w \in Workers, BackendExits(w)
  PROVE  IInv'
<1>1. TypeOK'
  <2>1. run' \in [Runs -> RunRecord]
    BY DispatchAssumption DEF BackendExits, IInv, TypeOK
  <2>2. lease' \in [Slots -> SlotState]
    BY DispatchAssumption DEF BackendExits, IInv, TypeOK
  <2>3. proc' \in [Workers -> WorkerState]
    BY DispatchAssumption DEF BackendExits, IInv, TypeOK
  <2>4. child' \in [Workers -> {"none", "gated", "live"}]
    BY DEF BackendExits, IInv, TypeOK
  <2> QED
    BY <2>1, <2>2, <2>3, <2>4 DEF TypeOK
<1>2. Staged'
  BY DispatchAssumption
  DEF BackendExits, IInv, TypeOK, RunRecord, WorkerState, Staged, Slotted
<1>3. Executing'
  BY DispatchAssumption DEF BackendExits, IInv, TypeOK, Executing, Executes
<1>4. Living'
  BY DispatchAssumption
  DEF BackendExits, IInv, TypeOK, RunRecord, WorkerState, Staged, Living, Executes, Slotted
<1>5. Leasing'
  BY DispatchAssumption
  DEF BackendExits, IInv, TypeOK, RunRecord, WorkerState, Staged, Living, Executing,
      Leasing, Leased
<1>6. Gated'
  BY DispatchAssumption
  DEF BackendExits, IInv, TypeOK, RunRecord, WorkerState, Staged, Living, Executing,
      Executes, Gated
<1>7. Unclaimed'
  BY DispatchAssumption DEF BackendExits, IInv, TypeOK, RunRecord, Unclaimed
<1> QED
  BY <1>1, <1>2, <1>3, <1>4, <1>5, <1>6, <1>7 DEF IInv

(* A heartbeat that cannot renew stops. *)
LEMMA HeartbeatFailsKeeps ==
  ASSUME IInv, NEW w \in Workers, HeartbeatFails(w)
  PROVE  IInv'
<1>1. TypeOK'
  <2>1. run' \in [Runs -> RunRecord]
    BY DispatchAssumption DEF HeartbeatFails, IInv, TypeOK
  <2>2. lease' \in [Slots -> SlotState]
    BY DispatchAssumption DEF HeartbeatFails, IInv, TypeOK
  <2>3. proc' \in [Workers -> WorkerState]
    BY DispatchAssumption DEF HeartbeatFails, IInv, TypeOK, WorkerState, Staged, Beats
  <2>4. child' \in [Workers -> {"none", "gated", "live"}]
    BY DEF HeartbeatFails, IInv, TypeOK
  <2> QED
    BY <2>1, <2>2, <2>3, <2>4 DEF TypeOK
<1>2. Staged'
  BY DispatchAssumption
  DEF HeartbeatFails, IInv, TypeOK, RunRecord, WorkerState, Staged, Slotted
<1>3. Executing'
  BY DispatchAssumption DEF HeartbeatFails, IInv, TypeOK, Executing, Executes
<1>4. Living'
  BY DispatchAssumption
  DEF HeartbeatFails, IInv, TypeOK, RunRecord, WorkerState, Staged, Living, Executes,
      Slotted
<1>5. Leasing'
  BY DispatchAssumption
  DEF HeartbeatFails, IInv, TypeOK, RunRecord, WorkerState, Staged, Living, Executing,
      Leasing, Leased
<1>6. Gated'
  BY DispatchAssumption
  DEF HeartbeatFails, IInv, TypeOK, RunRecord, WorkerState, Staged, Living, Executing,
      Executes, Gated
<1>7. Unclaimed'
  BY DispatchAssumption DEF HeartbeatFails, IInv, TypeOK, RunRecord, Unclaimed
<1> QED
  BY <1>1, <1>2, <1>3, <1>4, <1>5, <1>6, <1>7 DEF IInv

(* It stops the backend first, whatever the worker is about to do with it. *)
LEMMA HeartbeatCleansKeeps ==
  ASSUME IInv, NEW w \in Workers, HeartbeatCleans(w)
  PROVE  IInv'
<1>1. TypeOK'
  <2>1. run' \in [Runs -> RunRecord]
    BY CleanupRecords DEF HeartbeatCleans, IInv
  <2>2. lease' \in [Slots -> SlotState]
    BY DispatchAssumption DEF HeartbeatCleans, IInv, TypeOK
  <2>3. proc' \in [Workers -> WorkerState]
    BY DispatchAssumption DEF HeartbeatCleans, IInv, TypeOK, WorkerState, Beats
  <2>4. child' \in [Workers -> {"none", "gated", "live"}]
    BY CleanupRecords DEF HeartbeatCleans, IInv
  <2> QED
    BY <2>1, <2>2, <2>3, <2>4 DEF TypeOK
<1>2. Staged'
  BY DispatchAssumption
  DEF HeartbeatCleans, IInv, TypeOK, RunRecord, WorkerState, Staged, Living, Slotted,
      Executes, Closing, CleanupProven
<1>3. Executing'
  BY DispatchAssumption
  DEF HeartbeatCleans, IInv, TypeOK, RunRecord, WorkerState, Staged, Executing, Executes,
      AtWork, Closing, Busy, CleanupProven, Owns, Cleaned
<1>4. Living'
  BY DispatchAssumption
  DEF HeartbeatCleans, IInv, TypeOK, RunRecord, WorkerState, Staged, Living, Executing,
      Executes, Slotted, Closing, CleanupProven, Owns
<1>5. Leasing'
  BY DispatchAssumption
  DEF HeartbeatCleans, IInv, TypeOK, RunRecord, WorkerState, Staged, Living, Executing,
      Leasing, Leased, Executes, AtWork, Closing, CleanupProven
<1>6. Gated'
  BY DispatchAssumption
  DEF HeartbeatCleans, IInv, TypeOK, RunRecord, WorkerState, Staged, Living, Executing,
      Executes, Gated, AtWork, Closing, Busy, CleanupProven, Owns
<1>7. Unclaimed'
  BY DispatchAssumption
  DEF HeartbeatCleans, IInv, TypeOK, RunRecord, WorkerState, Staged, Executing, Executes,
      Unclaimed, AtWork, Closing, Busy, CleanupProven, Owns, Cleaned
<1> QED
  BY <1>1, <1>2, <1>3, <1>4, <1>5, <1>6, <1>7 DEF IInv

(* Where that cannot be proved the heartbeat gives up, and nothing else changes. *)
LEMMA HeartbeatGivesUpKeeps ==
  ASSUME IInv, NEW w \in Workers, HeartbeatGivesUp(w)
  PROVE  IInv'
<1>1. TypeOK'
  <2>1. run' \in [Runs -> RunRecord]
    BY DispatchAssumption DEF HeartbeatGivesUp, IInv, TypeOK
  <2>2. lease' \in [Slots -> SlotState]
    BY DispatchAssumption DEF HeartbeatGivesUp, IInv, TypeOK
  <2>3. proc' \in [Workers -> WorkerState]
    BY DispatchAssumption DEF HeartbeatGivesUp, IInv, TypeOK, WorkerState, Beats
  <2>4. child' \in [Workers -> {"none", "gated", "live"}]
    BY DEF HeartbeatGivesUp, IInv, TypeOK
  <2> QED
    BY <2>1, <2>2, <2>3, <2>4 DEF TypeOK
<1>2. Staged'
  BY DispatchAssumption
  DEF HeartbeatGivesUp, IInv, TypeOK, RunRecord, WorkerState, Staged, Slotted
<1>3. Executing'
  BY DispatchAssumption
  DEF HeartbeatGivesUp, IInv, TypeOK, RunRecord, WorkerState, Staged, Executing, Executes
<1>4. Living'
  BY DispatchAssumption
  DEF HeartbeatGivesUp, IInv, TypeOK, RunRecord, WorkerState, Staged, Living, Executing,
      Executes, Slotted
<1>5. Leasing'
  BY DispatchAssumption
  DEF HeartbeatGivesUp, IInv, TypeOK, RunRecord, WorkerState, Staged, Living, Executing,
      Leasing, Leased
<1>6. Gated'
  BY DispatchAssumption DEF HeartbeatGivesUp, IInv, TypeOK, RunRecord, Gated
<1>7. Unclaimed'
  BY DispatchAssumption DEF HeartbeatGivesUp, IInv, TypeOK, Unclaimed
<1> QED
  BY <1>1, <1>2, <1>3, <1>4, <1>5, <1>6, <1>7 DEF IInv

(* A slot that is taken is no slot of a run that goes on. *)
LEMMA AcquireKeeps ==
  ASSUME IInv, NEW w \in Workers, NEW s \in Slots, Acquire(w, s)
  PROVE  IInv'
<1>1. TypeOK'
  <2>1. run' \in [Runs -> RunRecord]
    BY DispatchAssumption DEF Acquire, IInv, TypeOK
  <2>2. lease' \in [Slots -> SlotState]
    BY DispatchAssumption DEF Acquire, IInv, TypeOK, SlotState
  <2>3. proc' \in [Workers -> WorkerState]
    BY DispatchAssumption DEF Acquire, IInv, TypeOK, WorkerState
  <2>4. child' \in [Workers -> {"none", "gated", "live"}]
    BY DEF Acquire, IInv, TypeOK
  <2> QED
    BY <2>1, <2>2, <2>3, <2>4 DEF TypeOK
<1>2. Staged'
  BY DispatchAssumption DEF Acquire, IInv, TypeOK, RunRecord, WorkerState
<1>3. Executing'
  BY DispatchAssumption DEF Acquire, IInv, TypeOK, RunRecord, WorkerState
<1>4. Living'
  BY DispatchAssumption DEF Acquire, IInv, TypeOK, WorkerState
<1>5. Leasing'
  BY DispatchAssumption, NotTaken DEF Acquire, IInv, TypeOK, RunRecord, WorkerState
<1>6. Gated'
  BY DispatchAssumption DEF Acquire, IInv, TypeOK, RunRecord, WorkerState
<1>7. Unclaimed'
  BY DispatchAssumption DEF Acquire, IInv, TypeOK, RunRecord, WorkerState
<1> QED
  BY <1>1, <1>2, <1>3, <1>4, <1>5, <1>6, <1>7 DEF IInv

(* The leases of the slots are bound to the run, one by one. *)
LEMMA BindRunKeeps ==
  ASSUME IInv, NEW w \in Workers, NEW s \in Slots, BindRun(w, s)
  PROVE  IInv'
<1>1. /\ proc[w].run \in Runs /\ child[w] = "none" /\ s \in proc[w].held
      /\ UNCHANGED <<run, child>> /\ "failed" \in Verdicts /\ "bind" \in Pcs
  BY DEF BindRun, Unbound, IInv, TypeOK, Staged, Verdicts, Pcs
<1>2. CASE lease[s] = Lease(w, None) /\ lease' = [lease EXCEPT ![s] = Lease(w, proc[w].run)]
           /\ UNCHANGED proc
  <2>1. lease' \in [Slots -> SlotState]
    BY <1>1, <1>2 DEF IInv, TypeOK, SlotState
  <2>2. TypeOK' /\ Staged' /\ Executing' /\ Living' /\ Gated' /\ Unclaimed'
    BY <1>1, <1>2, <2>1
    DEF IInv, TypeOK, Staged, Executing, Living, Gated, Unclaimed, Slotted, Executes
  <2>3. ASSUME NEW v \in Workers, proc[v].pc \in AtWork \/ child[v] = "live" PROVE Leased(v)'
    <3>1. Leased(v) /\ proc[v].run \in Runs
      BY <2>3 DEF IInv, Leasing, Staged, AtWork
    <3>2. \A q \in proc[v].held : lease[q] # Lease(w, None)
      BY <3>1, DispatchAssumption DEF Leased, Lease
    <3> QED
      BY <1>2, <3>1, <3>2 DEF Leased
  <2> QED
    BY <1>1, <1>2, <2>2, <2>3 DEF IInv, Leasing
<1>3. CASE Leave(w, "failed") /\ UNCHANGED lease
  <2>1. Steps(w) /\ proc'[w].pc = "cleanup" /\ proc'[w].outcome \in Verdicts
        /\ proc'[w].beat = proc[w].beat /\ proc[w].pc = "bind"
    BY <1>1, <1>3, LeaveSteps DEF BindRun, IInv
  <2>2. TypeOK' /\ Staged'
    BY <1>1, <1>3, <2>1 DEF IInv, TypeOK, Staged, Slotted, Steps, Busy
  <2>3. Executing' /\ Living'
    BY <1>1, <2>1 DEF IInv, Executing, Living, Executes, Slotted, Steps, Busy
  <2>4. Leasing' /\ Gated' /\ Unclaimed'
    BY <1>1, <1>3, <2>1 DEF IInv, Leasing, Leased, Gated, Unclaimed, Steps, AtWork
  <2> QED
    BY <2>2, <2>3, <2>4 DEF IInv
<1> QED
  BY <1>2, <1>3 DEF BindRun

(* A worker may die between two slots. *)
LEMMA AcquireCrashesKeeps ==
  ASSUME IInv, NEW w \in Workers, NEW s \in Slots, AcquireCrashes(w, s)
  PROVE  IInv'
<1>1. TypeOK'
  <2>1. run' \in [Runs -> RunRecord]
    BY DispatchAssumption DEF AcquireCrashes, IInv, TypeOK
  <2>2. lease' \in [Slots -> SlotState]
    BY DispatchAssumption DEF AcquireCrashes, IInv, TypeOK, SlotState
  <2>3. proc' \in [Workers -> WorkerState]
    BY DispatchAssumption DEF AcquireCrashes, IInv, TypeOK, WorkerState, Staged, Go, Pcs
  <2>4. child' \in [Workers -> {"none", "gated", "live"}]
    BY DEF AcquireCrashes, IInv, TypeOK
  <2> QED
    BY <2>1, <2>2, <2>3, <2>4 DEF TypeOK
<1>2. Staged'
  BY DispatchAssumption
  DEF AcquireCrashes, IInv, TypeOK, RunRecord, WorkerState, Staged, Living, Slotted,
      Executes, AtWork, Closing, Busy, Go
<1>3. Executing'
  BY DispatchAssumption
  DEF AcquireCrashes, IInv, TypeOK, RunRecord, WorkerState, Staged, Executing, Executes,
      AtWork, Closing, Busy, Go
<1>4. Living'
  BY DispatchAssumption
  DEF AcquireCrashes, IInv, TypeOK, RunRecord, WorkerState, Staged, Living, Executing,
      Executes, Slotted, Go
<1>5. Leasing'
  <2>1. /\ Steps(w) /\ proc'[w].pc = "dead" /\ UNCHANGED <<run, child>>
        /\ child[w] # "live"
        /\ MayTake(s, FALSE) /\ lease' = [lease EXCEPT ![s] = Bare]
    BY GoSteps DEF AcquireCrashes, IInv, Staged, Pcs
  <2>2. ASSUME NEW v \in Workers, proc[v].pc \in AtWork \/ child[v] = "live"
        PROVE  Leased(v) /\ Executes(v)
    BY <2>2 DEF IInv, Leasing, Executing, Living, Busy
  <2>3. \A v \in Workers : Leased(v) /\ Executes(v) => s \notin proc[v].held
    BY <2>1, NotTaken DEF Leased
  <2> QED
    BY <2>1, <2>2, <2>3 DEF Leasing, Leased, Steps, AtWork
<1>6. Gated'
  BY DispatchAssumption
  DEF AcquireCrashes, IInv, TypeOK, RunRecord, WorkerState, Staged, Living, Executing,
      Executes, Gated, AtWork, Go
<1>7. Unclaimed'
  BY DispatchAssumption
  DEF AcquireCrashes, IInv, TypeOK, RunRecord, WorkerState, Staged, Executing, Unclaimed
<1> QED
  BY <1>1, <1>2, <1>3, <1>4, <1>5, <1>6, <1>7 DEF IInv

(* A command that executes an accepted run itself has no slots yet. *)
LEMMA StartSyncKeeps ==
  ASSUME IInv, NEW w \in Workers, NEW r \in Runs, StartSync(w, r)
  PROVE  IInv'
<1>1. TypeOK'
  <2>1. run' \in [Runs -> RunRecord]
    BY DispatchAssumption DEF StartSync, IInv, TypeOK
  <2>2. lease' \in [Slots -> SlotState]
    BY DispatchAssumption DEF StartSync, IInv, TypeOK
  <2>3. proc' \in [Workers -> WorkerState]
    <3>1. "backend_slot" \in Pcs
      BY DEF Pcs
    <3> QED
      BY ZenonT(30), <3>1 DEF StartSync, IInv, TypeOK, WorkerState
  <2>4. child' \in [Workers -> {"none", "gated", "live"}]
    BY DEF StartSync, IInv, TypeOK
  <2> QED
    BY <2>1, <2>2, <2>3, <2>4 DEF TypeOK
<1>2. Staged'
  BY DispatchAssumption
  DEF StartSync, IInv, TypeOK, RunRecord, WorkerState, Staged, Living, Slotted, Executes,
      AtWork, Closing, Busy
<1>3. Executing'
  BY DispatchAssumption
  DEF StartSync, IInv, TypeOK, RunRecord, WorkerState, Staged, Executing, Executes, AtWork,
      Closing, Busy
<1>4. Living'
  BY DispatchAssumption
  DEF StartSync, IInv, TypeOK, RunRecord, WorkerState, Staged, Living, Executing, Executes,
      Slotted
<1>5. Leasing'
  BY DispatchAssumption
  DEF StartSync, IInv, TypeOK, RunRecord, WorkerState, Staged, Living, Leasing, Leased
<1>6. Gated'
  BY DispatchAssumption
  DEF StartSync, IInv, TypeOK, RunRecord, WorkerState, Staged, Living, Executing, Executes,
      Gated
<1>7. Unclaimed'
  BY DispatchAssumption
  DEF StartSync, IInv, TypeOK, RunRecord, WorkerState, Staged, Executing, Executes,
      Unclaimed
<1> QED
  BY <1>1, <1>2, <1>3, <1>4, <1>5, <1>6, <1>7 DEF IInv

(* A reservation leaves the run unclaimed. *)
LEMMA ReserveAsyncKeeps ==
  ASSUME IInv, NEW w \in Workers, NEW r \in Runs, ReserveAsync(w, r)
  PROVE  IInv'
<1>1. TypeOK'
  <2>1. run' \in [Runs -> RunRecord]
    <3>1. run[r] \in RunRecord
      BY DEF IInv, TypeOK
    <3> QED
      BY <3>1, Recorded DEF ReserveAsync, IInv, TypeOK
  <2>2. lease' \in [Slots -> SlotState]
    BY DispatchAssumption DEF ReserveAsync, IInv, TypeOK
  <2>3. proc' \in [Workers -> WorkerState]
    <3>1. [proc[w] EXCEPT !.pc = "reserved", !.run = r] \in WorkerState
      BY DEF Pcs, IInv, TypeOK, WorkerState
    <3>2. proc' = [proc EXCEPT ![w] = [@ EXCEPT !.pc = "reserved", !.run = r]]
      BY DEF ReserveAsync, IInv, TypeOK
    <3> QED
      BY <3>1, <3>2 DEF IInv, TypeOK
  <2>4. child' \in [Workers -> {"none", "gated", "live"}]
    BY DEF ReserveAsync, IInv, TypeOK
  <2> QED
    BY <2>1, <2>2, <2>3, <2>4 DEF TypeOK
<1>2. Staged'
  BY DispatchAssumption
  DEF ReserveAsync, IInv, TypeOK, RunRecord, WorkerState, Staged, Living, Slotted, Executes,
      AtWork, Closing, Busy
<1>3. Executing'
  BY DispatchAssumption
  DEF ReserveAsync, IInv, TypeOK, RunRecord, WorkerState, Staged, Executing, Executes,
      AtWork, Closing, Busy
<1>4. Living'
  BY DispatchAssumption
  DEF ReserveAsync, IInv, TypeOK, RunRecord, WorkerState, Staged, Living, Executing,
      Executes, Slotted
<1>5. Leasing'
  BY DispatchAssumption
  DEF ReserveAsync, IInv, TypeOK, RunRecord, WorkerState, Staged, Living, Leasing, Leased
<1>6. Gated'
  BY DispatchAssumption
  DEF ReserveAsync, IInv, TypeOK, RunRecord, WorkerState, Staged, Living, Executing,
      Executes, Gated
<1>7. Unclaimed'
  BY DispatchAssumption
  DEF ReserveAsync, IInv, TypeOK, RunRecord, WorkerState, Staged, Executing, Executes,
      Unclaimed
<1> QED
  BY <1>1, <1>2, <1>3, <1>4, <1>5, <1>6, <1>7 DEF IInv

-----------------------------------------------------------------------------

(* Every step keeps the invariant. *)
LEMMA NextKeeps ==
  ASSUME IInv, [Next]_vars
  PROVE  IInv'
<1>1. ASSUME NEW r \in Runs, Accept(r) \/ RequestCancel(r) \/ Reconcile(r) \/ Gc(r)
      PROVE  IInv'
  BY <1>1, AcceptKeeps, RequestCancelKeeps, FailReservedKeeps, ReconcileCleanupKeeps,
     ReconcileFailKeeps, GcKeeps
  DEF Reconcile
<1>2. ASSUME NEW w \in Workers, Step(w)
      PROVE  IInv'
  BY <1>2, StartAsyncKeeps, NoSlotKeeps, ClaimKeeps, ClaimFailsKeeps, StartHeartbeatKeeps,
     WorkRefusedKeeps, SpawnGatedKeeps, CheckGatedKeeps, BindBackendKeeps, CheckBoundKeeps,
     OpenGateKeeps, RunEndsKeeps, CleanupKeeps, CleanupFailsKeeps, ReleaseKeeps,
     DecideKeeps, PublishKeeps, AcquireKeeps, BindRunKeeps
  DEF Step
<1>3. ASSUME NEW w \in Workers,
             \/ Crash(w) \/ BackendExits(w)
             \/ HeartbeatFails(w) \/ HeartbeatCleans(w) \/ HeartbeatGivesUp(w)
             \/ \E r \in Runs : StartSync(w, r) \/ ReserveAsync(w, r)
             \/ \E s \in Slots : AcquireCrashes(w, s)
      PROVE  IInv'
  BY <1>3, CrashKeeps, BackendExitsKeeps, HeartbeatFailsKeeps, HeartbeatCleansKeeps,
     HeartbeatGivesUpKeeps, StartSyncKeeps, ReserveAsyncKeeps, AcquireCrashesKeeps
<1>4. CASE UNCHANGED vars
  <2>1. TypeOK' /\ Unclaimed' /\ Gated'
    BY <1>4 DEF vars, IInv, TypeOK, Unclaimed, Gated
  <2>2. Staged'
    BY <1>4 DEF vars, IInv, Staged, Slotted
  <2>3. Executing' /\ Living' /\ Leasing'
    BY <1>4 DEF vars, IInv, Executing, Living, Leasing, Leased, Executes, Slotted
  <2> QED
    BY <2>1, <2>2, <2>3 DEF IInv
<1> QED
  BY <1>1, <1>2, <1>3, <1>4 DEF Next

(* Everything above holds of every reachable state. *)
LEMMA Invariance == Spec => []IInv
<1> USE Initially, NextKeeps
<1> HIDE DEF Fairness, Init, Next, vars, IInv
<1> QED
  BY PTL DEF Spec

(* Records, leases, worker processes and backends have their types. *)
THEOREM TypeCorrect == Spec => []TypeOK
<1>1. IInv => TypeOK
  BY DEF IInv
<1> QED
  BY <1>1, Invariance, PTL

(* A backend works in its slots only, and a heartbeat that gave up stops it. *)
THEOREM BackendsBounded == Spec => []BackendsHold
<1>1. ASSUME IInv PROVE BackendsHold
  <2>1. BackendsInSlots
    BY <1>1 DEF IInv, TypeOK, WorkerState, BackendsInSlots, Living, Slotted, Leasing, Leased
  <2>2. HeartbeatStops
    BY <1>1 DEF IInv, Gated, HeartbeatStops
  <2> QED
    BY <2>1, <2>2 DEF BackendsHold
<1> QED
  BY <1>1, Invariance, PTL

-----------------------------------------------------------------------------
(* The run store keeps what RunLifecycle promises. *)

(* The state of the promise, in the state of the program. *)
StatusOf == [r \in Runs |-> run[r].status]
CancelledRuns == {r \in Runs : run[r].cancel}
ExecutorOf == [r \in Runs |-> run[r].worker]
LiveWorkers == {v \in Workers : child[v] = "live"}
WorkingRuns == {proc[w].run : w \in LiveWorkers}

Promised == [Lifecycle!Next]_(Lifecycle!vars)

(* The steps of the promise, for one run. *)
LEMMA Lifted ==
  ASSUME NEW r \in Runs,
         \/ Lifecycle!Accept(r) \/ Lifecycle!Work(r) \/ Lifecycle!Rest(r)
         \/ Lifecycle!Cancel(r) \/ Lifecycle!Delete(r)
         \/ \E w \in Workers : Lifecycle!Claim(r, w)
         \/ \E verdict \in Verdicts : Lifecycle!Decide(r, verdict)
  PROVE  Promised
<1>1. Lifecycle!Next
  BY Zenon DEF Lifecycle!Next, Verdicts, Lifecycle!Verdicts
<1> QED
  BY <1>1 DEF Promised

(* A live backend that stays is counted to the same run. *)
RunsKept == \A v \in Workers : child[v] = "live" => proc'[v].run = proc[v].run
LiveKept == RunsKept /\ \A v \in Workers : child'[v] = "live" <=> child[v] = "live"

(* The runs that are worked on are the same when every live backend stays. *)
LEMMA WorkingKept == ASSUME LiveKept PROVE WorkingRuns' = WorkingRuns
  BY DEF LiveKept, RunsKept, WorkingRuns, LiveWorkers

(* One record is written. *)
LEMMA Written ==
  ASSUME TypeOK, NEW r \in Runs, NEW rec \in RunRecord, run' = [run EXCEPT ![r] = rec]
  PROVE  /\ StatusOf' = [StatusOf EXCEPT ![r] = rec.status]
         /\ CancelledRuns' = IF rec.cancel THEN CancelledRuns \cup {r} ELSE CancelledRuns \ {r}
         /\ ExecutorOf' = [ExecutorOf EXCEPT ![r] = rec.worker]
  BY DEF TypeOK, StatusOf, CancelledRuns, ExecutorOf

(* What nobody outside sees of a record. *)
Quiet ==
  \A r \in Runs : /\ run'[r].status = run[r].status /\ run'[r].cancel = run[r].cancel
                  /\ run'[r].worker = run[r].worker

(* A step that no record and no backend shows keeps the promise. *)
LEMMA Unseen == ASSUME Quiet, LiveKept PROVE Promised
<1>1. StatusOf' = StatusOf /\ CancelledRuns' = CancelledRuns /\ ExecutorOf' = ExecutorOf
  BY DEF Quiet, StatusOf, CancelledRuns, ExecutorOf
<1>2. WorkingRuns' = WorkingRuns
  BY WorkingKept
<1> QED
  BY <1>1, <1>2
  DEF Promised, Lifecycle!vars, StatusOf, CancelledRuns, ExecutorOf, WorkingRuns,
      LiveWorkers

(* A step that changes no status keeps the promise when no backend is started. *)
LEMMA QuietSteps ==
  ASSUME IInv, Quiet, NEW w \in Workers, RunsKept,
         \A v \in Workers : v # w => (child'[v] = "live" <=> child[v] = "live"),
         child'[w] = "live" => child[w] = "live"
  PROVE  Promised
<1>1. StatusOf' = StatusOf /\ CancelledRuns' = CancelledRuns /\ ExecutorOf' = ExecutorOf
  BY DEF Quiet, StatusOf, CancelledRuns, ExecutorOf
<1>2. CASE child'[w] = "live" <=> child[w] = "live"
  BY <1>2, Unseen DEF LiveKept
<1>3. CASE child'[w] # "live" /\ child[w] = "live"
  <2>1. LiveWorkers' = LiveWorkers \ {w}
    BY <1>3 DEF LiveWorkers
  <2>2. \A v \in LiveWorkers \ {w} : proc[v].run # proc[w].run
    BY <1>3 DEF LiveWorkers, IInv, Living
  <2>3. PICK r \in Runs : r = proc[w].run
    BY <1>3 DEF IInv, Living, Executes
  <2>4. WorkingRuns' = WorkingRuns \ {r}
    BY <2>1, <2>2, <2>3 DEF WorkingRuns, RunsKept, LiveWorkers
  <2>5. Lifecycle!Rest(r)
    BY <1>1, <2>4
    DEF Lifecycle!Rest, StatusOf, CancelledRuns, ExecutorOf, WorkingRuns, LiveWorkers
  <2> QED
    BY <2>5, Lifted
<1> QED
  BY <1>2, <1>3

(* One record gets another status; its request and its worker stay. *)
LEMMA Restated ==
  ASSUME TypeOK, NEW r \in Runs, NEW status \in Statuses, run' = [run EXCEPT ![r].status = status]
  PROVE  /\ StatusOf' = [StatusOf EXCEPT ![r] = status]
         /\ CancelledRuns' = CancelledRuns /\ ExecutorOf' = ExecutorOf
<1> DEFINE rec == [run[r] EXCEPT !.status = status]
<1>1. run[r] \in RunRecord /\ rec \in RunRecord
  BY Recorded DEF TypeOK
<1>2. rec.status = status /\ rec.cancel = run[r].cancel /\ rec.worker = run[r].worker
  OBVIOUS
<1>3. run' = [run EXCEPT ![r] = rec]
  OBVIOUS
<1> HIDE DEF rec
<1>4. /\ StatusOf' = [StatusOf EXCEPT ![r] = status]
      /\ CancelledRuns' = IF run[r].cancel THEN CancelledRuns \cup {r} ELSE CancelledRuns \ {r}
      /\ ExecutorOf' = [ExecutorOf EXCEPT ![r] = run[r].worker]
  <2>1. /\ StatusOf' = [StatusOf EXCEPT ![r] = rec.status]
        /\ CancelledRuns' = IF rec.cancel THEN CancelledRuns \cup {r} ELSE CancelledRuns \ {r}
        /\ ExecutorOf' = [ExecutorOf EXCEPT ![r] = rec.worker]
    BY <1>1, <1>3, Written
  <2> QED
    BY <1>2, <2>1
<1>5. CancelledRuns' = CancelledRuns
  BY DEF CancelledRuns
<1>6. ExecutorOf' = ExecutorOf
  BY DEF ExecutorOf
<1> QED
  BY <1>4, <1>5, <1>6

(* A run that has no backend, or is not claimed, is not worked on. *)
LEMMA NotWorking ==
  ASSUME IInv, NEW r \in Runs, run[r].status # "running" \/ run[r].backend = None
  PROVE  r \notin WorkingRuns
  BY DispatchAssumption DEF IInv, Living, Executes, WorkingRuns, LiveWorkers

(* Accepting is the promise's acceptance. *)
LEMMA AcceptMaps ==
  ASSUME IInv, NEW r \in Runs, Accept(r)
  PROVE  Promised
<1>1. /\ StatusOf' = [StatusOf EXCEPT ![r] = "accepted"]
      /\ CancelledRuns' = CancelledRuns /\ ExecutorOf' = ExecutorOf
  BY Restated DEF Accept, IInv, Statuses
<1>2. WorkingRuns' = WorkingRuns
  BY WorkingKept DEF Accept, LiveKept, RunsKept
<1>3. Lifecycle!Accept(r)
  BY <1>1, <1>2 DEF Accept, Lifecycle!Accept, StatusOf
<1> QED
  BY <1>3, Lifted

(* A request is the promise's request, which ends a run that is not claimed. *)
LEMMA RequestCancelMaps ==
  ASSUME IInv, NEW r \in Runs, RequestCancel(r)
  PROVE  Promised
<1>1. run[r] \in RunRecord /\ Cancelled(run[r]) \in RunRecord
  BY Recorded DEF IInv, TypeOK
<1>2. /\ StatusOf' = [StatusOf EXCEPT ![r] = Cancelled(run[r]).status]
      /\ CancelledRuns' = CancelledRuns \cup {r}
      /\ ExecutorOf' = [ExecutorOf EXCEPT ![r] = Cancelled(run[r]).worker]
  <2>1. run' = [run EXCEPT ![r] = Cancelled(run[r])] /\ Cancelled(run[r]).cancel
    BY DEF RequestCancel, Cancelled
  <2> QED
    BY <1>1, <2>1, Written DEF IInv
<1>3. ExecutorOf' = ExecutorOf
  BY <1>1, <1>2 DEF Cancelled, RunRecord, ExecutorOf
<1>4. StatusOf' = [StatusOf EXCEPT ![r] = IF @ = "accepted" THEN "cancelled" ELSE @]
  BY <1>2 DEF Cancelled, StatusOf
<1>5. WorkingRuns' = WorkingRuns
  BY WorkingKept DEF RequestCancel, LiveKept, RunsKept
<1>6. Lifecycle!Cancel(r)
  BY <1>2, <1>3, <1>4, <1>5
  DEF RequestCancel, Lifecycle!Cancel, StatusOf, CancelledRuns, ExecutorOf
<1> QED
  BY <1>6, Lifted

(* A verdict is written for a run that no backend works on. *)
LEMMA VerdictMaps ==
  ASSUME IInv, NEW r \in Runs, NEW verdict \in Verdicts,
         run[r].status = "accepted" \/ (run[r].status = "running" /\ run[r].backend = None),
         run[r].cancel => verdict = "cancelled",
         run' = [run EXCEPT ![r].status = verdict], LiveKept
  PROVE  Promised
<1>1. /\ StatusOf' = [StatusOf EXCEPT ![r] = verdict]
      /\ CancelledRuns' = CancelledRuns /\ ExecutorOf' = ExecutorOf
  BY Restated DEF IInv, Statuses
<1>2. WorkingRuns' = WorkingRuns /\ r \notin WorkingRuns
  BY WorkingKept, NotWorking
<1>3. Lifecycle!Decide(r, verdict)
  BY <1>1, <1>2
  DEF Lifecycle!Decide, StatusOf, CancelledRuns, ExecutorOf, WorkingRuns, LiveWorkers
<1> QED
  BY <1>3, Lifted

(* Failing a reservation is a verdict for a run nobody works on. *)
LEMMA FailReservedMaps ==
  ASSUME IInv, NEW r \in Runs, FailReserved(r)
  PROVE  Promised
<1>1. ~run[r].cancel /\ "failed" \in Verdicts /\ LiveKept
  BY DEF FailReserved, IInv, Unclaimed, Verdicts, LiveKept, RunsKept
<1> QED
  BY <1>1, VerdictMaps DEF FailReserved

(* So is failing a run whose worker and backend are dead. *)
LEMMA ReconcileFailMaps ==
  ASSUME IInv, NEW r \in Runs, ReconcileFail(r)
  PROVE  Promised
<1> DEFINE verdict == IF run[r].cancel THEN "cancelled" ELSE "failed"
<1>1. verdict \in Verdicts /\ LiveKept /\ (run[r].cancel => verdict = "cancelled")
  BY DEF ReconcileFail, Verdicts, LiveKept, RunsKept
<1>2. run' = [run EXCEPT ![r].status = verdict]
  BY DEF ReconcileFail, FailedBy
<1> HIDE DEF verdict
<1> QED
  BY <1>1, <1>2, VerdictMaps DEF ReconcileFail

(* Removing a record is the promise's removal. *)
LEMMA GcMaps ==
  ASSUME IInv, NEW r \in Runs, Gc(r)
  PROVE  Promised
<1> DEFINE rec == [NewRun EXCEPT !.status = "deleted"]
<1>1. rec \in RunRecord /\ rec.status = "deleted" /\ ~rec.cancel /\ rec.worker = None
      /\ run' = [run EXCEPT ![r] = rec]
  BY DEF Gc, NewRun, RunRecord, Statuses
<1> HIDE DEF rec
<1>2. /\ StatusOf' = [StatusOf EXCEPT ![r] = "deleted"]
      /\ CancelledRuns' = CancelledRuns \ {r} /\ ExecutorOf' = [ExecutorOf EXCEPT ![r] = None]
  BY <1>1, Written DEF IInv
<1>3. WorkingRuns' = WorkingRuns
  BY WorkingKept DEF Gc, LiveKept, RunsKept
<1>4. Lifecycle!Delete(r)
  BY <1>2, <1>3
  DEF Gc, Verdicts, Lifecycle!Verdicts, Lifecycle!Delete, StatusOf, CancelledRuns,
      ExecutorOf
<1> QED
  BY <1>4, Lifted

(* The claim is the promise's claim. *)
LEMMA ClaimMaps ==
  ASSUME IInv, NEW w \in Workers, Claim(w)
  PROVE  Promised
<1>1. PICK r \in Runs : r = proc[w].run /\ run[r].status = "accepted" /\ run[r].worker = None
  BY DEF Claim, MayClaim, IInv, Staged, Unclaimed
<1> DEFINE rec == [run[r] EXCEPT !.status = "running", !.token = w, !.worker = w,
                                 !.slots = proc[w].held]
<1>2. run[r] \in RunRecord /\ rec \in RunRecord
  BY Recorded DEF IInv, TypeOK, WorkerState
<1>3. rec.status = "running" /\ rec.worker = w /\ rec.cancel = run[r].cancel
  OBVIOUS
<1>4. run' = [run EXCEPT ![r] = rec]
  BY <1>1 DEF Claim
<1> HIDE DEF rec
<1>5. /\ StatusOf' = [StatusOf EXCEPT ![r] = "running"] /\ CancelledRuns' = CancelledRuns
      /\ ExecutorOf' = [ExecutorOf EXCEPT ![r] = w]
  BY <1>2, <1>3, <1>4, Written DEF IInv, CancelledRuns
<1>6. WorkingRuns' = WorkingRuns
  BY WorkingKept, GoSteps DEF Claim, IInv, LiveKept, RunsKept, Steps, Pcs
<1>7. Lifecycle!Claim(r, w)
  BY <1>1, <1>5, <1>6
  DEF Lifecycle!Claim, StatusOf, CancelledRuns, ExecutorOf, WorkingRuns, LiveWorkers
<1> QED
  BY <1>7, Lifted

(* Opening the gate is where work starts, on a run that is claimed. *)
LEMMA OpenGateMaps ==
  ASSUME IInv, NEW w \in Workers, OpenGate(w)
  PROVE  Promised
<1>1. proc[w].pc = "checked" /\ "failed" \in Verdicts /\ "running" \in Pcs /\ UNCHANGED run
  BY DEF OpenGate, Abandon, Verdicts, Pcs
<1>2. PICK pc \in Pcs, outcome \in Verdicts : Go(w, pc) \/ Leave(w, outcome)
  BY <1>1 DEF OpenGate, Abandon
<1>3. RunsKept
  BY <1>2, GoSteps, LeaveSteps DEF IInv, RunsKept, Steps
<1>4. CASE child[w] = "none" /\ Abandon(w, "failed")
  <2>1. Quiet /\ child' = [child EXCEPT ![w] = "none"]
    BY <1>4 DEF Quiet, Abandon
  <2> QED
    BY <1>3, <2>1, QuietSteps
<1>5. CASE child[w] = "gated" /\ child' = [child EXCEPT ![w] = "live"]
  <2>1. PICK r \in Runs : r = proc[w].run /\ run[r].status = "running"
    BY <1>1 DEF IInv, Executing, Executes, Busy, AtWork
  <2>2. proc'[w].run = r
    BY <1>2, <2>1, GoSteps, LeaveSteps DEF IInv, Steps
  <2>3. LiveWorkers' = LiveWorkers \cup {w}
    BY <1>5 DEF LiveWorkers, IInv, TypeOK
  <2>4. WorkingRuns' = WorkingRuns \cup {r}
    BY <1>3, <2>2, <2>3 DEF WorkingRuns, RunsKept, LiveWorkers
  <2>5. Lifecycle!Work(r)
    BY <1>1, <2>1, <2>4 DEF Lifecycle!Work, WorkingRuns, LiveWorkers
  <2> QED
    BY <2>5, Lifted
<1> QED
  BY <1>4, <1>5 DEF OpenGate

(* Publishing is the promise's verdict. *)
LEMMA PublishMaps ==
  ASSUME IInv, NEW w \in Workers, Publish(w)
  PROVE  Promised
<1>1. PICK r \in Runs : r = proc[w].run /\ proc[w].outcome \in Verdicts
  BY DEF Publish, IInv, Staged, Closing
<1>2. PICK pc \in Pcs : Go(w, pc) /\ UNCHANGED child
  BY DEF Publish, Pcs
<1>3. LiveKept
  BY <1>2, GoSteps DEF IInv, LiveKept, RunsKept, Steps
<1>4. CASE UNCHANGED run
  BY <1>3, <1>4, QuietSteps DEF Quiet, LiveKept
<1>5. CASE /\ MayPublish(run[r], w, proc[w].outcome)
           /\ run' = [run EXCEPT ![r].status = proc[w].outcome]
  BY <1>1, <1>3, <1>5, VerdictMaps DEF MayPublish
<1> QED
  BY <1>1, <1>4, <1>5 DEF Publish

(* Clearing the backend of a record is seen by nobody outside, and starts none. *)
LEMMA CleanupMaps ==
  ASSUME IInv, NEW w, CleanupProven(w), RunsKept
  PROVE  Promised
<1>1. Quiet
  <2>1. CASE proc[w].run \in Runs
    BY DEF CleanupProven, Cleaned, Quiet
  <2>2. CASE proc[w].run \notin Runs
    BY <2>2 DEF CleanupProven, Quiet
  <2> QED
    BY <2>1, <2>2
<1>2. child' = child \/ child' = [child EXCEPT ![w] = "none"]
  BY DEF CleanupProven
<1>3. CASE w \in Workers
  BY <1>1, <1>2, <1>3, QuietSteps DEF IInv, TypeOK
<1>4. CASE w \notin Workers
  BY <1>1, <1>2, <1>4, Unseen DEF LiveKept, IInv, TypeOK
<1> QED
  BY <1>3, <1>4

(* Clearing a dead worker's backend is not seen outside. *)
LEMMA ReconcileCleanupMaps ==
  ASSUME IInv, NEW r \in Runs, ReconcileCleanup(r)
  PROVE  Promised
<1>1. PICK w : w = run[r].worker
  OBVIOUS
<1>2. CleanupProven(w) /\ RunsKept
  BY <1>1 DEF ReconcileCleanup, RunsKept
<1> QED
  BY <1>2, CleanupMaps

(* The other steps of a worker write no status and start no backend. *)
LEMMA WorkerMaps ==
  ASSUME IInv, NEW w \in Workers, Step(w), ~Claim(w), ~OpenGate(w), ~Publish(w)
  PROVE  Promised
<1>1. CASE UNCHANGED <<run, child>>
  <2>0. TypeOK
    BY DEF IInv
  <2>1. RunsKept
    <3>1. ASSUME NEW pc, Go(w, pc) PROVE RunsKept
      BY <2>0, <3>1 DEF Go, RunsKept, TypeOK, WorkerState
    <3>2. ASSUME NEW outcome, Leave(w, outcome) PROVE RunsKept
      BY <2>0, <3>2 DEF Leave, RunsKept, TypeOK, WorkerState
    <3>3. CASE NoSlot(w) \/ StartHeartbeat(w)
      BY SMTT(20), <2>0, <3>3 DEF NoSlot, StartHeartbeat, RunsKept, TypeOK, WorkerState
    <3>4. CASE Release(w) \/ Decide(w)
      <4>1. CASE Release(w)
        BY <2>0, <4>1 DEF Release, RunsKept, TypeOK, WorkerState
      <4>2. CASE Decide(w)
        BY <2>0, <4>2 DEF Decide, RunsKept, TypeOK, WorkerState
      <4> QED
        BY <3>4, <4>1, <4>2
    <3>5. ASSUME NEW s \in Slots, Acquire(w, s) PROVE RunsKept
      BY <2>0, <3>5 DEF Acquire, RunsKept, TypeOK, WorkerState
    <3>6. CASE UNCHANGED proc
      BY <3>6 DEF RunsKept
    <3> QED
      BY <3>1, <3>2, <3>3, <3>4, <3>5, <3>6
      DEF Step, StartAsync, ClaimFails, WorkRefused, SpawnGated, CheckGated, BindBackend,
          CheckBound, RunEnds, Abandon, Cleanup, CleanupFails, BindRun
  <2> QED
    BY <1>1, <2>1, Unseen DEF Quiet, LiveKept
<1>2. CASE SpawnGated(w)
  <2>1. Go(w, "gated") /\ child' = [child EXCEPT ![w] = "gated"] /\ "gated" \in Pcs
    BY <1>2 DEF SpawnGated, Pcs
  <2> QED
    BY <1>2, <2>1, GoSteps, QuietSteps DEF SpawnGated, IInv, RunsKept, Quiet, Steps
<1>3. ASSUME NEW outcome \in Verdicts, Abandon(w, outcome) PROVE Promised
  <2>1. Leave(w, outcome) /\ child' = [child EXCEPT ![w] = "none"] /\ UNCHANGED run
    BY <1>3 DEF Abandon
  <2> QED
    BY <2>1, LeaveSteps, QuietSteps DEF IInv, RunsKept, Quiet, Steps
<1>4. CASE CheckGated(w) \/ CheckBound(w)
  <2>1. WhyNot(w) \in Verdicts
    BY DEF WhyNot, Verdicts
  <2>2. UNCHANGED <<run, child>> \/ Abandon(w, WhyNot(w))
    BY <1>4 DEF CheckGated, CheckBound
  <2> QED
    BY <1>1, <1>3, <2>1, <2>2
<1>5. CASE RunEnds(w)
  <2>1. PICK outcome \in Verdicts : Abandon(w, outcome)
    BY <1>5 DEF RunEnds, WhyNot, Verdicts
  <2> QED
    BY <1>3, <2>1
<1>6. CASE BindBackend(w)
  <2>1. CASE Abandon(w, "failed")
    BY <1>3, <2>1 DEF Verdicts
  <2>2. CASE run' = [run EXCEPT ![proc[w].run].backend = w] /\ Go(w, "bound")
             /\ UNCHANGED <<lease, child>>
    <3>1. Quiet
      BY <2>2 DEF Quiet
    <3>2. LiveKept
      BY <2>2, GoSteps DEF LiveKept, RunsKept, Steps, IInv, Pcs
    <3> QED
      BY <3>1, <3>2, Unseen
  <2> QED
    BY <1>6, <2>1, <2>2 DEF BindBackend
<1>7. CASE Cleanup(w)
  BY <1>7, CleanupMaps, GoSteps DEF Cleanup, IInv, RunsKept, Steps, Pcs
<1> QED
  BY <1>1, <1>2, <1>4, <1>5, <1>6, <1>7
  DEF Step, StartAsync, NoSlot, ClaimFails, StartHeartbeat, WorkRefused, CleanupFails,
      Release, Decide, Acquire, BindRun

(* What may befall a worker, and its start. *)
LEMMA EventMaps ==
  ASSUME IInv, NEW w \in Workers,
         \/ Crash(w) \/ BackendExits(w)
         \/ HeartbeatFails(w) \/ HeartbeatCleans(w) \/ HeartbeatGivesUp(w)
         \/ \E r \in Runs : StartSync(w, r) \/ ReserveAsync(w, r)
         \/ \E s \in Slots : AcquireCrashes(w, s)
  PROVE  Promised
<1>1. RunsKept
  <2>1. TypeOK /\ (proc[w].pc = "idle" => child[w] # "live")
    BY DEF IInv, Staged
  <2>2. CASE Crash(w) \/ BackendExits(w)
    BY <2>1, <2>2 DEF Crash, BackendExits, Go, RunsKept, TypeOK, WorkerState
  <2>5. ASSUME NEW s \in Slots, AcquireCrashes(w, s)
        PROVE  RunsKept
    BY <2>1, <2>5 DEF AcquireCrashes, Go, RunsKept
  <2>3. CASE HeartbeatFails(w) \/ HeartbeatCleans(w) \/ HeartbeatGivesUp(w)
    BY <2>1, <2>3
    DEF HeartbeatFails, HeartbeatCleans, HeartbeatGivesUp, RunsKept, TypeOK, WorkerState
  <2>4. ASSUME NEW r \in Runs, StartSync(w, r) \/ ReserveAsync(w, r)
        PROVE  RunsKept
    BY <2>1, <2>4 DEF StartSync, ReserveAsync, RunsKept, TypeOK
  <2> QED
    BY <2>2, <2>3, <2>4, <2>5
<1>2. CASE Crash(w) \/ BackendExits(w)
  BY <1>1, <1>2, QuietSteps DEF Crash, BackendExits, Quiet, IInv, TypeOK
<1>3. CASE HeartbeatCleans(w)
  BY <1>1, <1>3, CleanupMaps DEF HeartbeatCleans
<1>4. ASSUME NEW r \in Runs, ReserveAsync(w, r) PROVE Promised
  BY <1>1, <1>4, Unseen DEF ReserveAsync, Quiet, LiveKept
<1>5. CASE UNCHANGED <<run, child>>
  BY <1>1, <1>5, Unseen DEF Quiet, LiveKept
<1> QED
  BY <1>2, <1>3, <1>4, <1>5 DEF HeartbeatFails, HeartbeatGivesUp, StartSync, AcquireCrashes

(* Every step is a step of the promise or a stutter. *)
LEMMA NextMaps == ASSUME IInv, [Next]_vars PROVE Promised
<1>1. ASSUME NEW r \in Runs, Accept(r) \/ RequestCancel(r) \/ Reconcile(r) \/ Gc(r)
      PROVE  Promised
  BY <1>1, AcceptMaps, RequestCancelMaps, FailReservedMaps, ReconcileCleanupMaps,
     ReconcileFailMaps, GcMaps
  DEF Reconcile
<1>2. ASSUME NEW w \in Workers, Step(w)
      PROVE  Promised
  BY <1>2, ClaimMaps, OpenGateMaps, PublishMaps, WorkerMaps
<1>3. CASE UNCHANGED vars
  BY <1>3, Unseen DEF vars, Quiet, LiveKept, RunsKept
<1> QED
  BY <1>1, <1>2, <1>3, EventMaps DEF Next

(* However worker, reaper, canceller and reconciliation interleave, the run store
   keeps what RunLifecycle promises. *)
THEOREM PromiseKept == Spec => RunLifecycleHolds
<1>1. Init => Lifecycle!Init
  BY DEF Init, NewRun, Lifecycle!Init
<1>2. IInv /\ [Next]_vars => [Lifecycle!Next]_(Lifecycle!vars)
  BY NextMaps DEF Promised
<1> HIDE DEF Fairness
<1> QED
  BY <1>1, <1>2, Invariance, PTL DEF Spec, RunLifecycleHolds, Lifecycle!Spec

-------------------------------------------------------------------------------
(* Batches (module DispatchBatch).  BatchInv says who holds the lock of the request,
   that the id is bound to one plan as soon as anything was recorded for it, and that
   what was executed or cancelled cannot become a new record. *)

Commands == [pc : {"idle", "create", "bind", "members", "look", "cancel", "spawn"},
             plan : Plans \cup {Nobody}, todo : SUBSET Members]

BatchTyped ==
  /\ manifest \in [Plans -> {"none", "active", "cancelled"}]
  /\ tombstone \in Plans \cup {Nobody}
  /\ records \in [Plans -> [Members -> {"absent", "accepted", "reserved", "running", "over"}]]
  /\ starter \in [Starters -> Commands]
  /\ canceller \in [pc : {"idle", "members"}, plan : Plans \cup {Nobody}, todo : SUBSET Members]
  /\ collector \in [pc : {"idle", "request", "second", "manifest", "unlink", "delete"},
                    plan : Plans \cup {Nobody}, todo : SUBSET Members]
  /\ reqLock \in Starters \cup {Collector, Nobody}
  /\ manLock \in [Plans -> Starters \cup {Collector, Nobody}]
  /\ started \subseteq Plans \X Members /\ acked \subseteq Plans

(* A command that is under way is about a plan. *)
UnderWay(s) == s.pc # "idle" => s.plan \in Plans
Goes ==
  /\ \A c \in Starters : UnderWay(starter[c]) /\ (starter[c].pc # "idle" => starter[c].todo # {})
  /\ \A c \in Starters : starter[c].pc \in {"create", "bind"} => starter[c].todo = Members
  /\ UnderWay(canceller) /\ (canceller.pc # "idle" => canceller.todo # {})
  /\ UnderWay(collector) /\ (collector.pc = "delete" => collector.todo # {})

(* Who holds the locks. *)
LocksHeld ==
  /\ \A c \in Starters : starter[c].pc \in {"create", "bind", "members"} => reqLock = c
  /\ collector.pc \in {"second", "manifest", "unlink"} => reqLock = Collector

(* The request id is bound to one plan. *)
BoundOnce ==
  /\ \A p \in Plans : manifest[p] # "none" => tombstone \in {p, Nobody}
  /\ \A p, q \in Plans : manifest[p] # "none" /\ manifest[q] # "none" => p = q
  /\ \A p \in Plans, m \in Members : records[p][m] # "absent" => tombstone = p
  /\ \A x \in started : x[1] = tombstone
  /\ \A c \in Starters :
       /\ starter[c].pc \in {"bind", "members"} => manifest[starter[c].plan] # "none"
       /\ starter[c].pc \in {"members", "look", "spawn", "cancel"} => tombstone = starter[c].plan
  /\ collector.pc = "unlink" => tombstone = collector.plan
  /\ collector.pc = "delete" => tombstone = collector.plan /\ manifest[collector.plan] = "none"

(* A member is executed from a record that is new. *)
NotAgain ==
  /\ ~again
  /\ \A p \in Plans, m \in Members : <<p, m>> \in started =>
       \/ records[p][m] \in {"running", "over"}
       \/ records[p][m] = "absent" /\ manifest[p] = "none"

(* Once the members have their records, they have them until the batch is collected. *)
AllThere(p) == manifest[p] = "none" \/ \A m \in Members : records[p][m] # "absent"
MembersThere ==
  \A c \in Starters :
    /\ starter[c].pc \in {"look", "spawn", "cancel"} => AllThere(starter[c].plan)
    /\ starter[c].pc = "members" =>
         \A m \in Members \ starter[c].todo : records[starter[c].plan][m] # "absent"

(* A member that was cancelled does not begin. *)
CalledOff(p) == manifest[p] = "cancelled" \/ (manifest[p] = "none" /\ tombstone = p)
Cleared(p, m) ==
  /\ records[p][m] # "reserved"
  /\ records[p][m] = "accepted" =>
       \A c \in Starters : ~(starter[c].pc = "spawn" /\ starter[c].plan = p)
CancelsHold ==
  /\ \A p \in acked : CalledOff(p) /\ \A m \in Members : Cleared(p, m)
  /\ canceller.pc = "members" =>
       CalledOff(canceller.plan) /\ \A m \in Members \ canceller.todo : Cleared(canceller.plan, m)

BatchInv ==
  /\ BatchTyped /\ Goes /\ LocksHeld /\ BoundOnce /\ NotAgain /\ MembersThere /\ CancelsHold

(* A set of natural numbers has a least one. *)
LEMMA LeastOne ==
  ASSUME NEW S \in SUBSET Nat, S # {}
  PROVE  \E n \in S : \A m \in S : n <= m
<1> DEFINE T == {0..n : n \in S}
<1>1. T \subseteq FiniteSubsetsOf(Nat)
  <2>1. \A n \in S : 0..n \subseteq Nat /\ IsFiniteSet(0..n)
    BY FS_Interval
  <2> QED
    BY <2>1 DEF FiniteSubsetsOf
<1>2. PICK x \in T : \A y \in T : ~ (<<y, x>> \in StrictSubsetOrdering(Nat))
  <2>1. IsWellFoundedOn(StrictSubsetOrdering(Nat), FiniteSubsetsOf(Nat))
    BY FS_StrictSubsetOrderingWellFounded
  <2>2. T # {}
    OBVIOUS
  <2> HIDE DEF T
  <2> QED
    BY <1>1, <2>1, <2>2, WFMin
<1>3. PICK n \in S : x = 0..n
  OBVIOUS
<1>4. ASSUME NEW m \in S, ~ (n <= m) PROVE FALSE
  <2>1. 0..m \in T /\ 0..m \subseteq 0..n /\ 0..m # 0..n /\ 0..n \subseteq Nat
    <3>1. n \in 0..n /\ n \notin 0..m
      BY <1>4
    <3> QED
      BY <1>4, <3>1
  <2>2. <<0..m, x>> \in StrictSubsetOrdering(Nat)
    BY <2>1, <1>3 DEF StrictSubsetOrdering
  <2> QED
    BY <2>1, <2>2, <1>2
<1> QED
  BY <1>4


(* The member a loop takes next is one of those left. *)
LEMMA FirstIsOne == ASSUME NEW todo \in SUBSET Members, todo # {} PROVE First(todo) \in todo
<1>1. \E m \in todo : \A n \in todo : m <= n
  BY LeastOne, BatchAssumption
<1> QED
  BY <1>1 DEF First

(* A loop goes on with the next member, or ends. *)
LEMMA RestIs ==
  ASSUME NEW s, s.todo \in SUBSET Members, s.todo # {}, s.plan \in Plans, NEW pc
  PROVE  \/ Rest(s, pc) = NoCommand /\ s.todo = {First(s.todo)}
         \/ /\ Rest(s, pc) = [pc |-> pc, plan |-> s.plan, todo |-> s.todo \ {First(s.todo)}]
            /\ s.todo \ {First(s.todo)} # {}
<1>1. First(s.todo) \in s.todo
  BY FirstIsOne
<1> QED
  BY <1>1 DEF Rest, At

RecordStatuses == {"absent", "accepted", "reserved", "running", "over"}

(* One record changes. *)
LEMMA OneRecord ==
  ASSUME BatchTyped, NEW p \in Plans, NEW m \in Members, NEW st \in RecordStatuses, SetRun(p, m, st)
  PROVE  /\ records' \in [Plans -> [Members -> RecordStatuses]]
         /\ records'[p][m] = st
         /\ \A q \in Plans, n \in Members : q # p \/ n # m => records'[q][n] = records[q][n]
BY DEF SetRun, BatchTyped, RecordStatuses

(* Nothing was started yet. *)
LEMMA BatchStarts == BatchInit => BatchInv
<1> SUFFICES ASSUME BatchInit PROVE BatchInv
  OBVIOUS
<1> USE DEF BatchInit, NoCommand, At
<1>1. BatchTyped
  BY DEF BatchTyped, Commands
<1>2. Goes /\ LocksHeld /\ BoundOnce /\ NotAgain
  BY DEF Goes, UnderWay, LocksHeld, BoundOnce, NotAgain
<1>3. MembersThere /\ CancelsHold
  BY DEF MembersThere, CancelsHold
<1> QED
  BY <1>1, <1>2, <1>3 DEF BatchInv

(* A starter that changes nothing but itself and what it holds. *)
LEMMA StarterMoves ==
  ASSUME BatchInv, NEW c \in Starters, NEW s \in Commands, Become(c, s),
         UNCHANGED <<files, canceller, collector, history>>,
         reqLock' \in Starters \cup {Collector, Nobody},
         manLock' \in [Plans -> Starters \cup {Collector, Nobody}],
         s.pc # "idle" => s.plan \in Plans /\ s.todo # {},
         s.pc \in {"create", "bind"} => s.todo = Members,
         s.pc \in {"create", "bind", "members"} => reqLock' = c,
         reqLock' = reqLock \/ reqLock = c \/ reqLock = Nobody,
         s.pc \in {"bind", "members"} => manifest[s.plan] # "none",
         s.pc \in {"members", "look", "spawn", "cancel"} => tombstone = s.plan,
         s.pc \in {"look", "spawn", "cancel"} => AllThere(s.plan),
         s.pc = "members" => \A m \in Members \ s.todo : records[s.plan][m] # "absent",
         s.pc = "spawn" => manifest[s.plan] = "active"
  PROVE  BatchInv'
<1>1. /\ starter' \in [Starters -> Commands] /\ starter'[c] = s
      /\ \A d \in Starters \ {c} : starter'[d] = starter[d]
  BY DEF Become, BatchInv, BatchTyped
<1>2. BatchTyped'
  BY <1>1 DEF BatchInv, BatchTyped, files, history
<1>3. Goes'
  BY <1>1 DEF BatchInv, Goes, UnderWay
<1>4. LocksHeld'
  BY <1>1, BatchAssumption DEF BatchInv, LocksHeld, Collector
<1>5. BoundOnce'
  BY <1>1 DEF BatchInv, BoundOnce, files, history
<1>6. NotAgain'
  BY DEF BatchInv, NotAgain, files, history
<1>7. MembersThere'
  BY <1>1 DEF BatchInv, MembersThere, AllThere, files
<1>8. CancelsHold'
  <2>1. ASSUME NEW p \in Plans, NEW m \in Members, CalledOff(p), Cleared(p, m)
        PROVE  CalledOff(p)' /\ Cleared(p, m)'
    BY <1>1, <2>1 DEF CalledOff, Cleared, files
  <2>2. /\ acked' = acked /\ acked \subseteq Plans /\ canceller' = canceller
        /\ canceller.pc = "members" => canceller.plan \in Plans
    BY DEF BatchInv, BatchTyped, Goes, UnderWay, history
  <2>3. \A p \in acked : CalledOff(p)' /\ \A m \in Members : Cleared(p, m)'
    BY <2>1, <2>2, BatchAssumption DEF BatchInv, CancelsHold
  <2>4. canceller.pc = "members" =>
          CalledOff(canceller.plan)' /\ \A m \in Members \ canceller.todo : Cleared(canceller.plan, m)'
    <3> SUFFICES ASSUME canceller.pc = "members"
                 PROVE  /\ CalledOff(canceller.plan)'
                        /\ \A m \in Members \ canceller.todo : Cleared(canceller.plan, m)'
      OBVIOUS
    <3>1. CalledOff(canceller.plan)'
      BY <2>2 DEF BatchInv, CancelsHold, CalledOff, files
    <3>2. \A m \in Members \ canceller.todo : Cleared(canceller.plan, m)'
      BY <2>1, <2>2 DEF BatchInv, CancelsHold
    <3> QED
      BY <3>1, <3>2
  <2> QED
    BY <2>2, <2>3, <2>4 DEF CancelsHold
<1> QED
  BY <1>2, <1>3, <1>4, <1>5, <1>6, <1>7, <1>8 DEF BatchInv

(* How the record of a member may change while its batch is worked on. *)
Onward(p, m) ==
  /\ records'[p][m] \in RecordStatuses
  /\ records'[p][m] = "absent" <=> records[p][m] = "absent"
  /\ records[p][m] \in {"running", "over"} => records'[p][m] \in {"running", "over"}
  /\ records'[p][m] = "accepted" => records[p][m] = "accepted"

(* The records go on, no command comes to spawn members, and none begins that was
   cancelled. *)
LEMMA RecordsGoOn ==
  ASSUME BatchInv, BatchTyped', Goes', LocksHeld',
         \A p \in Plans, m \in Members : Onward(p, m),
         UNCHANGED <<manifest, tombstone, collector, started, again>>,
         \A c \in Starters :
           \/ starter'[c] = starter[c]
           \/ starter'[c].pc = "idle"
           \/ /\ starter'[c].pc = "look" /\ starter[c].pc \in {"look", "spawn", "cancel"}
              /\ starter'[c].plan = starter[c].plan,
         \A p \in Plans, m \in Members :
           records'[p][m] = "reserved" /\ records[p][m] # "reserved" =>
             /\ acked' = acked /\ canceller' = canceller
             /\ \E c \in Starters : starter[c].pc = "spawn" /\ starter[c].plan = p
                                    /\ records[p][m] = "accepted",
         CancelsHold'
  PROVE  BatchInv'
<1>1. BoundOnce'
  BY DEF BatchInv, BoundOnce, Onward
<1>2. NotAgain'
  BY DEF BatchInv, NotAgain, Onward, BatchTyped
<1>3. MembersThere'
  <2>1. \A p \in Plans : AllThere(p) => AllThere(p)'
    BY DEF AllThere, Onward
  <2>2. ASSUME NEW c \in Starters, starter'[c].pc \in {"look", "spawn", "cancel"}
        PROVE  AllThere(starter[c].plan)'
    <3>1. /\ starter[c].pc \in {"look", "spawn", "cancel"}
          /\ starter'[c].plan = starter[c].plan /\ starter[c].plan \in Plans
      BY <2>2 DEF BatchInv, Goes, UnderWay
    <3>2. AllThere(starter[c].plan)
      BY <3>1 DEF BatchInv, MembersThere
    <3>3. PICK p \in Plans : p = starter[c].plan /\ p = starter'[c].plan
      BY <3>1
    <3>4. AllThere(p)'
      BY <2>1, <3>2, <3>3
    <3> QED
      BY <3>3, <3>4 DEF AllThere
  <2>3. ASSUME NEW c \in Starters, starter'[c].pc = "members"
        PROVE  \A m \in Members \ starter'[c].todo : records'[starter'[c].plan][m] # "absent"
    <3>1. starter'[c] = starter[c] /\ starter[c].plan \in Plans
      BY <2>3 DEF BatchInv, Goes, UnderWay
    <3>2. \A m \in Members \ starter[c].todo : records[starter[c].plan][m] # "absent"
      BY <2>3, <3>1 DEF BatchInv, MembersThere
    <3> QED
      BY <3>1, <3>2 DEF Onward
  <2> QED
    BY <2>2, <2>3 DEF MembersThere
<1> QED
  BY <1>1, <1>2, <1>3 DEF BatchInv

(* What was cancelled stays so while the records go on and no command comes to spawn. *)
LEMMA ClearedStays ==
  ASSUME BatchInv, \A p \in Plans, m \in Members : Onward(p, m),
         UNCHANGED <<manifest, tombstone>>,
         \A c \in Starters : starter'[c].pc = "spawn" => starter'[c] = starter[c],
         \A p \in Plans, m \in Members :
           records'[p][m] = "reserved" /\ records[p][m] # "reserved" =>
             \E c \in Starters : starter[c].pc = "spawn" /\ starter[c].plan = p
                                    /\ records[p][m] = "accepted"
  PROVE  /\ \A p \in Plans : CalledOff(p) => CalledOff(p)'
         /\ \A p \in Plans, m \in Members : Cleared(p, m) => Cleared(p, m)'
BY DEF CalledOff, Cleared, Onward

(* What was cancelled stays so, if each plan and record does. *)
LEMMA ClearedOf ==
  ASSUME BatchInv, UNCHANGED <<canceller, acked>>,
         \A q \in Plans : CalledOff(q) => CalledOff(q)',
         \A q \in Plans, m \in Members : CalledOff(q) /\ Cleared(q, m) => Cleared(q, m)'
  PROVE  CancelsHold'
<1>1. \A p \in acked : p \in Plans /\ CalledOff(p)' /\ \A m \in Members : Cleared(p, m)'
  BY DEF BatchInv, CancelsHold, BatchTyped
<1>2. ASSUME canceller.pc = "members"
      PROVE  CalledOff(canceller.plan)' /\ \A m \in Members \ canceller.todo : Cleared(canceller.plan, m)'
  <2>1. PICK p \in Plans : p = canceller.plan /\ p = canceller'.plan
    BY <1>2 DEF BatchInv, Goes, UnderWay
  <2>2. CalledOff(p) /\ \A m \in Members \ canceller.todo : Cleared(p, m)
    BY <1>2, <2>1 DEF BatchInv, CancelsHold
  <2>3. CalledOff(p)' /\ \A m \in Members \ canceller.todo : Cleared(p, m)'
    BY <2>2
  <2> QED
    BY <2>1, <2>3 DEF CalledOff, Cleared
<1> QED
  BY <1>1, <1>2 DEF CancelsHold

(* A start that takes the lock, is refused, or looks at the manifest. *)
LEMMA StartersKeep ==
  ASSUME BatchInv, NEW c \in Starters,
         StartRefused(c) \/ StartLook(c) \/ \E p \in Plans : StartLock(c, p)
  PROVE  BatchInv'
<1>1. starter[c] \in Commands /\ (starter[c].pc # "idle" => starter[c].plan \in Plans /\ starter[c].todo # {})
  BY DEF BatchInv, BatchTyped, Goes, UnderWay
<1>2. NoCommand \in Commands /\ NoCommand.pc = "idle"
  BY DEF NoCommand, At, Commands
<1>3. CASE StartRefused(c)
  <2>1. reqLock = c
    BY <1>3 DEF StartRefused, BatchInv, LocksHeld
  <2> QED
    BY <1>2, <1>3, <2>1, StarterMoves DEF StartRefused, BatchInv, BatchTyped
<1>4. CASE StartLook(c)
  <2> DEFINE s == CASE manifest[starter[c].plan] = "active" -> [starter[c] EXCEPT !.pc = "spawn"]
                    [] manifest[starter[c].plan] = "cancelled" -> [starter[c] EXCEPT !.pc = "cancel"]
                    [] OTHER -> NoCommand
  <2>1. starter[c].pc = "look" /\ Become(c, s) /\ UNCHANGED <<files, canceller, collector, locks, history>>
    BY <1>4 DEF StartLook
  <2>2. \/ s = [pc |-> "spawn", plan |-> starter[c].plan, todo |-> starter[c].todo]
           /\ manifest[starter[c].plan] = "active"
        \/ s = [pc |-> "cancel", plan |-> starter[c].plan, todo |-> starter[c].todo]
        \/ s = NoCommand
    BY <1>1 DEF Commands
  <2>3. tombstone = starter[c].plan /\ AllThere(starter[c].plan)
    BY <2>1 DEF BatchInv, BoundOnce, MembersThere
  <2>4. s \in Commands /\ s.pc \in {"spawn", "cancel", "idle"}
        /\ (s.pc # "idle" => s.plan = starter[c].plan /\ s.todo = starter[c].todo)
        /\ (s.pc = "spawn" => manifest[starter[c].plan] = "active")
    BY <1>1, <1>2, <2>2 DEF Commands
  <2> HIDE DEF s
  <2> QED
    BY <1>1, <2>1, <2>3, <2>4, StarterMoves DEF locks, BatchInv, BatchTyped
<1>5. ASSUME NEW p \in Plans, StartLock(c, p) PROVE BatchInv'
  <2>1. At("create", p, Members) \in Commands /\ Members # {}
    BY BatchAssumption DEF At, Commands
  <2> QED
    BY <1>5, <2>1, StarterMoves DEF StartLock, At, BatchInv, BatchTyped
<1> QED
  BY <1>3, <1>4, <1>5

(* A start that creates its manifest: no other is there, and the id is not bound. *)
LEMMA CreateKeeps ==
  ASSUME BatchInv, NEW c \in Starters, StartCreate(c)
  PROVE  BatchInv'
<1> DEFINE p == starter[c].plan
<1>1. /\ starter[c] \in Commands /\ starter[c].pc = "create" /\ p \in Plans
      /\ starter[c].todo # {} /\ starter[c].todo = Members
      /\ reqLock = c
  BY DEF StartCreate, BatchInv, BatchTyped, Goes, UnderWay, LocksHeld
<1>2. /\ starter' \in [Starters -> Commands]
      /\ starter'[c] = [pc |-> "bind", plan |-> p, todo |-> starter[c].todo]
      /\ \A d \in Starters \ {c} : starter'[d] = starter[d]
  BY <1>1 DEF StartCreate, Become, BatchInv, BatchTyped, Commands
<1>3. /\ UNCHANGED <<tombstone, records, canceller, collector, reqLock, manLock, started, again, acked>>
      /\ manifest' \in [Plans -> {"none", "active", "cancelled"}] /\ manifest'[p] # "none"
      /\ \A q \in Plans : manifest'[q] = manifest[q] \/ (q = p /\ manifest[p] = "none")
  BY <1>1 DEF StartCreate, locks, history, BatchInv, BatchTyped
<1>4. /\ \A q \in Plans : manifest[q] # "none" => q = p
      /\ manifest[p] = "none" => tombstone = Nobody
  BY <1>1 DEF StartCreate, Refused, Existing
<1> HIDE DEF p
<1>5. BatchTyped' /\ Goes' /\ LocksHeld'
  <2>1. BatchTyped'
    BY <1>2, <1>3 DEF BatchInv, BatchTyped
  <2>2. Goes'
    BY <1>1, <1>2, <1>3 DEF BatchInv, Goes, UnderWay
  <2>3. LocksHeld'
    BY <1>1, <1>2, <1>3 DEF BatchInv, LocksHeld
  <2> QED
    BY <2>1, <2>2, <2>3
<1>6. BoundOnce'
  <2>1. collector.pc \notin {"unlink"}
    BY <1>1, BatchAssumption DEF BatchInv, LocksHeld, Collector
  <2>2. collector.pc = "delete" => collector.plan \in Plans
    BY DEF BatchInv, Goes, UnderWay
  <2>3. \A q \in Plans : manifest'[q] # "none" => q = p /\ tombstone \in {p, Nobody}
    BY <1>1, <1>3, <1>4 DEF BatchInv, BoundOnce
  <2>4. \A d \in Starters : starter'[d].pc \in {"bind", "members"} => manifest'[starter'[d].plan] # "none"
    <3>1. \A d \in Starters \ {c} : starter[d].pc \notin {"bind", "members"}
      BY <1>1 DEF BatchInv, LocksHeld
    <3> QED
      BY <1>2, <1>3, <3>1
  <2>5. \A d \in Starters : starter'[d].pc \in {"members", "look", "spawn", "cancel"} =>
          tombstone = starter'[d].plan
    BY <1>2 DEF BatchInv, BoundOnce
  <2>6. collector.pc = "delete" => tombstone = collector.plan /\ manifest'[collector.plan] = "none"
    BY <1>1, <1>3, <1>4, <2>2, BatchAssumption DEF BatchInv, BoundOnce
  <2> QED
    BY <1>3, <2>1, <2>3, <2>4, <2>5, <2>6 DEF BatchInv, BoundOnce
<1>7. NotAgain'
  <2>1. \A m \in Members : <<p, m>> \in started => p = tombstone
    BY DEF BatchInv, BoundOnce
  <2> QED
    BY <1>1, <1>3, <1>4, <2>1, BatchAssumption DEF BatchInv, NotAgain
<1>8. MembersThere'
  <2>1. \A d \in Starters : starter'[d].pc \in {"look", "spawn", "cancel", "members"} =>
          starter'[d] = starter[d] /\ starter[d].plan = tombstone /\ starter[d].plan \in Plans
    BY <1>2 DEF BatchInv, BoundOnce, Goes, UnderWay
  <2>2. \A q \in Plans : q = tombstone => manifest'[q] = manifest[q]
    BY <1>3, <1>4, BatchAssumption
  <2> QED
    BY <1>3, <2>1, <2>2 DEF BatchInv, MembersThere, AllThere
<1>9. CancelsHold'
  <2>1. \A q \in Plans : CalledOff(q) => CalledOff(q)'
    BY <1>3, <1>4, BatchAssumption DEF CalledOff
  <2>2. \A q \in Plans, m \in Members : Cleared(q, m) => Cleared(q, m)'
    BY <1>2, <1>3 DEF Cleared
  <2> QED
    BY <1>3, <2>1, <2>2, ClearedOf
<1> QED
  BY <1>5, <1>6, <1>7, <1>8, <1>9 DEF BatchInv

(* The request id is bound by who holds its lock, to the plan whose manifest is there. *)
LEMMA BoundIs ==
  ASSUME BatchInv, NEW p \in Plans, manifest[p] # "none"
  PROVE  Bound(p) = p /\ tombstone \in {p, Nobody}
BY DEF BatchInv, BoundOnce, Bound

(* What a binding changes: nothing was recorded before. *)
LEMMA BindKeeps ==
  ASSUME BatchInv, NEW p \in Plans, manifest[p] # "none", tombstone' = Bound(p),
         UNCHANGED <<manifest, records, history, canceller>>
  PROVE  /\ tombstone' = p /\ NotAgain' /\ CalledOff(p)' = CalledOff(p)
         /\ \A q \in Plans : manifest[q] # "none" => tombstone' \in {q, Nobody}
         /\ \A q \in Plans, m \in Members : records[q][m] # "absent" => tombstone' = q
         /\ \A x \in started : x[1] = tombstone'
         /\ \A q \in Plans : tombstone = q => tombstone' = q
         /\ \A q \in Plans : CalledOff(q) => CalledOff(q)'
<1>1. tombstone' = p /\ tombstone \in {p, Nobody}
  BY BoundIs
<1>2. NotAgain'
  BY DEF BatchInv, NotAgain, history
<1>3. \A q \in Plans : manifest[q] # "none" => q = p
  BY DEF BatchInv, BoundOnce
<1>4. \A q \in Plans : tombstone = q => tombstone' = q
  BY <1>1, BatchAssumption
<1>5. \A x \in started : x[1] = tombstone'
  BY <1>4 DEF BatchInv, BoundOnce, BatchTyped
<1>6. \A q \in Plans, m \in Members : records[q][m] # "absent" => tombstone' = q
  BY <1>4 DEF BatchInv, BoundOnce
<1>7. \A q \in Plans : CalledOff(q) => CalledOff(q)'
  BY <1>4 DEF CalledOff
<1> QED
  BY <1>1, <1>2, <1>3, <1>4, <1>5, <1>6, <1>7 DEF CalledOff

(* A start that binds the request id to its plan. *)
LEMMA BindingKeeps ==
  ASSUME BatchInv, NEW c \in Starters, StartBind(c)
  PROVE  BatchInv'
<1> DEFINE p == starter[c].plan
<1>1. /\ starter[c] \in Commands /\ starter[c].pc = "bind" /\ p \in Plans /\ starter[c].todo # {}
      /\ reqLock = c /\ manifest[p] # "none"
  BY DEF StartBind, BatchInv, BatchTyped, Goes, UnderWay, LocksHeld, BoundOnce
<1>2. /\ starter' \in [Starters -> Commands]
      /\ starter'[c] = [pc |-> "members", plan |-> p, todo |-> starter[c].todo]
      /\ \A d \in Starters \ {c} : starter'[d] = starter[d]
  BY <1>1 DEF StartBind, Become, BatchInv, BatchTyped, Commands
<1>3. UNCHANGED <<manifest, records, canceller, collector, reqLock, started, again, acked>>
  BY DEF StartBind, history
<1>4. /\ tombstone' = p /\ NotAgain'
      /\ \A q \in Plans : manifest[q] # "none" => tombstone' \in {q, Nobody}
      /\ \A q \in Plans, m \in Members : records[q][m] # "absent" => tombstone' = q
      /\ \A x \in started : x[1] = tombstone'
      /\ \A q \in Plans : tombstone = q => tombstone' = q
      /\ \A q \in Plans : CalledOff(q) => CalledOff(q)'
  BY <1>1, BindKeeps DEF StartBind
<1>5. starter[c].todo = Members
  BY <1>1 DEF BatchInv, Goes
<1>6. manLock' \in [Plans -> Starters \cup {Collector, Nobody}]
  BY DEF StartBind, BatchInv, BatchTyped
<1> HIDE DEF p
<1>7. BatchTyped' /\ Goes' /\ LocksHeld'
  <2>1. BatchTyped'
    BY <1>1, <1>2, <1>3, <1>4, <1>6 DEF BatchInv, BatchTyped
  <2>2. Goes'
    BY <1>1, <1>2, <1>3 DEF BatchInv, Goes, UnderWay
  <2>3. LocksHeld'
    BY <1>1, <1>2, <1>3 DEF BatchInv, LocksHeld
  <2> QED
    BY <2>1, <2>2, <2>3
<1>8. BoundOnce'
  <2>1. collector.pc \notin {"unlink"}
    BY <1>1, BatchAssumption DEF BatchInv, LocksHeld, Collector
  <2>2. collector.pc = "delete" => collector.plan \in Plans
    BY DEF BatchInv, Goes, UnderWay
  <2>3. \A d \in Starters : starter'[d].pc \in {"members", "look", "spawn", "cancel"} =>
          tombstone' = starter'[d].plan
    BY <1>2, <1>4 DEF BatchInv, BoundOnce, Goes, UnderWay
  <2>4. \A d \in Starters : starter'[d].pc \in {"bind", "members"} => manifest[starter'[d].plan] # "none"
    BY <1>1, <1>2 DEF BatchInv, BoundOnce
  <2> QED
    BY <1>3, <1>4, <2>1, <2>2, <2>3, <2>4 DEF BatchInv, BoundOnce
<1>9. MembersThere'
  BY <1>2, <1>3, <1>5 DEF BatchInv, MembersThere, AllThere
<1>10. \A q \in Plans, m \in Members : Cleared(q, m) => Cleared(q, m)'
  BY <1>2, <1>3 DEF Cleared
<1>11. CancelsHold'
  BY <1>3, <1>4, <1>10, ClearedOf
<1> QED
  BY <1>4, <1>7, <1>8, <1>9, <1>11 DEF BatchInv

(* A start that creates the records, under its locks. *)
LEMMA RecordingKeeps ==
  ASSUME BatchInv, NEW c \in Starters, StartMember(c)
  PROVE  BatchInv'
<1>1. PICK p \in Plans :
        /\ p = starter[c].plan
        /\ starter[c] \in Commands /\ starter[c].pc = "members" /\ starter[c].todo # {}
        /\ reqLock = c /\ manifest[p] # "none" /\ tombstone = p
  BY DEF StartMember, BatchInv, BatchTyped, Goes, UnderWay, LocksHeld, BoundOnce
<1>2. PICK m \in Members : m = First(starter[c].todo) /\ m \in starter[c].todo
  BY <1>1, FirstIsOne DEF Commands
<1> DEFINE st == IF records[p][m] = "absent" THEN "accepted" ELSE records[p][m]
<1>3. st \in RecordStatuses /\ records[p][m] \in RecordStatuses
  BY <1>1, <1>2 DEF BatchInv, BatchTyped, RecordStatuses
<1>4. /\ records' \in [Plans -> [Members -> RecordStatuses]] /\ records'[p][m] = st
      /\ \A q \in Plans, n \in Members : q # p \/ n # m => records'[q][n] = records[q][n]
  BY <1>1, <1>2, <1>3, OneRecord DEF StartMember, BatchInv
<1>5. UNCHANGED <<manifest, tombstone, canceller, collector, started, again, acked>>
  BY DEF StartMember, history
<1>6. /\ starter' \in [Starters -> Commands]
      /\ \/ /\ starter'[c] = [pc |-> "look", plan |-> p, todo |-> Members]
            /\ starter[c].todo = {m}
         \/ /\ starter'[c] = [pc |-> "members", plan |-> p, todo |-> starter[c].todo \ {m}]
            /\ starter[c].todo \ {m} # {} /\ reqLock' = reqLock
      /\ \A d \in Starters \ {c} : starter'[d] = starter[d]
  <2>1. CASE starter[c].todo = {m}
    <3>1. Become(c, At("look", p, Members))
      BY <1>1, <1>2, <2>1 DEF StartMember
    <3>2. At("look", p, Members) \in Commands
      BY <1>1 DEF At, Commands
    <3> QED
      BY <2>1, <3>1, <3>2 DEF Become, At, BatchInv, BatchTyped
  <2>2. CASE starter[c].todo # {m}
    <3>1. Become(c, Rest(starter[c], "members")) /\ reqLock' = reqLock
      BY <1>1, <1>2, <2>2 DEF StartMember
    <3>2. /\ Rest(starter[c], "members") =
               [pc |-> "members", plan |-> p, todo |-> starter[c].todo \ {m}]
          /\ starter[c].todo \ {m} # {}
      BY <1>1, <1>2, <2>2, RestIs DEF Commands
    <3>3. Rest(starter[c], "members") \in Commands
      BY <1>1, <3>2 DEF Commands
    <3> QED
      BY <3>1, <3>2, <3>3 DEF Become, BatchInv, BatchTyped
  <2> QED
    BY <2>1, <2>2
<1>7. reqLock' \in {reqLock, Nobody} /\ manLock' \in [Plans -> Starters \cup {Collector, Nobody}]
  BY DEF StartMember, BatchInv, BatchTyped
<1>8. \/ records[p][m] = "absent" /\ st = "accepted"
      \/ records[p][m] # "absent" /\ st = records[p][m]
  OBVIOUS
<1> HIDE DEF st
<1>9. BatchTyped'
  BY <1>4, <1>5, <1>6, <1>7 DEF BatchInv, BatchTyped, RecordStatuses
<1>10. Goes'
  BY <1>1, <1>5, <1>6, BatchAssumption DEF BatchInv, Goes, UnderWay
<1>11. LocksHeld'
  BY <1>1, <1>5, <1>6, <1>7, BatchAssumption DEF BatchInv, LocksHeld, Collector
<1>12. BoundOnce'
  <2>1. \A q \in Plans, n \in Members : records'[q][n] # "absent" => tombstone = q
    BY <1>1, <1>4 DEF BatchInv, BoundOnce
  <2>2. \A d \in Starters :
          /\ starter'[d].pc \in {"bind", "members"} => manifest[starter'[d].plan] # "none"
          /\ starter'[d].pc \in {"members", "look", "spawn", "cancel"} => tombstone = starter'[d].plan
    BY <1>1, <1>6 DEF BatchInv, BoundOnce
  <2> QED
    BY <1>5, <2>1, <2>2 DEF BatchInv, BoundOnce
<1>13. NotAgain'
  <2>1. <<p, m>> \in started => records[p][m] \in {"running", "over"}
    BY <1>1, <1>2 DEF BatchInv, NotAgain
  <2>2. ASSUME NEW q \in Plans, NEW n \in Members, <<q, n>> \in started
        PROVE  \/ records'[q][n] \in {"running", "over"}
               \/ records'[q][n] = "absent" /\ manifest[q] = "none"
    <3>1. CASE q = p /\ n = m
      BY <1>4, <1>8, <2>1, <2>2, <3>1
    <3>2. CASE q # p \/ n # m
      BY <1>4, <2>2, <3>2 DEF BatchInv, NotAgain
    <3> QED
      BY <3>1, <3>2
  <2> QED
    BY <1>5, <2>2 DEF BatchInv, NotAgain
<1>14. \A q \in Plans, n \in Members : records[q][n] # "absent" => records'[q][n] # "absent"
  BY <1>4, <1>8
<1>15. MembersThere'
  <2>1. \A n \in Members \ starter[c].todo : records'[p][n] # "absent"
    BY <1>1, <1>14 DEF BatchInv, MembersThere
  <2>2. records'[p][m] # "absent"
    BY <1>4, <1>8
  <2>3. ASSUME NEW d \in Starters \ {c}, starter[d].pc \in {"look", "spawn", "cancel"}
        PROVE  manifest[starter[d].plan] = "none" \/ \A n \in Members : records'[starter[d].plan][n] # "absent"
    <3>1. starter[d].plan \in Plans /\ AllThere(starter[d].plan)
      BY <2>3 DEF BatchInv, MembersThere, Goes, UnderWay
    <3> QED
      BY <1>14, <3>1 DEF AllThere
  <2>4. ASSUME NEW d \in Starters \ {c}, starter[d].pc = "members"
        PROVE  \A n \in Members \ starter[d].todo : records'[starter[d].plan][n] # "absent"
    <3>1. starter[d].plan \in Plans
          /\ \A n \in Members \ starter[d].todo : records[starter[d].plan][n] # "absent"
      BY <2>4 DEF BatchInv, MembersThere, Goes, UnderWay
    <3> QED
      BY <1>14, <3>1
  <2> QED
    BY <1>5, <1>6, <2>1, <2>2, <2>3, <2>4 DEF MembersThere, AllThere
<1>16. \A q \in Plans, n \in Members : Cleared(q, n) => Cleared(q, n)'
  <2>1. ASSUME NEW d \in Starters, starter[d].pc = "spawn", starter[d].plan = p
        PROVE  records[p][m] # "absent"
    BY <1>1, <1>2, <2>1 DEF BatchInv, MembersThere, AllThere
  <2>2. \A d \in Starters : starter'[d].pc = "spawn" => starter'[d] = starter[d]
    BY <1>6
  <2>3. Cleared(p, m) => Cleared(p, m)'
    BY <1>4, <1>8, <2>1, <2>2 DEF Cleared
  <2>4. \A q \in Plans, n \in Members : (q # p \/ n # m) /\ Cleared(q, n) => Cleared(q, n)'
    BY <1>4, <2>2 DEF Cleared
  <2> QED
    BY <2>3, <2>4
<1>17. CancelsHold'
  BY <1>5, <1>16, ClearedOf DEF CalledOff
<1> QED
  BY <1>9, <1>10, <1>11, <1>12, <1>13, <1>15, <1>17 DEF BatchInv

(* A starter that cancels or spawns a member. *)
LEMMA StarterWorks ==
  ASSUME BatchInv, NEW c \in Starters, StartCancels(c) \/ StartSpawn(c)
  PROVE  BatchInv'
<1>1. PICK p \in Plans :
        /\ p = starter[c].plan /\ starter[c] \in Commands
        /\ starter[c].pc \in {"cancel", "spawn"} /\ starter[c].todo # {}
  BY DEF StartCancels, StartSpawn, BatchInv, BatchTyped, Goes, UnderWay
<1>2. PICK m \in Members : m = First(starter[c].todo) /\ m \in starter[c].todo
  BY <1>1, FirstIsOne DEF Commands
<1>3. records[p][m] \in RecordStatuses /\ records \in [Plans -> [Members -> RecordStatuses]]
  BY <1>1, <1>2 DEF BatchInv, BatchTyped, RecordStatuses
<1>4. PICK st \in RecordStatuses :
        /\ SetRun(p, m, st)
        /\ \/ st = records[p][m]
           \/ records[p][m] \in {"accepted", "reserved"} /\ st = "over"
           \/ starter[c].pc = "spawn" /\ records[p][m] = "accepted" /\ st = "reserved"
  <2>1. CASE StartCancels(c)
    <3>1. AfterCancel(records[p][m]) \in RecordStatuses
      BY <1>3 DEF AfterCancel, RecordStatuses
    <3> QED
      BY <1>1, <1>2, <2>1, <3>1 DEF StartCancels, AfterCancel
  <2>2. CASE StartSpawn(c) /\ records[p][m] = "accepted"
    <3>1. PICK status \in {"reserved", "over"} : SetRun(p, m, status)
      BY <1>1, <1>2, <2>2 DEF StartSpawn, SetRun
    <3>2. starter[c].pc = "spawn"
      BY <2>2 DEF StartSpawn
    <3> QED
      BY <2>2, <3>1, <3>2 DEF RecordStatuses, SetRun
  <2>3. CASE StartSpawn(c) /\ records[p][m] # "accepted"
    <3>1. UNCHANGED records
      BY <1>1, <1>2, <2>3 DEF StartSpawn
    <3>2. SetRun(p, m, records[p][m])
      BY <1>1, <1>2, <1>3, <3>1 DEF SetRun
    <3> QED
      BY <1>3, <3>2
  <2> QED
    BY <2>1, <2>2, <2>3
<1>5. /\ records' \in [Plans -> [Members -> RecordStatuses]] /\ records'[p][m] = st
      /\ \A q \in Plans, n \in Members : q # p \/ n # m => records'[q][n] = records[q][n]
  BY <1>1, <1>2, <1>4, OneRecord DEF BatchInv
<1>6. UNCHANGED <<manifest, tombstone, canceller, collector, started, again, acked, reqLock, manLock>>
  BY DEF StartCancels, StartSpawn, history, locks
<1>7. PICK s \in {NoCommand, Rest(starter[c], "look")} : Become(c, s)
  BY DEF StartCancels, StartSpawn
<1>8. /\ s \in Commands
      /\ \/ s.pc = "idle"
         \/ s.pc = "look" /\ s.plan = p /\ s.todo # {}
  BY <1>1, RestIs DEF Commands, NoCommand, At
<1>9. /\ starter' \in [Starters -> Commands] /\ starter'[c] = s
      /\ \A d \in Starters \ {c} : starter'[d] = starter[d]
  BY <1>7, <1>8 DEF Become, BatchInv, BatchTyped
<1>10. \A q \in Plans, n \in Members : Onward(q, n)
  <2>1. Onward(p, m)
    BY <1>4, <1>5 DEF Onward, RecordStatuses
  <2>2. \A q \in Plans, n \in Members : (q # p \/ n # m) => Onward(q, n)
    BY <1>3, <1>5 DEF Onward
  <2> QED
    BY <2>1, <2>2
<1>11. BatchTyped' /\ Goes' /\ LocksHeld'
  <2>1. BatchTyped'
    BY <1>5, <1>6, <1>9 DEF BatchInv, BatchTyped, RecordStatuses
  <2>2. Goes'
    BY <1>1, <1>6, <1>8, <1>9 DEF BatchInv, Goes, UnderWay
  <2>3. LocksHeld'
    BY <1>6, <1>8, <1>9 DEF BatchInv, LocksHeld
  <2> QED
    BY <2>1, <2>2, <2>3
<1>12. \A q \in Plans, n \in Members :
         records'[q][n] = "reserved" /\ records[q][n] # "reserved" =>
           starter[c].pc = "spawn" /\ starter[c].plan = q /\ records[q][n] = "accepted"
  BY <1>1, <1>4, <1>5
<1>13. CancelsHold'
  <2>1. \A d \in Starters : starter'[d].pc = "spawn" => starter'[d] = starter[d]
    BY <1>8, <1>9
  <2> QED
    BY <1>6, <1>10, <1>12, <2>1, ClearedStays, ClearedOf
<1> QED
  BY <1>1, <1>6, <1>8, <1>9, <1>10, <1>11, <1>12, <1>13, RecordsGoOn

(* A worker that gives its verdict. *)
LEMMA EndKeeps ==
  ASSUME BatchInv, NEW p \in Plans, NEW m \in Members, MemberEnds(p, m)
  PROVE  BatchInv'
<1>1. /\ records' \in [Plans -> [Members -> RecordStatuses]] /\ records'[p][m] = "over"
      /\ \A q \in Plans, n \in Members : q # p \/ n # m => records'[q][n] = records[q][n]
  BY OneRecord DEF MemberEnds, RecordStatuses, BatchInv
<1>2. /\ UNCHANGED <<manifest, tombstone, starter, canceller, collector, locks, history>>
      /\ records[p][m] \in {"reserved", "running"}
  BY DEF MemberEnds
<1>3. \A q \in Plans, n \in Members : Onward(q, n)
  BY <1>1, <1>2 DEF Onward, RecordStatuses, BatchInv, BatchTyped
<1>4. BatchTyped' /\ Goes' /\ LocksHeld'
  BY <1>1, <1>2 DEF BatchInv, BatchTyped, Goes, UnderWay, LocksHeld, RecordStatuses, locks, history
<1>5. \A q \in Plans, n \in Members :
        ~(records'[q][n] = "reserved" /\ records[q][n] # "reserved")
  BY <1>1
<1>6. CancelsHold'
  <2>1. \A q \in Plans, n \in Members : Cleared(q, n) => Cleared(q, n)'
    BY <1>2, <1>3, <1>5, ClearedStays
  <2> QED
    BY <1>2, <2>1, ClearedOf DEF CalledOff, history
<1> QED
  BY <1>2, <1>3, <1>4, <1>5, <1>6, RecordsGoOn DEF history

(* A worker that begins: the member was not executed before, and not cancelled. *)
LEMMA BeginKeeps ==
  ASSUME BatchInv, NEW p \in Plans, NEW m \in Members, ClaimMember(p, m)
  PROVE  BatchInv'
<1>1. /\ records' \in [Plans -> [Members -> RecordStatuses]] /\ records'[p][m] = "running"
      /\ \A q \in Plans, n \in Members : q # p \/ n # m => records'[q][n] = records[q][n]
  BY OneRecord DEF ClaimMember, RecordStatuses, BatchInv
<1>2. /\ UNCHANGED <<manifest, tombstone, starter, canceller, collector, locks, acked>>
      /\ records[p][m] = "reserved" /\ started' = started \cup {<<p, m>>}
      /\ again' = (again \/ <<p, m>> \in started)
  BY DEF ClaimMember
<1>3. <<p, m>> \notin started /\ tombstone = p
  BY <1>2 DEF BatchInv, NotAgain, BoundOnce
<1>4. BatchTyped'
  BY <1>1, <1>2, <1>3 DEF BatchInv, BatchTyped, RecordStatuses, locks, NotAgain
<1>5. Goes' /\ LocksHeld'
  BY <1>2 DEF BatchInv, Goes, UnderWay, LocksHeld, locks
<1>6. \A q \in Plans, n \in Members : records'[q][n] = "absent" <=> records[q][n] = "absent"
  BY <1>1, <1>2
<1>7. BoundOnce'
  <2>1. \A q \in Plans, n \in Members : records'[q][n] # "absent" => tombstone = q
    BY <1>6 DEF BatchInv, BoundOnce
  <2>2. \A x \in started' : x[1] = tombstone
    BY <1>2, <1>3 DEF BatchInv, BoundOnce
  <2> QED
    BY <1>2, <2>1, <2>2 DEF BatchInv, BoundOnce
<1>8. NotAgain'
  <2>1. again' = FALSE
    BY <1>2, <1>3 DEF BatchInv, NotAgain
  <2>2. ASSUME NEW q \in Plans, NEW n \in Members, <<q, n>> \in started'
        PROVE  \/ records'[q][n] \in {"running", "over"}
               \/ records'[q][n] = "absent" /\ manifest[q] = "none"
    <3>1. CASE q = p /\ n = m
      BY <1>1, <3>1
    <3>2. CASE q # p \/ n # m
      <4>1. <<q, n>> \in started /\ records'[q][n] = records[q][n]
        BY <1>1, <1>2, <2>2, <3>2
      <4> QED
        BY <4>1 DEF BatchInv, NotAgain
    <3> QED
      BY <3>1, <3>2
  <2> QED
    BY <1>2, <2>1, <2>2 DEF NotAgain
<1>9. MembersThere'
  <2>1. ASSUME NEW d \in Starters, starter[d].pc \in {"look", "spawn", "cancel"}
        PROVE  manifest[starter[d].plan] = "none" \/ \A n \in Members : records'[starter[d].plan][n] # "absent"
    <3>1. starter[d].plan \in Plans /\ AllThere(starter[d].plan)
      BY <2>1 DEF BatchInv, MembersThere, Goes, UnderWay
    <3> QED
      BY <1>6, <3>1 DEF AllThere
  <2>2. ASSUME NEW d \in Starters, starter[d].pc = "members"
        PROVE  \A n \in Members \ starter[d].todo : records'[starter[d].plan][n] # "absent"
    <3>1. starter[d].plan \in Plans
          /\ \A n \in Members \ starter[d].todo : records[starter[d].plan][n] # "absent"
      BY <2>2 DEF BatchInv, MembersThere, Goes, UnderWay
    <3> QED
      BY <1>6, <3>1
  <2> QED
    BY <1>2, <2>1, <2>2 DEF MembersThere, AllThere
<1>10. CancelsHold'
  <2>1. ASSUME NEW q \in Plans, NEW n \in Members, Cleared(q, n) PROVE Cleared(q, n)'
    <3>1. q # p \/ n # m
      BY <1>2, <2>1 DEF Cleared
    <3>2. records'[q][n] = records[q][n]
      BY <1>1, <3>1
    <3> QED
      BY <1>2, <2>1, <3>2 DEF Cleared
  <2> QED
    BY <1>2, <2>1, ClearedOf DEF CalledOff
<1> QED
  BY <1>4, <1>5, <1>7, <1>8, <1>9, <1>10 DEF BatchInv

(* The cancellation: the flag is set first. *)
LEMMA FlagKeeps ==
  ASSUME BatchInv, NEW p \in Plans, CancelFlag(p)
  PROVE  BatchInv'
<1>1. /\ manifest[p] # "none" /\ manifest' \in [Plans -> {"none", "active", "cancelled"}]
      /\ manifest'[p] = "cancelled" /\ \A q \in Plans \ {p} : manifest'[q] = manifest[q]
      /\ canceller' = [pc |-> "members", plan |-> p, todo |-> Members]
      /\ UNCHANGED <<tombstone, records, starter, collector, locks, history>>
  BY DEF CancelFlag, At, BatchInv, BatchTyped
<1>2. \A q \in Plans : manifest'[q] = "none" <=> manifest[q] = "none"
  BY <1>1
<1>3. BatchTyped' /\ Goes' /\ LocksHeld'
  BY <1>1, BatchAssumption DEF BatchInv, BatchTyped, Goes, UnderWay, LocksHeld, locks, history
<1>4. BoundOnce'
  <2>1. /\ \A d \in Starters : starter[d].pc \in {"bind", "members"} => starter[d].plan \in Plans
        /\ collector.pc = "delete" => collector.plan \in Plans
    BY DEF BatchInv, Goes, UnderWay
  <2> QED
    BY <1>1, <1>2, <2>1 DEF BatchInv, BoundOnce, history
<1>5. NotAgain'
  BY <1>1, <1>2 DEF BatchInv, NotAgain, history
<1>6. MembersThere'
  <2>1. \A d \in Starters : starter[d].pc \in {"look", "spawn", "cancel"} => starter[d].plan \in Plans
    BY DEF BatchInv, Goes, UnderWay
  <2> QED
    BY <1>1, <1>2, <2>1 DEF BatchInv, MembersThere, AllThere
<1>7. CancelsHold'
  <2>1. \A q \in Plans : CalledOff(q) => CalledOff(q)'
    BY <1>1 DEF CalledOff
  <2>2. \A q \in Plans, n \in Members : Cleared(q, n) => Cleared(q, n)'
    BY <1>1 DEF Cleared
  <2>3. \A q \in acked : q \in Plans /\ CalledOff(q)' /\ \A n \in Members : Cleared(q, n)'
    BY <2>1, <2>2 DEF BatchInv, CancelsHold, BatchTyped
  <2>4. CalledOff(p)'
    BY <1>1 DEF CalledOff
  <2> QED
    BY <1>1, <2>3, <2>4 DEF CancelsHold, history, CalledOff
<1> QED
  BY <1>3, <1>4, <1>5, <1>6, <1>7 DEF BatchInv

(* Then every member, and the answer after the last. *)
LEMMA CancellingKeeps ==
  ASSUME BatchInv, CancelMember
  PROVE  BatchInv'
<1>1. PICK p \in Plans :
        /\ p = canceller.plan /\ canceller.pc = "members"
        /\ canceller.todo \in SUBSET Members /\ canceller.todo # {}
  BY DEF CancelMember, BatchInv, BatchTyped, Goes, UnderWay
<1>2. PICK m \in Members : m = First(canceller.todo) /\ m \in canceller.todo
  BY <1>1, FirstIsOne
<1>3. records[p][m] \in RecordStatuses /\ AfterCancel(records[p][m]) \in RecordStatuses
  BY DEF BatchInv, BatchTyped, AfterCancel, RecordStatuses
<1>4. /\ records' \in [Plans -> [Members -> RecordStatuses]]
      /\ records'[p][m] = AfterCancel(records[p][m])
      /\ \A q \in Plans, n \in Members : q # p \/ n # m => records'[q][n] = records[q][n]
  <2>1. SetRun(p, m, AfterCancel(records[p][m]))
    BY <1>1, <1>2 DEF CancelMember, SetRun
  <2> QED
    BY <1>3, <2>1, OneRecord DEF BatchInv
<1>5. /\ UNCHANGED <<manifest, tombstone, starter, collector, locks, started, again>>
      /\ canceller' = Rest(canceller, "members")
      /\ acked' = IF canceller' = NoCommand THEN acked \cup {p} ELSE acked
  BY <1>1 DEF CancelMember
<1>6. \/ canceller' = NoCommand /\ canceller.todo = {m}
      \/ /\ canceller' = [pc |-> "members", plan |-> p, todo |-> canceller.todo \ {m}]
         /\ canceller.todo \ {m} # {}
  BY <1>1, <1>2, <1>5, RestIs
<1>7. \A q \in Plans, n \in Members : Onward(q, n)
  BY <1>3, <1>4 DEF Onward, AfterCancel, RecordStatuses, BatchInv, BatchTyped
<1>8. /\ BatchTyped' /\ Goes' /\ LocksHeld'
  BY <1>1, <1>4, <1>5, <1>6
     DEF BatchInv, BatchTyped, Goes, UnderWay, LocksHeld, locks, NoCommand, At, RecordStatuses
<1>9. \A q \in Plans, n \in Members :
        ~(records'[q][n] = "reserved" /\ records[q][n] # "reserved")
  BY <1>3, <1>4 DEF AfterCancel
<1>10. /\ \A q \in Plans : CalledOff(q) => CalledOff(q)'
       /\ \A q \in Plans, n \in Members : Cleared(q, n) => Cleared(q, n)'
  BY <1>5, <1>7, <1>9, ClearedStays
<1>11. CalledOff(p)' /\ \A n \in (Members \ canceller.todo) \cup {m} : Cleared(p, n)'
  <2>1. CalledOff(p)' /\ \A n \in Members \ canceller.todo : Cleared(p, n)'
    BY <1>1, <1>10 DEF BatchInv, CancelsHold
  <2>2. Cleared(p, m)'
    BY <1>3, <1>4 DEF Cleared, AfterCancel
  <2> QED
    BY <2>1, <2>2
<1>12. CancelsHold'
  <2>1. \A q \in acked : q \in Plans /\ CalledOff(q)' /\ \A n \in Members : Cleared(q, n)'
    BY <1>10 DEF BatchInv, CancelsHold, BatchTyped
  <2>2. CASE canceller' = NoCommand /\ canceller.todo = {m}
    <3>1. \A n \in Members : Cleared(p, n)'
      BY <1>11, <2>2
    <3> QED
      BY <1>5, <1>11, <2>1, <2>2, <3>1 DEF CancelsHold, NoCommand, At
  <2>3. CASE /\ canceller' = [pc |-> "members", plan |-> p, todo |-> canceller.todo \ {m}]
             /\ canceller.todo \ {m} # {}
    <3>1. acked' = acked /\ canceller'.plan = p /\ canceller'.todo = canceller.todo \ {m}
      BY <1>5, <2>3 DEF NoCommand, At
    <3>2. \A n \in Members \ canceller'.todo : Cleared(p, n)'
      BY <1>11, <3>1
    <3> QED
      BY <1>11, <2>1, <3>1, <3>2 DEF CancelsHold, CalledOff, Cleared
  <2> QED
    BY <1>6, <2>2, <2>3
<1> QED
  BY <1>5, <1>7, <1>8, <1>9, <1>12, RecordsGoOn

(* A collection that changes nothing but itself and what it holds. *)
LEMMA CollectorMoves ==
  ASSUME BatchInv, UNCHANGED <<files, starter, canceller, history>>, BatchTyped',
         reqLock' = reqLock \/ {reqLock, reqLock'} \subseteq {Collector, Nobody},
         UnderWay(collector)', collector'.pc = "delete" => collector'.todo # {},
         collector'.pc \in {"second", "manifest", "unlink"} => reqLock' = Collector,
         collector'.pc \in {"unlink", "delete"} => tombstone = collector'.plan,
         collector'.pc = "delete" => manifest[collector'.plan] = "none"
  PROVE  BatchInv'
<1>1. Goes'
  BY DEF BatchInv, Goes, UnderWay
<1>2. LocksHeld'
  BY BatchAssumption DEF BatchInv, LocksHeld, Collector
<1>3. BoundOnce'
  BY DEF BatchInv, BoundOnce, files, history
<1>4. NotAgain' /\ MembersThere'
  BY DEF BatchInv, NotAgain, MembersThere, AllThere, files, history
<1>5. CancelsHold'
  <2>1. /\ \A q \in Plans : CalledOff(q) => CalledOff(q)'
        /\ \A q \in Plans, n \in Members : Cleared(q, n) => Cleared(q, n)'
    BY DEF CalledOff, Cleared, files
  <2> QED
    BY <2>1, ClearedOf DEF history
<1> QED
  BY <1>1, <1>2, <1>3, <1>4, <1>5 DEF BatchInv

(* A collection that looks, takes its locks, or finds the batch changed. *)
LEMMA CollectorKeeps ==
  ASSUME BatchInv, GcLocks \/ GcBlocked \/ \E p \in Plans : GcLook(p)
  PROVE  BatchInv'
<1>1. /\ collector \in [pc : {"idle", "request", "second", "manifest", "unlink", "delete"},
                        plan : Plans \cup {Nobody}, todo : SUBSET Members]
      /\ UnderWay(collector)
  BY DEF BatchInv, BatchTyped, Goes
<1>2. CASE GcLocks
  <2>1. /\ UNCHANGED <<files, starter, canceller, history>>
        /\ \/ /\ collector' = [collector EXCEPT !.pc = "second"] /\ collector.pc = "request"
              /\ reqLock = Nobody /\ reqLock' = Collector /\ manLock' = manLock
           \/ /\ collector' = [collector EXCEPT !.pc = "manifest"] /\ collector.pc = "second"
              /\ reqLock' = reqLock /\ manLock' = [manLock EXCEPT ![collector.plan] = Collector]
    BY <1>2 DEF GcLocks
  <2>2. /\ collector'.pc \in {"second", "manifest"} /\ collector'.plan = collector.plan
        /\ collector' \in [pc : {"idle", "request", "second", "manifest", "unlink", "delete"},
                           plan : Plans \cup {Nobody}, todo : SUBSET Members]
    BY <1>1, <2>1
  <2>3. BatchTyped'
    BY <2>1, <2>2 DEF BatchInv, BatchTyped, files, history
  <2>4. reqLock' = Collector
    BY <2>1 DEF BatchInv, LocksHeld
  <2> QED
    BY <1>1, <2>1, <2>2, <2>3, <2>4, CollectorMoves DEF UnderWay
<1>3. CASE GcBlocked
  <2>1. /\ UNCHANGED <<files, starter, canceller, history>> /\ collector' = NoCommand
        /\ reqLock = Collector /\ reqLock' = Nobody
        /\ manLock' = [manLock EXCEPT ![collector.plan] = Nobody]
    BY <1>3 DEF GcBlocked, GcUnlock, BatchInv, LocksHeld
  <2>2. BatchTyped'
    BY <2>1 DEF BatchInv, BatchTyped, files, history, NoCommand, At
  <2> QED
    BY <2>1, <2>2, CollectorMoves DEF UnderWay, NoCommand, At
<1>4. ASSUME NEW p \in Plans, GcLook(p) PROVE BatchInv'
  <2> DEFINE there == {m \in Members : records[p][m] # "absent"}
  <2>1. /\ UNCHANGED <<files, starter, canceller, locks, history>>
        /\ collector' = [pc |-> IF manifest[p] = "none" THEN "delete" ELSE "request",
                         plan |-> p, todo |-> there]
        /\ \E m \in Members : records[p][m] # "absent" \/ manifest[p] # "none"
    BY <1>4 DEF GcLook, At
  <2>2. BatchTyped'
    BY <2>1 DEF BatchInv, BatchTyped, files, history, locks
  <2>3. collector'.pc = "delete" => manifest[p] = "none" /\ there # {}
    BY <2>1
  <2>4. there # {} => tombstone = p
    BY DEF BatchInv, BoundOnce
  <2> HIDE DEF there
  <2> QED
    BY <2>1, <2>2, <2>3, <2>4, CollectorMoves DEF UnderWay, locks
<1> QED
  BY <1>2, <1>3, <1>4

(* A collection that heals the binding, while it holds the lock of the request. *)
LEMMA HealKeeps ==
  ASSUME BatchInv, GcBind
  PROVE  BatchInv'
<1>1. PICK p \in Plans :
        /\ p = collector.plan /\ collector.pc = "manifest" /\ reqLock = Collector
        /\ manifest[p] # "none"
  BY DEF GcBind, BatchInv, Goes, UnderWay, LocksHeld
<1>2. /\ tombstone' = Bound(p)
      /\ collector' = [pc |-> "unlink", plan |-> p, todo |-> collector.todo]
      /\ UNCHANGED <<manifest, records, starter, canceller, locks, history>>
  BY <1>1 DEF GcBind, BatchInv, BatchTyped
<1>3. /\ tombstone' = p /\ NotAgain'
      /\ \A q \in Plans : manifest[q] # "none" => tombstone' \in {q, Nobody}
      /\ \A q \in Plans, m \in Members : records[q][m] # "absent" => tombstone' = q
      /\ \A x \in started : x[1] = tombstone'
      /\ \A q \in Plans : tombstone = q => tombstone' = q
      /\ \A q \in Plans : CalledOff(q) => CalledOff(q)'
  BY <1>1, <1>2, BindKeeps
<1>4. BatchTyped' /\ Goes' /\ LocksHeld'
  BY <1>1, <1>2, <1>3 DEF BatchInv, BatchTyped, Goes, UnderWay, LocksHeld, locks, history
<1>5. BoundOnce'
  <2>1. \A d \in Starters : starter[d].pc \in {"members", "look", "spawn", "cancel"} =>
          tombstone' = starter[d].plan
    BY <1>3 DEF BatchInv, BoundOnce, Goes, UnderWay
  <2> QED
    BY <1>2, <1>3, <2>1 DEF BatchInv, BoundOnce, history
<1>6. MembersThere'
  BY <1>2 DEF BatchInv, MembersThere, AllThere
<1>7. CancelsHold'
  <2>1. \A q \in Plans, n \in Members : Cleared(q, n) => Cleared(q, n)'
    BY <1>2 DEF Cleared
  <2> QED
    BY <1>2, <1>3, <2>1, ClearedOf DEF history
<1> QED
  BY <1>3, <1>4, <1>5, <1>6, <1>7 DEF BatchInv

(* The manifest goes only when the id is bound to its plan. *)
LEMMA UnlinkKeeps ==
  ASSUME BatchInv, GcUnlink
  PROVE  BatchInv'
<1>1. PICK p \in Plans :
        /\ p = collector.plan /\ collector.pc = "unlink" /\ reqLock = Collector
        /\ tombstone = p
  BY DEF GcUnlink, BatchInv, Goes, UnderWay, LocksHeld, BoundOnce
<1>2. /\ manifest' \in [Plans -> {"none", "active", "cancelled"}] /\ manifest'[p] = "none"
      /\ \A q \in Plans \ {p} : manifest'[q] = manifest[q]
      /\ reqLock' = Nobody /\ manLock' \in [Plans -> Starters \cup {Collector, Nobody}]
      /\ \/ collector' = NoCommand
         \/ /\ collector' = [pc |-> "delete", plan |-> p, todo |-> collector.todo]
            /\ collector.todo # {}
      /\ UNCHANGED <<tombstone, records, starter, canceller, history>>
  BY <1>1 DEF GcUnlink, GcUnlock, BatchInv, BatchTyped
<1>3. \A d \in Starters : starter[d].pc \notin {"create", "bind", "members"}
  BY <1>1, BatchAssumption DEF BatchInv, LocksHeld, Collector
<1>4. BatchTyped' /\ Goes' /\ LocksHeld'
  BY <1>1, <1>2, <1>3 DEF BatchInv, BatchTyped, Goes, UnderWay, LocksHeld, history, NoCommand, At
<1>5. BoundOnce'
  <2>1. \A q \in Plans : manifest'[q] # "none" => manifest[q] # "none"
    BY <1>2
  <2> QED
    BY <1>1, <1>2, <1>3, <2>1 DEF BatchInv, BoundOnce, history, NoCommand, At
<1>6. NotAgain'
  BY <1>2 DEF BatchInv, NotAgain, history
<1>7. MembersThere'
  <2>1. \A q \in Plans : AllThere(q) => AllThere(q)'
    BY <1>2 DEF AllThere
  <2>2. ASSUME NEW d \in Starters, starter[d].pc \in {"look", "spawn", "cancel"}
        PROVE  AllThere(starter[d].plan)'
    <3>1. PICK q \in Plans : q = starter[d].plan /\ q = starter'[d].plan /\ AllThere(q)
      BY <1>2, <2>2 DEF BatchInv, Goes, UnderWay, MembersThere
    <3> QED
      BY <2>1, <3>1 DEF AllThere
  <2> QED
    BY <1>2, <1>3, <2>2 DEF MembersThere
<1>8. CancelsHold'
  <2>1. \A q \in Plans : CalledOff(q) => CalledOff(q)'
    BY <1>1, <1>2 DEF CalledOff
  <2>2. \A q \in Plans, n \in Members : Cleared(q, n) => Cleared(q, n)'
    BY <1>2 DEF Cleared
  <2> QED
    BY <1>2, <2>1, <2>2, ClearedOf DEF history
<1> QED
  BY <1>4, <1>5, <1>6, <1>7, <1>8 DEF BatchInv

(* Records go only after their manifest. *)
LEMMA DeleteKeeps ==
  ASSUME BatchInv, GcDelete
  PROVE  BatchInv'
<1>1. PICK p \in Plans :
        /\ p = collector.plan /\ collector.pc = "delete"
        /\ tombstone = p /\ manifest[p] = "none"
        /\ collector.todo \in SUBSET Members /\ collector.todo # {}
  BY DEF GcDelete, BatchInv, BatchTyped, Goes, UnderWay, BoundOnce
<1>2. PICK m \in Members : m = First(collector.todo) /\ m \in collector.todo
  BY <1>1, FirstIsOne
<1>3. /\ records' \in [Plans -> [Members -> RecordStatuses]] /\ records'[p][m] = "absent"
      /\ \A q \in Plans, n \in Members : q # p \/ n # m => records'[q][n] = records[q][n]
  <2>1. SetRun(p, m, "absent")
    BY <1>1, <1>2 DEF GcDelete, SetRun
  <2> QED
    BY <2>1, OneRecord DEF BatchInv, RecordStatuses
<1>4. UNCHANGED <<manifest, tombstone, starter, canceller, locks, history>>
  BY DEF GcDelete
<1>5. \/ collector' = NoCommand
      \/ /\ collector' = [pc |-> "delete", plan |-> p, todo |-> collector.todo \ {m}]
         /\ collector.todo \ {m} # {}
  <2>1. collector' = Rest(collector, "delete")
    BY DEF GcDelete
  <2> QED
    BY <1>1, <1>2, <2>1, RestIs
<1>6. BatchTyped' /\ Goes' /\ LocksHeld'
  <2>1. /\ collector'.pc \in {"idle", "delete"}
        /\ collector'.pc = "delete" => collector'.plan = p /\ collector'.todo # {}
        /\ collector' \in [pc : {"idle", "request", "second", "manifest", "unlink", "delete"},
                           plan : Plans \cup {Nobody}, todo : SUBSET Members]
    BY <1>1, <1>5 DEF NoCommand, At
  <2>2. BatchTyped'
    BY <1>3, <1>4, <2>1 DEF BatchInv, BatchTyped, RecordStatuses, locks, history
  <2>3. Goes'
    BY <1>4, <2>1 DEF BatchInv, Goes, UnderWay
  <2>4. LocksHeld'
    BY <1>4, <2>1 DEF BatchInv, LocksHeld, locks
  <2> QED
    BY <2>2, <2>3, <2>4
<1>7. BoundOnce'
  <2>1. \A q \in Plans, n \in Members : records'[q][n] # "absent" => tombstone = q
    BY <1>1, <1>3 DEF BatchInv, BoundOnce
  <2> QED
    BY <1>1, <1>4, <1>5, <2>1 DEF BatchInv, BoundOnce, history, NoCommand, At
<1>8. NotAgain'
  <2>1. ASSUME NEW q \in Plans, NEW n \in Members, <<q, n>> \in started
        PROVE  \/ records'[q][n] \in {"running", "over"}
               \/ records'[q][n] = "absent" /\ manifest[q] = "none"
    BY <1>1, <1>3, <2>1 DEF BatchInv, NotAgain
  <2> QED
    BY <1>4, <2>1 DEF BatchInv, NotAgain, history
<1>9. MembersThere'
  <2>1. \A q \in Plans : AllThere(q) => AllThere(q)'
    BY <1>1, <1>3, <1>4 DEF AllThere
  <2>2. ASSUME NEW d \in Starters, starter[d].pc \in {"look", "spawn", "cancel"}
        PROVE  AllThere(starter[d].plan)'
    <3>1. PICK q \in Plans : q = starter[d].plan /\ q = starter'[d].plan /\ AllThere(q)
      BY <1>4, <2>2 DEF BatchInv, Goes, UnderWay, MembersThere
    <3> QED
      BY <2>1, <3>1 DEF AllThere
  <2>3. ASSUME NEW d \in Starters, starter[d].pc = "members"
        PROVE  \A n \in Members \ starter[d].todo : records'[starter[d].plan][n] # "absent"
    <3>1. starter[d].plan \in Plans \ {p}
      BY <1>1, <2>3 DEF BatchInv, Goes, UnderWay, BoundOnce
    <3>2. \A n \in Members \ starter[d].todo : records[starter[d].plan][n] # "absent"
      BY <2>3 DEF BatchInv, MembersThere
    <3> QED
      BY <1>3, <3>1, <3>2
  <2> QED
    BY <1>4, <2>2, <2>3 DEF MembersThere
<1>10. CancelsHold'
  <2>1. \A q \in Plans, n \in Members : Cleared(q, n) => Cleared(q, n)'
    BY <1>3, <1>4 DEF Cleared
  <2> QED
    BY <1>4, <2>1, ClearedOf DEF history, CalledOff
<1> QED
  BY <1>6, <1>7, <1>8, <1>9, <1>10 DEF BatchInv

(* A command that dies leaves its files, and its locks to others. *)
LEMMA DyingKeeps ==
  ASSUME BatchInv, CommandDies
  PROVE  BatchInv'
<1>1. ASSUME NEW c \in Starters, Become(c, NoCommand), Dropped(c),
             UNCHANGED <<files, canceller, collector, history>>
      PROVE  BatchInv'
  <2>1. NoCommand \in Commands /\ NoCommand.pc = "idle"
    BY DEF NoCommand, At, Commands
  <2>2. /\ reqLock' \in Starters \cup {Collector, Nobody}
        /\ manLock' \in [Plans -> Starters \cup {Collector, Nobody}]
        /\ reqLock' = reqLock \/ reqLock = c
    BY <1>1 DEF Dropped, BatchInv, BatchTyped
  <2> QED
    BY <1>1, <2>1, <2>2, StarterMoves
<1>2. ASSUME canceller' = NoCommand, UNCHANGED <<files, starter, collector, locks, history>>
      PROVE  BatchInv'
  <2>1. BatchTyped' /\ Goes' /\ LocksHeld'
    BY <1>2 DEF BatchInv, BatchTyped, Goes, UnderWay, LocksHeld, files, locks, history, NoCommand, At
  <2>2. BoundOnce' /\ NotAgain' /\ MembersThere'
    BY <1>2 DEF BatchInv, BoundOnce, NotAgain, MembersThere, AllThere, files, history
  <2>3. CancelsHold'
    BY <1>2 DEF BatchInv, CancelsHold, CalledOff, Cleared, files, history, NoCommand, At
  <2> QED
    BY <2>1, <2>2, <2>3 DEF BatchInv
<1>3. ASSUME collector' = NoCommand, Dropped(Collector),
             UNCHANGED <<files, starter, canceller, history>>
      PROVE  BatchInv'
  <2>1. BatchTyped' /\ (reqLock' = reqLock \/ {reqLock, reqLock'} \subseteq {Collector, Nobody})
    BY <1>3 DEF BatchInv, BatchTyped, Dropped, files, history, NoCommand, At
  <2> QED
    BY <1>3, <2>1, CollectorMoves DEF UnderWay, NoCommand, At
<1> QED
  BY <1>1, <1>2, <1>3 DEF CommandDies

(* Every step of a command or of a worker keeps the invariant. *)
LEMMA BatchKeeps ==
  ASSUME BatchInv, [BatchNext]_batchVars
  PROVE  BatchInv'
<1>1. ASSUME NEW c \in Starters, StartStep(c) PROVE BatchInv'
  BY <1>1, StartersKeep, CreateKeeps, BindingKeeps, RecordingKeeps, StarterWorks DEF StartStep
<1>2. ASSUME NEW c \in Starters, NEW p \in Plans, StartLock(c, p) PROVE BatchInv'
  BY <1>2, StartersKeep
<1>3. CASE CancelMember \/ CommandDies
  BY <1>3, CancellingKeeps, DyingKeeps
<1>4. CASE GcStep
  BY <1>4, CollectorKeeps, HealKeeps, UnlinkKeeps, DeleteKeeps DEF GcStep
<1>5. ASSUME NEW p \in Plans, CancelFlag(p) \/ GcLook(p) PROVE BatchInv'
  BY <1>5, FlagKeeps, CollectorKeeps
<1>6. ASSUME NEW p \in Plans, NEW m \in Members, ClaimMember(p, m) \/ MemberEnds(p, m)
      PROVE  BatchInv'
  BY <1>6, BeginKeeps, EndKeeps
<1>7. CASE UNCHANGED batchVars
  <2>1. UNCHANGED <<manifest, tombstone, records, starter, canceller, collector, reqLock, manLock,
                    started, again, acked>>
    BY <1>7 DEF batchVars, files, locks, history
  <2>2. BatchTyped' /\ Goes' /\ LocksHeld' /\ NotAgain'
    BY <2>1 DEF BatchInv, BatchTyped, Goes, UnderWay, LocksHeld, NotAgain
  <2>3. BoundOnce' /\ MembersThere' /\ CancelsHold'
    BY <2>1 DEF BatchInv, BoundOnce, MembersThere, AllThere, CancelsHold, CalledOff, Cleared
  <2> QED
    BY <2>2, <2>3 DEF BatchInv
<1> QED
  BY <1>1, <1>2, <1>3, <1>4, <1>5, <1>6, <1>7 DEF BatchNext

(* A record changes alone: it runs only from a reservation, and a verdict is taken away
   only with the batch that was collected. *)
LEMMA RecordSteps ==
  ASSUME BatchInv, [BatchNext]_batchVars
  PROVE  \/ records' = records
         \/ \E p \in Plans, m \in Members, st \in RecordStatuses :
              /\ SetRun(p, m, st)
              /\ st = "running" => records[p][m] \in {"running", "reserved"}
              /\ records[p][m] = "over" => st = "over" \/ manifest[p] = "none"
<1> DEFINE OneStep == \E p \in Plans, m \in Members, st \in RecordStatuses :
              /\ SetRun(p, m, st)
              /\ st = "running" => records[p][m] \in {"running", "reserved"}
              /\ records[p][m] = "over" => st = "over" \/ manifest[p] = "none"
<1>1. ASSUME NEW p \in Plans, NEW m \in Members
      PROVE  records[p][m] \in RecordStatuses /\ AfterCancel(records[p][m]) \in RecordStatuses
             /\ (AfterCancel(records[p][m]) = "running" => records[p][m] = "running")
             /\ (records[p][m] = "over" => AfterCancel(records[p][m]) = "over")
  BY DEF BatchInv, BatchTyped, RecordStatuses, AfterCancel
<1>2. ASSUME NEW c \in Starters, StartMember(c) \/ StartCancels(c) \/ StartSpawn(c)
      PROVE  records' = records \/ OneStep
  <2>1. PICK p \in Plans, m \in Members : p = starter[c].plan /\ m = First(starter[c].todo)
    <3>1. starter[c].pc # "idle"
      BY <1>2 DEF StartMember, StartCancels, StartSpawn
    <3>2. starter[c].plan \in Plans /\ starter[c].todo # {} /\ starter[c].todo \in SUBSET Members
      BY <3>1 DEF BatchInv, BatchTyped, Goes, UnderWay, Commands
    <3>3. First(starter[c].todo) \in Members
      BY <3>2, FirstIsOne
    <3> QED
      BY <3>2, <3>3
  <2>2. CASE StartMember(c)
    <3>1. SetRun(p, m, IF records[p][m] = "absent" THEN "accepted" ELSE records[p][m])
      BY <2>1, <2>2 DEF StartMember, SetRun
    <3> QED
      BY <1>1, <3>1 DEF RecordStatuses
  <2>3. CASE StartCancels(c)
    <3>1. SetRun(p, m, AfterCancel(records[p][m]))
      BY <2>1, <2>3 DEF StartCancels, SetRun
    <3> QED
      BY <1>1, <3>1
  <2>4. CASE StartSpawn(c)
    <3>1. \/ records' = records
          \/ records[p][m] = "accepted" /\ \E st \in {"reserved", "over"} : SetRun(p, m, st)
      BY <2>1, <2>4 DEF StartSpawn, SetRun
    <3> QED
      BY <3>1 DEF RecordStatuses
  <2> QED
    BY <1>2, <2>2, <2>3, <2>4
<1>3. ASSUME CancelMember PROVE OneStep
  <2>1. PICK p \in Plans, m \in Members : p = canceller.plan /\ m = First(canceller.todo)
    <3>1. canceller.plan \in Plans /\ canceller.todo # {} /\ canceller.todo \in SUBSET Members
      BY <1>3 DEF CancelMember, BatchInv, BatchTyped, Goes, UnderWay
    <3> QED
      BY <3>1, FirstIsOne
  <2>2. SetRun(p, m, AfterCancel(records[p][m]))
    BY <1>3, <2>1 DEF CancelMember, SetRun
  <2> QED
    BY <1>1, <2>2
<1>4. ASSUME GcDelete PROVE OneStep
  <2>1. PICK p \in Plans, m \in Members :
          p = collector.plan /\ m = First(collector.todo) /\ manifest[p] = "none"
    <3>1. collector.plan \in Plans /\ collector.todo # {} /\ collector.todo \in SUBSET Members
          /\ manifest[collector.plan] = "none"
      BY <1>4 DEF GcDelete, BatchInv, BatchTyped, Goes, UnderWay, BoundOnce
    <3> QED
      BY <3>1, FirstIsOne
  <2>2. SetRun(p, m, "absent")
    BY <1>4, <2>1 DEF GcDelete, SetRun
  <2> QED
    BY <2>1, <2>2 DEF RecordStatuses
<1>5. ASSUME NEW p \in Plans, NEW m \in Members, ClaimMember(p, m) \/ MemberEnds(p, m)
      PROVE  OneStep
  <2>1. CASE ClaimMember(p, m)
    BY <2>1 DEF ClaimMember, RecordStatuses
  <2>2. CASE MemberEnds(p, m)
    BY <2>2 DEF MemberEnds, RecordStatuses
  <2> QED
    BY <1>5, <2>1, <2>2
<1>6. ASSUME NEW c \in Starters,
             StartRefused(c) \/ StartCreate(c) \/ StartBind(c) \/ StartLook(c)
               \/ \E p \in Plans : StartLock(c, p)
      PROVE  records' = records
  BY <1>6 DEF StartRefused, StartCreate, StartBind, StartLook, StartLock, files
<1>7. ASSUME \/ GcLocks \/ GcBlocked \/ GcBind \/ GcUnlink \/ CommandDies
             \/ \E p \in Plans : CancelFlag(p) \/ GcLook(p)
      PROVE  records' = records
  BY <1>7 DEF GcLocks, GcBlocked, GcBind, GcUnlink, CommandDies, CancelFlag, GcLook, files
<1>8. ASSUME UNCHANGED batchVars PROVE records' = records
  BY <1>8 DEF batchVars, files
<1> HIDE DEF OneStep
<1>9. ASSUME BatchNext PROVE records' = records \/ OneStep
  BY <1>2, <1>3, <1>4, <1>5, <1>6, <1>7, <1>9 DEF BatchNext, StartStep, GcStep
<1> QED
  BY <1>8, <1>9 DEF OneStep

(* The members of a request are executed once each, of one plan only, none after its
   cancellation was acknowledged, and a result that was ready stays. *)
THEOREM MembersOnce == BatchSpec => ExecutedOnce
<1>1. ASSUME BatchInv, [BatchNext]_batchVars
      PROVE  /\ OncePerRequest'
             /\ \A p \in acked, m \in Members :
                  records'[p][m] = "running" => records[p][m] = "running"
             /\ \A p \in Plans : ResultReady(p) => ResultReady(p)' \/ manifest'[p] = "none"
  <2>1. BatchInv'
    BY <1>1, BatchKeeps
  <2>2. OncePerRequest'
    BY <2>1 DEF OncePerRequest, BatchInv, NotAgain, BoundOnce
  <2>3. CASE records' = records
    <3>1. \A p \in Plans : ResultReady(p) => ResultReady(p)' \/ manifest'[p] = "none"
      BY <2>3 DEF ResultReady
    <3> QED
      BY <2>2, <2>3, <3>1
  <2>4. ASSUME NEW p \in Plans, NEW m \in Members, NEW st \in RecordStatuses,
               SetRun(p, m, st),
               st = "running" => records[p][m] \in {"running", "reserved"},
               records[p][m] = "over" => st = "over" \/ manifest[p] = "none"
        PROVE  /\ \A q \in acked, n \in Members :
                    records'[q][n] = "running" => records[q][n] = "running"
               /\ \A q \in Plans : ResultReady(q) => ResultReady(q)' \/ manifest'[q] = "none"
    <3>1. /\ records'[p][m] = st
          /\ \A q \in Plans, n \in Members : q # p \/ n # m => records'[q][n] = records[q][n]
      BY <1>1, <2>4, OneRecord DEF BatchInv
    <3>2. \A q \in acked, n \in Members : q \in Plans /\ records[q][n] # "reserved"
      BY <1>1 DEF BatchInv, BatchTyped, CancelsHold, Cleared
    <3>3. \A q \in acked, n \in Members :
            records'[q][n] = "running" => records[q][n] = "running"
      BY <2>4, <3>1, <3>2
    <3>4. ASSUME NEW q \in Plans, ResultReady(q)
          PROVE  ResultReady(q)' \/ manifest'[q] = "none"
      <4>1. \A n \in Members : records'[q][n] = "over"
        BY <2>4, <3>1, <3>4 DEF ResultReady
      <4> QED
        BY <4>1 DEF ResultReady
    <3> QED
      BY <3>3, <3>4
  <2> QED
    BY <1>1, <2>2, <2>3, <2>4, RecordSteps
<1>2. BatchSpec => [][OncePerRequest']_batchVars
  BY <1>1, BatchStarts, BatchKeeps, PTL DEF BatchSpec
<1>3. BatchSpec => CancelSticks
  BY <1>1, BatchStarts, BatchKeeps, PTL DEF BatchSpec, CancelSticks
<1>4. BatchSpec => ReadySticks
  BY <1>1, BatchStarts, BatchKeeps, PTL DEF BatchSpec, ReadySticks
<1> QED
  BY <1>2, <1>3, <1>4 DEF ExecutedOnce
==============================================================================
