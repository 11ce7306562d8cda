---------------------------- MODULE DispatchRun ----------------------------
(* The run store, the concurrency slots and the supervisor of the local      *)
(* agent dispatch.  Every worker is one process generation: its identity is  *)
(* (pid, start time), its owner token and its worker token are fresh, and    *)
(* all three are the generation here.  A run record is read and written      *)
(* under the lock of the run, a slot under the lock of the slot; nothing     *)
(* locks the two together, and no lock spans two steps of a worker.          *)
EXTENDS Naturals, FiniteSets

CONSTANTS Runs,      \* the dispatched runs
          Workers,   \* process generations that may execute one
          Backends,  \* provider ids
          BackendOf, \* [Runs -> Backends]
          Slots,     \* directories of slots, those of a backend and the global
          Global,    \* the scope of the global slots
          ScopeOf,   \* [Slots -> Backends \union {Global}]
          None

ASSUME DispatchAssumption ==
  /\ BackendOf \in [Runs -> Backends]
  /\ Global \notin Backends
  /\ ScopeOf \in [Slots -> Backends \union {Global}]
  /\ None \notin Runs \union Workers

VARIABLES run,   \* [Runs -> record of the run]
          lease, \* [Slots -> what the directory of the slot holds]
          proc,  \* [Workers -> process state of the worker]
          child  \* [Workers -> its backend process group]

vars == <<run, lease, proc, child>>

Verdicts == {"completed", "failed", "timeout", "cancelled"}

NewRun == [status |-> "absent", token |-> None, worker |-> None,
           slots |-> {}, cancel |-> FALSE, backend |-> None]

\* A slot has no directory, one without lease.json, or one with a lease.
Free == [dir |-> "none", owner |-> None, run |-> None]
Bare == [dir |-> "bare", owner |-> None, run |-> None]
Lease(w, r) == [dir |-> "leased", owner |-> w, run |-> r]
Held(s) == lease[s].dir = "leased"

Idle == [pc |-> "idle", run |-> None, held |-> {}, beat |-> "off",
         outcome |-> "none"]

Init ==
  /\ run = [r \in Runs |-> NewRun]
  /\ lease = [s \in Slots |-> Free]
  /\ proc = [w \in Workers |-> Idle]
  /\ child = [w \in Workers |-> "none"]

\* identity_matches, process_identity_is_dead: ended generations stay ended
Dead(w) == proc[w].pc \in {"dead", "ended"}
Alive(w) == proc[w].pc \notin {"idle", "reserved", "dead", "ended"}

Go(w, pc) == proc' = [proc EXCEPT ![w].pc = pc]
Leave(w, outcome) ==
  proc' = [proc EXCEPT ![w].pc = "cleanup", ![w].outcome = outcome]

-----------------------------------------------------------------------------
(* The run store.                                                            *)

Accept(r) ==
  /\ run[r].status = "absent"
  /\ run' = [run EXCEPT ![r].status = "accepted"]
  /\ UNCHANGED <<lease, proc, child>>

\* what request_cancel leaves of a record: final at once when nobody claimed it
Cancelled(rec) ==
  [rec EXCEPT !.cancel = TRUE,
              !.status = IF @ = "accepted" THEN "cancelled" ELSE @]

RequestCancel(r) ==
  /\ run[r].status \in {"accepted", "running"}
  /\ ~run[r].cancel
  /\ run' = [run EXCEPT ![r] = Cancelled(@)]
  /\ UNCHANGED <<lease, proc, child>>

\* the request as the exact active generation sees it
CancelSeen(w) ==
  LET rec == run[proc[w].run]
  IN  rec.status = "running" /\ rec.token = w /\ rec.cancel

\* A reservation that expired, or whose worker ended or never started.  Nobody
\* but the worker tells that it is still on its way.
FailReserved(r) ==
  /\ run[r].status = "accepted"
  /\ run[r].token # None
  /\ run' = [run EXCEPT ![r].status = "failed"]
  /\ UNCHANGED <<lease, proc, child>>

\* What fail_if_active_worker makes of a record of the generation.
FailedBy(rec) ==
  [rec EXCEPT !.status = IF rec.cancel THEN "cancelled" ELSE "failed"]

\* The record after the process group of its backend was proven gone.
Cleaned(rec) == [rec EXCEPT !.backend = None]

Owns(w) ==
  LET rec == run[proc[w].run] IN rec.status = "running" /\ rec.token = w

\* cleanup_backend_if_owned by generation w or on its behalf: the group is
\* killed and the record cleared.  When it cannot be proven gone, an error is
\* written and nothing else changes.
CleanupProven(w) ==
  /\ child' = IF Owns(w) /\ run[proc[w].run].backend # None
              THEN [child EXCEPT ![w] = "none"] ELSE child
  /\ run' = IF Owns(w) THEN [run EXCEPT ![proc[w].run] = Cleaned(@)] ELSE run

\* reconcile_orphaned_workers and the reaper, in their two locked steps.
ReconcileCleanup(r) ==
  /\ run[r].status = "running"
  /\ Dead(run[r].worker)
  /\ run[r].backend # None
  /\ CleanupProven(run[r].worker)
  /\ UNCHANGED <<lease, proc>>

ReconcileFail(r) ==
  /\ run[r].status = "running"
  /\ Dead(run[r].worker)
  /\ run[r].backend = None
  /\ run' = [run EXCEPT ![r] = FailedBy(@)]
  /\ UNCHANGED <<lease, proc, child>>

\* gc removes aged terminal records and does not look at the slots.
Gc(r) ==
  /\ run[r].status \in Verdicts
  /\ run' = [run EXCEPT ![r] = [NewRun EXCEPT !.status = "deleted"]]
  /\ UNCHANGED <<lease, proc, child>>

-----------------------------------------------------------------------------
(* The slots.                                                                *)

\* What the run store says of the owner of a lease that names its run.
BoundRunState(s) ==
  LET rec == run[lease[s].run]
      exact == s \in rec.slots /\ rec.worker = lease[s].owner
               /\ rec.token # None
  IN  CASE rec.status = "running" /\ exact -> "active"
        [] rec.status \in Verdicts /\ exact -> "terminal"
        [] OTHER -> "unknown"

\* A lease that names no run: any run that lists the slot and is not over.
UnboundRunState(s) ==
  LET refs == {r \in Runs : /\ s \in run[r].slots
                            /\ run[r].status \in {"accepted", "running"}}
      exact(r) == run[r].status = "running" /\ run[r].worker = lease[s].owner
  IN  CASE refs = {} -> "unbound"
        [] \E r \in refs : exact(r) -> "active"
        [] OTHER -> "unknown"

RunState(s) ==
  IF lease[s].run = None THEN UnboundRunState(s) ELSE BoundRunState(s)

\* mutant: the run of a dead owner is not looked at
MayTakeDead(s, blind) == Held(s) => Dead(lease[s].owner)

\* May a process take the slot?  "blind": the identity of the owner cannot be
\* read and the lease was not renewed for its time to live.  A bare directory
\* is taken after its grace.
MayTake(s, blind) ==
  \/ ~Held(s)
  \/ /\ Held(s)
     /\ RunState(s) \in {"terminal", "unbound"}
     /\ Dead(lease[s].owner) \/ blind

Released(slots, w) ==
  [s \in Slots |-> IF s \in slots /\ Held(s) /\ lease[s].owner = w
                   THEN Free ELSE lease[s]]

Wanted(w) == IF proc[w].pc = "backend_slot" THEN BackendOf[proc[w].run]
                                            ELSE Global

Acquire(w, s) ==
  /\ proc[w].pc \in {"backend_slot", "global_slot"}
  /\ ScopeOf[s] = Wanted(w)
  /\ \E blind \in BOOLEAN : MayTake(s, blind)
  /\ lease' = [lease EXCEPT ![s] = Lease(w, None)]
  /\ proc' = [proc EXCEPT ![w].held = @ \union {s},
                          ![w].pc = IF @ = "backend_slot" THEN "global_slot"
                                                          ELSE "claim"]
  /\ UNCHANGED <<run, child>>

\* Killed between mkdir and the write of lease.json.
AcquireCrashes(w, s) ==
  /\ proc[w].pc \in {"backend_slot", "global_slot"}
  /\ ScopeOf[s] = Wanted(w)
  /\ MayTake(s, FALSE)
  /\ lease' = [lease EXCEPT ![s] = Bare]
  /\ Go(w, "dead")
  /\ UNCHANGED <<run, child>>

\* No slot: every one is refused, by its state or by a directory that could not
\* be read or changed under the reader.  The backend slot is given back when
\* the global one is refused.
NoSlot(w) ==
  /\ proc[w].pc \in {"backend_slot", "global_slot"}
  /\ \A s \in Slots : ScopeOf[s] = Wanted(w) => lease[s] # Free
  /\ lease' = Released(proc[w].held, w)
  /\ proc' = [proc EXCEPT ![w].held = {}, ![w].pc = "ended"]
  /\ UNCHANGED <<run, child>>

-----------------------------------------------------------------------------
(* The worker: DispatchSupervisor.execute.                                   *)

\* A command executes the run in its own process ...
StartSync(w, r) ==
  /\ proc[w].pc = "idle"
  /\ run[r].status = "accepted"
  /\ proc' = [proc EXCEPT ![w].pc = "backend_slot", ![w].run = r]
  /\ UNCHANGED <<run, lease, child>>

\* ... or reserves it for a worker process that it spawns next.
ReserveAsync(w, r) ==
  /\ proc[w].pc = "idle"
  /\ run[r].status = "accepted" /\ run[r].token = None
  /\ run' = [run EXCEPT ![r].token = w]
  /\ proc' = [proc EXCEPT ![w].pc = "reserved", ![w].run = r]
  /\ UNCHANGED <<lease, child>>

StartAsync(w) ==
  /\ proc[w].pc = "reserved"
  /\ Go(w, IF run[proc[w].run].status = "accepted" THEN "backend_slot"
                                                   ELSE "ended")
  /\ UNCHANGED <<run, lease, child>>

MayClaim(w) ==
  LET rec == run[proc[w].run]
  IN  rec.status = "accepted" /\ rec.token \in {None, w}

Claim(w) ==
  /\ proc[w].pc = "claim"
  /\ MayClaim(w)
  /\ run' = [run EXCEPT ![proc[w].run] =
               [@ EXCEPT !.status = "running", !.token = w, !.worker = w,
                         !.slots = proc[w].held]]
  /\ Go(w, "bind")
  /\ UNCHANGED <<lease, child>>

\* Not claimed: the slots are given back and the error is raised.
ClaimFails(w) ==
  /\ proc[w].pc = "claim"
  /\ ~MayClaim(w)
  /\ lease' = Released(proc[w].held, w)
  /\ Go(w, "ended")
  /\ UNCHANGED <<run, child>>

Unbound(w) == {s \in proc[w].held : lease[s] # Lease(w, proc[w].run)}

\* bind_run of the two leases in turn, then the heartbeat starts.
BindRun(w, s) ==
  /\ proc[w].pc = "bind"
  /\ s \in Unbound(w)
  /\ \/ /\ lease[s] = Lease(w, None)
        /\ lease' = [lease EXCEPT ![s] = Lease(w, proc[w].run)]
        /\ UNCHANGED proc
     \/ /\ lease[s] # Lease(w, None)   \* taken over meanwhile
        /\ Leave(w, "failed")
        /\ UNCHANGED lease
  /\ UNCHANGED <<run, child>>

StartHeartbeat(w) ==
  /\ proc[w].pc = "bind"
  /\ Unbound(w) = {}
  /\ proc' = [proc EXCEPT ![w].pc = "work", ![w].beat = "ok"]
  /\ UNCHANGED <<run, lease, child>>

\* lease_check and check_cancellation
Checks(w) == proc[w].beat = "ok" /\ ~CancelSeen(w)
WhyNot(w) == IF proc[w].beat = "ok" THEN "cancelled" ELSE "failed"

\* Context, profile, shadow or worktree refused, or a check: no backend.
WorkRefused(w) ==
  /\ proc[w].pc = "work"
  /\ Leave(w, IF Checks(w) THEN "failed" ELSE WhyNot(w))
  /\ UNCHANGED <<run, lease, child>>

\* The wrapper holds the lifetime lock and waits for the gate.
SpawnGated(w) ==
  /\ proc[w].pc = "work"
  /\ Checks(w)
  /\ child' = [child EXCEPT ![w] = "gated"]
  /\ Go(w, "gated")
  /\ UNCHANGED <<run, lease>>

\* run_bounded's finally: the group is killed whatever happened.
Abandon(w, outcome) ==
  /\ child' = [child EXCEPT ![w] = "none"]
  /\ Leave(w, outcome)
  /\ UNCHANGED <<run, lease>>

\* The observer checks, binds the process group under the lock of the run, and
\* checks again.
CheckGated(w) ==
  /\ proc[w].pc = "gated"
  /\ \/ Checks(w) /\ Go(w, "binding") /\ UNCHANGED <<run, lease, child>>
     \/ ~Checks(w) /\ Abandon(w, WhyNot(w))

MayBind(w) == Owns(w) /\ run[proc[w].run].backend = None

BindBackend(w) ==
  /\ proc[w].pc = "binding"
  /\ IF MayBind(w)
     THEN /\ run' = [run EXCEPT ![proc[w].run].backend = w]
          /\ Go(w, "bound")
          /\ UNCHANGED <<lease, child>>
     ELSE Abandon(w, "failed")

CheckBound(w) ==
  /\ proc[w].pc = "bound"
  /\ \/ Checks(w) /\ Go(w, "checked") /\ UNCHANGED <<run, lease, child>>
     \/ ~Checks(w) /\ Abandon(w, WhyNot(w))

\* The byte on the pipe; a wrapper that was killed meanwhile cannot read it.
OpenGate(w) ==
  /\ proc[w].pc = "checked"
  /\ \/ /\ child[w] = "gated"
        /\ child' = [child EXCEPT ![w] = "live"]
        /\ Go(w, "running")
        /\ UNCHANGED <<run, lease>>
     \/ child[w] = "none" /\ Abandon(w, "failed")

\* The backend ends, times out or is cancelled by the poll, and its group is
\* killed before the result is looked at.
RunEnds(w) ==
  /\ proc[w].pc = "running"
  /\ \E outcome \in Verdicts :
       /\ outcome = "cancelled" => CancelSeen(w)
       /\ Abandon(w, IF Checks(w) THEN outcome ELSE WhyNot(w))

\* The heartbeat thread: the error is set, then the backend is cleaned up.
HeartbeatFails(w) ==
  /\ proc[w].beat = "ok"
  /\ Alive(w)
  /\ proc' = [proc EXCEPT ![w].beat = "error"]
  /\ UNCHANGED <<run, lease, child>>

HeartbeatCleans(w) ==
  /\ proc[w].beat = "error"
  /\ Alive(w)
  /\ CleanupProven(w)
  /\ proc' = [proc EXCEPT ![w].beat = "stopped"]
  /\ UNCHANGED lease

HeartbeatGivesUp(w) ==
  /\ proc[w].beat = "error"
  /\ Alive(w)
  /\ Owns(w) /\ run[proc[w].run].backend # None
  /\ proc' = [proc EXCEPT ![w].beat = "unproven"]
  /\ UNCHANGED <<run, lease, child>>

Cleanup(w) ==
  /\ proc[w].pc = "cleanup"
  /\ CleanupProven(w)
  /\ Go(w, "release")
  /\ UNCHANGED lease

\* Not proven: the leases stay, the run stays running and the worker raises.
CleanupFails(w) ==
  /\ proc[w].pc = "cleanup"
  /\ Owns(w) /\ run[proc[w].run].backend # None
  /\ Go(w, "ended")
  /\ UNCHANGED <<run, lease, child>>

\* heartbeat.stop and release_all; an error of either turns success to failure.
Release(w) ==
  LET mine(s) == Held(s) /\ lease[s].owner = w
      clean == /\ proc[w].beat \in {"off", "ok"}
               /\ \A s \in proc[w].held : mine(s)
  IN  /\ proc[w].pc = "release"
      /\ lease' = Released(proc[w].held, w)
      /\ proc' = [proc EXCEPT
           ![w].pc = "decide", ![w].beat = "off",
           ![w].outcome = IF ~clean /\ @ = "completed" THEN "failed" ELSE @]
      /\ UNCHANGED <<run, child>>

\* The cancellation is looked at once more ...
Decide(w) ==
  /\ proc[w].pc = "decide"
  /\ proc' = [proc EXCEPT ![w].pc = "publish",
       ![w].outcome = IF CancelSeen(w) THEN "cancelled" ELSE @]
  /\ UNCHANGED <<run, lease, child>>

\* mutant: the request that came after the last look is overwritten
MayPublishAnyway(rec, w, status) ==
  rec.status = "running" /\ rec.token = w /\ rec.backend = None

\* update_status from running: the exact generation, its backend gone, and
\* nothing but "cancelled" for a cancelled run.
MayPublish(rec, w, status) ==
  /\ rec.status = "running" /\ rec.token = w
  /\ rec.backend = None
  /\ rec.cancel => status = "cancelled"

\* ... and the outcome is published.  The refused one is decided again.
Publish(w) ==
  LET r == proc[w].run
  IN  /\ proc[w].pc = "publish"
      /\ \/ /\ MayPublish(run[r], w, proc[w].outcome)
            /\ run' = [run EXCEPT ![r].status = proc[w].outcome]
            /\ Go(w, "ended")
         \/ /\ ~MayPublish(run[r], w, proc[w].outcome)
            /\ Go(w, IF CancelSeen(w) THEN "decide" ELSE "ended")
            /\ UNCHANGED run
      /\ UNCHANGED <<lease, child>>

\* A worker dies with all its threads; a gated wrapper exits when its pipe
\* closes, an opened backend has a session of its own and lives on.
Crash(w) ==
  /\ Alive(w) \/ proc[w].pc = "reserved"
  /\ Go(w, "dead")
  /\ child' = [child EXCEPT ![w] = IF @ = "live" THEN "live" ELSE "none"]
  /\ UNCHANGED <<run, lease>>

\* The backend process ends by itself.
BackendExits(w) ==
  /\ child[w] = "live"
  /\ Dead(w)
  /\ child' = [child EXCEPT ![w] = "none"]
  /\ UNCHANGED <<run, lease, proc>>

Step(w) ==
  \/ StartAsync(w) \/ NoSlot(w) \/ Claim(w) \/ ClaimFails(w)
  \/ StartHeartbeat(w) \/ WorkRefused(w) \/ SpawnGated(w) \/ CheckGated(w)
  \/ BindBackend(w) \/ CheckBound(w) \/ OpenGate(w) \/ RunEnds(w) \/ Cleanup(w)
  \/ CleanupFails(w) \/ Release(w) \/ Decide(w) \/ Publish(w)
  \/ \E s \in Slots : Acquire(w, s) \/ BindRun(w, s)

\* mutant: a reservation without a process is nobody's
ReconcileRunning(r) == ReconcileCleanup(r) \/ ReconcileFail(r)

Reconcile(r) == FailReserved(r) \/ ReconcileCleanup(r) \/ ReconcileFail(r)

Next ==
  \/ \E r \in Runs : Accept(r) \/ RequestCancel(r) \/ Reconcile(r) \/ Gc(r)
  \/ \E w \in Workers :
       \/ Step(w) \/ Crash(w) \/ BackendExits(w)
       \/ HeartbeatFails(w) \/ HeartbeatCleans(w) \/ HeartbeatGivesUp(w)
       \/ \E r \in Runs : StartSync(w, r) \/ ReserveAsync(w, r)
       \/ \E s \in Slots : AcquireCrashes(w, s)

\* A worker takes its steps while its process lives, and every dispatch command
\* begins with a reconciliation: both are weakly fair.
Fairness ==
  /\ \A w \in Workers : WF_vars(Step(w))
  /\ \A r \in Runs : WF_vars(Reconcile(r))

Spec == Init /\ [][Next]_vars /\ Fairness

-----------------------------------------------------------------------------
(* Properties.                                                               *)

Statuses == {"absent", "accepted", "running", "deleted"} \union Verdicts

RunRecord ==
  [status : Statuses, token : Workers \union {None}, worker : Workers \union {None},
   slots : SUBSET Slots, cancel : BOOLEAN, backend : Workers \union {None}]

SlotState == {Free, Bare} \union {Lease(w, r) : w \in Workers, r \in Runs \union {None}}

Pcs == {"idle", "reserved", "backend_slot", "global_slot", "claim", "bind", "work", "gated",
        "binding", "bound", "checked", "running", "cleanup", "release", "decide", "publish",
        "ended", "dead"}
Beats == {"off", "ok", "error", "stopped", "unproven"}

WorkerState ==
  [pc : Pcs, run : Runs \union {None}, held : SUBSET Slots, beat : Beats,
   outcome : Verdicts \union {"none"}]

TypeOK ==
  /\ run \in [Runs -> RunRecord]
  /\ lease \in [Slots -> SlotState]
  /\ proc \in [Workers -> WorkerState]
  /\ child \in [Workers -> {"none", "gated", "live"}]

\* A backend process works only inside the limits: while it lives, one slot of
\* its backend and one global slot carry the lease of the generation that
\* started it, bound to its run, whatever became of that generation.
BackendsInSlots ==
  \A w \in Workers : child[w] = "live" =>
    \A scope \in {BackendOf[proc[w].run], Global} :
      \E s \in Slots : ScopeOf[s] = scope /\ lease[s] = Lease(w, proc[w].run)

\* After the heartbeat of a worker has failed and cleaned up, its backend does
\* not work again, even when it was about to be started.
HeartbeatStops ==
  \A w \in Workers : proc[w].beat = "stopped" => child[w] # "live"

\* The promises of the run store.
Lifecycle == INSTANCE RunLifecycle WITH
  status <- [r \in Runs |-> run[r].status],
  cancel <- {r \in Runs : run[r].cancel},
  executor <- [r \in Runs |-> run[r].worker],
  working <- {proc[w].run : w \in {v \in Workers : child[v] = "live"}},
  NoWorker <- None

\* However worker, reaper, canceller and reconciliation interleave over record,
\* slots and processes, the run store keeps what RunLifecycle promises
\* (run_store.py:639, supervisor.py:546).
RunLifecycleHolds == Lifecycle!Spec

\* Every run that a generation reserved or claimed ends with a verdict.
RunsEnd ==
  \A r \in Runs : run[r].token # None ~> run[r].status \in Verdicts \union {"deleted"}

\* A backend works in its slots only, and never outlives them.
BackendsHold == BackendsInSlots /\ HeartbeatStops

-----------------------------------------------------------------------------
\* An instance to look at: runs of every backend, slots of every scope.
RunPerBackend ==
  CHOOSE f \in [Runs -> Backends] : \A b \in Backends : \E r \in Runs : f[r] = b
SlotPerScope ==
  CHOOSE f \in [Slots -> Backends \union {Global}] :
    \A scope \in Backends \union {Global} : \E s \in Slots : f[s] = scope
=============================================================================
