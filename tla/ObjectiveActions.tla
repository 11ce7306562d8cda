------------------------- MODULE ObjectiveActions --------------------------
(***************************************************************************)
(* The continuation engine of one Objective (src/dyro/continuation): the   *)
(* event log with its pending transaction (objective_storage.py), the      *)
(* owner lease with its takeover record (owner_lease.py), the action       *)
(* journal (action_journal.py), and the processes that drive them:         *)
(* supervised schedulers (supervision.py, `dyro objective apply`) and an   *)
(* operator who pauses, resumes, stops and reconciles (store.py).          *)
(*                                                                         *)
(* Every façade operation of store.py runs under objectives.lock, so one   *)
(* that writes a single file is one action.  The two that write several    *)
(* files, a takeover and an event commit, keep `lock` from write to write; *)
(* a process that dies drops the lock and leaves the files, and whoever    *)
(* reads the record next completes it or rolls it back.                    *)
(*                                                                         *)
(* A plan of a scheduler is bound to the time it was made, so each plan is *)
(* a fresh action.  The wall clock may jump either way.                    *)
(***************************************************************************)
EXTENDS Integers, FiniteSets, TLC

CONSTANTS
    Actions,       \* the actions that can be planned
    Reviews,       \* those of them that review a task; the others execute one
    Schedulers,    \* processes that apply a confirmed wave
    Operator,      \* the process that runs the Objective's commands
    NoProc,        \* a free lock
    None,          \* no record, no action
    MaxActions,    \* budget.max_actions of the Objective
    MaxFailures,   \* budget.max_failures of the Objective
    Ttl,           \* SUPERVISION_LEASE_SECONDS
    MaxTime,       \* bound: the wall clock stays in 0..MaxTime
    MaxGen,        \* bound: owner leases granted
    MaxSeq         \* bound: events committed

ASSUME ProcsAssumption ==
    /\ Operator \notin Schedulers
    /\ NoProc \notin Schedulers \cup {Operator}
ASSUME ActionsAssumption == Reviews \subseteq Actions /\ None \notin Actions
ASSUME BoundsAssumption ==
    /\ MaxActions \in Nat /\ MaxFailures \in Nat
    /\ Ttl \in Nat \ {0}
    /\ MaxTime \in Nat /\ MaxGen \in Nat /\ MaxSeq \in Nat \ {0}

States   == {"active", "paused", "stopped"}
Outcomes == {"succeeded", "failed", "uncertain"}

\* What the files hold.
Leases       == [gen: Nat, beat: Nat, expires: Nat, released: BOOLEAN]
Takeovers    == [lease: Leases, previous: {None} \cup Leases, cancel: SUBSET Actions]
Transactions == [seq: Nat, state: States, cancel: SUBSET Actions]
Intents      == [gen: Nat, seq: Nat]
Receipts     == [status: Outcomes \cup {"cancelled"},
                 by: {"owner", "takeover", "event"}, n: Nat]

ASSUME NoneAssumption ==
    None \notin Leases \cup Takeovers \cup Transactions \cup Intents \cup Receipts

VARIABLES
    state,      \* operator_state of the last committed event
    seq,        \* event_seq of the last committed event
    pending,    \* None, or the event transaction: its seq, state and cancel set
    lease,      \* None, or scheduler-owner.json
    takeover,   \* None, or scheduler-owner-pending.json
    intent,     \* [Actions -> None or the generation and the seq it is bound to]
    started,    \* actions with a start record
    receipt,    \* [Actions -> None or the status and who wrote it]
    busy,       \* actions whose task is in progress
    now,        \* the wall clock
    lock,       \* the process inside objectives.lock between two of its writes
    proc        \* program counter and locals of each process

journal == <<intent, started, receipt>>
events  == <<state, seq, pending>>
owner   == <<lease, takeover>>
vars    == <<journal, events, owner, busy, now, lock, proc>>

Commands  == {"pause", "stop", "resume", "reconcile"}
Processes == Schedulers \cup {Operator}
Pcs       == {"idle", "leasing", "leased", "owner", "planned", "reserved",
              "refused", "started", "running", "ran", "release", "pending",
              "appended"}

Idle == [pc |-> "idle", gen |-> 0, act |-> None, seq |-> 0, result |-> "failed"]

-----------------------------------------------------------------------------
(* What a process reads *)

\* Actions that have an intent and neither a start nor a receipt.
Reserved == {a \in Actions : intent[a] # None /\ a \notin started /\ receipt[a] = None}

\* Actions whose outcome is unknown: no receipt after the start, or one that
\* says so.
Unresolved == {a \in started : receipt[a] = None \/ receipt[a].status = "uncertain"}

Failed == {a \in started : receipt[a] # None /\ receipt[a].status # "succeeded"}

\* decide_budget for one more action: what has started and what is reserved is
\* charged, a reservation also as a failure.
WithinBudget ==
    /\ Cardinality(started \cup Reserved) + 1 <= MaxActions
    /\ Cardinality(Failed \cup Reserved) + 1 <= MaxFailures

\* A new owner may take the lease: there is none, or it was released or ran out
\* and the clock is not behind its heartbeat.
LeaseFree ==
    lease # None => /\ now >= lease.beat
                    /\ (lease.released \/ now >= lease.expires)

\* assert_owner: p's grant is the live lease.
OwnerOK(p) ==
    /\ lease # None
    /\ ~lease.released
    /\ now < lease.expires
    /\ now >= lease.beat
    /\ lease.gen = proc[p].gen

\* A receipt of the plan can be written: there is none, or it is that receipt.
Fits(a, r) == receipt[a] = r \/ (receipt[a] = None /\ a \notin started)

ByTakeover == [status |-> "cancelled", by |-> "takeover", n |-> takeover.lease.gen]
ByEvent    == [status |-> "cancelled", by |-> "event", n |-> pending.seq]

Goto(p, pc) == proc' = [proc EXCEPT ![p].pc = pc]

Init ==
    /\ state = "active"
    /\ seq = 1
    /\ pending = None
    /\ lease = None
    /\ takeover = None
    /\ intent = [a \in Actions |-> None]
    /\ started = {}
    /\ receipt = [a \in Actions |-> None]
    /\ busy = {}
    /\ now = 0
    /\ lock = NoProc
    /\ proc = [p \in Processes |-> Idle]

-----------------------------------------------------------------------------
(* Owner lease: acquire_owner_lease and recover_owner_takeover.  Every         *)
(* operation below but the operator's first completes a takeover it finds.     *)

NewLease == [gen |-> IF lease = None THEN 1 ELSE lease.gen + 1, beat |-> now,
             expires |-> now + Ttl, released |-> FALSE]

\* apply_supervised_wave takes the lease of an active Objective.  If actions are
\* reserved, their cancellation is recorded before the lease changes hands.
Acquire(p) ==
    /\ proc[p].pc = "idle"
    /\ lock = NoProc /\ pending = None /\ takeover = None
    /\ state = "active"
    /\ LeaseFree
    /\ NewLease.gen <= MaxGen
    /\ IF Reserved = {}
       THEN /\ lease' = NewLease
            /\ proc' = [proc EXCEPT ![p].pc = "owner", ![p].gen = NewLease.gen]
            /\ UNCHANGED <<takeover, lock>>
       ELSE /\ takeover' = [lease |-> NewLease, previous |-> lease, cancel |-> Reserved]
            /\ lock' = p
            /\ proc' = [proc EXCEPT ![p].pc = "leasing", ![p].gen = NewLease.gen]
            /\ UNCHANGED lease
    /\ UNCHANGED <<journal, events, busy, now>>

ReplaceLease(p) ==
    /\ proc[p].pc = "leasing"
    /\ lease' = takeover.lease
    /\ Goto(p, "leased")
    /\ UNCHANGED <<journal, events, takeover, busy, now, lock>>

\* Whether recovery of the takeover can run: under the new owner's own lock or,
\* after a crash, under the lock of the next reader.
TakeoverReadable ==
    /\ takeover # None
    /\ \/ lock = NoProc
       \/ lock \in Schedulers /\ proc[lock].pc = "leased"

\* apply_action_cancellation for a takeover whose lease is in place: one
\* receipt, after all of them have been found to fit.
TakeoverCancels(a) ==
    /\ TakeoverReadable
    /\ lease = takeover.lease
    /\ \A b \in takeover.cancel : Fits(b, ByTakeover)
    /\ a \in takeover.cancel /\ receipt[a] = None
    /\ receipt' = [receipt EXCEPT ![a] = ByTakeover]
    /\ UNCHANGED <<intent, started, events, owner, busy, now, lock, proc>>

\* Mutant: the record goes before its receipts are written.
TakeoverEndsEarly ==
    /\ TakeoverReadable
    /\ takeover' = None
    /\ UNCHANGED <<journal, events, lease, busy, now, lock, proc>>

\* The record goes when all its receipts are there, or when the lease was never
\* replaced.  Any other lease is refused.
TakeoverEnds ==
    /\ TakeoverReadable
    /\ \/ lease = takeover.lease /\ \A a \in takeover.cancel : receipt[a] = ByTakeover
       \/ lease = takeover.previous
    /\ takeover' = None
    /\ UNCHANGED <<journal, events, lease, busy, now, lock, proc>>

\* acquire_objective_owner_lease returns the grant.
Own(p) ==
    /\ proc[p].pc = "leased"
    /\ takeover = None
    /\ lock' = NoProc
    /\ Goto(p, "owner")
    /\ UNCHANGED <<journal, events, owner, busy, now>>

-----------------------------------------------------------------------------
(* A supervised wave: apply_supervised_wave *)

\* _current_action plans without the lock; what it saw is bound into the intent.
Plan(p, a) ==
    /\ proc[p].pc = "owner"
    /\ pending = None
    /\ intent[a] = None
    /\ \A q \in Schedulers : proc[q].act # a
    /\ proc' = [proc EXCEPT ![p].pc = "planned", ![p].act = a, ![p].seq = seq]
    /\ UNCHANGED <<journal, events, owner, busy, now, lock>>

\* Mutant: a new owner does not look for actions whose outcome is unknown.
ReserveBeside(p) ==
    LET a == proc[p].act IN
    /\ proc[p].pc = "planned"
    /\ lock = NoProc /\ pending = None /\ takeover = None
    /\ state = "active" /\ proc[p].seq = seq
    /\ OwnerOK(p)
    /\ WithinBudget
    /\ intent' = [intent EXCEPT ![a] = [gen |-> proc[p].gen, seq |-> seq]]
    /\ Goto(p, "reserved")
    /\ UNCHANGED <<started, receipt, events, owner, busy, now, lock>>

\* reserve_supervised_objective_action: everything is checked again under the
\* lock before the create-only intent is written.  The write itself may report
\* an error although the file is there.
Reserve(p) ==
    LET a == proc[p].act IN
    /\ proc[p].pc = "planned"
    /\ lock = NoProc /\ pending = None /\ takeover = None
    /\ state = "active" /\ proc[p].seq = seq
    /\ Unresolved = {}
    /\ OwnerOK(p)
    /\ WithinBudget
    /\ intent' = [intent EXCEPT ![a] = [gen |-> proc[p].gen, seq |-> seq]]
    /\ \E pc \in {"reserved", "release"} : Goto(p, pc)
    /\ UNCHANGED <<started, receipt, events, owner, busy, now, lock>>

\* The wave is over, or planning or the reservation raised.
EndWave(p) ==
    /\ proc[p].pc \in {"owner", "planned"}
    /\ Goto(p, "release")
    /\ UNCHANGED <<journal, events, owner, busy, now, lock>>

\* start_objective_action: the create-only start is the point after which the
\* action is never repeated.  Again the write may report an error although the file
\* is there.
Start(p) ==
    LET a == proc[p].act IN
    /\ proc[p].pc = "reserved"
    /\ lock = NoProc /\ pending = None /\ takeover = None
    /\ state = "active" /\ intent[a].seq = seq
    /\ receipt[a] = None
    /\ OwnerOK(p) /\ lease.gen = intent[a].gen
    /\ started' = started \cup {a}
    /\ \E pc \in {"started", "refused"} : Goto(p, pc)
    /\ UNCHANGED <<intent, receipt, events, owner, busy, now, lock>>

\* The start is refused, or times out on the lock, and nothing was written.
StartRefused(p) ==
    /\ proc[p].pc = "reserved"
    /\ Goto(p, "refused")
    /\ UNCHANGED <<journal, events, owner, busy, now, lock>>

\* Mutant: an exception of the start is taken to mean that nothing started.
RefusedAlwaysCancels(p) ==
    LET a == proc[p].act IN
    /\ proc[p].pc = "refused"
    /\ lock = NoProc /\ takeover = None
    /\ receipt[a] = None
    /\ OwnerOK(p)
    /\ receipt' = [receipt EXCEPT ![a] = [status |-> "cancelled", by |-> "owner",
                                          n |-> proc[p].gen]]
    /\ Goto(p, "release")
    /\ UNCHANGED <<intent, started, events, owner, busy, now, lock>>

\* The exception path of the start: what is on disk decides between uncertain
\* and cancelled, and only a live owner may cancel (record_action_receipt).
RefusedReceipt(p) ==
    LET a == proc[p].act
        how == IF a \in started THEN "uncertain" ELSE "cancelled" IN
    /\ proc[p].pc = "refused"
    /\ lock = NoProc /\ takeover = None
    /\ receipt[a] = None
    /\ a \in started \/ OwnerOK(p)
    /\ receipt' = [receipt EXCEPT ![a] = [status |-> how, by |-> "owner",
                                          n |-> proc[p].gen]]
    /\ Goto(p, "release")
    /\ UNCHANGED <<intent, started, events, owner, busy, now, lock>>

\* _dispatch calls the Task API.  Reserving a task takes the dispatch lock, which
\* an event commit holds; a review does not.
RunTask(p) ==
    LET a == proc[p].act IN
    /\ proc[p].pc = "started"
    /\ IF a \in Reviews THEN UNCHANGED busy
                        ELSE lock # Operator /\ busy' = busy \cup {a}
    /\ Goto(p, "running")
    /\ UNCHANGED <<journal, events, owner, now, lock>>

\* The Task API returns or raises; before it ran, it can only raise.
TaskEnds(p, result) ==
    /\ \/ proc[p].pc = "running"
       \/ proc[p].pc = "started" /\ result = "uncertain"
    /\ busy' = busy \ {proc[p].act}
    /\ proc' = [proc EXCEPT ![p].pc = "ran", ![p].result = result]
    /\ UNCHANGED <<journal, events, owner, now, lock>>

\* record_objective_action_receipt: accepted from an owner whose lease is gone,
\* too; after an uncertain outcome the wave ends.
Receipt(p) ==
    LET a == proc[p].act
        result == proc[p].result IN
    /\ proc[p].pc = "ran"
    /\ lock = NoProc /\ takeover = None
    /\ receipt[a] = None
    /\ receipt' = [receipt EXCEPT ![a] = [status |-> result, by |-> "owner",
                                          n |-> proc[p].gen]]
    /\ Goto(p, IF result = "uncertain" THEN "release" ELSE "owner")
    /\ UNCHANGED <<intent, started, events, owner, busy, now, lock>>

\* The receipt is refused, or times out on the lock: the exception ends the wave.
ReceiptFails(p) ==
    /\ proc[p].pc \in {"ran", "refused"}
    /\ Goto(p, "release")
    /\ UNCHANGED <<journal, events, owner, busy, now, lock>>

\* release_objective_owner_lease, in the `finally` of the wave.
Release(p) ==
    /\ proc[p].pc = "release"
    /\ lock = NoProc /\ takeover = None
    /\ OwnerOK(p)
    /\ lease' = [lease EXCEPT !.beat = now, !.released = TRUE]
    /\ proc' = [proc EXCEPT ![p] = Idle]
    /\ UNCHANGED <<journal, events, takeover, busy, now, lock>>

\* The release is refused or times out; the lease is left to run out.
ReleaseFails(p) ==
    /\ proc[p].pc = "release"
    /\ proc' = [proc EXCEPT ![p] = Idle]
    /\ UNCHANGED <<journal, events, owner, busy, now, lock>>

-----------------------------------------------------------------------------
(* Operator commands: _transition_objective, _persist_revision, commit_event *)

NextState(command) ==
    CASE command = "pause"     -> "paused"
      [] command = "stop"      -> "stopped"
      [] command = "resume"    -> "active"
      [] command = "reconcile" -> state

\* When a command goes ahead.  A transition to the current state changes nothing.
Accepts(command) ==
    CASE command \in {"pause", "stop"} -> state # NextState(command)
      [] command = "resume"            -> state = "paused"
      [] command = "reconcile"         -> state # "stopped" /\ Unresolved = {}

\* The pending transaction is written: the event, and the receipts that cancel
\* what is reserved.  No task of the scope may be in progress.
WritePending(command) ==
    /\ proc[Operator].pc = "idle"
    /\ lock = NoProc /\ pending = None
    /\ seq < MaxSeq
    /\ busy = {}
    /\ Accepts(command)
    /\ pending' = [seq |-> seq + 1, state |-> NextState(command),
                   cancel |-> IF command = "resume" THEN {} ELSE Reserved]
    /\ lock' = Operator
    /\ Goto(Operator, "pending")
    /\ UNCHANGED <<journal, state, seq, owner, busy, now>>

\* The event is appended to events.jsonl: from here on it counts.
AppendEvent ==
    /\ proc[Operator].pc = "pending"
    /\ seq' = pending.seq
    /\ state' = pending.state
    /\ Goto(Operator, "appended")
    /\ UNCHANGED <<journal, pending, owner, busy, now, lock>>

\* Whether the transaction can be completed: by the operator under its lock or,
\* after a crash, by recover_pending in the next reader that recovers.
PendingReadable ==
    /\ pending # None
    /\ \/ lock = NoProc
       \/ lock = Operator /\ proc[Operator].pc = "appended"

\* _apply_pending_action_cancellation for an event that is in the log.
EventCancels(a) ==
    /\ PendingReadable
    /\ pending.seq = seq
    /\ \A b \in pending.cancel : Fits(b, ByEvent)
    /\ a \in pending.cancel /\ receipt[a] = None
    /\ receipt' = [receipt EXCEPT ![a] = ByEvent]
    /\ UNCHANGED <<intent, started, events, owner, busy, now, lock, proc>>

\* The projection is written and the pending record goes, as it does at once when
\* its event never reached the log.
EventEnds ==
    /\ PendingReadable
    /\ pending.seq = seq => \A a \in pending.cancel : receipt[a] = ByEvent
    /\ pending' = None
    /\ lock' = NoProc
    /\ proc' = [proc EXCEPT ![Operator] = Idle]
    /\ UNCHANGED <<journal, state, seq, owner, busy, now>>

-----------------------------------------------------------------------------
(* Everything else *)

\* p dies, or an I/O error ends its operation half way.  A task that it was executing stays in progress.
Crash(p) ==
    /\ proc[p].pc # "idle"
    /\ proc' = [proc EXCEPT ![p] = Idle]
    /\ lock' = IF lock = p THEN NoProc ELSE lock
    /\ UNCHANGED <<journal, events, owner, busy, now>>

\* A person fails the task of a process that died (`dyro task run` or `status`).
ResetTask(a) ==
    /\ a \in busy
    /\ \A p \in Schedulers : proc[p].pc = "running" => proc[p].act # a
    /\ busy' = busy \ {a}
    /\ UNCHANGED <<journal, events, owner, now, lock, proc>>

\* Time passes, or the clock is set.
SetClock(t) ==
    /\ t # now
    /\ now' = t
    /\ UNCHANGED <<journal, events, owner, busy, lock, proc>>

Next ==
    \/ \E p \in Schedulers :
        \/ Acquire(p) \/ ReplaceLease(p) \/ Own(p)
        \/ \E a \in Actions : Plan(p, a)
        \/ Reserve(p) \/ EndWave(p) \/ Start(p) \/ StartRefused(p)
        \/ RefusedReceipt(p) \/ RunTask(p)
        \/ \E result \in Outcomes : TaskEnds(p, result)
        \/ Receipt(p) \/ ReceiptFails(p) \/ Release(p) \/ ReleaseFails(p)
    \/ \E a \in Actions : TakeoverCancels(a) \/ EventCancels(a) \/ ResetTask(a)
    \/ TakeoverEnds \/ EventEnds
    \/ \E command \in Commands : WritePending(command)
    \/ AppendEvent
    \/ \E p \in Processes : Crash(p)
    \/ \E t \in 0..MaxTime : SetClock(t)

Spec == Init /\ [][Next]_vars

-----------------------------------------------------------------------------
(* Properties *)

ProcStates ==
    [pc: Pcs, gen: Nat, act: Actions \cup {None}, seq: Nat, result: Outcomes]

TypeOK ==
    /\ state \in States
    /\ seq \in Nat
    /\ pending \in {None} \cup Transactions
    /\ lease \in {None} \cup Leases
    /\ takeover \in {None} \cup Takeovers
    /\ intent \in [Actions -> {None} \cup Intents]
    /\ started \subseteq Actions
    /\ receipt \in [Actions -> {None} \cup Receipts]
    /\ busy \subseteq Actions
    /\ now \in Nat
    /\ lock \in Processes \cup {NoProc}
    /\ proc \in [Processes -> ProcStates]

\* The phase an action is in, read off its files.
Phase(a) ==
    CASE receipt[a] # None -> receipt[a].status
      [] receipt[a] = None /\ a \in started -> "started"
      [] receipt[a] = None /\ a \notin started /\ intent[a] # None -> "reserved"
      [] OTHER -> "new"

Lifecycle == INSTANCE ActionLifecycle WITH phase <- [a \in Actions |-> Phase(a)]

\* The journal, the leases and the event log together keep the promise of
\* ActionLifecycle: every step of every process, and every crash, is a step of
\* an action's life or none at all.
LifecycleHolds == Lifecycle!Spec

\* Two schedulers never work at once, and no work goes on beside an action whose
\* outcome is unknown, even when an owner outlives its lease, the clock jumps or
\* the machine crashes in the middle of a takeover.
OneUnresolved == Cardinality(Unresolved) <= 1

\* What a process executes is on record as started, by its own grant, and no
\* takeover or command has cancelled it.
ExecutionRecorded ==
    \A p \in Schedulers : proc[p].pc \in {"started", "running", "ran"} =>
        LET a == proc[p].act IN
        a \in started /\ receipt[a] = None /\ intent[a].gen = proc[p].gen

\* Unless a cancellation is on its way, nothing stays reserved for an owner that
\* lost the lease or under an event that is no longer the last: no crash between
\* the writes of a takeover or a command leaves such an action behind.
ReservedAreCurrent ==
    \A a \in Reserved :
        /\ takeover = None => intent[a].gen = lease.gen
        /\ pending = None => intent[a].seq = seq

\* recover_owner_takeover never meets a lease that is neither the old nor the
\* new one, in which case no owner could ever be installed again: every writer of
\* the lease has finished the takeover first.
TakeoverMatches ==
    takeover # None => lease \in {takeover.lease, takeover.previous}

\* However plans, crashes and owners interleave, no more actions start than the
\* budget allows, and no more of them fail.
BudgetHolds ==
    /\ Cardinality(started) <= MaxActions
    /\ Cardinality(Failed) <= MaxFailures

\* An Objective does one thing at a time, and no more than its budget.
WorkBounded == OneUnresolved /\ BudgetHolds

\* The journal fits the events, the lease and what is executed, whatever died half way.
JournalHolds == ReservedAreCurrent /\ ExecutionRecorded /\ TakeoverMatches

\* Schedulers are interchangeable.
SchedulerSymmetry == Permutations(Schedulers)

=============================================================================
