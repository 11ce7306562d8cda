--------------------------- MODULE DispatchBatch ---------------------------
(* Batches of dispatched runs: start, retry of a start, cancellation and     *)
(* garbage collection of one request, with crashes between any two writes.   *)
(* A request id is bound to the first plan that was started for it.  The     *)
(* manifest of the plan holds the cancel flag, a tombstone keeps the binding *)
(* after the manifest was collected, and every member has a run record whose *)
(* name follows from the plan and the index of the member.  A record that    *)
(* has its verdict is "over", whatever the verdict; a running one that is    *)
(* asked to stop goes on until its worker gives one (module DispatchRun).    *)
EXTENDS Naturals, FiniteSets

CONSTANTS Plans,     \* reviewed plans that carry the same request id
          Members,   \* indices of the members, in the order they are started
          Starters,  \* commands that start the batch, and retry
          Nobody     \* no plan, no command

ASSUME BatchAssumption ==
  /\ Members \subseteq Nat /\ Members # {} /\ IsFiniteSet(Members)
  /\ "collector" \notin Starters
  /\ Nobody \notin Plans \union Starters \union {"collector"}

VARIABLES manifest,  \* [Plans -> "none", "active" or "cancelled"]
          tombstone, \* the plan the request id is bound to
          records,   \* [Plans -> [Members -> status of its record]]
          starter,   \* [Starters -> the state of the command]
          canceller, \* the command that cancels a batch
          collector, \* the garbage collection
          reqLock,   \* holder of the lock of the request id
          manLock,   \* [Plans -> holder of the lock of the manifest]
          started,   \* the members a worker began to execute, ever
          again,     \* was a member executed that had been executed before
          acked      \* the plans whose cancellation was acknowledged

files == <<manifest, tombstone, records>>
locks == <<reqLock, manLock>>
history == <<started, again, acked>>
batchVars == <<files, starter, canceller, collector, locks, history>>

Collector == "collector"

At(pc, plan, todo) == [pc |-> pc, plan |-> plan, todo |-> todo]
NoCommand == At("idle", Nobody, {})
First(todo) == CHOOSE m \in todo : \A n \in todo : m <= n

BatchInit ==
  /\ manifest = [p \in Plans |-> "none"]
  /\ tombstone = Nobody
  /\ records = [p \in Plans |-> [m \in Members |-> "absent"]]
  /\ starter = [c \in Starters |-> NoCommand]
  /\ canceller = NoCommand /\ collector = NoCommand
  /\ reqLock = Nobody
  /\ manLock = [p \in Plans |-> Nobody]
  /\ started = {} /\ again = FALSE /\ acked = {}

Become(c, state) == starter' = [starter EXCEPT ![c] = state]

\* The state of a loop after its first member; the loop ends with the last.
Rest(state, pc) ==
  LET todo == state.todo \ {First(state.todo)}
  IN  IF todo = {} THEN NoCommand ELSE At(pc, state.plan, todo)
SetRun(p, m, status) == records' = [records EXCEPT ![p][m] = status]

-----------------------------------------------------------------------------
(* start_batch.                                                              *)

StartLock(c, p) ==
  /\ starter[c].pc = "idle"
  /\ reqLock = Nobody
  /\ reqLock' = c
  /\ Become(c, At("create", p, Members))
  /\ UNCHANGED <<files, canceller, collector, manLock, history>>

\* The manifest the request id has: at most one is expected.
Existing == {p \in Plans : manifest[p] # "none"}

\* mutant: the tombstone is not asked
RefusedByManifest(p) == Existing \ {p} # {}

Refused(p) == Existing \ {p} # {} \/ (Existing = {} /\ tombstone # Nobody)

\* _create_or_load_locked: another plan is bound, or the batch was collected.
StartRefused(c) ==
  /\ starter[c].pc = "create"
  /\ Refused(starter[c].plan)
  /\ Become(c, NoCommand)
  /\ reqLock' = Nobody
  /\ UNCHANGED <<files, canceller, collector, manLock, history>>

StartCreate(c) ==
  LET p == starter[c].plan
  IN  /\ starter[c].pc = "create"
      /\ ~Refused(p)
      /\ manifest' = [manifest EXCEPT ![p] = IF @ = "none" THEN "active" ELSE @]
      /\ Become(c, [starter[c] EXCEPT !.pc = "bind"])
      /\ UNCHANGED <<tombstone, records, canceller, collector, locks, history>>

\* _bind_request_tombstone: a binding that is there is kept.
Bound(p) == IF tombstone = Nobody THEN p ELSE tombstone

StartBind(c) ==
  LET p == starter[c].plan
  IN  /\ starter[c].pc = "bind"
      /\ manLock[p] = Nobody
      /\ tombstone' = Bound(p)
      /\ manLock' = [manLock EXCEPT ![p] = c]
      /\ Become(c, [starter[c] EXCEPT !.pc = "members"])
      /\ UNCHANGED <<manifest, records, canceller, collector, reqLock, history>>

\* initialize_members: one record after the other, existing ones are kept; the
\* locks are given back after the last.
StartMember(c) ==
  LET p == starter[c].plan
      m == First(starter[c].todo)
      last == starter[c].todo = {m}
  IN  /\ starter[c].pc = "members"
      /\ SetRun(p, m, IF records[p][m] = "absent" THEN "accepted" ELSE records[p][m])
      /\ Become(c, IF last THEN At("look", p, Members)
                           ELSE Rest(starter[c], "members"))
      /\ reqLock' = IF last THEN Nobody ELSE reqLock
      /\ manLock' = [manLock EXCEPT ![p] = IF last THEN Nobody ELSE @]
      /\ UNCHANGED <<manifest, tombstone, canceller, collector, history>>

\* Before each member the manifest is read again, without its lock.
StartLook(c) ==
  LET p == starter[c].plan
  IN  /\ starter[c].pc = "look"
      /\ Become(c, CASE manifest[p] = "active" -> [starter[c] EXCEPT !.pc = "spawn"]
                     [] manifest[p] = "cancelled" -> [starter[c] EXCEPT !.pc = "cancel"]
                     [] OTHER -> NoCommand)
      /\ UNCHANGED <<files, canceller, collector, locks, history>>

\* request_cancel of a record
AfterCancel(status) ==
  IF status \in {"accepted", "reserved"} THEN "over" ELSE status

StartCancels(c) ==
  LET p == starter[c].plan
      m == First(starter[c].todo)
  IN  /\ starter[c].pc = "cancel"
      /\ SetRun(p, m, AfterCancel(records[p][m]))
      /\ Become(c, IF records[p][m] = "absent" THEN NoCommand
                   ELSE Rest(starter[c], "look"))
      /\ UNCHANGED <<manifest, tombstone, canceller, collector, locks, history>>

\* The record decides: reserved for a worker, failed because the start failed,
\* or left alone when it is somebody's, over or gone.
StartSpawn(c) ==
  LET p == starter[c].plan
      m == First(starter[c].todo)
  IN  /\ starter[c].pc = "spawn"
      /\ \/ /\ records[p][m] = "accepted"
            /\ \E status \in {"reserved", "over"} : SetRun(p, m, status)
         \/ records[p][m] # "accepted" /\ UNCHANGED records
      /\ Become(c, IF records[p][m] = "absent" THEN NoCommand
                   ELSE Rest(starter[c], "look"))
      /\ UNCHANGED <<manifest, tombstone, canceller, collector, locks, history>>

-----------------------------------------------------------------------------
(* cancel_batch: the flag of the manifest, then every member.                *)

CancelFlag(p) ==
  /\ canceller.pc = "idle"
  /\ manifest[p] # "none"
  /\ manLock[p] = Nobody
  /\ manifest' = [manifest EXCEPT ![p] = "cancelled"]
  /\ canceller' = At("members", p, Members)
  /\ UNCHANGED <<tombstone, records, starter, collector, locks, history>>

\* A missing record is passed over; the answer follows the last member.
CancelMember ==
  LET p == canceller.plan
      m == First(canceller.todo)
  IN  /\ canceller.pc = "members"
      /\ SetRun(p, m, AfterCancel(records[p][m]))
      /\ canceller' = Rest(canceller, "members")
      /\ acked' = IF canceller' = NoCommand THEN acked \union {p} ELSE acked
      /\ UNCHANGED <<manifest, tombstone, starter, collector, locks, started, again>>

-----------------------------------------------------------------------------
(* gc: it looks without locks, removes the manifest under both locks, and    *)
(* then the records it had found removable.                                  *)

Removable(p) == \A m \in Members : records[p][m] \in {"over", "absent"}

\* Old enough is anything: the age is an option of the command.
GcLook(p) ==
  /\ collector.pc = "idle"
  /\ Removable(p)
  /\ \E m \in Members : records[p][m] # "absent" \/ manifest[p] # "none"
  /\ collector' = At(IF manifest[p] = "none" THEN "delete" ELSE "request", p,
                     {m \in Members : records[p][m] # "absent"})
  /\ UNCHANGED <<files, starter, canceller, locks, history>>

\* mutant: the locks in the other order
GcManifestFirst ==
  LET p == collector.plan
  IN  \/ /\ collector.pc = "request"
         /\ manLock[p] = Nobody
         /\ manLock' = [manLock EXCEPT ![p] = Collector]
         /\ collector' = [collector EXCEPT !.pc = "second"]
         /\ UNCHANGED <<files, starter, canceller, reqLock, history>>
      \/ /\ collector.pc = "second"
         /\ reqLock = Nobody
         /\ reqLock' = Collector
         /\ collector' = [collector EXCEPT !.pc = "manifest"]
         /\ UNCHANGED <<files, starter, canceller, manLock, history>>

\* mutation_locks, the request first.
GcLocks ==
  LET p == collector.plan
  IN  \/ /\ collector.pc = "request"
         /\ reqLock = Nobody
         /\ reqLock' = Collector
         /\ collector' = [collector EXCEPT !.pc = "second"]
         /\ UNCHANGED <<files, starter, canceller, manLock, history>>
      \/ /\ collector.pc = "second"
         /\ manLock[p] = Nobody
         /\ manLock' = [manLock EXCEPT ![p] = Collector]
         /\ collector' = [collector EXCEPT !.pc = "manifest"]
         /\ UNCHANGED <<files, starter, canceller, reqLock, history>>

GcUnlock(p) ==
  /\ reqLock' = Nobody
  /\ manLock' = [manLock EXCEPT ![p] = Nobody]

\* Changed meanwhile: nothing of the batch is removed.
GcBlocked ==
  LET p == collector.plan
  IN  /\ collector.pc = "manifest"
      /\ ~Removable(p) \/ manifest[p] = "none"
      /\ collector' = NoCommand
      /\ GcUnlock(p)
      /\ UNCHANGED <<files, starter, canceller, history>>

\* The tombstone is healed before the manifest goes; when the id turns out to
\* be bound to another plan the batch is left alone.
GcBind ==
  LET p == collector.plan
  IN  /\ collector.pc = "manifest"
      /\ Removable(p) /\ manifest[p] # "none"
      /\ tombstone' = Bound(p)
      /\ collector' = [collector EXCEPT !.pc = "unlink"]
      /\ UNCHANGED <<manifest, records, starter, canceller, locks, history>>

GcUnlink ==
  LET p == collector.plan
  IN  /\ collector.pc = "unlink"
      /\ manifest' = [manifest EXCEPT ![p] = "none"]
      /\ collector' = IF collector.todo = {} THEN NoCommand
                      ELSE [collector EXCEPT !.pc = "delete"]
      /\ GcUnlock(p)
      /\ UNCHANGED <<tombstone, records, starter, canceller, history>>

GcDelete ==
  /\ collector.pc = "delete"
  /\ SetRun(collector.plan, First(collector.todo), "absent")
  /\ collector' = Rest(collector, "delete")
  /\ UNCHANGED <<manifest, tombstone, starter, canceller, locks, history>>

-----------------------------------------------------------------------------
(* The workers, as module DispatchRun has them, and crashes of the commands. *)

ClaimMember(p, m) ==
  /\ records[p][m] = "reserved"
  /\ SetRun(p, m, "running")
  /\ again' = (again \/ <<p, m>> \in started)
  /\ started' = started \union {<<p, m>>}
  /\ UNCHANGED <<manifest, tombstone, starter, canceller, collector, locks, acked>>

MemberEnds(p, m) ==
  /\ records[p][m] \in {"reserved", "running"}
  /\ SetRun(p, m, "over")
  /\ UNCHANGED <<manifest, tombstone, starter, canceller, collector, locks, history>>

\* A command dies; its locks are released by the system.
Dropped(who) ==
  /\ reqLock' = IF reqLock = who THEN Nobody ELSE reqLock
  /\ manLock' = [p \in Plans |-> IF manLock[p] = who THEN Nobody ELSE manLock[p]]

CommandDies ==
  /\ \/ \E c \in Starters :
          /\ starter[c] # NoCommand /\ Become(c, NoCommand) /\ Dropped(c)
          /\ UNCHANGED <<canceller, collector>>
     \/ /\ canceller # NoCommand /\ canceller' = NoCommand
        /\ UNCHANGED <<starter, collector, locks>>
     \/ /\ collector # NoCommand /\ collector' = NoCommand /\ Dropped(Collector)
        /\ UNCHANGED <<starter, canceller>>
  /\ UNCHANGED <<files, history>>

StartStep(c) ==
  \/ StartRefused(c) \/ StartCreate(c) \/ StartBind(c) \/ StartMember(c)
  \/ StartLook(c) \/ StartCancels(c) \/ StartSpawn(c)

GcStep == GcLocks \/ GcBlocked \/ GcBind \/ GcUnlink \/ GcDelete

BatchNext ==
  \/ \E c \in Starters : StartStep(c) \/ \E p \in Plans : StartLock(c, p)
  \/ CancelMember \/ GcStep \/ CommandDies
  \/ \E p \in Plans : CancelFlag(p) \/ GcLook(p)
  \/ \E p \in Plans, m \in Members : ClaimMember(p, m) \/ MemberEnds(p, m)

\* A command that was begun goes on; a collection that waits for the lock of a
\* request gets it although starts keep coming (the wait is a blocking flock).
BatchFairness ==
  /\ \A c \in Starters : WF_batchVars(StartStep(c))
  /\ SF_batchVars(GcStep)

BatchSpec == BatchInit /\ [][BatchNext]_batchVars /\ BatchFairness

-----------------------------------------------------------------------------
\* get_batch_result says "ready": every record of the manifest has its verdict.
ResultReady(p) == manifest[p] # "none" /\ \A m \in Members : records[p][m] = "over"

-----------------------------------------------------------------------------
(* Properties.                                                               *)

\* Whatever is retried, cancelled, collected or killed, a request id executes
\* the members of one plan, each at most once.
OncePerRequest ==
  /\ ~again
  /\ \A x, y \in started : x[1] = y[1]

\* Once a cancellation was acknowledged no member of the batch begins, also
\* not one whose record did not exist yet and that a retried start creates.
CancelSticks ==
  [][\A p \in acked, m \in Members :
       records'[p][m] = "running" => records[p][m] = "running"]_batchVars

\* Every command that was begun comes to its end, however the locks of the
\* request and of the manifest are contended.
BatchEnds ==
  /\ \A c \in Starters : starter[c] # NoCommand ~> starter[c] = NoCommand
  /\ collector # NoCommand ~> collector = NoCommand

\* A result that was ready stays the result until the batch is collected: no
\* retried start, late worker or half collection takes a verdict back.
ReadySticks ==
  [][\A p \in Plans : ResultReady(p) => ResultReady(p)' \/ manifest'[p] = "none"]_batchVars

\* Members are executed once per request, not after its cancellation and not
\* after their result was ready.
ExecutedOnce == [][OncePerRequest']_batchVars /\ CancelSticks /\ ReadySticks

=============================================================================
