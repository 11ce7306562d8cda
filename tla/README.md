# A TLA+ model of DyroEngineeringFlow

DyroEngineeringFlow (`src/src/dyro`) drives software changes through agents:
tasks are reserved, executed by an agent in git worktrees, reviewed, signed off
and merged into a development line. Everything it knows is in files of a
workspace (`.dyro/`), and every command is a separate short-lived process:
there is no server that serialises them. What keeps the files consistent are
advisory file locks, atomic replacement of single files, create-only records
and recovery by the next reader. That is what this project models.

Paths below are relative to `src/src/dyro/` unless they start with `docs/` or
`experiments/` (relative to `src/`).

## 1. Inventory

| component | state | operations | what is hard | modules |
|---|---|---|---|---|
| task execution (`tasks.py`, `state.py`, `provenance.py`, `graph.py`) | `<task>/status`, `execution-run.json`, `attempts/*`, three kinds of lock | run, answer, review, status override, recovery | commands race with operators, reviews, each other and crashes; checks read other tasks' files without their locks | `TaskBoard`, `TaskScheduling` |
| external execution (`tasks.py`, `provenance.py`, `evidence.py`) | `claim.json`, evidence, `answers.md` | claim, release, import execution and review, signoff, answer | leases run out while evidence is under way; claim and status are two writes | `ExternalClaims` |
| task evidence (`tasks.py`, `provenance.py`) | receipt, heads, attempts, review | run, review, merge of one task | hashes are read before and used after other writes | `TaskEvidence` |
| evidence generations (`evidence_store.py`) | directories, a pointer | import, publish, prune, read | readers take no lock; writers die | `EvidenceStore` |
| lines (`workspace.py`, `home.py`) | line manifests, worktrees, branches | create, doctor, the questions before | no lock, several repositories, kills | `Repositories`, `LineSetup`, `LineWizard` |
| merges (`tasks.py`, `workspace.py`) | branches of many repositories | task merge, line merge, sync | no transaction across repositories | `LineMerge` |
| task worktrees (`tasks.py`) | worktrees, branches, recorded heads | run, merge, undo, close | `close` takes no lock | `TaskWorktrees` |
| proofs (`proof/`) | none (pure) | derive, evaluate, bundle | judged elsewhere, later, with other heads | `ProofCertificates` |
| event log, families (`events.py`, `observations.py`, `families.py`) | `events.jsonl` and archives, gap mark, channels, acknowledgements, artifacts | append, rotate, page, post, acknowledge, put | channel row and signal are two files; readers without the lock | `OverlayLog`, `FamilyChannel` |
| objective actions (`continuation/`) | event log, pending record, owner lease, takeover record, intents, starts, receipts | acquire, release, reserve, start, record, pause, stop, resume, reconcile | crash between any two writes, two schedulers, clock jumps | `ActionLifecycle`, `ObjectiveActions` |
| objective planning and scopes (`continuation/`) | Objectives over one board | plan, select a wave, create, target, pause, resume, reconcile | two authorities over one task; a plan that shows nothing to do | `ObjectivePlanner`, `ObjectiveScopes` |
| audit and witness (`audit_remote.py`, `witness.py`) | log, sync state, receipts, checkpoint | append, sync, reconfigure | answers lost after the remote accepted; copies and backups that fork | `AuditWitness` |
| trust store (`signing.py`) | metadata, key and revocation of a key id | trust, revoke, verify | three files, read one by one; only some writers lock | `TrustStore` |
| dispatch: runs (`experiments/local_agent_dispatch`) | run records, slots, worker processes | accept, claim, heartbeat, gate, cancel, publish, reap, reconcile | process death, no lock over record and slot together | `RunLifecycle`, `DispatchRun` |
| dispatch: contexts (same) | digests, copies, worktrees, patches | accept, snapshot, seal, gc | the project changes between two readings | `DispatchContext` |
| dispatch: batches (same) | manifests, tombstones, member runs | start, retry, cancel, collect | every pair of writes may be cut | `DispatchBatch` |
| task daemon (`cli.py`, `peer_wave.py`, `tasks.py`) | none | select, bind, run, review | starvation | `TaskDaemon` |
| integrations (`integrations/`) | mirror, links, manifest, marker | install, upgrade, remove, migrate | half-done commands, the user's own hands | `SkillInstall` |
| updates, registry, bootstrap (`updates.py`, `hub.py`, `onboarding.py`) | one file each; anchors | check, install; add, remove, mark; clone | looked up before the lock, or no lock at all | `UpdateCheck`, `WorkspaceRegistry`, `Bootstrap` |
| console (`console/`) | connections, session, pages | exchange, read, post, page | deadlines that cut anywhere; pages of different samples | `ConsoleServer`, `ConsoleOverview`, `ConsolePage` |
| bridge, adapters, contracts and briefings, host projections, configuration, command line, deployment | - | - | formats and one-shot commands | none, see section 5 |

How they interact: the objective engine calls the Task API (`run_task`,
`review_task`) between a start record and a receipt, and its event commits take
the dispatch lock that task reservations take; reservations read merge results
(the heads of dependencies in the line); merges read review and signoff
evidence; evidence and proofs are judged against the heads of the line; status
changes and family messages go to one event log; the console reads all of it
without a lock; the witness anchors the audit log of the trust store.

What makes each correct is stated in section 3; the `hazards` of PROJECT.json
list what could go wrong, each at its line, with the property that would show it.

## 2. Plan

Done, in this order: 1 `TaskBoard`, `TaskScheduling`; 2 `ActionLifecycle`,
`ObjectiveActions`; 3 `ExternalClaims`; 4 `TaskEvidence`; 5 `LineMerge`;
6 `RunLifecycle`, `DispatchRun`, `DispatchContext`, `DispatchBatch`;
7 `AuditWitness`, `EvidenceStore`, `TrustStore`; 8 `ObjectivePlanner`,
`ObjectiveScopes`, `TaskDaemon`; 9 `LineSetup`, `TaskWorktrees`,
`ProofCertificates`, `LineWizard`, `Bootstrap`; 10 `OverlayLog`,
`FamilyChannel`; 11 `SkillInstall`, `UpdateCheck`, `WorkspaceRegistry`;
12 the console.

How they are composed: `FamilyChannel` extends `OverlayLog`, `TaskWorktrees`
extends `ProofCertificates`, `ObjectiveScopes` and `TaskDaemon` extend
`ObjectivePlanner`, `TaskScheduling`, `ExternalClaims` and `TaskEvidence` extend
`TaskBoard`; `MCDelivery` lets a line be created by `LineSetup` before
`TaskWorktrees` works in it. `ObjectiveActions` is shown to implement
`ActionLifecycle`, and `DispatchRun` to implement `RunLifecycle`. Where a run
has several components that share no file and no lock, a variable `part` chooses
one at the start, so that their states add up instead of multiplying.

Where a component has several promises that are broken by the same hazards, its
property is a conjunction (of state formulae, or of a formula and a temporal
one), and each part has a name, a comment and a meaning of its own.

A component with one run of its own is run on its own module and `.cfg`
(`ExternalClaims`, `TaskEvidence`, `ObjectiveActions`, `DispatchRun`,
`FamilyChannel`); the modules `MC...` compose several components in one run, or
give a run its graph of tasks.

Every safety property that a run checks is proved; liveness is model-checked (section 4).

## 3. What is modelled

Every run finishes in less than five minutes. Bounds are constants of the `.cfg`
named `Max...`, and stand in the guards of the actions they bound.

### `task_scheduling`: TaskBoard, TaskScheduling

`TaskBoard` has the status table, the dispatch check and what occupies a
conflict group. `TaskScheduling` is local execution: a process takes the
execution lock (`StartCommand`), the dispatch and state locks
(`TakeDispatchLock`, `ReserveAssign`, `ReserveStart`: the two status writes of
`_reserve_local_execution` are two steps), begins an attempt, runs the agent,
reports through `set_status` and finishes. The exception paths (`BeginFails`,
`Raised`, `Abort`, `Recover`) are the handlers of `run_task` and
`_complete_execution_attempt`, each with the unlocked read they make before the
write. `Crash` drops a process's locks and leaves the files. A local review looks
at the status (`ReviewStart`), its reviewer works, and its verdict is applied to
whatever the status is by then (`ReviewEnd`); an imported one holds the state lock
throughout (`ImportReview`). An operator may change a status (`SetStatus`), merge,
and resolve decisions at any moment.

`AgentsExclusive`: conflict groups exclude, unless one of the two tasks was taken
out of in_progress under its agent (`ousted`): by an operator, or by the FAIL of a
review that began before the task was executed again (section 5). `VerdictsHold`:
what an agent builds on stays done and merged (`DependenciesHold`), and done is
final (`DoneIsFinal`). `CommandsEnd`: under fairness every command ends. Bounds:
three tasks, of which two share a group and one depends on another, two processes,
three commands, one local review or status command (`MaxOutside`; imported reviews
are not bounded): two of every actor suffice for each hazard, a third command lets
one of them come after the other two. Fairness: weak, of each process's own steps.
Agents, gates and lock waits have timeouts in the code (`LockTimeout`,
`RunAgent`), so a scheduled process goes on; operators, crashes and new commands
have none.

### `objective_actions`: ActionLifecycle, ObjectiveActions

`ActionLifecycle` is the promise: reserved, then started or cancelled, ended at
most once, and nothing reserved or started while an outcome is unknown.
`ObjectiveActions` is the code: each file write is a step, `objectives.lock` is
held from write to write by the two operations that write several files
(a takeover and an event commit), and a crash may come between any two. The
wall clock jumps both ways (`SetClock`).

`LifecycleHolds` is the refinement, with the phase of an action read off its
three files. `JournalHolds` says what the recovery code relies on
(`ReservedAreCurrent`, `ExecutionRecorded`, `TakeoverMatches`), `WorkBounded` what
it is for (`OneUnresolved`, `BudgetHolds`). Bounds: two actions (one executes, one
reviews), two schedulers, three owner generations, three events, a clock of two
ticks: a second generation can be overtaken by a third.

### `external_claims`: ExternalClaims

The same board in external mode: a runner claims a task, works elsewhere and
hands in a bundle. `ClaimCheck`, `ClaimWrite`, `ClaimStatus` are `claim_task`
between its lock and its two writes; `ReleaseUnlink` and `ReleaseStatus` the two
of a release; `ImportStart`, `ImportPublish`, `ImportEnd` an import, whose
evidence is published before the status moves; `AnswerCheck`, `AnswerWrite`,
`AnswerAssign` an external answer. `Build` is the runner: a bundle repeats the
claim and the lineage that were on file when it was built, so it may arrive
after the claim expired (`Expire`), was taken over, or was answered. `PlanMatches`
and `LineageMatches` are the two checks that tell. `ImportReview` and `Signoff`
hold the state lock and write one file and the status.

`GroupsExclusive` is the conflict group under claims, with the answer of a
waiting task as the named exception; `EvidenceBound` says that only the holder
of the claim on file brings a task to review (`EvidenceFenced`) and that a
continuation carries the answer on file (`AnswerBound`); `DoneIsAttested` that
whoever executed neither reviewed nor signed. Bounds: two tasks of one group, two
processes, three principals, two claims, two bundles, one answer, one override:
two claims suffice for a takeover, two bundles for a late one.

### `task_evidence`: TaskEvidence

One task in local mode, file by file: a run (`RunStart` to `FinishPoint`), a
review (`ReviewStart` to `ReviewApply`) and a merge (`MergeCheck`, then under the
lock of the line `Merge`) hold three different locks and interleave at every
file they write; hands commit in the worktrees, an operator moves the task, run
and review die anywhere. A hash is the content hashed.

`DoneIsReviewed` says that a review looked at the very code recorded and bound
this receipt and these heads; `DeliveredIsReviewed` that nothing else reaches
the line. Both hold unless an operator moved the task since its review started
(`Undisturbed`). `PointerValid` and `LastIsReviewed` are proved with them. Bounds:
two attempts, two commits, two reviews, one override: a second of each is enough
for anything stale to be mistaken for the first.

### `delivery`: LineSetup, TaskWorktrees, ProofCertificates, LineMerge, LineWizard, Bootstrap

`LineSetup` is `create_line`: plan every repository (`PlanLine`), add one worktree
after the other (`AddTree`), write the manifest (`Register`), on a failure undo
the worktrees of this call from the last to the first (`UndoTree`). An add that is
reported failed may have made its worktree (`AddFails`), a removal may fail and the
undo go on (`UndoFails`) or end there (`UndoStops`); `left` remembers what stays
that way. Calls overlap, bases move, a kill or Ctrl-C comes anywhere. `LinesWhole`: a
registered line is whole and doctor has nothing to report (`RegisteredIsWhole`), and
the other worktrees are those in `left`, none of which belongs to the line
(`NoOrphans`). In a line so created `TaskWorktrees` runs, reviews, merges and
closes a task, repository by repository; `close` and people hold no lock.
`WorkStays`: the work of a done task is in the line, on its branch or in its
worktree (`WorkIsKept`; work that came while a close was under way is excepted by
`raced`), and integration once observed is not taken back
(`IntegrationSticks`). `BundleFollows`: the proof bundle of `ProofCertificates`,
judged by a reader with the heads of the line, agrees with what the workspace
says of integration.

`LineMerge` is the protocol of `task merge`, `line merge` and `line sync`: plan,
stage, commit, push per repository, and undo in reverse when something failed.
Git may find a conflict, fail, or be killed by its timeout after the commit was
made; hands commit in the lines; a process dies and leaves what it staged.
`MergesWhole`: a line nobody works on has a task in all repositories or in none
(`WholeAtRest`; `torn` names the ways the code leaves a half: a death, an undo step
that failed, a commit that was there although it was reported failed, a source
line read in the middle of a merge), and what was pushed stays (`PushedIsKept`).

`LineWizard`: questions, previews and steps back while refs and lines come and
go; `CreatedAsShown`: the line created is the one last previewed. `Bootstrap`:
`AnchorsWhole` under overlapping calls, failures, kills and cleanups that fail
themselves (`ClearFails`, remembered in `uncleared`).

Bounds: two repositories, two overlapping calls, one kill each; three edits; a
parent and a child line with a task each and every interleaving of two merges of
any kind. Two repositories suffice for every half; the order of the repositories
differs between calls.

### `family_channel`: OverlayLog, FamilyChannel

`OverlayLog` is the event log that moves to an archive before the row that would
not fit; writers hold a lock, pages of `observations.py` take it too,
`read_overlay_events` does not. `FamilyChannel` puts messages, retractions,
acknowledgements, artifacts and task status changes on it; a post first replays
the signals that are missing (`Missed`), and a process dies or a disk fails
between any two files. `ChangesTold`: what is shown was told by a signal of its
own, once (`ShownIsToldOnce`), and the last row of a task names its status unless
the gap mark says otherwise (`StatusTold`). `ReadingsHold`: references are there
(`ReferencesHold`), pages are the log (`PagesAreTheLog`), and a reading without the
lock that reports itself whole left no row out (`OverlayIsPrefix`). Bounds: a line
and its fork, two processes, one row per file, so that every append rotates, two
channel rows, one fault.

### `objective_scopes`: ObjectivePlanner, ObjectiveScopes

`ObjectivePlanner` has readiness, plan, wave and attention as operators over a
board; it has no state and no recursion. `ObjectiveScopes` runs two Objectives,
the old loop and people over that board, with contracts edited under way.
`AuthorityHolds`: no task is owned twice (`ScopesDisjoint`), and a run has one
authority (`OneAuthority`). `WavesGo`: a wave can run as a whole, and what can run
is planned (`WaveRunnable`); an active Objective always has a run, something to
start, or something to show to people (`NeverStuck`). Bounds: two tasks of one
group, one depending on the other in one of two contracts, one decision, four
events, one failure.

### `dispatch_run`: RunLifecycle, DispatchRun

`RunLifecycle` promises: one executing generation, a final verdict, an
acknowledged cancellation is the verdict, no verdict while a backend works.
`DispatchRun` has the run record and the slots, each under its own lock, and
workers that die anywhere: acquire slots and take dead ones over, claim, bind,
heartbeat, spawn the backend behind a gate, check again, open it, end, clean up,
release, publish; reconciliation by third parties. `RunLifecycleHolds` is the
refinement. `BackendsHold`: a live backend has the slots of its run, and ends when
the heartbeat failed (`BackendsInSlots`, `HeartbeatStops`). `RunsEnd`: a run that was
reserved or claimed gets a verdict, under weak fairness of the steps of live
workers (all their waits have timeouts) and of `Reconcile`, which every listing
of runs performs. Bounds: two runs of two backends, two generations, slots of
one per backend and one global, hence every takeover and every contention.

### `dispatch_batch`: DispatchBatch, TaskDaemon

`DispatchBatch`: start, retry, cancellation and collection of one request id,
with crashes between any two writes. `ExecutedOnce`: members of one plan, each
once (`OncePerRequest`), none after an acknowledged cancellation (`CancelSticks`),
and a result stays (`ReadySticks`). `BatchEnds`: every command ends, under weak
fairness of the starters and strong fairness of the collector, which takes its
locks by a blocking `flock`. Two plans, two members, two starters.

`TaskDaemon` is the loop of `dyro task daemon`: select a wave, bind agents, run
and review in pools of threads. `QueueMoves`: while the daemon goes on, a task
some agent takes does not wait for ever, unless tasks that none takes hold every
place or its group. That exception is the code's: such tasks keep their places
in every wave. Fairness: weak, of the daemon's own steps (agents have timeouts)
and of the end of runs by others. Four tasks, two places: one is never taken, two
share a group.

### `host`: SkillInstall, DispatchContext, UpdateCheck, WorkspaceRegistry

`SkillInstall` installs, upgrades, removes and migrates a Skill over two homes,
one of which is not always found, with errors (`Error`, then `Undo...`), a death
and edits by hand. `InstallsSettle`: a command did all or nothing (`AllOrNothing`)
or left the marker (`HalfIsMarked`); `ForeignKept`: what somebody else put in the
place of a link is not touched.

`DispatchContext` is one dispatched run from the files of its prompt to gc.
`ContextsHold`: an editing provider is told of the files as they are in its
worktree (`PromptIsBase`), and its patch is all it did (`PatchIsWork`);
`LeftIsFound`: what a failure leaves is named by the verdict or found by gc.

`UpdateCheck`: `PreferenceKept`, two processes over one state file.
`WorkspaceRegistry`: `EntriesHold`, two commands, two clones of a project, aliases
that differ in case.

### `console`: ConsoleServer, ConsoleOverview, ConsolePage

The listener with its slots, secret, bearer, workers and deadlines
(`ListenerHolds`: slots come back, one bearer serves within its life); a client
paging through workspaces that change (`PagesAreOne`); one workspace captured
part by part, projected and checked. `PageHonest`: each part shown is what it was at
some moment or is marked as unread, and a page is withheld for what is on it only:
a name that looks like a credential (`Odd`), a list of more than `MaxRows` rows (1000
in the code), a row that holds too many names or too large a count (`Oversized`), an
event or ledger row of more than 16 facts, which the program never writes but a hand
may (`WriteByHand`). Bounds: three connections on two slots; three workspaces, one of
which has such a name, pages of one; three tasks, one of them odd and one oversized,
a line and an Objective, lists of one row, three changes, one break.

### `records`: AuditWitness, TrustStore, EvidenceStore

`AuditWitness`: copies of a workspace sync their logs to one witness over a
network that loses, delays and repeats; clones, restored backups, key rotation
and recovery, a witness that dies between record and checkpoint.
`ConfirmedIsWitnessed`: what a client holds confirmed the checkpoint contains.
`TrustStore`, three files read and written one by one while days pass. `TrustHolds`:
no key delivers under two purposes (`SeparatedKeys`), and only what is trusted
verifies (`VerifiedIsTrusted`): the key the id is bound to, within its term on the
day the record names, or on a day of the verification when that asks for now.
`EvidenceStore`: an import lists the attempts there are, for which every manifest and
attempt record must be there (`Listable`), while a prune reads every file
(`Readable`); a directory that has the name of the attempt already is taken only if
its manifest lists the same files and all are there (`Publish`). `EvidenceServed`: the
current generation is whole and readers find it (`CurrentIsWhole`, `Served`);
`NeverBack`: evidence of an earlier attempt never becomes current again. Bounds: two
copies and two events; two commands, one key id, two keys of which one is trusted
for the first day and one for the second (`Binding`), one verifier; three attempts
with clocks that read 0 or 1, so that the one that started last need not have the
highest number, one reader.

## 4. What is proved

For any sets of tasks, processes, keys and files, and any values of the bounds.
Every theorem has the same three steps: an inductive invariant holds at the
start, every action keeps it (a lemma per action or per few of them), and it
implies the property. TLC checked the invariants before they were proved. What
follows says why the property alone is not inductive.

`TaskScheduling_proofs`: `TypeCorrect` (`Spec => []TypeOK`), `ConflictGroupsExclusive`
(`Spec => []AgentsExclusive`) and `VerdictsStand` (`Spec => VerdictsHold`). The
invariant adds who holds which lock at which program counter (the dispatch lock
between `locked` and `reserved`, the execution lock of its task at every step of
a command) and that an executing task which nobody ousted is `in_progress`.
With the dispatch lock held and the check passed, no other task of the group is
in_progress, hence none is executed. Dependencies are read at the reservation
and their files change later; they stay done because a task that is reserved or
executed is not done (`Undone`), so whatever a command writes late, it writes to
a task no other builds on.

`TaskEvidence_proofs`: `PointersValid`, `DoneReviewed`, `LastReviewed` and
`DeliveredReviewed`. The argument is one about age: commits only grow, a recorded
head is never newer than the worktrees, and a reviewer looks at nothing older
than the heads its review started from (`Looked`, `Written`); so a review that
binds the recorded heads while the worktrees are at them looked at exactly them
(`AcceptedIsGood`). `Settled` and `Stable` say why that stays true until the
verdict is applied: a task in `review` or `done` is not being executed, and
nobody but the review and an operator takes it out of there. `Attempts` ties run
state, attempt number and record together across the two files of
`finish_execution_attempt`. Assumptions: the bounds are natural numbers, and the
absence of a file is not one of its contents.

`ExternalClaims_proofs`: `TypeCorrect`, `GroupsApart` (`[]GroupsExclusive`),
`DoneAttested` (`[]DoneIsAttested`) and `EvidenceIsBound` (`EvidenceBound`).
`Attested` follows the three principals from the bundle through review and
signoff to done: while a task is under review nothing of its evidence changes,
because imports, claims and releases hold its state lock and look at its status
first (`Locked`, `Steady`). `Apart` is what a claim found out under the dispatch
lock, kept until it is written. `Answers` says that an answer is written only
while its task waits, and `HasLatest` that the attempts of a lineage have a last
one, which a continuation names.

`ObjectiveActions_proofs`: `TypeCorrect`, `WorkIsBounded` (`[]WorkBounded`),
`JournalFits` (`[]JournalHolds`) and `PromiseKept`: `ObjectiveActions` implements
`ActionLifecycle`, every step being an abstract one of a single action or a stutter
(`NextMaps`). `Alone` is the heart: at most one action is reserved or unresolved.
It holds across takeovers because a takeover record says which reservations it
cancels before the lease changes (`TakenOver`), and a pending event before the
event does (`Committed`), so that whoever completes the record after a death
cancels all of them; and because every scheduler has a generation of its own
(`Granted`). The budget is charged for what is open as if it had failed
(`Charged`).

The same module proves `ObjectiveScopes`: `AuthorityIsOne` (`[]AuthorityHolds`),
`WavesCanRun` (`[]WaveRunnable`) and `WavesKeepGoing` (`[]WavesGo`). Scopes stay
disjoint because whoever becomes an owner looks at all the others under the lock
(`RecordChanges`), and an action in doubt keeps its Objective an owner (`Scoped`).
A run has one authority because the task of a run is `in_progress` and no other
process may reserve it then (`Executed`); only the loop that looked before there was
any Objective holds a task unfenced, and what is in review stays so until it goes
on (`Passed`). The wave needs induction: `Waves` and `Closure` are recursive
functions, so `LeastOne` (a set of numbers has a least one, from the library's
`WFMin` over finite sets) gives `AllNumbers`, the rule of induction for a set, with
which `WaveGrows` and `ClosureOfTasks` show that the functions exist and are what
their recursion says, and `WaveFits` that what joins a wave collides with nothing
in it. `NeverStuck` speaks of the guards of what can go on (`CanMerge`, `CanRerun`,
`CanDecide`, a wave that is not empty) instead of ENABLED. Its proof looks for the task
to go on with: walking from an unmerged target to an unmerged dependency for as many
steps as there are tasks would come by one of them twice (`FS_PigeonHole`), which a
valid graph has not (`WalkIsReached`); so some unmerged task of the scope depends on
merged ones only (`SomethingIsNext`). `Accounted` says what can be wrong with it: nothing
is in progress that no process holds (`Held`; an action whose process died holds for
ever, the exception the property names), and what was ever taken waits for no
decision, since decisions are only ever resolved. So its run or review is planned, and a
wave takes it because nothing runs (`WaveStarts`), or it is shown to people under each
status it may have. These theorems assume that `TaskOrder` lists the tasks, which makes
them finitely many, and that each task has a first contract.

`DispatchRun_proofs`: `TypeCorrect`, `BackendsBounded` (`[]BackendsHold`) and
`PromiseKept`: `DispatchRun` implements `RunLifecycle`. A live backend may outlive its
worker, so the invariant is about the generation and not the process: its run
still has its token, its slots and its backend (`Living`), the slots still carry
its lease (`Leasing`), and behind the gate the record knows the backend before
it is let go (`Gated`). A slot is taken over only when its run is over and its
backend gone (`NotTaken`).

The same module proves `DispatchBatch`: `MembersOnce` (`ExecutedOnce`). The id is bound
to the one plan that has a manifest or a record (`BoundOnce`), because both are written
under the lock of the request (`LocksHeld`) and the binding comes before the first
record and before the manifest goes. A member that was executed has a record that is
not new, or none and no manifest either (`NotAgain`): no retry makes it new, because a
command past its records knows them all there until the batch is collected
(`MembersThere`). What a cancellation passed is not reserved, and no command that
still saw the batch active comes to it (`CancelsHold`). It assumes at least one member, as
`batch_contract.py` asks for two.

`Records_proofs`: `ReceiptsOnOneBranch` (`[]ConfirmedIsWitnessed`): a batch extends the
head it starts from (`Forward`), whatever is pending was posted by this copy or
the one it was copied from (`Posted`), and the batch between record and
checkpoint continues the checkpoint (`JobContinues`): so the checkpoint only
grows, and a receipt is given only for what it contains. `KeysTrusted`
(`[]TrustHolds`): who writes for a delivery purpose holds the lock from its look
through the directories to its last file (`Guarded`), the metadata are there
before the key (`MetaFirst`), and as files appear and stay, what a verification
read one by one still is so when it accepts, and the day it compared with the term
lies between its beginning and now (`ReadSoFar`). `EvidenceFound`
(`[]EvidenceServed`) and `EvidenceNeverBack` (`NeverBack`): what is being published is
not older than what is current, a directory under its name is of the very attempt and
may be torn, but what will be pointed at has every file and all the evidence among
them (`Publishing`, `Complete`), and what is being removed is not current (`Removing`).

The same module proves `FamilyChannel`: `TheLogTells` (`[]ChangesTold`) and
`ReadersAreServed` (`[]ReadingsHold`). The log only grows, its rows are numbered and tell
nothing that is not in a channel, a message once (`LogTells`). What a post still has to
tell was read under the lock of the log and is in none of its rows (`Unsaid`), which
makes the replay of missing signals safe after a death at any point; a row of an
acknowledgement follows the signal of its message. `StatusTold` needs `Alone`: one
process at a time writes the log, and one changes a task, so the row it is about to
write is the last of the task. Archives are full and the newest file is not longer
(`FilesFit`), so the archives up to any of them are a beginning of the log, properly
shorter unless it is the last (`ArchivesGrow`). Hence what a reader without the lock
puts together from the archives it listed and the file that is newest by now is
numbered without a hole only if it is a beginning of the log (`StitchIs`), and a page
goes on exactly where the ones before it end (`PageIs`).

And `ConsoleOverview`: `PagesAreOfOne` (`[]PagesAreOne`). One sample has one card of each
workspace it asked (`SampleInv`); the order of cards is total on different aliases
(`OneBefore`), so the number of cards before a card is its place and the sorted list
exists (`PlacesOf`, `OrderedIs`). A cursor is good only for the very list it was given out
for, so what a client has is the beginning of that one list up to its cursor, and the
next page continues it (`ClientInv`, `PiecesMeet`). It assumes finitely many workspaces,
named by numbers for their order, pages of at least one card, and that "no cursor" is
none.

`Host_proofs`: `EntriesStay` (`[]EntriesHold`): an entry comes in only where no other
has its name or its project (`Apart`), under any sequence of puts and removals.
`ContextsHonest` (`[]ContextsHold`) and `LeftIsKnown` (`[]LeftIsFound`): the contents of
the files are read before the commit, so what was read is in the commit, or the
project has lost it meanwhile, and a content that was lost does not come back
unless somebody returns to an earlier commit (`InBaseOrLost`; `returned` is the
exception the property names). Hence what the worker reads again and finds
unchanged is in its base (`WorkerInv`), and what the provider leaves more is the
patch (`WorkInv`). `WishesStay` (`[]PreferenceKept`): a process that writes reads the
file again under its lock, so the property is inductive. `ForeignStays`
(`ForeignKept`): the steps of a command change an avatar only where there is a link or
nothing. `InstallsAreWhole` (`InstallsSettle`): `InstallInv` says, for each place where a
command nobody edited meanwhile may stand or fail, which of mirror, manifest, links and
legacy manifest are new, which are old and where the backup is (`OpFiles`, `OpLinks`),
that the marker says so (`OpMarker`), and that without a marker the files agree
(`Rest`): so an undo finds everything it needs. `ListenerBounded` (`[]ListenerHolds`):
slots are counted against the connections that hold one (`SlotsReturn`, with the
cardinality lemmas `FlightStarts` and `FlightEnds`), and who is past the door came
with the one bearer there is (`OneBearer`, `Admitted`). `PagesAreHonest`
(`[]PageHonest`): every part that was read is what it was at one of the moments of the
reading (`ReadThen`), only with names that were there and may be shown unless odd
(`ReadNames`); so a page that is refused has an odd name or too much on it
(`RefusedForCause`), as the parts agree wherever the listener compares them
(`SameReading`).

`Delivery_proofs`: `AnchorsStayWhole` (`[]AnchorsWhole`): who copies made the directory and
is alone in it (`Owned`), and only a kill or a failed cleanup leaves half a copy that
nobody owns (`Halves`). `TheLineShownIsCreated` (`[]CreatedAsShown`): at the confirmation what is
shown is what the answers plan (`Answered`), and `Overrides` undone by `BaseFor` gives
the bases that were answered (`BaseAnswered`). `LinesAreWhole` (`[]LinesWhole`): the
worktrees behind a call are its own (`Making`), so an undo takes no other's, and
every worktree on disk is registered, in `left`, or of a call under way or killed
(`Accounted`). `BundlesFollow` and `WorkIsNotLost` (`[]BundleFollows`, `WorkStays`) follow
run, merger and closer through the repositories in their order: up to its
position each has done its part and from there on nothing (`Phases`, `Merging`,
`Closing`); the branch holds what its worktree recorded (`OnBranch`), and all work is in
line, branch or worktree (`Kept`). The clauses about the closer stand unless
somebody worked while it closed (`raced`). `MergesAreWhole` (`[]MergesWhole`): a merge that holds
its line knows, for every repository before, at and behind its position, whether
head and stage are as it read them or hold the tasks it brings
(`PhaseHolds`), and a line nobody holds is clean or `torn` (`Rest`).

Assumptions on constants are those named `...Assumption` in the modules: bounds
are natural numbers, the value that stands for "no file", "nobody" or "nothing"
is not one of the values it stands beside, and what the code checks before
(the task graph has no self loop, the delivery purposes are purposes, a project
has as many names to propose as there are projects, as `_2`, `_3`, ... are
appended until one is free; the repositories have an order, and there is at least
one).

To be reasoned about, recursion in these modules is in functions or folds, and
updates of functions over changing domains are written out
(`DispatchContext!With`).

Model-checked only:

- liveness (`CommandsEnd`, `RunsEnd`, `BatchEnds`, `QueueMoves`): the prover has no rules
  for fairness and ENABLED.

## 5. What is not modelled, and what the models show besides

Formats, cryptography, Git's own behaviour, and the components of PROJECT.json
with status `not_modelled`: the bridge (one request at a time in front of
operations that are modelled), vendor adapters, parsing and rendering, generated
host files, deployment. Of modelled components: creation of tasks and prompts,
renewal of the owner lease (nothing calls it), observe mode, budget limits
other than actions and failures, the preflight of merges (it only refuses more),
clocks and revocation of the witness key, panels of dispatch batches, proofs other than
review and integration, the browser side of the console. The larger part of
what stays unmapped is argument parsing, validation of documents and rendering.

A claim whose lease runs out while its task is in review has no property: review,
signoff, renewal and a new claim refuse the task until an operator fails it
(`tasks.py:2026`), and nothing justifies fairness of an operator.

What the modules had to except, or showed on the way, is behaviour of the code
worth knowing:

- a takeover or an event whose cancellations were not written, and a receipt
  written meanwhile by another command, block each other for ever
  (`continuation/owner_lease.py:158`, `continuation/objective_storage.py:654`);
- pause accepts a stopped Objective (`continuation/store.py:1178`), although
  `docs/designs/native-continuation-engine.md:340` calls stopped final;
- the FAIL of a local review is applied to whatever the status is when the reviewer
  ends (`tasks.py:2681`, `2643-2645`): if the task was failed and run again meanwhile,
  and the new attempt has recorded nothing a review could be bound to
  (`provenance.py:533`), it moves the task from in_progress to failed under its agent,
  and another task of the conflict group is dispatched beside it, although
  `docs/agent-orchestration-discipline.md:67` has one writer per group;
- an external answer makes a task assigned beside another of its group
  (`tasks.py:2475`); attempts ordered by runners' clocks may wedge a lineage
  (`provenance.py:489`);
- a merge asks for status and review before it waits for its lock
  (`tasks.py:3177`); a commit reported failed that was made survives the undo
  (`tasks.py:2980`);
- a slot whose run record cannot be read is never taken over
  (`experiments/local_agent_dispatch/lease.py:467`);
- two overlapping creations of one line over disjoint repositories both register,
  and the second manifest hides the first (`workspace.py:577`); a kill, a removal that
  fails, and an add that is reported failed but was done (`workspace.py:615-627`) leave
  worktrees that make the next creation refuse;
- after a normal close every review proof of the task reads "decayed"
  (`proof/decay.py`);
- a death in the middle of a copy, or an error of the cleanup after a failed one, which
  is swallowed, leaves an anchor that bootstrap then refuses, or takes for whole when
  `.git` was copied (`onboarding.py:483-545`);
- a death between a key and its audit line is never told (`signing.py:583`); a death
  in a removal leaves a torn generation that `task evidence generations` refuses for
  ever, and imports too once its manifest or attempt record is gone
  (`evidence_store.py:142-182, 284`); a torn row makes the event log unreadable;
- a publication that died between the rename and the pointer cannot be finished: the
  next import of the attempt does not put its record among the files again
  (`provenance.py:443-454`), so the manifests differ and it is refused
  (`evidence_store.py:404`); only a further attempt gets on;
- an edit worktree whose removal fails inside
  `experiments/local_agent_dispatch/edit_workspace.py:163-177` is not among the faults
  of `DispatchContext`;
- an `update` that waits for its answer may install an older version than another
  process just did; `workspace remove` may remove an entry that was re-bound
  meanwhile (`cli.py:2083`);
- a workspace whose name looks like a credential makes the whole overview page
  refused (`console/_inspect_worker.py:107-133`), and a workspace is captured at
  several moments (`observations.py:255-351`) without the comparison of revisions
  that `docs/designs/local-web-console.md:624` describes.
