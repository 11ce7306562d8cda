-------------------------- MODULE DispatchContext --------------------------
(* What one dispatched run of a real provider is shown, and what is left of  *)
(* it.  The run is accepted with a digest of its guarded context (the files  *)
(* its globs match, read one by one), the reviewed HEAD of an edit run and   *)
(* the execution profile of the provider.  A worker reads the files again,   *)
(* compares, and works in a copy of the context (read-only) or a worktree at *)
(* the reviewed HEAD (edit), whose changes are sealed as a patch.  The       *)
(* project goes on changing meanwhile.  Slots, process identities and the    *)
(* claim of the run are in DispatchRun.  A digest is the value it is made of.*)
EXTENDS Naturals, Sequences

CONSTANTS Files,      \* the paths the globs of the contract may match, in order
          Gone,       \* the content of a file that is not there
          Nothing,
          Denied,     \* the contents the guard refuses: secrets, binary, too long
          MaxEdits,   \* bound: new contents people and the provider write
          MaxCommits, \* bound: commits in the project
          MaxRoutes,  \* bound: changes of the provider configuration
          MaxFaults   \* bound: failing steps, lost leases and deaths

VARIABLES contract, \* [mode, async]: fixed when the run is accepted
          project,  \* [head, tree]: HEAD and the files of the project root
          commits,  \* the trees of the commits, by number
          route,    \* version of the user's provider configuration
          acceptor, \* the command that accepts the run
          record,   \* the run record
          worker,   \* the worker of the run, and the command that spawned it
          art,      \* what the run keeps on disk
          spent,    \* [edits, faults]: the bounds used up
          returned, \* since the acceptance began, did the project go back to
                    \* contents it had before (a branch switch, a stash pop)
          work      \* what the provider left in its worktree, and whether it
                    \* committed there

contextVars == <<contract, project, commits, route, acceptor, record, worker,
                 art, spent, returned, work>>

FileSet == {Files[i] : i \in DOMAIN Files}
Trees == [FileSet -> Nat \union {Gone}]

ASSUME ContextAssumption ==
  /\ {MaxEdits, MaxCommits, MaxRoutes, MaxFaults} \subseteq Nat
  /\ Nothing \notin [files : Trees, head : Trees]

Verdicts == {"completed", "failed", "timeout", "cancelled"}
NoRead == [pc |-> "idle", todo |-> {}, seen |-> <<>>, head |-> 0]
NoWork == [pc |-> "idle", todo |-> {}, seen |-> <<>>, outcome |-> "none",
           warned |-> FALSE, sealed |-> Nothing]

ContextInit ==
  /\ contract \in [mode : {"read-only", "edit"}, async : BOOLEAN]
  /\ commits = <<[f \in FileSet |-> 0]>>
  /\ project = [head |-> 1, tree |-> commits[1]]
  /\ route = 0
  /\ acceptor = NoRead
  /\ record = [status |-> "absent", context |-> <<>>, base |-> 0, route |-> 0,
               cancel |-> FALSE, shadow |-> FALSE, patch |-> Nothing,
               warned |-> FALSE, by |-> "nobody"]
  /\ worker = NoWork
  /\ art = [shadow |-> Nothing, tree |-> Nothing, patchDir |-> FALSE,
            patch |-> Nothing, home |-> FALSE]
  /\ spent = [edits |-> 0, faults |-> 0]
  /\ returned = FALSE
  /\ work = [tree |-> Nothing, committed |-> FALSE]

-----------------------------------------------------------------------------
(* Collecting a context: expand_files, then read_guarded_file by file.       *)

\* adapter_execution_profile: provider, model, command (and, for one provider,
\* a digest of its whole route) as the configuration selects them now
Selected == route

\* the places in Files that match
Matched == {i \in DOMAIN Files : project.tree[Files[i]] # Gone}

\* They are read in order; one that is gone by then, or that the guard refuses,
\* ends it.
Foremost(p) == {i \in p.todo : \A j \in p.todo : i <= j}
Readable(i) == project.tree[Files[i]] \notin Denied \union {Gone}
With(seen, f) ==
  [g \in DOMAIN seen \union {f} |-> IF g = f THEN project.tree[f] ELSE seen[g]]
ReadNext(p, i) == [p EXCEPT !.todo = @ \ {i}, !.seen = With(@, Files[i])]

\* review_edit_snapshot: what is tracked, and clean against HEAD as it is now
CleanAt(seen, tree) == \A f \in DOMAIN seen :
  tree[f] # Gone /\ project.tree[f] = tree[f]

Expand ==
  /\ acceptor.pc = "idle"
  /\ acceptor' = [NoRead EXCEPT !.pc = IF Matched = {} THEN "refused"
                                       ELSE "read", !.todo = Matched]

AcceptRead ==
  /\ acceptor.pc = "read"
  /\ \E i \in Foremost(acceptor) :
       acceptor' = IF Readable(i) THEN ReadNext(acceptor, i)
                   ELSE [NoRead EXCEPT !.pc = "refused"]

ReviewHead ==
  /\ acceptor.pc = "read" /\ acceptor.todo = {}
  /\ acceptor' = IF contract.mode = "edit"
                 THEN [acceptor EXCEPT !.pc = "status", !.head = project.head]
                 ELSE [acceptor EXCEPT !.pc = "create"]

ReviewStatus ==
  /\ acceptor.pc = "status"
  /\ acceptor' = [acceptor EXCEPT
                    !.pc = IF CleanAt(acceptor.seen, commits[project.head])
                           THEN "head" ELSE "refused"]

\* Mutant: HEAD is not read again.
ReviewOnce ==
  /\ acceptor.pc = "head"
  /\ acceptor' = [acceptor EXCEPT !.pc = "create"]

ReviewAgain ==
  /\ acceptor.pc = "head"
  /\ acceptor' = [acceptor EXCEPT
                    !.pc = IF project.head = acceptor.head THEN "create" ELSE "refused"]

AcceptStep ==
  /\ Expand \/ AcceptRead \/ ReviewHead \/ ReviewStatus \/ ReviewAgain
  /\ UNCHANGED <<contract, project, commits, route, record, worker, art, spent,
                 returned, work>>

Create ==
  /\ acceptor.pc = "create"
  /\ acceptor' = [acceptor EXCEPT !.pc = "accepted"]
  /\ record' = [record EXCEPT !.status = "accepted", !.route = Selected,
                              !.context = acceptor.seen, !.base = acceptor.head]
  /\ UNCHANGED <<contract, project, commits, route, worker, art, spent,
                 returned, work>>

RequestCancel ==
  /\ record.status \in {"accepted", "running"} /\ ~record.cancel
  /\ record' = [record EXCEPT
                  !.cancel = TRUE,
                  !.status = IF @ = "accepted" THEN "cancelled" ELSE @]
  /\ UNCHANGED <<contract, project, commits, route, acceptor, worker, art,
                 spent, returned, work>>

-----------------------------------------------------------------------------
(* The worker.                                                               *)

Fault == spent.faults < MaxFaults /\ spent' = [spent EXCEPT !.faults = @ + 1]
To(pc) == worker' = [worker EXCEPT !.pc = pc]
Leave(outcome) == worker' = [worker EXCEPT !.pc = "clean", !.outcome = outcome]

Reviewed == Selected = record.route

\* worker_environment: the credentials of the selected route, copied into a
\* private home that only this run uses
HomeMade == [art EXCEPT !.home = TRUE]

\* spawn_worker: the provider must still be configured as it was reviewed; its
\* selected credentials are copied into a home of the run.
Spawn ==
  /\ contract.async /\ worker.pc = "idle" /\ record.status = "accepted"
  /\ IF Reviewed
     THEN \/ /\ art' = HomeMade
             /\ To("spawned") /\ UNCHANGED <<record, spent>>
          \/ /\ Fault /\ To("done") /\ UNCHANGED art
             /\ record' = [record EXCEPT !.status = "failed"]
     ELSE /\ To("done") /\ UNCHANGED <<art, spent>>
          /\ record' = [record EXCEPT !.status = "failed"]
  /\ UNCHANGED <<contract, project, commits, route, acceptor, returned, work>>

ClaimRun ==
  /\ worker.pc = IF contract.async THEN "spawned" ELSE "idle"
  /\ IF record.status = "accepted"
     THEN To("start") /\ record' = [record EXCEPT !.status = "running"]
     ELSE contract.async /\ To("done") /\ UNCHANGED record
  /\ UNCHANGED <<contract, project, commits, route, acceptor, art, spent,
                 returned, work>>

\* lease_check and check_cancellation between two steps of the worker
Checked(pc, next) ==
  /\ worker.pc = pc
  /\ IF record.cancel THEN Leave("cancelled") /\ UNCHANGED spent
     ELSE \/ next /\ UNCHANGED spent
          \/ Fault /\ Leave("raised")

Start == Checked("start", worker' = [worker EXCEPT !.pc = "read",
                                                   !.todo = Matched])

WorkRead ==
  /\ worker.pc = "read"
  /\ \E i \in Foremost(worker) :
       IF Readable(i) THEN worker' = ReadNext(worker, i) ELSE Leave("raised")
  /\ UNCHANGED spent

\* A sync worker reads its own configuration; an async one has the reviewed
\* profile in its environment.  Then the context is compared.
Compare ==
  /\ worker.pc = "read" /\ worker.todo = {}
  /\ IF (contract.async \/ Reviewed) /\ worker.seen = record.context
     THEN To("compared") ELSE Leave("raised")
  /\ UNCHANGED spent

Compared == Checked("compared", To("place"))

WorkerLooks ==
  /\ Start \/ WorkRead \/ Compare \/ Compared
  /\ UNCHANGED <<contract, project, commits, route, acceptor, record, art,
                 returned, work>>

PlaceShadow ==
  /\ worker.pc = "place" /\ contract.mode = "read-only"
  /\ art' = [art EXCEPT !.shadow = worker.seen]
  /\ To("placed")
  /\ UNCHANGED <<contract, project, commits, route, acceptor, record, spent,
                 returned, work>>

\* EditWorkspace.create; when it fails it removes what it made
PlaceWorktree ==
  /\ worker.pc = "place" /\ contract.mode = "edit"
  /\ \/ /\ art' = [art EXCEPT !.patchDir = TRUE,
                              !.tree = [files |-> commits[record.base],
                                        head |-> commits[record.base]]]
        /\ To("placed") /\ UNCHANGED spent
     \/ Fault /\ Leave("raised") /\ UNCHANGED art
  /\ UNCHANGED <<contract, project, commits, route, acceptor, record, returned,
                 work>>

Placed ==
  /\ Checked("placed", To("running"))
  /\ UNCHANGED <<contract, project, commits, route, acceptor, record, art,
                 returned, work>>

\* The provider at work in its worktree: it changes files, and may commit.
ProviderEdits(f) ==
  /\ worker.pc = "running" /\ art.tree # Nothing /\ spent.edits < MaxEdits
  /\ spent' = [spent EXCEPT !.edits = @ + 1]
  /\ art' = [art EXCEPT !.tree.files[f] = spent.edits + 1]
  /\ UNCHANGED <<contract, project, commits, route, acceptor, record, worker,
                 returned, work>>

ProviderCommits ==
  /\ worker.pc = "running" /\ art.tree # Nothing
  /\ art.tree.head # art.tree.files
  /\ art' = [art EXCEPT !.tree.head = art.tree.files]
  /\ work' = [work EXCEPT !.committed = TRUE]
  /\ UNCHANGED <<contract, project, commits, route, acceptor, record, worker,
                 spent, returned>>

\* _completed_to_result: how the process ended, and whether its output is a
\* result; "raised" when the adapter itself fails
Answers == {"ok", "error", "timeout", "raised"}

ProviderEnds(outcome) ==
  /\ worker.pc = "running"
  /\ worker' = [worker EXCEPT !.outcome = outcome,
                              !.pc = IF outcome = "raised" THEN "clean" ELSE "ran"]
  /\ work' = IF art.tree = Nothing THEN work
             ELSE [work EXCEPT !.tree = art.tree.files]
  /\ UNCHANGED <<contract, project, commits, route, acceptor, record, art,
                 spent, returned>>

\* seal_patch: what differs from the HEAD of the worktree
Sealed == IF art.tree.files = art.tree.head THEN Nothing ELSE art.tree.files

Seal ==
  /\ Checked("ran", worker' = [worker EXCEPT
       !.pc = "clean", !.sealed = IF art.tree = Nothing THEN Nothing ELSE Sealed])
  /\ art' = [art EXCEPT !.patch = worker'.sealed]
  /\ UNCHANGED <<contract, project, commits, route, acceptor, record, returned,
                 work>>

CleanUp ==
  /\ worker.pc = "clean"
  /\ \/ /\ art' = [art EXCEPT !.tree = Nothing]
        /\ To("publish") /\ UNCHANGED spent
     \/ /\ art.tree # Nothing /\ Fault /\ UNCHANGED art
        /\ worker' = [worker EXCEPT !.pc = "publish", !.warned = TRUE]
  /\ UNCHANGED <<contract, project, commits, route, acceptor, record, returned,
                 work>>

\* A requested cancellation replaces whatever the worker came to, its warnings
\* and its patch included; an error replaces the result.
Verdict ==
  IF record.cancel THEN "cancelled"
  ELSE IF worker.outcome = "ok" THEN "completed"
  ELSE IF worker.outcome = "timeout" THEN "timeout" ELSE "failed"

Publish ==
  /\ worker.pc = "publish"
  /\ record' = [record EXCEPT
       !.status = Verdict, !.by = "worker",
       !.warned = worker.warned /\ ~record.cancel,
       !.shadow = art.shadow # Nothing /\ ~record.cancel
                  /\ worker.outcome # "raised",
       !.patch = IF record.cancel \/ worker.outcome = "raised" THEN Nothing
                 ELSE worker.sealed]
  /\ To("done")
  /\ UNCHANGED <<contract, project, commits, route, acceptor, art, spent,
                 returned, work>>

Die ==
  /\ worker.pc \notin {"idle", "done", "dead"}
  /\ Fault /\ To("dead")
  /\ UNCHANGED <<contract, project, commits, route, acceptor, record, art,
                 returned, work>>

\* reconcile_orphaned_workers, and reservations that expire
Reconcile ==
  /\ worker.pc = "dead" /\ record.status \in {"accepted", "running"}
  /\ record' = [record EXCEPT
                  !.by = "reconciler",
                  !.status = IF record.cancel THEN "cancelled" ELSE "failed"]
  /\ UNCHANGED <<contract, project, commits, route, acceptor, worker, art, spent,
                 returned, work>>

-----------------------------------------------------------------------------
(* Removal.  The command that spawned a worker removes its home, if it still *)
(* lives; gc removes an aged run artifact by artifact and stops at the first *)
(* it cannot remove.  Bound: an aged run has no live worker (a week passed). *)

ReapHome ==
  /\ worker.pc \in {"done", "dead"} /\ art.home
  /\ art' = [art EXCEPT !.home = FALSE]
  /\ UNCHANGED <<contract, project, commits, route, acceptor, record, worker,
                 spent, returned, work>>

Aged == record.status \in Verdicts /\ worker.pc \in {"idle", "done", "dead"}

NoTree == contract.mode = "edit" => art.tree = Nothing
NoShadow == record.shadow => art.shadow = Nothing
GcShadow == NoTree /\ ~NoShadow /\ art' = [art EXCEPT !.shadow = Nothing]
GcPatch == NoTree /\ NoShadow /\ art.patchDir
           /\ art' = [art EXCEPT !.patchDir = FALSE, !.patch = Nothing]
GcHome == NoTree /\ NoShadow /\ ~art.patchDir /\ art.home
          /\ art' = [art EXCEPT !.home = FALSE]
GcTree == ~NoTree /\ art' = [art EXCEPT !.tree = Nothing]
SweepShadow == art.shadow # Nothing /\ art' = [art EXCEPT !.shadow = Nothing]

GcArtifact ==
  /\ \/ Aged /\ (GcTree \/ GcShadow \/ GcPatch \/ GcHome)
     \/ (Aged \/ record.status = "deleted") /\ SweepShadow
  /\ UNCHANGED <<contract, project, commits, route, acceptor, record, worker,
                 spent, returned, work>>

\* Mutant: the home of the worker is forgotten.
GcRecordSoon ==
  /\ Aged /\ NoTree /\ NoShadow /\ ~art.patchDir
  /\ record' = [record EXCEPT !.status = "deleted"]
  /\ UNCHANGED <<contract, project, commits, route, acceptor, worker, art, spent,
                 returned, work>>

GcRecord ==
  /\ Aged /\ NoTree /\ NoShadow /\ ~art.patchDir /\ ~art.home
  /\ record' = [record EXCEPT !.status = "deleted"]
  /\ UNCHANGED <<contract, project, commits, route, acceptor, worker, art, spent,
                 returned, work>>

-----------------------------------------------------------------------------
(* The project and the configuration change.  Bound: until the worker has    *)
(* compared them; nothing reads them afterwards.                             *)

Read == worker.pc \in {"idle", "spawned", "start", "read"}
        /\ record.status \in {"absent", "accepted", "running"}
Begun == acceptor.pc # "idle"
Elsewhere == Read /\ UNCHANGED <<contract, acceptor, record, worker, art, work>>

\* a content nobody saw before, or the removal of the file
Edit(f) ==
  /\ spent.edits < MaxEdits
  /\ spent' = [spent EXCEPT !.edits = @ + 1]
  /\ \E v \in {spent.edits + 1, Gone} : project' = [project EXCEPT !.tree[f] = v]
  /\ UNCHANGED <<commits, route, returned>> /\ Elsewhere

\* git checkout of the file
Revert(f) ==
  /\ project' = [project EXCEPT !.tree[f] = commits[project.head][f]]
  /\ UNCHANGED <<commits, route, returned, spent>> /\ Elsewhere

CommitAll ==
  /\ Len(commits) <= MaxCommits /\ project.tree # commits[project.head]
  /\ commits' = Append(commits, project.tree)
  /\ project' = [project EXCEPT !.head = Len(commits) + 1]
  /\ UNCHANGED <<route, returned, spent>> /\ Elsewhere

\* git checkout of an other commit; it also stands for a stash that is popped
Checkout(c) ==
  /\ c # project.head /\ project.tree = commits[project.head]
  /\ project' = [head |-> c, tree |-> commits[c]]
  /\ returned' = (returned \/ Begun)
  /\ UNCHANGED <<commits, route, spent>> /\ Elsewhere

Reconfigure ==
  /\ record.status # "absent"  \* bound: before, it would be the reviewed one
  /\ route < MaxRoutes /\ route' = route + 1
  /\ UNCHANGED <<project, commits, returned, spent>> /\ Elsewhere

ContextNext ==
  \/ AcceptStep \/ Create \/ RequestCancel
  \/ Spawn \/ ClaimRun \/ WorkerLooks \/ PlaceShadow \/ PlaceWorktree \/ Placed
  \/ \E f \in FileSet : ProviderEdits(f) \/ Edit(f) \/ Revert(f)
  \/ ProviderCommits
  \/ \E o \in Answers : ProviderEnds(o)
  \/ Seal \/ CleanUp \/ Publish \/ Die \/ Reconcile
  \/ ReapHome \/ GcArtifact \/ GcRecord
  \/ CommitAll \/ (\E c \in DOMAIN commits : Checkout(c)) \/ Reconfigure

ContextSpec == ContextInit /\ [][ContextNext]_contextVars

-----------------------------------------------------------------------------
(* Properties.                                                               *)

\* What a provider that edits is told of the context files is what they are in
\* the worktree it edits, although files and HEAD are read one after the other
\* twice and people go on working: unless the project went back to contents it
\* had before.  And it is never shown a content that the guard refuses.
PromptIsBase ==
  worker.pc \in {"placed", "running"} =>
    \A f \in DOMAIN worker.seen :
      /\ worker.seen[f] \notin Denied
      /\ contract.mode = "edit" /\ ~returned =>
           commits[record.base][f] = worker.seen[f]

\* Whatever an edit run ended with, if its result is the worker's own, the
\* patch is all the provider did, and the file holds it until gc takes it:
\* unless the provider committed in its worktree.
PatchIsWork ==
  /\ contract.mode = "edit" /\ record.by = "worker" /\ ~work.committed
  /\ record.status \in {"completed", "timeout"}
  => record.patch = (IF work.tree = commits[record.base] THEN Nothing
                     ELSE work.tree)
     /\ (art.patchDir => art.patch = record.patch)

\* Whatever fails or dies, the worktree of an edit run is gone when the run has
\* its verdict, or the verdict says so; only a death or a cancellation hides
\* it, and then the record is there for gc, which deletes a record after all
\* that it keeps.
LeftIsFound ==
  /\ record.status \in Verdicts /\ record.by = "worker" /\ art.tree # Nothing
     => record.warned \/ record.cancel
  /\ record.status = "deleted" =>
       art.tree = Nothing /\ ~art.patchDir /\ ~art.home

\* A provider is told of the files it edits, and its edits are all in the result.
ContextsHold == PromptIsBase /\ PatchIsWork

=============================================================================
