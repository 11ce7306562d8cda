---------------------------- MODULE TaskWorktrees ----------------------------
(***************************************************************************)
(* The worktrees and branches of one task over the repositories it names,  *)
(* from its first run to `task close` (src/dyro/tasks.py, local mode).     *)
(*                                                                         *)
(* A run makes the worktrees it misses, an agent edits and commits in      *)
(* them, the heads are recorded, a review accepts them, a merge brings     *)
(* them into the line, and close removes worktrees and branches again:     *)
(* forcibly when the task failed, only what is clean and merged when it is *)
(* done.  Every command walks the repositories one after the other, close  *)
(* and the people who edit hold no lock, and any command may die between   *)
(* two repositories.                                                       *)
(*                                                                         *)
(* A commit is the set of edits it contains.  LineMerge models the merge   *)
(* itself (staging, push, other tasks), TaskEvidence the review.           *)
(***************************************************************************)
EXTENDS ProofCertificates, Integers, Sequences, FiniteSets

CONSTANTS
    MaxEdits,     \* bound: edits made in the worktrees
    MaxDeaths     \* bound: commands that die half way

ASSUME WorktreeAssumption ==
    /\ MaxEdits \in Nat /\ MaxDeaths \in Nat
    /\ None \notin {"PASS", "FAIL", "stale"}
    /\ \A head \in SUBSET (1..MaxEdits) : head # None
    /\ \A all \in [Repos -> SUBSET (1..MaxEdits)] : all # None

VARIABLES
    line,      \* [Repos -> edits]: the head of the line's branch
    branch,    \* [Repos -> None or edits]: the task's branch
    tree,      \* [Repos -> None or edits]: the task's worktree and what is uncommitted
    status,    \* the task's status file
    heads,     \* None or [Repos -> edits]: the recorded heads
    review,    \* None, "PASS", "FAIL", or "stale": it binds an earlier attempt
    runner,    \* `task run`
    merger,    \* `task merge`
    closer,    \* `task close`
    edits,     \* number of edits made
    deaths,    \* number of commands that died
    work,      \* history: [Repos -> edits made, less those of a failed task closed]
    raced      \* history: somebody worked on the task while it was being closed, or a
               \* merge that had made its last commit was undone

taskVars == <<line, branch, tree, status, heads, review, runner, merger, closer,
              edits, deaths, work, raced>>

files == <<status, heads, review>>
git   == <<line, branch, tree>>

Away       == [pc |-> "idle", k |-> 0, got |-> [r \in Repos |-> {}]]
MergeAway  == [pc |-> "idle", k |-> 0, was |-> [r \in Repos |-> {}], made |-> {},
               unread |-> FALSE]
CloseAway  == [pc |-> "idle", k |-> 0, seen |-> None]
More(k)    == k < Len(Order)

WorktreesInit ==
    /\ line = [r \in Repos |-> {}]
    /\ branch = [r \in Repos |-> None]
    /\ tree = [r \in Repos |-> None]
    /\ status = "assigned" /\ heads = None /\ review = None
    /\ runner = Away /\ merger = MergeAway /\ closer = CloseAway
    /\ edits = 0 /\ deaths = 0
    /\ work = [r \in Repos |-> {}]
    /\ raced = FALSE

Disturbs == raced' = (raced \/ closer.pc # "idle")

-----------------------------------------------------------------------------
(* Working on the task *)

\* _reserve_local_execution; a review of an earlier attempt stays on disk, unbound.
Reserve ==
    /\ runner.pc = "idle" /\ status \in {"assigned", "failed"}
    /\ status' = "in_progress"
    /\ review' = IF review = None THEN None ELSE "stale"
    /\ runner' = [Away EXCEPT !.pc = "ensure", !.k = 1]
    /\ Disturbs
    /\ UNCHANGED <<git, heads, merger, closer, edits, deaths, work>>

\* set_status(failed): refused, and the run still over, when the status moved on.
RunFails ==
    /\ status' = IF status = "in_progress" THEN "failed" ELSE status
    /\ runner' = Away
    /\ UNCHANGED <<git, heads, review>>

\* _ensure_task_worktrees: a worktree that is there is kept, one that is missing is
\* added on the task's branch, a branch that is missing starts at the line's.
EnsureTree ==
    LET r == Order[runner.k] IN
    /\ runner.pc = "ensure"
    /\ branch' = [branch EXCEPT ![r] = IF @ = None THEN line[r] ELSE @]
    /\ tree' = [tree EXCEPT ![r] = IF @ = None THEN {} ELSE @]
    /\ runner' = IF More(runner.k) THEN [runner EXCEPT !.k = @ + 1]
                 ELSE [runner EXCEPT !.pc = "agent", !.k = 0]
    /\ Disturbs
    /\ UNCHANGED <<line, files, merger, closer, edits, deaths, work>>

\* A worktree cannot be added, the agent fails, its receipt or a gate is not good.
RunEndsBadly ==
    /\ runner.pc \in {"ensure", "agent"}
    /\ RunFails
    /\ UNCHANGED <<merger, closer, edits, deaths, work, raced>>

\* The agent, or a person, edits in a worktree and commits.
Edit(r) ==
    /\ tree[r] # None /\ edits < MaxEdits
    /\ edits' = edits + 1
    /\ tree' = [tree EXCEPT ![r] = @ \cup {edits + 1}]
    /\ work' = [work EXCEPT ![r] = @ \cup {edits + 1}]
    /\ Disturbs
    /\ UNCHANGED <<line, branch, files, runner, merger, closer, deaths>>

Commit(r) ==
    /\ tree[r] \notin {None, {}}
    /\ branch' = [branch EXCEPT ![r] = @ \cup tree[r]]
    /\ tree' = [tree EXCEPT ![r] = {}]
    /\ Disturbs
    /\ UNCHANGED <<line, files, runner, merger, closer, edits, deaths, work>>

\* The receipt says DONE and the gates pass.
AgentDone ==
    /\ runner.pc = "agent"
    /\ runner' = [runner EXCEPT !.pc = "collect", !.k = 1]
    /\ UNCHANGED <<git, files, merger, closer, edits, deaths, work, raced>>

\* _collect_task_heads asks every worktree for its head, if it is there and clean;
\* after the last the heads are recorded and the task goes to review.
CollectHead ==
    LET r == Order[runner.k]
        got == [runner.got EXCEPT ![r] = branch[r]]
    IN
    /\ runner.pc = "collect"
    /\ IF tree[r] # {} THEN RunFails
       ELSE /\ IF More(runner.k)
               THEN /\ runner' = [runner EXCEPT !.k = @ + 1, !.got = got]
                    /\ UNCHANGED <<heads, status>>
               ELSE /\ heads' = got
                    /\ status' = "review"
                    /\ runner' = Away
            /\ UNCHANGED <<git, review>>
    /\ UNCHANGED <<merger, closer, edits, deaths, work, raced>>

\* `task review`: the recorded heads must be the worktrees' before the verdict.
Review(verdict) ==
    /\ status = "review"
    /\ \A r \in Repos : tree[r] = {} /\ branch[r] = heads[r]
    /\ review' = verdict
    /\ status' = IF verdict = "PASS" THEN "done" ELSE "failed"
    /\ UNCHANGED <<git, heads, runner, merger, closer, edits, deaths, work, raced>>

\* `task status failed`, by the person who finds a run dead.
GiveUp ==
    /\ status \in {"in_progress", "review"} /\ runner.pc = "idle"
    /\ status' = "failed"
    /\ UNCHANGED <<git, heads, review, runner, merger, closer, edits, deaths, work, raced>>

-----------------------------------------------------------------------------
(* Merging *)

MergeBegin ==
    /\ merger.pc = "idle" /\ status = "done"
    /\ merger' = [MergeAway EXCEPT !.pc = "check", !.k = 1]
    /\ UNCHANGED <<git, files, runner, closer, edits, deaths, work, raced>>

\* _assert_task_heads_current and the head of the line, per repository.
MergeCheck ==
    LET r == Order[merger.k] IN
    /\ merger.pc = "check"
    /\ merger' = IF tree[r] # {} \/ branch[r] # heads[r] THEN MergeAway
                 ELSE IF More(merger.k) THEN [merger EXCEPT !.k = @ + 1]
                 ELSE [merger EXCEPT !.pc = "commit", !.k = 1, !.was = line]
    /\ UNCHANGED <<git, files, runner, closer, edits, deaths, work, raced>>

\* One merge commit; a line that has the head already gets none.
MergeCommit ==
    LET r == Order[merger.k] IN
    /\ merger.pc = "commit"
    /\ line' = [line EXCEPT ![r] = @ \cup heads[r]]
    /\ merger' = IF ~More(merger.k) THEN MergeAway
                 ELSE [merger EXCEPT !.k = @ + 1,
                           !.made = IF heads[r] \subseteq line[r] THEN @ ELSE @ \cup {r}]
    /\ UNCHANGED <<branch, tree, files, runner, closer, edits, deaths, work, raced>>

\* Only a commit that is still to be made can fail.
MayStill(r) == ~(heads[r] \subseteq line[r])

\* _rollback_merges takes the lines this merge moved back, the last one first.
MergeFails ==
    /\ merger.pc = "commit"
    /\ MayStill(Order[merger.k])
    /\ merger' = [merger EXCEPT !.pc = "undo"]
    /\ UNCHANGED <<git, files, runner, closer, edits, deaths, work, raced>>

\* The commit is made and Git still reports a failure (a timeout), or its head cannot
\* be read: the merge is undone, but for this commit.
MergeUnread ==
    LET r == Order[merger.k] IN
    /\ merger.pc = "commit" /\ ~(heads[r] \subseteq line[r])
    /\ line' = [line EXCEPT ![r] = @ \cup heads[r]]
    /\ merger' = [merger EXCEPT !.pc = "undo", !.unread = TRUE]
    /\ UNCHANGED <<branch, tree, files, runner, closer, edits, deaths, work, raced>>

MergeUndo ==
    /\ merger.pc = "undo"
    /\ IF merger.made = {}
       THEN merger' = MergeAway /\ UNCHANGED line
       ELSE \E k \in DOMAIN Order :
              /\ Order[k] \in merger.made
              /\ \A j \in DOMAIN Order : Order[j] \in merger.made => j <= k
              /\ line' = [line EXCEPT ![Order[k]] = merger.was[Order[k]]]
              /\ merger' = [merger EXCEPT !.made = @ \ {Order[k]}]
    /\ raced' = (raced \/ merger.unread)
    /\ UNCHANGED <<branch, tree, files, runner, closer, edits, deaths, work>>

-----------------------------------------------------------------------------
(* Closing *)

CloseBegin ==
    /\ closer.pc = "idle" /\ status \in {"done", "failed"}
    /\ closer' = [pc |-> "check", k |-> 1, seen |-> status]
    /\ UNCHANGED <<git, files, runner, merger, edits, deaths, work, raced>>

\* Mutant: a done task is taken to be merged.
MergedOnceDone(r) == closer.seen = "done"

\* The tip of the task's branch is in the line.
Merged(r) == branch[r] = None \/ branch[r] \subseteq line[r]

\* The first loop of close_task: nothing is removed before every repository passed.
CloseCheck ==
    LET r == Order[closer.k] IN
    /\ closer.pc = "check"
    /\ closer' = IF closer.seen = "done" /\ ~(tree[r] \in {None, {}} /\ Merged(r))
                 THEN CloseAway
                 ELSE IF More(closer.k) THEN [closer EXCEPT !.k = @ + 1]
                 ELSE [closer EXCEPT !.pc = "remove", !.k = 1]
    /\ UNCHANGED <<git, files, runner, merger, edits, deaths, work, raced>>

\* The second loop: `git worktree remove`, which refuses what is not clean unless it
\* is forced, as it is for a failed task.
CloseTree ==
    LET r == Order[closer.k]  force == closer.seen = "failed" IN
    /\ closer.pc = "remove"
    /\ IF tree[r] \in {None, {}} \/ force
       THEN /\ tree' = [tree EXCEPT ![r] = None]
            /\ work' = IF force /\ tree[r] # None
                       THEN [work EXCEPT ![r] = @ \ tree[r]] ELSE work
            /\ closer' = [closer EXCEPT !.pc = "branch"]
       ELSE closer' = CloseAway /\ UNCHANGED <<tree, work>>
    /\ UNCHANGED <<line, branch, files, runner, merger, edits, deaths, raced>>

\* ... and `git branch -D`, which refuses a branch that is checked out.
CloseBranch ==
    LET r == Order[closer.k] IN
    /\ closer.pc = "branch"
    /\ IF tree[r] = None
       THEN /\ branch' = [branch EXCEPT ![r] = None]
            /\ work' = IF closer.seen = "failed" /\ branch[r] # None
                       THEN [work EXCEPT ![r] = @ \ branch[r]] ELSE work
            /\ closer' = IF More(closer.k)
                         THEN [closer EXCEPT !.pc = "remove", !.k = @ + 1] ELSE CloseAway
       ELSE closer' = CloseAway /\ UNCHANGED <<branch, work>>
    /\ UNCHANGED <<line, tree, files, runner, merger, edits, deaths, raced>>

-----------------------------------------------------------------------------

\* A command dies where it is; the next one starts over.
Die ==
    /\ deaths < MaxDeaths /\ deaths' = deaths + 1
    /\ \/ runner.pc # "idle" /\ runner' = Away /\ UNCHANGED <<merger, closer>>
       \/ merger.pc # "idle" /\ merger' = MergeAway /\ UNCHANGED <<runner, closer>>
       \/ closer.pc # "idle" /\ closer' = CloseAway /\ UNCHANGED <<runner, merger>>
    /\ UNCHANGED <<git, files, edits, work, raced>>

WorktreesNext ==
    \/ Reserve \/ EnsureTree \/ RunEndsBadly \/ AgentDone \/ CollectHead \/ GiveUp
    \/ \E r \in Repos : Edit(r) \/ Commit(r)
    \/ \E verdict \in {"PASS", "FAIL"} : Review(verdict)
    \/ MergeBegin \/ MergeCheck \/ MergeCommit \/ MergeFails \/ MergeUnread \/ MergeUndo
    \/ CloseBegin \/ CloseCheck \/ CloseTree \/ CloseBranch
    \/ Die

WorktreesSpec == WorktreesInit /\ [][WorktreesNext]_taskVars

-----------------------------------------------------------------------------
(* Properties *)

\* What was done for a task that is done is somewhere: in the line, on the task's
\* branch or in its worktree.  Closing drops only what is merged, however merges,
\* failed merges, earlier closes of the failed task and deaths interleave; the
\* exceptions are those of `raced`.
WorkIsKept ==
    status = "done" /\ ~raced
    => \A r \in Repos :
          work[r] \subseteq line[r] \cup (IF branch[r] = None THEN {} ELSE branch[r])
                                    \cup (IF tree[r] = None THEN {} ELSE tree[r])

\* The verdict of the workspace on its proofs of a kind.
Judged(kind) ==
    {Evaluated(p, review, heads, tree, branch, line) :
        p \in {q \in Derived(review, heads) : q.kind = kind}}
Integrated == Judged("integration") = {"live"}

\* Integration, once observed, is not taken back: the check a dependent task was
\* dispatched on still holds, in the middle of merges that fail, until the task
\* itself records other heads.  (Not so in the undo of a merge whose last commit was
\* made but reported as failed.)
IntegrationSticks ==
    [][Integrated /\ heads' = heads /\ ~merger.unread => Integrated']_taskVars

\* The bundle of a task's proofs, judged by a reader with the heads of the line (of
\* the task's branch, for the review), says live of integration exactly when the
\* workspace does, and never decayed of a review the workspace holds live.
BundleFollows ==
    LET bundle(kind, current) == Verdicts(kind, Derived(review, heads), current)
    IN  /\ Integrated <=> bundle("integration", line) = {"live"}
        /\ Judged("review") = {"live"} => bundle("review", branch) = {"live"}

\* Neither the work of a task nor its integration is lost.
WorkStays == [][WorkIsKept']_taskVars /\ IntegrationSticks

=============================================================================
