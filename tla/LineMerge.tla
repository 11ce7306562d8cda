------------------------------ MODULE LineMerge ------------------------------
(***************************************************************************)
(* Merges into development lines that span several Git repositories:       *)
(* `task merge` (_merge_task_repositories in src/dyro/tasks.py) and        *)
(* `line merge` / `line sync` (_merge_line_repositories in                 *)
(* src/dyro/workspace.py), which share their protocol: under the lock of   *)
(* the target line read all heads, stage every merge, commit every merge,  *)
(* push every repository, and on a failure undo in reverse.                *)
(*                                                                         *)
(* Git is what the code sees of it: the head of a branch is the set of     *)
(* commits it contains (every merge commit is new, so the set tells heads  *)
(* apart), MERGE_HEAD is the set a staged merge would add.                 *)
(***************************************************************************)
EXTENDS Repositories, Integers, Sequences, FiniteSets

CONSTANTS
    Procs,         \* processes that run the commands
    Lines,         \* development lines
    Parent,        \* [Lines -> Lines \cup {None}], from the line manifests
    Tasks,         \* reviewed tasks; a task is the commit it adds to every repository
    LineOf,        \* [Tasks -> Lines]
    MaxMerges,     \* bound: commands started
    MaxOutside,    \* bound: commits made by hand in the line worktrees
    MaxCrashes     \* bound: processes that die

VARIABLES
    head,       \* [Lines -> [repositories -> commits]]: the line branches
    staged,     \* [Lines -> [repositories -> None or commits]]: MERGE_HEAD
    remote,     \* [Lines -> [repositories -> commits]]: origin
    lock,       \* [Lines -> process or None]: <line>.merge.lock
    proc,       \* [Procs -> program counter and locals]
    started,    \* number of commands started
    outside,    \* number of commits made by hand
    crashes,    \* number of processes that died
    torn        \* history: lines that may hold a part of a merge, and why not

mergeVars == <<head, staged, remote, lock, proc, started, outside, crashes, torn>>

Index    == 1..Len(Order)
Merges   == 1..MaxMerges
ByHand   == (MaxMerges + 1)..(MaxMerges + MaxOutside)
Commits  == Tasks \cup Merges \cup ByHand

ASSUME LineAssumption ==
    /\ Parent \in [Lines -> Lines \cup {None}]
    /\ LineOf \in [Tasks -> Lines]
    /\ None \notin Lines \cup Procs /\ \A commits \in SUBSET Commits : commits # None
    /\ Tasks \cap (Merges \cup ByHand) = {}
    /\ MaxMerges \in Nat /\ MaxOutside \in Nat /\ MaxCrashes \in Nat

Modes    == {"dry", "local", "push"}
Pcs      == {"idle", "wait", "plan", "stage", "commit", "push", "undo"}
Kinds    == {"task", "line"}

Idle == [pc |-> "idle", k |-> 0, kind |-> "task", target |-> None, source |-> None,
         mode |-> "local", i |-> 0, plan |-> <<>>, committed |-> [i \in Index |-> None],
         whole |-> TRUE]

Here(p)   == proc[p].target
Goto(p, pc, i) == proc' = [proc EXCEPT ![p].pc = pc, ![p].i = i]

\* On to the next repository, after the last one to the next phase.
Onward(p, next) ==
    IF proc[p].i < Len(Order) THEN Goto(p, proc[p].pc, proc[p].i + 1) ELSE Goto(p, next, 1)

MergeInit ==
    /\ head = [l \in Lines |-> [i \in Index |-> {}]]
    /\ staged = [l \in Lines |-> [i \in Index |-> None]]
    /\ remote = head
    /\ lock = [l \in Lines |-> None]
    /\ proc = [p \in Procs |-> Idle]
    /\ started = 0
    /\ outside = 0
    /\ crashes = 0
    /\ torn = {}

-----------------------------------------------------------------------------
(* Starting a command *)

Start(p, kind, source, target, mode) ==
    /\ proc[p].pc = "idle" /\ started < MaxMerges
    /\ started' = started + 1
    /\ proc' = [proc EXCEPT ![p] = [Idle EXCEPT !.pc = "wait", !.k = started + 1,
                    !.kind = kind, !.target = target, !.source = source, !.mode = mode]]
    /\ UNCHANGED <<head, staged, remote, lock, outside, crashes, torn>>

\* merge_task: the task is done and its review valid (see TaskEvidence).
MergeTask(p, t, mode) == Start(p, "task", t, LineOf[t], mode)

\* merge_line and sync_line look at the worktrees before they wait for the lock.
MergeLine(p, source, target, mode) ==
    /\ \A i \in Index : staged[target][i] = None
    /\ Start(p, "line", source, target, mode)

\* The lock of the target line.
LockOf(p) == proc[p].target

TakeLock(p) ==
    /\ proc[p].pc = "wait" /\ lock[LockOf(p)] = None
    /\ lock' = [lock EXCEPT ![LockOf(p)] = p]
    /\ Goto(p, "plan", 1)
    /\ UNCHANGED <<head, staged, remote, started, outside, crashes, torn>>

\* After half an hour.
LockTimeout(p) ==
    /\ proc[p].pc = "wait" /\ lock[LockOf(p)] # None
    /\ proc' = [proc EXCEPT ![p] = Idle]
    /\ UNCHANGED <<head, staged, remote, lock, started, outside, crashes, torn>>

\* The command is over.
End(p) ==
    /\ proc' = [proc EXCEPT ![p] = Idle]
    /\ lock' = [lock EXCEPT ![LockOf(p)] = None]

-----------------------------------------------------------------------------
(* One repository at a time *)

\* Heads read from a source line that is being merged into, or that changed since
\* the repository before was read, may be a part of a merge.
Mixed(p) ==
    /\ proc[p].kind = "line"
    /\ \/ lock[proc[p].source] # None
       \/ proc[p].source \in torn
       \/ \E j \in 1..(proc[p].i - 1) : proc[p].plan[j].source # head[proc[p].source][j]

\* _prepare_merge and _prepare_line_merge_plans; only the former asks for a clean
\* worktree.
Plan(p) ==
    LET i == proc[p].i  l == Here(p)
        row == [source |-> IF proc[p].kind = "task" THEN {proc[p].source}
                           ELSE head[proc[p].source][i],
                original |-> head[l][i]]
    IN
    /\ proc[p].pc = "plan"
    /\ IF proc[p].kind = "task" /\ staged[l][i] # None
       THEN End(p)
       ELSE /\ proc' = [proc EXCEPT ![p].plan = Append(@, row),
                                    ![p].pc = IF i < Len(Order) THEN "plan" ELSE "stage",
                                    ![p].i = IF i < Len(Order) THEN i + 1 ELSE 1]
            /\ UNCHANGED lock
    /\ torn' = IF Mixed(p) THEN torn \cup {l} ELSE torn
    /\ UNCHANGED <<head, staged, remote, started, outside, crashes>>

\* Where undoing starts when staging repository i failed.
Failed(p, i) ==
    IF proc[p].kind = "task" /\ proc[p].mode # "dry" THEN Len(Order) ELSE i

\* `git merge --no-commit`: nothing to do, staged, a conflict (which leaves
\* MERGE_HEAD) or an error (which does not).
Stage(p, result) ==
    LET i == proc[p].i  l == Here(p)  source == proc[p].plan[i].source IN
    /\ proc[p].pc = "stage"
    /\ CASE result = "error" \/ staged[l][i] # None ->
              Goto(p, "undo", Failed(p, i)) /\ UNCHANGED staged
         [] result # "error" /\ staged[l][i] = None /\ source \subseteq head[l][i] ->
              /\ IF proc[p].mode = "dry" /\ i = Len(Order) THEN Goto(p, "undo", i)
                                                           ELSE Onward(p, "commit")
              /\ UNCHANGED staged
         [] OTHER ->
              /\ staged' = [staged EXCEPT ![l][i] = source]
              /\ IF result = "conflict" THEN Goto(p, "undo", Failed(p, i))
                 ELSE IF proc[p].mode = "dry" /\ i = Len(Order) THEN Goto(p, "undo", i)
                 ELSE Onward(p, "commit")
    /\ UNCHANGED <<head, remote, lock, started, outside, crashes, torn>>

\* What a commit leaves behind.
Committed(p) ==
    LET i == proc[p].i  l == Here(p) IN
    /\ head' = [head EXCEPT ![l][i] = @ \cup staged[l][i] \cup {proc[p].k}]
    /\ staged' = [staged EXCEPT ![l][i] = None]

\* `git commit` where MERGE_HEAD is: done, refused, or reported as failed although
\* the commit is there (killed by its timeout while the post-commit hook ran).
CommitMerge(p, result) ==
    LET i == proc[p].i  l == Here(p)
        next == IF i < Len(Order) THEN "commit"
                ELSE IF proc[p].mode = "push" THEN "push" ELSE "end"
        mine == IF staged[l][i] = None THEN None ELSE head'[l][i]
    IN
    /\ proc[p].pc = "commit"
    /\ staged[l][i] = None => result = "ok"
    /\ IF staged[l][i] # None /\ result # "fails" THEN Committed(p)
       ELSE UNCHANGED <<head, staged>>
    /\ IF result # "ok" THEN Goto(p, "undo", Len(Order)) /\ UNCHANGED lock
       ELSE IF next = "end" THEN End(p)
       ELSE /\ proc' = [proc EXCEPT ![p].committed[i] = mine, ![p].pc = next,
                                    ![p].i = IF i < Len(Order) THEN i + 1 ELSE 1]
            /\ UNCHANGED lock
    /\ torn' = IF result = "late" THEN torn \cup {l} ELSE torn
    /\ UNCHANGED <<remote, started, outside, crashes>>

\* `git push`; a failure keeps the local merges and what was pushed.
Push(p, ok) ==
    LET i == proc[p].i  l == Here(p) IN
    /\ proc[p].pc = "push"
    /\ remote' = IF ok THEN [remote EXCEPT ![l][i] = head[l][i]] ELSE remote
    /\ IF ok /\ i < Len(Order) THEN Goto(p, "push", i + 1) /\ UNCHANGED lock ELSE End(p)
    /\ UNCHANGED <<head, staged, started, outside, crashes, torn>>

\* Mutant: committed merges stay.
UndoStagedOnly(p, result) ==
    LET i == proc[p].i  l == Here(p) IN
    /\ proc[p].pc = "undo"
    /\ staged' = [staged EXCEPT ![l][i] = None]
    /\ IF i > 1 THEN Goto(p, "undo", i - 1) /\ UNCHANGED lock ELSE End(p)
    /\ UNCHANGED <<head, remote, started, outside, crashes, torn>>

\* _rollback_merges: abort what is staged, take back what this command committed and
\* nobody committed to since.  Git may refuse, or hang until the call raises.
Undo(p, result) ==
    LET i == proc[p].i  l == Here(p)
        abort == staged[l][i] # None
        mine  == proc[p].committed[i]
        reset == ~abort /\ mine # None /\ head[l][i] = mine
        lost  == \/ result # "ok" /\ (abort \/ reset)
                 \/ ~abort /\ mine # None /\ head[l][i] # mine
    IN
    /\ proc[p].pc = "undo"
    /\ abort \/ reset \/ result = "ok"
    /\ staged' = IF abort /\ result = "ok" THEN [staged EXCEPT ![l][i] = None] ELSE staged
    /\ head' = IF reset /\ result = "ok"
               THEN [head EXCEPT ![l][i] = proc[p].plan[i].original] ELSE head
    /\ torn' = IF lost THEN torn \cup {l} ELSE torn
    /\ IF i > 1 /\ result # "raises"
       THEN /\ proc' = [proc EXCEPT ![p].i = i - 1, ![p].whole = @ /\ ~lost]
            /\ UNCHANGED lock
       ELSE /\ proc' = [proc EXCEPT ![p] = [Idle EXCEPT !.whole = proc[p].whole /\ ~lost]]
            /\ lock' = [lock EXCEPT ![LockOf(p)] = None]
    /\ UNCHANGED <<remote, started, outside, crashes>>

-----------------------------------------------------------------------------
(* Others *)

\* Somebody commits in a line worktree.
CommitByHand(l, i) ==
    /\ outside < MaxOutside
    /\ staged[l][i] = None
    /\ head' = [head EXCEPT ![l][i] = @ \cup {MaxMerges + outside + 1}]
    /\ outside' = outside + 1
    /\ UNCHANGED <<staged, remote, lock, proc, started, crashes, torn>>

\* The process dies: its lock is free, everything else stays.
Crash(p) ==
    /\ crashes < MaxCrashes
    /\ proc[p].pc \notin {"idle", "wait"}
    /\ End(p)
    /\ crashes' = crashes + 1
    /\ torn' = torn \cup {Here(p)}
    /\ UNCHANGED <<head, staged, remote, started, outside>>

MergeNext ==
    \/ \E p \in Procs, mode \in Modes :
         \/ \E t \in Tasks : MergeTask(p, t, mode)
         \/ \E l \in Lines : /\ Parent[l] # None
                             /\ \/ MergeLine(p, l, Parent[l], mode)
                                \/ MergeLine(p, Parent[l], l, mode)
    \/ \E p \in Procs :
         \/ TakeLock(p) \/ LockTimeout(p) \/ Plan(p)
         \/ \E result \in {"ok", "conflict", "error"} : Stage(p, result)
         \/ \E result \in {"ok", "fails", "late"} : CommitMerge(p, result)
         \/ \E ok \in BOOLEAN : Push(p, ok)
         \/ \E result \in {"ok", "fails", "raises"} : Undo(p, result)
         \/ Crash(p)
    \/ \E l \in Lines, i \in Index : CommitByHand(l, i)

MergeSpec == MergeInit /\ [][MergeNext]_mergeVars

-----------------------------------------------------------------------------
(* Properties *)

\* What was pushed stays in the line: pushing begins when no undo can come.
PushedIsKept ==
    \A l \in Lines, i \in Index : remote[l][i] \subseteq head[l][i]

\* A line at rest holds every task in all its repositories or in none, however
\* merges into it and from it interleave and fail; unless a command died in it,
\* could not undo, or took a source line in the middle of a merge.
WholeAtRest ==
    \A l \in Lines : lock[l] = None /\ l \notin torn =>
        \A t \in Tasks, i, j \in Index : t \in head[l][i] => t \in head[l][j]

\* A line gets all of a task or nothing, and what was pushed stays.
MergesWhole == WholeAtRest /\ PushedIsKept

=============================================================================
