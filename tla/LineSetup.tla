------------------------------ MODULE LineSetup ------------------------------
(***************************************************************************)
(* Creating a development line over several repositories (create_line in   *)
(* src/dyro/workspace.py): plan every repository without a change, add one *)
(* Git worktree after the other, register the line by writing its          *)
(* manifest; on a failure remove the worktrees this call created.          *)
(*                                                                         *)
(* No lock is held: two calls for the same line id may overlap, and a call *)
(* may end between any two steps (a kill, or Ctrl-C, which `except         *)
(* Exception` does not catch).  The branches a call created stay when it   *)
(* is undone.                                                              *)
(***************************************************************************)
EXTENDS Repositories, Integers, Sequences, FiniteSets

CONSTANTS
    Creators,      \* processes that create the line
    Requests,      \* the repository lists they ask for: sequences over Repos
    MaxBase,       \* bound: how often the base branch moves on
    MaxKills       \* bound: calls that end half way

ASSUME SetupAssumption ==
    /\ Requests \subseteq Seq(Repos) \ {<<>>}
    /\ None \notin 0..MaxBase /\ \A named \in SUBSET Repos : named # None
    /\ MaxBase \in Nat /\ MaxKills \in Nat

VARIABLES
    base,        \* [Repos -> Nat]: the commit the declared base is at
    feat,        \* [Repos -> base commit or None]: the line's branch, where it started
    dir,         \* [Repos -> BOOLEAN]: the line's worktree exists
    manifest,    \* None or the set of repositories the registered line names
    creator,     \* [Creators -> program counter and locals]
    left,        \* history: worktrees that a failed call could not take away again
    writes,      \* history: manifests written
    kills        \* number of calls that ended half way

setupVars == <<base, feat, dir, manifest, creator, left, writes, kills>>

AtRest == [pc |-> "idle", want |-> <<>>, fresh |-> {}, k |-> 0, made |-> {}]

SetupInit ==
    /\ base = [r \in Repos |-> 0]
    /\ feat = [r \in Repos |-> None]
    /\ dir = [r \in Repos |-> FALSE]
    /\ manifest = None
    /\ creator = [c \in Creators |-> AtRest]
    /\ left = {}
    /\ writes = 0
    /\ kills = 0

Asked(want) == {want[i] : i \in DOMAIN want}

\* _build_line: a registered line is refused.
Unregistered == manifest = None

\* _linked_worktree_command: without a branch of that name a new one is to be
\* created (in the model origin has none).
FreshBranch(r) == feat[r] = None

\* _validate_existing_local_branch: a branch that is there must contain the base.
ContainsBase(r) == feat[r] # None /\ feat[r] >= base[r]

\* _plan_line_creation: the line's workspace is empty and every repository can be
\* checked out.  One step: nothing is written.
Plannable(want) ==
    /\ \A r \in Repos : ~dir[r]
    /\ \A r \in Asked(want) : FreshBranch(r) \/ ContainsBase(r)

\* create_line up to the first worktree (a refusal changes nothing).
PlanLine(c, want) ==
    /\ creator[c].pc = "idle"
    /\ Unregistered
    /\ Plannable(want)
    /\ creator' = [creator EXCEPT ![c] =
           [pc |-> "add", want |-> want, k |-> 1, made |-> {},
            fresh |-> {r \in Asked(want) : FreshBranch(r)}]]
    /\ UNCHANGED <<base, feat, dir, manifest, left, writes, kills>>

\* `git worktree add`, with -b for a branch that was not there when it was planned:
\* Git refuses a directory or a branch that is there by now.
CanAdd(c, r) ==
    /\ ~dir[r]
    /\ r \in creator[c].fresh <=> feat[r] = None

AddTree(c) ==
    LET me == creator[c]  r == me.want[me.k]  last == me.k = Len(me.want) IN
    /\ me.pc = "add"
    /\ CanAdd(c, r)
    /\ dir' = [dir EXCEPT ![r] = TRUE]
    /\ feat' = [feat EXCEPT ![r] = IF @ = None THEN base[r] ELSE @]
    /\ creator' = [creator EXCEPT ![c].made = @ \cup {r}, ![c].k = @ + 1,
                                  ![c].pc = IF last THEN "register" ELSE "add"]
    /\ UNCHANGED <<base, manifest, left, writes, kills>>

\* Git refuses, or fails at any repository, or does not end in time.  It may have
\* created the branch by then, and the worktree too (a hook that fails, a timeout):
\* such a worktree is not among those the call undoes.
AddFails(c) ==
    LET me == creator[c]  r == me.want[me.k] IN
    /\ me.pc = "add"
    /\ creator' = [creator EXCEPT ![c].pc = "undo"]
    /\ \/ UNCHANGED <<feat, dir, left>>
       \/ /\ CanAdd(c, r)
          /\ feat' = [feat EXCEPT ![r] = IF @ = None THEN base[r] ELSE @]
          /\ \/ UNCHANGED <<dir, left>>
             \/ dir' = [dir EXCEPT ![r] = TRUE] /\ left' = left \cup {r}
    /\ UNCHANGED <<base, manifest, writes, kills>>

\* _write_line replaces the manifest, whoever wrote it.
Register(c) ==
    /\ creator[c].pc = "register"
    /\ manifest' = Asked(creator[c].want)
    /\ writes' = writes + 1
    /\ creator' = [creator EXCEPT ![c] = AtRest]
    /\ UNCHANGED <<base, feat, dir, left, kills>>

\* The manifest cannot be written.
RegisterFails(c) ==
    /\ creator[c].pc = "register"
    /\ creator' = [creator EXCEPT ![c].pc = "undo"]
    /\ UNCHANGED <<base, feat, dir, manifest, left, writes, kills>>

\* Mutant: the undo goes over the repositories asked for.
ToRemoveAsked(c) == {r \in Asked(creator[c].want) : dir[r]}

\* Only what this call created is undone.
ToRemove(c) == creator[c].made

\* _rollback_line_creations goes from the last worktree to the first.
LastToRemove(c) ==
    LET want == creator[c].want
        mine == {i \in DOMAIN want : want[i] \in ToRemove(c)} IN
    {want[i] : i \in {j \in mine : \A i \in mine : i <= j}}

UndoTree(c) ==
    /\ creator[c].pc = "undo"
    /\ \E r \in LastToRemove(c) :
         /\ dir' = [dir EXCEPT ![r] = FALSE]
         /\ creator' = [creator EXCEPT ![c].made = @ \ {r}]
    /\ UNCHANGED <<base, feat, manifest, left, writes, kills>>

\* Git and then the file system refuse to remove the worktree: it stays, which is
\* reported, and the undo goes on.
UndoFails(c) ==
    /\ creator[c].pc = "undo"
    /\ \E r \in LastToRemove(c) :
         /\ left' = left \cup {r}
         /\ creator' = [creator EXCEPT ![c].made = @ \ {r}]
    /\ UNCHANGED <<base, feat, dir, manifest, writes, kills>>

\* Git does not end in time: the exception ends the undo, and all that is still
\* to be removed stays.
UndoStops(c) ==
    /\ creator[c].pc = "undo" /\ ToRemove(c) # {}
    /\ left' = left \cup ToRemove(c)
    /\ creator' = [creator EXCEPT ![c] = AtRest]
    /\ UNCHANGED <<base, feat, dir, manifest, writes, kills>>

UndoDone(c) ==
    /\ creator[c].pc = "undo" /\ ToRemove(c) = {}
    /\ creator' = [creator EXCEPT ![c] = AtRest]
    /\ UNCHANGED <<base, feat, dir, manifest, left, writes, kills>>

\* The call ends half way and leaves what it did.
Interrupt(c) ==
    /\ creator[c].pc # "idle" /\ kills < MaxKills
    /\ kills' = kills + 1
    /\ creator' = [creator EXCEPT ![c] = AtRest]
    /\ UNCHANGED <<base, feat, dir, manifest, left, writes>>

\* A fetch, or another line's merge, moves the declared base.
BaseMoves(r) ==
    /\ base[r] < MaxBase
    /\ base' = [base EXCEPT ![r] = @ + 1]
    /\ UNCHANGED <<feat, dir, manifest, creator, left, writes, kills>>

SetupNext ==
    \/ \E c \in Creators, want \in Requests : PlanLine(c, want)
    \/ \E c \in Creators :
          \/ AddTree(c) \/ AddFails(c)
          \/ Register(c) \/ RegisterFails(c)
          \/ UndoTree(c) \/ UndoFails(c) \/ UndoStops(c) \/ UndoDone(c)
          \/ Interrupt(c)
    \/ \E r \in Repos : BaseMoves(r)

SetupSpec == SetupInit /\ [][SetupNext]_setupVars

-----------------------------------------------------------------------------
\* doctor: the repositories of the registered line that it reports as FAIL, for a
\* worktree that is missing or one that has no branch of the line.
Failing ==
    IF manifest = None THEN {} ELSE {r \in manifest : ~dir[r] \/ feat[r] = None}

-----------------------------------------------------------------------------
(* Properties *)

\* A registered line has the worktree and the branch of every repository its
\* manifest names, and doctor finds nothing to report, whatever calls overlap,
\* fail or are killed: create_line undoes only its own worktrees, and registers
\* after the last one.
RegisteredIsWhole == Failing = {}

\* When no call is under way and none was killed, the worktrees on disk are those
\* of the registered line and, apart from them, those a failed create_line could not
\* take away: that Git made while it reported a failure, or that the undo failed on.
\* Else a failed call leaves none behind, and none of the line's is ever among them.
\* (Two calls for disjoint repositories both register; the second manifest then
\* hides the first.)
NoOrphans ==
    (/\ \A c \in Creators : creator[c].pc = "idle"
     /\ kills = 0 /\ writes <= 1)
    => LET registered == IF manifest = None THEN {} ELSE manifest IN
       /\ {r \in Repos : dir[r]} = registered \cup left
       /\ registered \cap left = {}

\* Lines and their worktrees are there together or not at all.
LinesWhole == RegisteredIsWhole /\ NoOrphans

=============================================================================
