----------------------------- MODULE Bootstrap -----------------------------
(***************************************************************************)
(* Cloning the anchors that are missing (bootstrap in                      *)
(* src/dyro/onboarding.py): repository after repository, into a temporary  *)
(* directory first, then copied to a new directory at the anchor's place.  *)
(* No lock is held, so that two calls may overlap; an error and Ctrl-C     *)
(* take the copy away again unless that fails too, a kill does not.        *)
(***************************************************************************)
EXTENDS Repositories, Integers, FiniteSets

CONSTANTS
    Callers,       \* processes that bootstrap
    Contents,      \* what a clone consists of; ".git" is part of it
    MaxKilled     \* bound: calls that are killed

ASSUME BootstrapAssumption ==
    /\ ".git" \in Contents
    /\ \A copy \in SUBSET Contents : copy # None
    /\ MaxKilled \in Nat

VARIABLES
    anchor,        \* [Repos -> None, or what of the clone is there]
    caller,        \* the processes
    whole,         \* repositories that were once copied to the end (history)
    uncleared,     \* repositories whose half copy could not be cleared (history)
    killed,        \* how many calls were killed
    enclosed       \* the workspace lies in a Git repository of its own

bootstrapVars == <<anchor, caller, whole, uncleared, killed, enclosed>>

Uncalled == [pc |-> "idle", k |-> 1]

BootstrapInit ==
    /\ anchor \in [Repos -> {None, {}, Contents}]
    /\ whole = {r \in Repos : anchor[r] = Contents}
    /\ caller = [c \in Callers |-> Uncalled]
    /\ uncleared = {} /\ killed = 0 /\ enclosed \in BOOLEAN

Anchor(c) == Order[caller[c].k]
Goes(c, pc) == caller' = [caller EXCEPT ![c].pc = pc]
Ended(c) == caller' = [caller EXCEPT ![c] = Uncalled]
NextAnchor(c) ==
    caller' = [caller EXCEPT ![c] = IF @.k = Len(Order) THEN Uncalled
                                    ELSE [pc |-> "look", k |-> @.k + 1]]
Anchored == UNCHANGED <<anchor, whole, uncleared, killed, enclosed>>

Call(c) == caller[c].pc = "idle" /\ Goes(c, "look") /\ Anchored

\* Git looks for a repository from the directory upwards.
IsRepository(r) == anchor[r] # None /\ (".git" \in anchor[r] \/ enclosed)

\* What is there must be a repository; what is not there must have a remote.
LookAt(c) ==
    /\ caller[c].pc = "look"
    /\ IF anchor[Anchor(c)] = None THEN Goes(c, "clone") \/ Ended(c)
       ELSE IF IsRepository(Anchor(c)) THEN NextAnchor(c)
       ELSE Ended(c)
    /\ Anchored

\* git clone to the temporary directory; then the parent is opened, and the
\* place must still be empty.
Clone(c) ==
    /\ caller[c].pc = "clone"
    /\ IF anchor[Anchor(c)] = None THEN Goes(c, "mkdir") \/ Ended(c) ELSE Ended(c)
    /\ Anchored

\* MUTANT for AnchorsWhole: a directory that has appeared is taken for one's own.
MakeOrTake(c) ==
    /\ caller[c].pc = "mkdir" /\ Goes(c, "copy")
    /\ anchor' = [anchor EXCEPT ![Anchor(c)] = IF @ = None THEN {} ELSE @]
    /\ UNCHANGED <<whole, uncleared, killed, enclosed>>

\* What has appeared at the place is an error; so may be opening the new directory,
\* which is not removed then.
Make(c) ==
    /\ caller[c].pc = "mkdir"
    /\ IF anchor[Anchor(c)] = None
         THEN /\ anchor' = [anchor EXCEPT ![Anchor(c)] = {}]
              /\ Goes(c, "copy") \/ Ended(c)
         ELSE UNCHANGED anchor /\ Ended(c)
    /\ UNCHANGED <<whole, uncleared, killed, enclosed>>

\* In the order the file system lists it in; a file that is there is an error.
Copy(c) ==
    /\ caller[c].pc = "copy" /\ anchor[Anchor(c)] \notin {None, Contents}
    /\ \E part \in Contents \ anchor[Anchor(c)] :
         anchor' = [anchor EXCEPT ![Anchor(c)] = @ \cup {part}]
    /\ UNCHANGED <<caller, whole, uncleared, killed, enclosed>>

Copied(c) ==
    /\ caller[c].pc = "copy" /\ anchor[Anchor(c)] = Contents
    /\ whole' = whole \cup {Anchor(c)}
    /\ NextAnchor(c)
    /\ UNCHANGED <<anchor, uncleared, killed, enclosed>>

CopyFails(c) == caller[c].pc = "copy" /\ Goes(c, "clear") /\ Anchored

Clear(c) ==
    /\ caller[c].pc = "clear" /\ anchor[Anchor(c)] \notin {None, {}}
    /\ \E part \in anchor[Anchor(c)] :
         anchor' = [anchor EXCEPT ![Anchor(c)] = @ \ {part}]
    /\ UNCHANGED <<caller, whole, uncleared, killed, enclosed>>

Cleared(c) ==
    /\ caller[c].pc = "clear" /\ anchor[Anchor(c)] \in {None, {}}
    /\ anchor' = [anchor EXCEPT ![Anchor(c)] = None]
    /\ Ended(c)
    /\ UNCHANGED <<whole, uncleared, killed, enclosed>>

\* An error of the cleanup is swallowed: what it had not removed stays.
ClearFails(c) ==
    /\ caller[c].pc = "clear"
    /\ uncleared' = uncleared \cup {Anchor(c)}
    /\ Ended(c)
    /\ UNCHANGED <<anchor, whole, killed, enclosed>>

Kill(c) ==
    /\ caller[c].pc # "idle" /\ killed < MaxKilled
    /\ killed' = killed + 1 /\ Ended(c)
    /\ UNCHANGED <<anchor, whole, uncleared, enclosed>>

BootstrapNext ==
    \E c \in Callers :
       \/ Call(c) \/ LookAt(c) \/ Clone(c) \/ Make(c) \/ Copy(c) \/ Copied(c)
       \/ CopyFails(c) \/ Clear(c) \/ Cleared(c) \/ ClearFails(c) \/ Kill(c)

BootstrapSpec == BootstrapInit /\ [][BootstrapNext]_bootstrapVars
-----------------------------------------------------------------------------
(***************************************************************************)
(* An anchor that was there, or was copied to its end, stays whole         *)
(* whatever other calls do or undo.  While no call was killed, half a copy *)
(* is left only where the cleanup after an error failed as well (that half *)
(* is silent: the next call takes it for a repository once its .git is     *)
(* there), and never where a whole one is (onboarding.py:383-419, 483-500).*)
(***************************************************************************)
AnchorsWhole ==
    /\ \A r \in whole : anchor[r] = Contents /\ r \notin uncleared
    /\ killed = 0 /\ (\A c \in Callers : caller[c].pc = "idle") =>
         \A r \in Repos \ uncleared : anchor[r] \in {None, {}, Contents}
=============================================================================
