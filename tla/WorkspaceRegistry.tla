-------------------------- MODULE WorkspaceRegistry --------------------------
(***************************************************************************)
(* The list of a user's workspaces (src/dyro/hub.py) and the commands that *)
(* read and change it: `dyro` itself, which enters the project it is       *)
(* started in and notes what was opened last (home.py), and `workspace     *)
(* add`, `default` and `remove` (cli.py).  The list is one file; a change  *)
(* reads and writes it under a lock, but what to change was often read     *)
(* before, without it.                                                     *)
(***************************************************************************)
EXTENDS Integers, FiniteSets, SequencesExt

CONSTANTS
  Roots,      \* directories of workspaces
  Aliases,    \* names of entries
  Fold,       \* [Aliases -> what is left of a name without its case]
  OwnNames,   \* [Roots -> the project's name, and what it becomes when taken: as
              \* many names as there are projects]
  NoAlias,
  Commands    \* commands that may run at the same time

ASSUME RegistryAssumption ==
  /\ NoAlias \notin Aliases
  /\ \A r \in Roots : ToSet(OwnNames[r]) \subseteq Aliases /\ Len(OwnNames[r]) >= Cardinality(Roots)

VARIABLES
  entries,    \* the list: [name, root, last], last being the project of the line
              \* or task that was opened last
  default,    \* the name of the default entry
  command,    \* the running commands: [pc, root, name, first]
  boundTo     \* [Aliases -> the roots a name was ever an entry for] (history)

registryVars == <<entries, default, command, boundTo>>

NoCommand == [pc |-> "idle", root |-> NoAlias, name |-> NoAlias, first |-> FALSE]

RegistryInit ==
  /\ entries = <<>> /\ default = NoAlias
  /\ command = [c \in Commands |-> NoCommand]
  /\ boundTo = [n \in Aliases |-> {}]

-----------------------------------------------------------------------------
(* Looking an entry up                                                      *)

Entries == ToSet(entries)
Under(name) == {e \in Entries : e.name = name}
Of(root) == {e \in Entries : e.root = root}

\* select_workspace_record: a name stands for the only entry that it equals but
\* for its case; where there are several, for none, or for the one it equals.
Matching(name, exact) ==
  LET matches == {e \in Entries : Fold[e.name] = Fold[name]}
  IN IF Cardinality(matches) = 1 THEN matches ELSE IF exact THEN Under(name) ELSE {}

-----------------------------------------------------------------------------
(* Changing the list, under its lock                                        *)

\* A name is in the list once (EntriesHold).
Without(name) ==
  IF Under(name) = {} THEN entries
  ELSE RemoveAt(entries, CHOOSE k \in DOMAIN entries : entries[k].name = name)

\* The entry comes first.
Put(e, newDefault) ==
  /\ entries' = <<e>> \o Without(e.name)
  /\ default' = newDefault
  /\ boundTo' = [boundTo EXCEPT ![e.name] = @ \cup {e.root}]

\* MUTANT for EntriesHold: who enters a project has looked for its entry before.
AddableName(name, root) == \A e \in Under(name) : e.root = root

\* add_workspace: a name is for one project, a project has one name.
Addable(name, root) ==
  /\ \A e \in Under(name) : e.root = root
  /\ \A e \in Of(root) : e.name = name

PutIn(name, root, makeDefault) ==
  LET new == [name |-> name, root |-> root, last |-> NoAlias]
  IN /\ Addable(name, root)
     /\ \E e \in IF Under(name) = {} THEN {new} ELSE Under(name) :
          Put(e, IF makeDefault \/ default = NoAlias THEN name ELSE default)

Unlisted == UNCHANGED <<entries, default, boundTo>>
Turn(c, pc, root, name, first) ==
  command' = [command EXCEPT ![c] = [pc |-> pc, root |-> root, name |-> name, first |-> first]]
Over(c) == command' = [command EXCEPT ![c] = NoCommand]

-----------------------------------------------------------------------------
(* `dyro`                                                                   *)

\* Started in a project, or for one that was named: its entry is looked up by
\* its directory; then what it becomes if there is none.
OpenAt(c, root) ==
  /\ command[c].pc = "idle"
  /\ \/ \E e \in Of(root) : Turn(c, "home", root, e.name, FALSE)
     \/ Of(root) = {} /\ Turn(c, "ensure", root, NoAlias, FALSE)
  /\ Unlisted

OpenNamed(c, name) == \E e \in Matching(name, FALSE) : OpenAt(c, e.root)

\* Started elsewhere: the default project, or another that can be loaded.
OpenDefault(c) ==
  /\ command[c].pc = "idle"
  /\ \E e \in Entries : Turn(c, "home", e.root, e.name, FALSE)
  /\ Unlisted

\* ensure_workspace looks again, and chooses a name that is free.
Ensure(c) ==
  LET root == command[c].root
      free == {k \in DOMAIN OwnNames[root] : Under(OwnNames[root][k]) = {}}
  IN /\ command[c].pc = "ensure"
     /\ \/ \E e \in Of(root) : Turn(c, "home", root, e.name, FALSE)
        \/ /\ Of(root) = {}
           /\ \E k \in free :
                /\ \A j \in free : k <= j
                /\ Turn(c, "enter", root, OwnNames[root][k], default = NoAlias)
     /\ Unlisted

Enter(c) ==
  LET my == command[c]
  IN /\ my.pc = "enter"
     /\ \/ PutIn(my.name, my.root, my.first) /\ Turn(c, "home", my.root, my.name, FALSE)
        \/ ~Addable(my.name, my.root) /\ Over(c) /\ Unlisted

\* mark_workspace_used, once a line or task and a tool were chosen.
MarkUsed(c) ==
  LET my == command[c]
  IN /\ my.pc = "home" /\ Over(c)
     /\ \/ \E e \in Under(my.name) :
             Put([e EXCEPT !.last = my.root], IF default = NoAlias THEN my.name ELSE default)
        \/ Under(my.name) = {} /\ Unlisted

\* Another project that can be loaded is picked from the list.
Switch(c) ==
  /\ command[c].pc = "home" /\ Cardinality(Entries) > 1
  /\ \E e \in Entries : Turn(c, "home", e.root, e.name, FALSE)
  /\ Unlisted

Close(c) == command[c].pc = "home" /\ Over(c) /\ Unlisted

-----------------------------------------------------------------------------
(* `workspace add`, `default` and `remove`; the last two look first         *)

AddNamed(name, root, makeDefault) ==
  PutIn(name, root, makeDefault) /\ UNCHANGED command

Ask(c, what, name) ==
  /\ command[c].pc = "idle"
  /\ \E e \in Matching(name, what = "remove") : Turn(c, what, NoAlias, e.name, FALSE)
  /\ Unlisted

SetDefault(c) ==
  LET found == Matching(command[c].name, FALSE)
  IN /\ command[c].pc = "default" /\ Over(c)
     /\ \/ \E e \in found : default' = e.name
        \/ found = {} /\ UNCHANGED default
     /\ UNCHANGED <<entries, boundTo>>

\* The first of the entries that are left becomes the default.
TakeOff(c) ==
  /\ command[c].pc = "remove" /\ Over(c)
  /\ \/ \E e \in Matching(command[c].name, TRUE) :
          /\ entries' = Without(e.name)
          /\ default' = IF default # e.name THEN default
                        ELSE IF entries' = <<>> THEN NoAlias ELSE Head(entries').name
     \/ Matching(command[c].name, TRUE) = {} /\ UNCHANGED <<entries, default>>
  /\ UNCHANGED boundTo

RegistryNext ==
  \/ \E c \in Commands :
       \/ \E root \in Roots : OpenAt(c, root)
       \/ \E name \in Aliases :
            OpenNamed(c, name) \/ Ask(c, "default", name) \/ Ask(c, "remove", name)
       \/ OpenDefault(c) \/ Ensure(c) \/ Enter(c) \/ MarkUsed(c)
       \/ Switch(c) \/ Close(c) \/ SetDefault(c) \/ TakeOff(c)
  \/ \E name \in Aliases, root \in Roots, makeDefault \in BOOLEAN :
       AddNamed(name, root, makeDefault)

RegistrySpec == RegistryInit /\ [][RegistryNext]_registryVars
-----------------------------------------------------------------------------
(***************************************************************************)
(* However commands overlap, the list is never written so that it is       *)
(* refused when it is read next: a name twice, a project twice, a default  *)
(* that is not in it (hub.py:249-258).  And what an entry says was opened  *)
(* last is of its own project, unless its name was given to another        *)
(* project in between.                                                     *)
(***************************************************************************)
EntriesHold ==
  /\ \A e, f \in Entries : e.name = f.name \/ e.root = f.root => e = f
  /\ Len(entries) = Cardinality(Entries)
  /\ default # NoAlias => Under(default) # {}
  /\ \A e \in Entries : e.last \in {NoAlias, e.root} \/ boundTo[e.name] # {e.root}
=============================================================================
