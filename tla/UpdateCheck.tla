---------------------------- MODULE UpdateCheck ----------------------------
(***************************************************************************)
(* The update check (src/dyro/updates.py, and the commands of cli.py that  *)
(* call it).  Preferences, the day of the last check and the version it    *)
(* found are one file, which is read and written under a lock; the index   *)
(* is asked, and the package is installed, without it.  Any number of      *)
(* Dyro processes may be at it at once, each of the version it was started *)
(* from.  Two versions that differ in the patch number only have the same  *)
(* half.                                                                   *)
(***************************************************************************)
EXTENDS Integers

CONSTANTS
  Processes,    \* Dyro processes
  LastVersion,  \* bound: the index gets to this version
  MaxDay,       \* bound: the clock stops here
  MaxSwitches   \* bound: how often the user changes a preference

ASSUME UpdateAssumption == {LastVersion, MaxDay, MaxSwitches} \subseteq Nat

VARIABLES
  preference,   \* in the file: [check, auto]
  asked,        \* what the user last asked for (not part of the program)
  lastChecked,  \* in the file: the day of the last check, -1 for none
  released, installed,  \* the newest version in the index, the one on the machine
  today,        \* the clock
  process,      \* the processes
  switches      \* how often a preference was changed

updateVars == <<preference, asked, lastChecked, released, installed, today, process,
                switches>>

Away == [pc |-> "away", how |-> "daily", own |-> 0, on |-> 0,
         saw |-> [check |-> TRUE, auto |-> FALSE], latest |-> 0]

UpdateInit ==
  /\ preference = [check |-> TRUE, auto |-> FALSE] /\ asked = preference
  /\ lastChecked = -1
  /\ released = 0 /\ installed = 0 /\ today = 0
  /\ process = [p \in Processes |-> Away]
  /\ switches = 0

\* classify_update
Kind(own, latest) ==
  IF latest <= own THEN "none"
  ELSE IF latest \div 2 = own \div 2 THEN "patch" ELSE "minor"

GoOn(p, pc) == process' = [process EXCEPT ![p].pc = pc]
Quit(p) == process' = [process EXCEPT ![p] = Away]
StateKept == UNCHANGED <<preference, asked, lastChecked, switches>>
WorldKept == UNCHANGED <<released, installed, today>>

-----------------------------------------------------------------------------
(* Preferences: set_update_enabled, set_auto_patch                          *)

Prefer(wish) ==
  /\ switches < MaxSwitches /\ switches' = switches + 1
  /\ preference' = wish /\ asked' = wish
  /\ UNCHANGED <<lastChecked, process>> /\ WorldKept

\* Without checks there are no unattended patches either.
SetEnabled(on) == Prefer([check |-> on, auto |-> preference.auto /\ on])
SetAuto(on) == Prefer([check |-> preference.check \/ on, auto |-> on])

-----------------------------------------------------------------------------
(* check_for_update: daily at the start of Dyro, or asked for, with `plan`  *)
(* for an update that is only shown, which writes nothing.                  *)

Open(p, how) ==
  /\ process[p].pc = "away"
  /\ process' = [process EXCEPT ![p] =
       [Away EXCEPT !.pc = IF how = "plan" THEN "fetch" ELSE "claim",
                    !.how = how, !.own = installed, !.on = today]]
  /\ StateKept /\ WorldKept

Due(p) == preference.check /\ lastChecked # process[p].on

\* The day counts as checked before the index is asked.
Claim(p) ==
  /\ process[p].pc = "claim"
  /\ IF process[p].how = "daily" /\ ~Due(p)
       THEN Quit(p) /\ UNCHANGED lastChecked
       ELSE /\ lastChecked' = process[p].on
            /\ process' = [process EXCEPT ![p].pc = "fetch", ![p].saw = preference]
  /\ UNCHANGED <<preference, asked, switches>> /\ WorldKept

Fetch(p) ==
  /\ process[p].pc = "fetch"
  /\ process' = [process EXCEPT ![p].latest = released,
                               ![p].pc = IF process[p].how = "plan" THEN "decide" ELSE "save"]
  /\ StateKept /\ WorldKept

\* MUTANT for PreferenceKept: the file is written from what was read before the fetch.
SavedBefore(p) == process[p].saw

\* The file is read again under the lock, for its preferences.
Saved(p) == preference

Save(p) ==
  /\ process[p].pc = "save"
  /\ preference' = Saved(p) /\ GoOn(p, "decide")
  /\ UNCHANGED <<asked, lastChecked, switches>> /\ WorldKept

\* Only a patch is installed unattended; an update is installed once confirmed.
Decide(p) ==
  LET kind == Kind(process[p].own, process[p].latest)
      how == process[p].how
  IN /\ process[p].pc = "decide"
     /\ \/ /\ kind = "patch" /\ how = "daily" /\ preference.auto
           /\ GoOn(p, "install")
        \/ /\ kind # "none" /\ how = "update" /\ GoOn(p, "install")
        \/ /\ ~(kind = "patch" /\ how = "daily" /\ preference.auto)
           /\ Quit(p)
     /\ StateKept /\ WorldKept

\* perform_update: the package manager installs the very version.
Install(p) ==
  /\ process[p].pc = "install" /\ Quit(p)
  /\ installed' = process[p].latest
  /\ UNCHANGED <<released, today>> /\ StateKept

\* An error or a death: the index does not answer, the lock is not had in time,
\* the package manager fails.
Abandon(p) ==
  /\ process[p].pc # "away" /\ Quit(p)
  /\ StateKept /\ WorldKept

-----------------------------------------------------------------------------
Release ==
  /\ released < LastVersion /\ released' = released + 1
  /\ UNCHANGED <<installed, today, process>> /\ StateKept

Morning ==
  /\ today < MaxDay /\ today' = today + 1
  /\ UNCHANGED <<released, installed, process>> /\ StateKept

UpdateNext ==
  \/ \E on \in BOOLEAN : SetEnabled(on) \/ SetAuto(on)
  \/ \E p \in Processes :
       \/ \E how \in {"daily", "check", "update", "plan"} : Open(p, how)
       \/ Claim(p) \/ Fetch(p) \/ Save(p) \/ Decide(p) \/ Install(p) \/ Abandon(p)
  \/ Release \/ Morning

UpdateSpec == UpdateInit /\ [][UpdateNext]_updateVars
-----------------------------------------------------------------------------
(***************************************************************************)
(* What the user asked for stays in the file, although checks that began   *)
(* before write the same file after it (updates.py:280-292).               *)
(***************************************************************************)
PreferenceKept == preference = asked

=============================================================================
