----------------------------- MODULE SkillInstall -----------------------------
(***************************************************************************)
(* Installation and removal of one managed Skill (integrations/manager.py): *)
(* a mirror directory, one avatar link per host, an ownership manifest and  *)
(* a transaction marker, all files of the user's home.  One command at a    *)
(* time holds the lock; errors, crashes and the user's own hands come       *)
(* between any two of its file operations.                                  *)
(*                                                                         *)
(* A directory is the asset version that it holds, or Foreign.  Stages and  *)
(* backups that a crash leaves behind are litter and are not represented.   *)
(***************************************************************************)
EXTENDS Naturals, FiniteSets

CONSTANTS
  Hosts, Explicit,   \* host homes; those the user named
  Detections,        \* which homes a command may find
  Versions,          \* asset versions of the packages in use
  LegacyVersion,     \* the version a legacy copy holds
  None, Foreign, NoOp,
  MaxErrors, MaxCrashes, MaxTouches   \* bounds: failures, deaths, edits by hand

ASSUME HostsAssumption ==
  /\ Explicit \subseteq Hosts
  /\ \A d \in Detections : d \subseteq Hosts
  /\ LegacyVersion \in Versions
  /\ None \notin Hosts \cup Versions \cup [files : Versions, hosts : SUBSET Hosts]
  /\ None \notin {"prepared", "committed"}
  /\ MaxErrors \in Nat /\ MaxCrashes \in Nat /\ MaxTouches \in Nat

VARIABLES
  mirror,    \* None, a version, or Foreign
  manifest,  \* None or [files, hosts]
  avatar,    \* [Hosts -> {"none", "link", "copy", "dir", "other"}]
  legacy,    \* the host whose copy the legacy manifest owns, or None
  marker,    \* the transaction file: None, "prepared" or "committed"
  op,        \* the command that holds the lock, or NoOp
  errors, crashes, touches

files == <<mirror, manifest, avatar, legacy, marker>>
installVars == <<files, op, errors, crashes, touches>>

(* "copy": a whole directory from before mirrors; "dir", "other": somebody
   else's directory, link or file. *)
InstallInit ==
  /\ mirror = None /\ manifest = None /\ marker = None /\ op = NoOp
  /\ legacy \in Hosts \cup {None}
  /\ avatar = [h \in Hosts |-> IF h = legacy THEN "copy" ELSE "none"]
  /\ errors = 0 /\ crashes = 0 /\ touches = 0

-----------------------------------------------------------------------------
(* What a command of version v that finds the homes d sees. *)

LegacyOwned(v, d) ==
  legacy # None /\ legacy \in d /\ avatar[legacy] = "copy" /\ v = LegacyVersion

(* A foreign link counts only where the user named the home. *)
Blocking(d) ==
  {h \in d : avatar[h] \in {"copy", "dir"} \/ (avatar[h] = "other" /\ h \in Explicit)}

Unowned(v, d) ==
  IF LegacyOwned(v, d) THEN "outdated"
  ELSE IF mirror # None \/ Blocking(d) # {} THEN "conflict" ELSE "absent"

Owned(v, d) ==
  LET managed == {h \in d : avatar[h] # "other"}
  IN  IF mirror = None THEN "stale"
      ELSE IF mirror # manifest.files \/ \E h \in d : avatar[h] \in {"copy", "dir"}
           THEN "drifted"
      ELSE IF manifest.files = v /\ managed # {} /\ \A h \in managed : avatar[h] = "link"
           THEN "current" ELSE "outdated"

Status(v, d) ==
  IF marker # None THEN "recovery_required"
  ELSE IF manifest = None THEN Unowned(v, d) ELSE Owned(v, d)

Mutable == {"absent", "outdated", "current"}

(* op.todo: homes not visited yet; op.linked: those whose link is recorded;
   op.made: those whose link is new, or was removed; op.saved: legacy copies
   set aside; op.backup: the tree set aside. *)
NewOp(kind, v, d) ==
  [kind |-> kind, version |-> v, pc |-> "prepare", todo |-> d, linked |-> {},
   made |-> {}, saved |-> {}, backup |-> None, active |-> FALSE,
   old |-> manifest, replaced |-> FALSE,
   target |-> IF LegacyOwned(v, d) THEN legacy ELSE None]

StartInstall(v, d) ==
  /\ op = NoOp /\ Status(v, d) \in Mutable \ {"current"}
  /\ op' = NewOp("install", v, d)
  /\ UNCHANGED <<files, errors, crashes, touches>>

StartUninstall(v, d) ==
  /\ op = NoOp /\ Status(v, d) \in Mutable \ {"absent"}
  /\ op' = NewOp("uninstall", v, d)
  /\ UNCHANGED <<files, errors, crashes, touches>>

-----------------------------------------------------------------------------
(* The steps.  At(k, p): the command is of kind k and at p. *)
At(k, p) == op # NoOp /\ op.kind \in k /\ op.pc = p
Both == {"install", "uninstall"}
Go(p) == op' = [op EXCEPT !.pc = p]
Quiet == UNCHANGED <<errors, crashes, touches>>

Prepare ==
  /\ At(Both, "prepare")
  /\ marker' = "prepared"
  /\ Go(IF op.kind = "install" THEN "swap" ELSE "unlink")
  /\ UNCHANGED <<mirror, manifest, avatar, legacy>> /\ Quiet

(* The old mirror is set aside and the stage takes its place. *)
Swap ==
  /\ At({"install"}, "swap")
  /\ op' = [op EXCEPT !.backup = mirror, !.pc = "activate"]
  /\ mirror' = None
  /\ UNCHANGED <<manifest, avatar, legacy, marker>> /\ Quiet

Activate ==
  /\ At({"install"}, "activate") /\ mirror = None
  /\ mirror' = op.version
  /\ op' = [op EXCEPT !.active = TRUE, !.pc = "avatars"]
  /\ UNCHANGED <<manifest, avatar, legacy, marker>> /\ Quiet

Migrates(h) == h = op.target /\ avatar[h] = "copy"
Taken(h) == avatar[h] \notin {"none", "link"} /\ ~Migrates(h)

(* What is in the way of a link stops the command where the user named the home,
   or where the legacy copy was replaced; elsewhere it is left alone. *)
Refused(h) == Taken(h) /\ (h \in Explicit \/ (h = op.target /\ avatar[h] = "dir"))

LinkAvatarOver(h) ==
  /\ At({"install"}, "avatars") /\ h \in op.todo
  /\ avatar' = [avatar EXCEPT ![h] = "link"]
  /\ op' = [op EXCEPT !.todo = @ \ {h}, !.linked = @ \cup {h}]
  /\ UNCHANGED <<mirror, manifest, legacy, marker>> /\ Quiet

LinkAvatar(h) ==
  /\ At({"install"}, "avatars") /\ h \in op.todo /\ ~Refused(h)
  /\ avatar' = IF Taken(h) THEN avatar ELSE [avatar EXCEPT ![h] = "link"]
  /\ op' = [op EXCEPT !.todo = @ \ {h},
               !.linked = IF Taken(h) THEN @ ELSE @ \cup {h},
               !.made = IF Taken(h) \/ avatar[h] = "link" THEN @ ELSE @ \cup {h},
               !.saved = IF Migrates(h) THEN @ \cup {h} ELSE @]
  /\ UNCHANGED <<mirror, manifest, legacy, marker>> /\ Quiet

AvatarsDone ==
  /\ At({"install"}, "avatars") /\ op.todo = {} /\ op.linked # {}
  /\ Go("manifest")
  /\ UNCHANGED files /\ Quiet

WriteManifest ==
  /\ At({"install"}, "manifest")
  /\ manifest' = [files |-> op.version, hosts |-> op.linked]
  /\ op' = [op EXCEPT !.replaced = TRUE, !.pc = "legacy"]
  /\ UNCHANGED <<mirror, avatar, legacy, marker>> /\ Quiet

UnlinkAvatar(h) ==
  /\ At({"uninstall"}, "unlink") /\ h \in op.todo
  /\ avatar' = IF avatar[h] = "link" THEN [avatar EXCEPT ![h] = "none"] ELSE avatar
  /\ op' = [op EXCEPT !.todo = @ \ {h},
                      !.made = IF avatar[h] = "link" THEN @ \cup {h} ELSE @]
  /\ UNCHANGED <<mirror, manifest, legacy, marker>> /\ Quiet

(* The mirror, or else the legacy copy, is set aside. *)
MoveTree ==
  /\ At({"uninstall"}, "unlink") /\ op.todo = {}
  /\ LET copy == mirror = None /\ op.target # None /\ avatar[op.target] = "copy"
     IN  /\ op' = [op EXCEPT !.pc = "manifest",
                             !.backup = IF copy THEN LegacyVersion ELSE mirror]
         /\ mirror' = None
         /\ avatar' = IF copy THEN [avatar EXCEPT ![op.target] = "none"] ELSE avatar
  /\ UNCHANGED <<manifest, legacy, marker>> /\ Quiet

DropManifest ==
  /\ At({"uninstall"}, "manifest")
  /\ manifest' = None
  /\ op' = [op EXCEPT !.replaced = manifest # None, !.pc = "legacy"]
  /\ UNCHANGED <<mirror, avatar, legacy, marker>> /\ Quiet

DropLegacy ==
  /\ At(Both, "legacy")
  /\ legacy' = None /\ Go("commit")
  /\ UNCHANGED <<mirror, manifest, avatar, marker>> /\ Quiet

Commit ==
  /\ At(Both, "commit")
  /\ marker' = "committed" /\ Go("complete")
  /\ UNCHANGED <<mirror, manifest, avatar, legacy>> /\ Quiet

(* The backups are deleted, then the marker. *)
Complete ==
  /\ At(Both, "complete")
  /\ marker' = None /\ op' = NoOp
  /\ UNCHANGED <<mirror, manifest, avatar, legacy>> /\ Quiet

-----------------------------------------------------------------------------
(* Failures.  After the commit the marker stays; before it, the command undoes
   what it did and takes the marker away only if it sees the old state again. *)

UndoneNone == {}

(* _install_avatars undoes its own links before it raises. *)
Undone == IF op.pc = "avatars" THEN op.made ELSE op.linked

Raise ==
  /\ op' = IF op.pc = "complete" THEN NoOp
           ELSE IF op.kind = "install" THEN [op EXCEPT !.linked = Undone, !.pc = "undo_avatars"]
           ELSE IF op.pc = "prepare" THEN NoOp
           ELSE [op EXCEPT !.pc = "undo_tree"]
  /\ UNCHANGED files

(* A check of the command fails: its place is taken, or nothing can be linked. *)
Refuse ==
  /\ \/ At({"install"}, "activate") /\ mirror # None
     \/ At({"install"}, "avatars") /\ \E h \in op.todo : Refused(h)
     \/ At({"install"}, "avatars") /\ op.todo = {} /\ op.linked = {}
  /\ Raise /\ Quiet

Undoing == {"undo_avatars", "undo_tree", "undo_links", "undo_manifest", "undo_end"}

(* An I/O error: of a step, which is undone, or of the undoing, which ends. *)
Error ==
  /\ op # NoOp /\ errors < MaxErrors
  /\ errors' = errors + 1
  /\ IF op.pc \in Undoing THEN op' = NoOp /\ UNCHANGED files ELSE Raise
  /\ UNCHANGED <<crashes, touches>>

UndoAvatars ==
  /\ At({"install"}, "undo_avatars")
  /\ avatar' = [h \in Hosts |->
       LET gone == IF h \in op.linked /\ avatar[h] = "link" THEN "none" ELSE avatar[h]
       IN  IF h \in op.saved /\ gone = "none" THEN "copy" ELSE gone]
  /\ Go("undo_tree")
  /\ UNCHANGED <<mirror, manifest, legacy, marker>> /\ Quiet

(* install: the new mirror is deleted and the old one moved back, unless
   something else stands there; uninstall: moved back if nothing does. *)
UndoTree ==
  /\ At(Both, "undo_tree")
  /\ LET left == IF op.active THEN None ELSE mirror
     IN  mirror' = IF op.backup # None /\ left = None THEN op.backup ELSE left
  /\ Go(IF op.kind = "install" THEN "undo_manifest" ELSE "undo_links")
  /\ UNCHANGED <<manifest, avatar, legacy, marker>> /\ Quiet

UndoLinks ==
  /\ At({"uninstall"}, "undo_links")
  /\ avatar' = [h \in Hosts |-> IF h \in op.made /\ avatar[h] = "none" /\ mirror # None
                                THEN "link" ELSE avatar[h]]
  /\ Go("undo_manifest")
  /\ UNCHANGED <<mirror, manifest, legacy, marker>> /\ Quiet

UndoManifest ==
  /\ At(Both, "undo_manifest")
  /\ manifest' = IF op.replaced /\ (op.kind = "install" \/ mirror # None)
                 THEN op.old ELSE manifest
  /\ Go("undo_end")
  /\ UNCHANGED <<mirror, avatar, legacy, marker>> /\ Quiet

(* _restored_owned_installation, or nothing there if there was nothing. *)
Restored ==
  IF op.old = None
  THEN op.kind = "install" /\ mirror = None /\ manifest = None
  ELSE manifest = op.old /\ mirror = op.old.files

UndoEnd ==
  /\ At(Both, "undo_end")
  /\ marker' = IF Restored THEN None ELSE marker
  /\ op' = NoOp
  /\ UNCHANGED <<mirror, manifest, avatar, legacy>> /\ Quiet

Crash ==
  /\ op # NoOp /\ crashes < MaxCrashes
  /\ crashes' = crashes + 1
  /\ op' = NoOp
  /\ UNCHANGED <<files, errors, touches>>

-----------------------------------------------------------------------------
(* The user's hands. *)
EditMirror(x) ==
  /\ touches < MaxTouches
  /\ mirror' = x
  /\ touches' = touches + 1
  /\ UNCHANGED <<manifest, avatar, legacy, marker, op, errors, crashes>>

EditAvatar(h, x) ==
  /\ touches < MaxTouches
  /\ avatar' = [avatar EXCEPT ![h] = x]
  /\ touches' = touches + 1
  /\ UNCHANGED <<mirror, manifest, legacy, marker, op, errors, crashes>>

Touch ==
  \/ \E x \in {None, Foreign} : EditMirror(x)
  \/ \E h \in Hosts, x \in {"none", "dir", "other"} : EditAvatar(h, x)

Step ==
  \/ \E v \in Versions, d \in Detections : StartInstall(v, d) \/ StartUninstall(v, d)
  \/ Prepare \/ Swap \/ Activate \/ AvatarsDone \/ WriteManifest
  \/ MoveTree \/ DropManifest \/ DropLegacy \/ Commit \/ Complete
  \/ \E h \in Hosts : LinkAvatar(h) \/ UnlinkAvatar(h)
  \/ Refuse \/ Error \/ Crash
  \/ UndoAvatars \/ UndoTree \/ UndoLinks \/ UndoManifest \/ UndoEnd

InstallNext == Step \/ Touch

InstallSpec == InstallInit /\ [][InstallNext]_installVars

-----------------------------------------------------------------------------
(* Homes that every command finds. *)
Always == {h \in Hosts : \A d \in Detections : h \in d}

(* The committed legacy manifest is gone before the migration is committed, and
   nothing brings it back: the copy it owned is nobody's then. *)
Orphaned == \E h \in Hosts : avatar[h] = "copy" /\ legacy # h

(* No half without its marker: when no command is at work and no transaction file
   is there, the installation is one that every command can go on from, and no
   link of a home that is always found dangles; however commands fail and die. *)
HalfIsMarked ==
  op = NoOp /\ marker = None /\ touches = 0 =>
    /\ Orphaned \/ \A v \in Versions : Status(v, Hosts) \in Mutable \cup
                     (IF legacy # None THEN {"conflict"} ELSE {})
    /\ mirror = None => \A h \in Always : avatar[h] # "link"

(* A command that ends without a marker did all of it or left mirror and manifest
   as it found them. *)
AllOrNothing ==
  [][op # NoOp /\ op' = NoOp /\ marker' = None /\ touches = 0 =>
       \/ manifest' = op.old /\ mirror' = (IF op.old = None THEN None ELSE op.old.files)
       \/ /\ op.pc = "complete"
          /\ IF op.kind = "install"
             THEN manifest'.files = op.version /\ mirror' = op.version
             ELSE manifest' = None /\ mirror' = None]_installVars

(* What somebody else put in the place of an avatar is never removed or
   replaced, whenever it came there. *)
ForeignKept ==
  [][Step => \A h \in Hosts : avatar[h] \in {"dir", "other"} => avatar'[h] = avatar[h]]_installVars

\* A command did all of its work or nothing, or left the marker.
InstallsSettle == [][HalfIsMarked']_installVars /\ AllOrNothing

=============================================================================
