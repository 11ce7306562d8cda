------------------------------- MODULE MCHost -------------------------------
(***************************************************************************)
(* What dyro keeps on a machine outside of a workspace: the managed Skill  *)
(* and its links, the runs of the local agent dispatch, the state of the   *)
(* update check, and the list of workspaces.  They share no file and no    *)
(* lock, so a behaviour exercises one of them and the states of the parts  *)
(* add up.                                                                 *)
(***************************************************************************)
EXTENDS SkillInstall, DispatchContext, UpdateCheck, WorkspaceRegistry

CONSTANTS h1, h2

VARIABLE part  \* what the behaviour exercises

\* One home may be out of sight of a command, as when its variable is not set.
MCDetections == {{h1}, {h1, h2}}
MCFiles == <<"f", "g">>

\* Two clones of a project, and names that differ in their case.
MCFold == [n \in {"app", "App", "app-2"} |-> IF n = "App" THEN "app" ELSE n]
MCOwnNames == [r \in Roots |-> <<"app", "app-2">>]

Symmetric == Permutations(Processes) \cup Permutations(Roots) \cup Permutations(Commands)

Init ==
  /\ part \in {"skill", "context", "update", "registry"}
  /\ InstallInit
  /\ ContextInit
  /\ UpdateInit
  /\ RegistryInit
  /\ part # "skill" => legacy = None
  /\ part # "context" => contract = [mode |-> "edit", async |-> FALSE]

Next ==
  \/ /\ part = "skill" /\ InstallNext
     /\ UNCHANGED <<contextVars, updateVars, registryVars, part>>
  \/ /\ part = "context" /\ ContextNext
     /\ UNCHANGED <<installVars, updateVars, registryVars, part>>
  \/ /\ part = "update" /\ UpdateNext
     /\ UNCHANGED <<installVars, contextVars, registryVars, part>>
  \/ /\ part = "registry" /\ RegistryNext
     /\ UNCHANGED <<installVars, contextVars, updateVars, part>>

Spec == Init /\ [][Next]_<<installVars, contextVars, updateVars, registryVars, part>>
=============================================================================
