----------------------------- MODULE MCDelivery -----------------------------
(***************************************************************************)
(* A line over two repositories is created, by calls that overlap, and a   *)
(* task is run, merged and closed in it.  The task starts when the line is *)
(* registered and no call that creates it is under way (such a call can    *)
(* only fail by then: see RegisteredIsWhole); bound: only after a creation *)
(* without kills and base moves, which leave the task nothing to see.      *)
(*                                                                         *)
(* Merges between a parent line and its child, a task in each, are looked  *)
(* at by themselves, and so are the questions that lead to a line and the  *)
(* cloning of the anchors: a behaviour exercises one of them, so that the  *)
(* states of the parts add up.                                             *)
(***************************************************************************)
EXTENDS LineSetup, TaskWorktrees, LineMerge, LineWizard, Bootstrap, TLC

CONSTANTS app, lib, trunk, twig, T, U

VARIABLE part  \* what the behaviour exercises

MCOrder == <<app, lib>>
MCRequests == {<<app, lib>>, <<lib, app>>, <<app>>, <<lib>>}
MCParent == trunk :> None @@ twig :> trunk
MCLineOf == T :> twig @@ U :> trunk
MCRefs == {<<"main", "local">>, <<"release", "origin">>, <<"v1", "tag">>}
Symmetric == Permutations(Creators) \cup Permutations(Procs) \cup Permutations(Callers)

Settled ==
    /\ manifest = Repos /\ writes = 1 /\ kills = 0
    /\ \A r \in Repos : base[r] = 0
    /\ \A c \in Creators : creator[c].pc = "idle"

deliveryVars == <<setupVars, taskVars, mergeVars, wizardVars, bootstrapVars, part>>

Init ==
    /\ part \in {"task", "merges", "wizard", "anchors"}
    /\ SetupInit /\ WorktreesInit /\ MergeInit /\ WizardInit /\ BootstrapInit
    /\ part # "wizard" => \A r \in Repos : refs[r] = {}
    /\ part # "anchors" => ~enclosed /\ \A r \in Repos : anchor[r] = None

Next ==
    \/ /\ part = "task"
       /\ \/ SetupNext /\ UNCHANGED taskVars
          \/ Settled /\ WorktreesNext /\ UNCHANGED setupVars
       /\ UNCHANGED <<mergeVars, wizardVars, bootstrapVars, part>>
    \/ /\ part = "merges"
       /\ MergeNext
       /\ UNCHANGED <<setupVars, taskVars, wizardVars, bootstrapVars, part>>
    \/ /\ part = "wizard"
       /\ WizardNext
       /\ UNCHANGED <<setupVars, taskVars, mergeVars, bootstrapVars, part>>
    \/ /\ part = "anchors"
       /\ BootstrapNext
       /\ UNCHANGED <<setupVars, taskVars, mergeVars, wizardVars, part>>

Spec == Init /\ [][Next]_deliveryVars
=============================================================================
