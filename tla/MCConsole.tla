------------------------------ MODULE MCConsole ------------------------------
(***************************************************************************)
(* The Console: its server with three connections on two slots, the pages  *)
(* of its overview over three workspaces, and the page of one workspace.   *)
(* What the server carries does not depend on what a worker reads, nor one *)
(* page on another, so a behaviour exercises one of the three and the      *)
(* states of the parts add up.                                             *)
(***************************************************************************)
EXTENDS ConsoleServer, ConsoleOverview, ConsolePage, TLC

VARIABLE part  \* what the behaviour exercises

ConnSymmetry == Permutations(Conns)

consoleVars == <<serverVars, overviewVars, pageVars, part>>

Init ==
  /\ part \in {"server", "overview", "page"}
  /\ ServerInit
  /\ OverviewInit
  /\ PageInit
  /\ part # "overview" => registry = Spaces

Next ==
  \/ /\ part = "server" /\ ServerNext
     /\ UNCHANGED <<overviewVars, pageVars, part>>
  \/ /\ part = "overview" /\ OverviewNext
     /\ UNCHANGED <<serverVars, pageVars, part>>
  \/ /\ part = "page" /\ PageNext
     /\ UNCHANGED <<serverVars, overviewVars, part>>

Spec == Init /\ [][Next]_consoleVars
=============================================================================
