-------------------------- MODULE MCTaskScheduling --------------------------
(***************************************************************************)
(* Three tasks: "a" and "b" share a conflict group, "c" depends on "a".    *)
(***************************************************************************)
EXTENDS TaskScheduling, TLC

CONSTANTS a, b, c, p, q, g

MCGroup == a :> g @@ b :> g @@ c :> NoGroup
MCDependsOn == a :> {} @@ b :> {} @@ c :> {a}


=============================================================================
