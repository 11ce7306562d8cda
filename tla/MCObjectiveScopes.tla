------------------------- MODULE MCObjectiveScopes -------------------------
(* A small workspace for ObjectiveScopes: two tasks of one conflict group, the *)
(* first blocked on a decision.  The contract of T2 may be edited to rest on   *)
(* T1, which would bring the scopes of the two Objectives together.            *)
EXTENDS ObjectiveScopes

CONSTANTS T1, T2, A, B, G, D, Codex, Claude

MCTasks == {T1, T2}
MCTaskOrder == <<T1, T2>>
MCConflictGroup == (T1 :> G) @@ (T2 :> G)
MCBlockedOn == (T1 :> {D}) @@ (T2 :> {})
MCExecutor == (T1 :> Codex) @@ (T2 :> Claude)
MCReviewer == (T1 :> Claude) @@ (T2 :> Codex)
MCObjectives == {A, B}
MCInitialTargets == (A :> {T2}) @@ (B :> {T1, T2})
MCDepsOf == (T1 :> << {} >>) @@ (T2 :> << {}, {T1} >>)
MCDecisions == {D}
=============================================================================
