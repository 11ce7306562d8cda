-------------------------- MODULE ActionLifecycle --------------------------
(***************************************************************************)
(* What the continuation engine promises about the actions of one          *)
(* Objective, whoever schedules them and whatever crashes: an action is    *)
(* reserved, then started or cancelled, and ends at most once; and no      *)
(* action is reserved or started while the outcome of another is unknown,  *)
(* so a delivery step is never repeated or overtaken on a guess.           *)
(* ObjectiveActions implements this module.                                *)
(***************************************************************************)
CONSTANT Actions

VARIABLE phase  \* [Actions -> Phases]

Phases == {"new", "reserved", "cancelled", "started", "succeeded", "failed",
           "uncertain"}

Unresolved == {a \in Actions : phase[a] \in {"started", "uncertain"}}

Init == phase = [a \in Actions |-> "new"]

Become(a, next) == phase' = [phase EXCEPT ![a] = next]

Reserve(a) == phase[a] = "new" /\ Unresolved = {} /\ Become(a, "reserved")
Start(a)   == phase[a] = "reserved" /\ Unresolved = {} /\ Become(a, "started")
Cancel(a)  == phase[a] = "reserved" /\ Become(a, "cancelled")
Finish(a)  == /\ phase[a] = "started"
              /\ \E end \in {"succeeded", "failed", "uncertain"} : Become(a, end)

Next == \E a \in Actions : Reserve(a) \/ Start(a) \/ Cancel(a) \/ Finish(a)

Spec == Init /\ [][Next]_phase
=============================================================================
