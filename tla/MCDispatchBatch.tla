-------------------------- MODULE MCDispatchBatch --------------------------
(***************************************************************************)
(* Two things that keep several agents at work: a dispatched batch, with   *)
(* two plans for one request id, two members each and two starting         *)
(* commands; and the task daemon, with four tasks, one of which no agent   *)
(* takes and two of which share a conflict group.  They share no state, so *)
(* a behaviour exercises one of them.                                      *)
(***************************************************************************)
EXTENDS DispatchBatch, TaskDaemon

CONSTANTS T1, T2, T3, T4, G, cursor, codex, claude, local, auto

MCMembers == 1..2
MCTaskOrder == <<T1, T2, T3, T4>>
MCConflictGroup == (T1 :> NoGroup) @@ (T2 :> G) @@ (T3 :> G) @@ (T4 :> NoGroup)
MCBlockedOn == [t \in Tasks |-> {}]
MCExecutor == (T1 :> cursor) @@ (T2 :> auto) @@ (T3 :> codex) @@ (T4 :> local)
MCProviders == <<codex, claude>>

VARIABLE part  \* what the behaviour exercises

WorkInit ==
  /\ part \in {"batch", "daemon"}
  /\ BatchInit /\ DaemonInit
  /\ part = "daemon" <=> daemon # Off
  /\ part = "batch" => installed = {}

WorkNext ==
  \/ part = "batch" /\ BatchNext /\ UNCHANGED <<daemonVars, part>>
  \/ part = "daemon" /\ DaemonNext /\ UNCHANGED <<batchVars, part>>

WorkSpec ==
  /\ WorkInit /\ [][WorkNext]_<<batchVars, daemonVars, part>>
  /\ BatchFairness /\ DaemonFairness
=============================================================================
