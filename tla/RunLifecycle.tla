---------------------------- MODULE RunLifecycle ----------------------------
(* What the dispatch run store promises about a run, whatever supervisor,    *)
(* worker, reaper or reconciliation touches its record: it is executed by    *)
(* one worker generation at most, a terminal verdict is never changed, a     *)
(* cancellation that was acknowledged is the verdict, and no verdict is      *)
(* given while the backend process of the run can still work.                *)
EXTENDS Naturals

CONSTANTS Runs, Workers, NoWorker

VARIABLES status,    \* [Runs -> the status of the record]
          cancel,    \* the runs whose cancellation was acknowledged
          executor,  \* [Runs -> the generation that claimed the run]
          working    \* the runs with a live backend process

vars == <<status, cancel, executor, working>>

Verdicts == {"completed", "failed", "timeout", "cancelled"}

Init ==
  /\ status = [r \in Runs |-> "absent"]
  /\ cancel = {}
  /\ executor = [r \in Runs |-> NoWorker]
  /\ working = {}

Accept(r) ==
  /\ status[r] = "absent"
  /\ status' = [status EXCEPT ![r] = "accepted"]
  /\ UNCHANGED <<cancel, executor, working>>

Claim(r, w) ==
  /\ status[r] = "accepted"
  /\ executor[r] = NoWorker
  /\ status' = [status EXCEPT ![r] = "running"]
  /\ executor' = [executor EXCEPT ![r] = w]
  /\ UNCHANGED <<cancel, working>>

Work(r) ==
  /\ status[r] = "running"
  /\ working' = working \union {r}
  /\ UNCHANGED <<status, cancel, executor>>

Rest(r) ==
  /\ working' = working \ {r}
  /\ UNCHANGED <<status, cancel, executor>>

Cancel(r) ==
  /\ status[r] \in {"accepted", "running"}
  /\ cancel' = cancel \union {r}
  /\ status' = [status EXCEPT ![r] = IF @ = "accepted" THEN "cancelled" ELSE @]
  /\ UNCHANGED <<executor, working>>

Decide(r, verdict) ==
  /\ status[r] \in {"accepted", "running"}
  /\ r \notin working
  /\ r \in cancel => verdict = "cancelled"
  /\ status' = [status EXCEPT ![r] = verdict]
  /\ UNCHANGED <<cancel, executor, working>>

Delete(r) ==
  /\ status[r] \in Verdicts
  /\ status' = [status EXCEPT ![r] = "deleted"]
  /\ cancel' = cancel \ {r}
  /\ executor' = [executor EXCEPT ![r] = NoWorker]
  /\ UNCHANGED working

Next ==
  \E r \in Runs :
    \/ Accept(r) \/ Work(r) \/ Rest(r) \/ Cancel(r) \/ Delete(r)
    \/ \E w \in Workers : Claim(r, w)
    \/ \E verdict \in Verdicts : Decide(r, verdict)

Spec == Init /\ [][Next]_vars
=============================================================================
