------------------------- MODULE TaskEvidence_proofs -------------------------
(***************************************************************************)
(* What a review passed is what becomes done and what is merged, for any   *)
(* number of attempts, commits, reviews and operator commands.             *)
(***************************************************************************)
EXTENDS TaskEvidence, TLAPS

(* The invariant *)

\* The locals of a run and of a review are records.
RunnerOK ==
    /\ runner \in [pc: RunPcs, cmd: {"run", "answer"}, n: Nat, result: Outcomes]
    /\ reviewer = [pc |-> reviewer.pc, binding |-> reviewer.binding,
                   code |-> reviewer.code, verdict |-> reviewer.verdict]
    /\ moved \in BOOLEAN /\ early \in BOOLEAN
    /\ record = [n \in 1..MaxRuns |-> record[n]]

\* Commits are numbered in the order in which they are made, and no recorded head
\* is newer than the worktrees.
Numbered ==
    /\ commits \in Nat /\ work = commits
    /\ heads = None \/ heads \in 0..work

\* While the run holds an attempt, that is the last one and the run state points to
\* none.
Attempts ==
    /\ last \in 0..MaxRuns
    /\ reviewed \in {0, last}
    /\ runner.pc = "begin" => last < MaxRuns
    /\ runner.pc \notin {"idle", "begin"} =>
           reviewed = 0 /\ runner.n = last /\ last # 0
    /\ runner.pc = "point" /\ runner.result = "review" => record[runner.n] = "review"

\* A task that went to review is not being executed.
Settled ==
    /\ status \in Statuses \ {"review_pending_signoff"}
    /\ status \in {"review", "done"} => runner.pc \in {"idle", "finish", "point"}

\* A review that nobody moved the task under goes on in review.
Stable ==
    reviewer.pc # "idle" /\ ~moved =>
        /\ status = "review" /\ heads # None
        /\ ~early => reviewed # 0

\* A reviewer looked at code that is not older than the recorded heads.
Looked ==
    reviewer.pc = "looked" =>
        /\ reviewer.code \in 0..work
        /\ ~moved => heads <= reviewer.code

\* So did whoever wrote the review that is on file.
Written ==
    review # None =>
        /\ review.moved \in BOOLEAN
        /\ review.verdict = "PASS" => review.code \in passed
        /\ ~review.moved => /\ review.heads \in Nat /\ review.code \in 0..work
                            /\ review.heads <= review.code

\* The review on file passed the code, the receipt and the heads there are.
Good == /\ review.verdict = "PASS" /\ review.code = heads
        /\ review.receipt = receipt /\ review.heads = heads

\* A verdict that is about to be applied, and a merge that waits, rest on it.
Decided ==
    reviewer.pc = "apply" /\ reviewer.verdict = "PASS" /\ Undisturbed =>
        /\ Good
        /\ ~early => review.attempt = last

Waiting ==
    merger = "waiting" /\ ~moved =>
        /\ status = "done"
        /\ Undisturbed => Good

IInv == /\ RunnerOK /\ Numbered /\ Attempts /\ PointerValid /\ Settled /\ Stable
        /\ Looked /\ Written /\ Decided /\ Waiting

-----------------------------------------------------------------------------
(* Lemmas *)

\* An accepted review that nobody disturbed looked at the recorded code: it looked
\* at nothing older, and there is nothing newer.
LEMMA AcceptedIsGood ==
    ASSUME IInv, Accepted, ~review.moved
    PROVE  Good /\ review.code \in passed
<1>1. /\ review # None /\ review.verdict = "PASS"
      /\ review.receipt = receipt /\ review.heads = heads /\ work = heads
  BY DEF Accepted, Matches, HeadsCurrent
<1>2. /\ review.code \in passed
      /\ review.heads \in Nat /\ review.code \in 0..work /\ review.heads <= review.code
  BY <1>1 DEF IInv, Written
<1>3. review.code = heads
  BY <1>1, <1>2 DEF IInv, Numbered
<1> QED BY <1>1, <1>2, <1>3 DEF Good

\* While the run state has a pointer, a review binds the last attempt.
LEMMA PointerBinds ==
    ASSUME IInv, reviewed # 0
    PROVE  Binding = last
BY NoneAssumption DEF IInv, Attempts, PointerValid, Binding

\* A task becomes done out of a review.
LEMMA DoneFromReview ==
    \A s \in Statuses \ {"review_pending_signoff"} :
        "done" \in Transitions[s] => s = "review"
BY DEF Statuses, Transitions

LEMMA Initial == Init => IInv
<1> SUFFICES ASSUME Init PROVE IInv
  OBVIOUS
<1>1. RunnerOK
  BY DEF Init, RunnerOK, NoRun, NoReview, RunPcs, Outcomes
<1>2. Numbered /\ Attempts /\ PointerValid
  BY BoundsAssumption DEF Init, Numbered, Attempts, PointerValid, NoRun
<1>3. Settled /\ Stable /\ Looked
  BY DEF Init, Settled, Stable, Looked, NoReview, Statuses
<1>4. Written /\ Decided /\ Waiting
  BY DEF Init, Written, Decided, Waiting, NoReview
<1> QED BY <1>1, <1>2, <1>3, <1>4 DEF IInv
-----------------------------------------------------------------------------
(* Every step keeps the invariant *)

LEMMA Inductive == IInv /\ [Next]_vars => IInv'
<1> SUFFICES ASSUME IInv, [Next]_vars PROVE IInv'
  OBVIOUS
<1> USE BoundsAssumption DEF IInv, RunnerOK, Numbered, Attempts, PointerValid, Settled,
        Stable, Looked, Written, Decided, Waiting, Good, Undisturbed, files, counters,
        history, RunPcs, Outcomes, NoRun, NoReview, RunStep, Statuses
<1>1. ASSUME NEW cmd \in {"run", "answer"}, RunStart(cmd) PROVE IInv'
  <2>1. RunnerOK'
    BY <1>1 DEF RunStart
  <2>2. Numbered' /\ Attempts'
    BY <1>1 DEF RunStart
  <2>3. PointerValid' /\ Settled'
    BY <1>1 DEF RunStart
  <2>4. Stable' /\ Looked'
    BY <1>1 DEF RunStart
  <2>5. Written'
    BY <1>1 DEF RunStart
  <2>6. Decided'
    BY <1>1 DEF RunStart
  <2>7. Waiting'
    BY <1>1 DEF RunStart
  <2> QED BY <2>1, <2>2, <2>3, <2>4, <2>5, <2>6, <2>7
<1>2. ASSUME RunRecovers PROVE IInv'
  <2>1. RunnerOK'
    BY <1>2 DEF RunRecovers
  <2>2. Numbered' /\ Attempts'
    BY <1>2 DEF RunRecovers
  <2>3. PointerValid' /\ Settled'
    BY <1>2 DEF RunRecovers
  <2>4. Stable' /\ Looked'
    BY <1>2 DEF RunRecovers
  <2>5. Written'
    BY <1>2 DEF RunRecovers
  <2>6. Decided'
    BY <1>2 DEF RunRecovers
  <2>7. Waiting'
    BY <1>2 DEF RunRecovers
  <2> QED BY <2>1, <2>2, <2>3, <2>4, <2>5, <2>6, <2>7
<1>3. ASSUME BeginState PROVE IInv'
  <2>1. RunnerOK'
    <3>1. last + 1 \in Nat
      OBVIOUS
    <3> QED BY <1>3, <3>1 DEF BeginState
  <2>2. Numbered' /\ Attempts'
    BY <1>3 DEF BeginState
  <2>3. PointerValid' /\ Settled'
    BY <1>3 DEF BeginState
  <2>4. Stable' /\ Looked'
    BY <1>3 DEF BeginState
  <2>5. Written'
    BY <1>3 DEF BeginState
  <2>6. Decided'
    BY <1>3 DEF BeginState
  <2>7. Waiting'
    BY <1>3 DEF BeginState
  <2> QED BY <2>1, <2>2, <2>3, <2>4, <2>5, <2>6, <2>7
<1>4. ASSUME BeginRecord PROVE IInv'
  <2>1. RunnerOK'
    BY <1>4 DEF BeginRecord
  <2>2. Numbered' /\ Attempts'
    BY <1>4 DEF BeginRecord
  <2>3. PointerValid' /\ Settled'
    BY <1>4 DEF BeginRecord
  <2>4. Stable' /\ Looked'
    BY <1>4 DEF BeginRecord
  <2>5. Written'
    BY <1>4 DEF BeginRecord
  <2>6. Decided'
    BY <1>4 DEF BeginRecord
  <2>7. Waiting'
    BY <1>4 DEF BeginRecord
  <2> QED BY <2>1, <2>2, <2>3, <2>4, <2>5, <2>6, <2>7
<1>5. ASSUME Unlink PROVE IInv'
  <2>1. RunnerOK'
    BY <1>5 DEF Unlink
  <2>2. Numbered' /\ Attempts'
    BY <1>5 DEF Unlink
  <2>3. PointerValid' /\ Settled'
    BY <1>5 DEF Unlink
  <2>4. Stable' /\ Looked'
    BY <1>5 DEF Unlink
  <2>5. Written'
    BY <1>5 DEF Unlink
  <2>6. Decided'
    BY <1>5 DEF Unlink
  <2>7. Waiting'
    BY <1>5 DEF Unlink
  <2> QED BY <2>1, <2>2, <2>3, <2>4, <2>5, <2>6, <2>7
<1>6. ASSUME NEW commit \in BOOLEAN, NEW r, Agent(commit, r) PROVE IInv'
  <2>1. RunnerOK'
    BY <1>6 DEF Agent
  <2>2. Numbered' /\ Attempts'
    BY <1>6 DEF Agent
  <2>3. PointerValid' /\ Settled'
    BY <1>6 DEF Agent
  <2>4. Stable' /\ Looked'
    BY <1>6 DEF Agent
  <2>5. Written'
    BY <1>6 DEF Agent
  <2>6. Decided'
    BY <1>6 DEF Agent
  <2>7. Waiting'
    BY <1>6 DEF Agent
  <2> QED BY <2>1, <2>2, <2>3, <2>4, <2>5, <2>6, <2>7
<1>7. ASSUME NEW result \in Outcomes, Outcome(result) PROVE IInv'
  <2>1. RunnerOK'
    BY <1>7 DEF Outcome
  <2>2. Numbered' /\ Attempts'
    BY <1>7 DEF Outcome
  <2>3. PointerValid' /\ Settled'
    BY <1>7 DEF Outcome
  <2>4. Stable' /\ Looked'
    BY <1>7 DEF Outcome
  <2>5. Written'
    BY <1>7 DEF Outcome
  <2>6. Decided'
    BY <1>7 DEF Outcome
  <2>7. Waiting'
    BY <1>7 DEF Outcome
  <2> QED BY <2>1, <2>2, <2>3, <2>4, <2>5, <2>6, <2>7
<1>8. ASSUME Report PROVE IInv'
  <2>1. RunnerOK'
    BY <1>8 DEF Report
  <2>2. Numbered' /\ Attempts'
    BY <1>8 DEF Report
  <2>3. PointerValid' /\ Settled'
    BY <1>8 DEF Report
  <2>4. Stable' /\ Looked'
    BY <1>8 DEF Report
  <2>5. Written'
    BY <1>8 DEF Report
  <2>6. Decided'
    BY <1>8 DEF Report
  <2>7. Waiting'
    BY <1>8 DEF Report
  <2> QED BY <2>1, <2>2, <2>3, <2>4, <2>5, <2>6, <2>7
<1>9. ASSUME FinishRecord PROVE IInv'
  <2>1. RunnerOK'
    BY <1>9 DEF FinishRecord
  <2>2. Numbered' /\ Attempts'
    BY <1>9 DEF FinishRecord
  <2>3. PointerValid' /\ Settled'
    BY <1>9 DEF FinishRecord
  <2>4. Stable' /\ Looked'
    BY <1>9 DEF FinishRecord
  <2>5. Written'
    BY <1>9 DEF FinishRecord
  <2>6. Decided'
    BY <1>9 DEF FinishRecord
  <2>7. Waiting'
    BY <1>9 DEF FinishRecord
  <2> QED BY <2>1, <2>2, <2>3, <2>4, <2>5, <2>6, <2>7
<1>10. ASSUME FinishPoint PROVE IInv'
  <2>1. RunnerOK'
    BY <1>10 DEF FinishPoint
  <2>2. Numbered' /\ Attempts'
    BY <1>10 DEF FinishPoint
  <2>3. PointerValid' /\ Settled'
    BY <1>10 DEF FinishPoint
  <2>4. Stable' /\ Looked'
    BY <1>10 DEF FinishPoint
  <2>5. Written'
    BY <1>10 DEF FinishPoint
  <2>6. Decided'
    BY <1>10 DEF FinishPoint
  <2>7. Waiting'
    BY <1>10 DEF FinishPoint
  <2> QED BY <2>1, <2>2, <2>3, <2>4, <2>5, <2>6, <2>7
<1>11. ASSUME RunDies PROVE IInv'
  <2>1. RunnerOK'
    BY <1>11 DEF RunDies
  <2>2. Numbered' /\ Attempts'
    BY <1>11 DEF RunDies
  <2>3. PointerValid' /\ Settled'
    BY <1>11 DEF RunDies
  <2>4. Stable' /\ Looked'
    BY <1>11 DEF RunDies
  <2>5. Written'
    BY <1>11 DEF RunDies
  <2>6. Decided'
    BY <1>11 DEF RunDies
  <2>7. Waiting'
    BY <1>11 DEF RunDies
  <2> QED BY <2>1, <2>2, <2>3, <2>4, <2>5, <2>6, <2>7
<1>12. ASSUME ReviewStart PROVE IInv'
  <2>1. RunnerOK'
    BY <1>12 DEF ReviewStart
  <2>2. Numbered' /\ Attempts'
    BY <1>12 DEF ReviewStart
  <2>3. PointerValid' /\ Settled'
    BY <1>12 DEF ReviewStart
  <2>4. Stable' /\ Looked'
    <3>1. status = "review" /\ heads # None /\ early' = (reviewed = 0)
      BY <1>12 DEF ReviewStart, HeadsCurrent
    <3>2. /\ status' = status /\ heads' = heads /\ reviewed' = reviewed
          /\ reviewer'.pc = "reading"
      BY <1>12 DEF ReviewStart
    <3> QED BY <3>1, <3>2
  <2>5. Written'
    BY <1>12 DEF ReviewStart
  <2>6. Decided'
    BY <1>12 DEF ReviewStart
  <2>7. Waiting'
    BY <1>12 DEF ReviewStart
  <2> QED BY <2>1, <2>2, <2>3, <2>4, <2>5, <2>6, <2>7
<1>13. ASSUME ReviewLook PROVE IInv'
  <2>1. RunnerOK'
    BY <1>13 DEF ReviewLook
  <2>2. Numbered' /\ Attempts'
    BY <1>13 DEF ReviewLook
  <2>3. PointerValid' /\ Settled'
    BY <1>13 DEF ReviewLook
  <2>4. Stable' /\ Looked'
    BY <1>13 DEF ReviewLook
  <2>5. Written'
    BY <1>13 DEF ReviewLook
  <2>6. Decided'
    BY <1>13 DEF ReviewLook
  <2>7. Waiting'
    BY <1>13 DEF ReviewLook
  <2> QED BY <2>1, <2>2, <2>3, <2>4, <2>5, <2>6, <2>7
<1>14. ASSUME NEW verdict \in {"PASS", "FAIL"}, ReviewWrite(verdict) PROVE IInv'
  <2>1. RunnerOK'
    BY <1>14 DEF ReviewWrite
  <2>2. Numbered' /\ Attempts'
    BY <1>14 DEF ReviewWrite
  <2>3. PointerValid' /\ Settled'
    BY <1>14 DEF ReviewWrite
  <2>4. Stable' /\ Looked'
    BY <1>14 DEF ReviewWrite
  <2>5. Written'
    BY <1>14 DEF ReviewWrite
  <2>6. Decided'
    BY <1>14 DEF ReviewWrite
  <2>7. Waiting'
    BY <1>14 DEF ReviewWrite
  <2> QED BY <2>1, <2>2, <2>3, <2>4, <2>5, <2>6, <2>7
<1>15. ASSUME ReviewWritesNothing PROVE IInv'
  <2>1. RunnerOK'
    BY <1>15 DEF ReviewWritesNothing
  <2>2. Numbered' /\ Attempts'
    BY <1>15 DEF ReviewWritesNothing
  <2>3. PointerValid' /\ Settled'
    BY <1>15 DEF ReviewWritesNothing
  <2>4. Stable' /\ Looked'
    BY <1>15 DEF ReviewWritesNothing
  <2>5. Written'
    BY <1>15 DEF ReviewWritesNothing
  <2>6. Decided'
    BY <1>15 DEF ReviewWritesNothing
  <2>7. Waiting'
    BY <1>15 DEF ReviewWritesNothing
  <2> QED BY <2>1, <2>2, <2>3, <2>4, <2>5, <2>6, <2>7
<1>16. ASSUME ReviewRecheck PROVE IInv'
  <2>1. RunnerOK'
    BY <1>16 DEF ReviewRecheck
  <2>2. Numbered' /\ Attempts'
    BY <1>16 DEF ReviewRecheck
  <2>3. PointerValid' /\ Settled'
    BY <1>16 DEF ReviewRecheck
  <2>4. Stable' /\ Looked'
    BY <1>16 DEF ReviewRecheck
  <2>5. Written'
    BY <1>16 DEF ReviewRecheck
  <2>6. Decided'
    BY <1>16 DEF ReviewRecheck
  <2>7. Waiting'
    BY <1>16 DEF ReviewRecheck
  <2> QED BY <2>1, <2>2, <2>3, <2>4, <2>5, <2>6, <2>7
<1>17. ASSUME ReviewDecide PROVE IInv'
  <2>1. RunnerOK'
    BY <1>17 DEF ReviewDecide
  <2>2. Numbered' /\ Attempts'
    BY <1>17 DEF ReviewDecide
  <2>3. PointerValid' /\ Settled'
    BY <1>17 DEF ReviewDecide
  <2>4. Stable' /\ Looked'
    BY <1>17 DEF ReviewDecide
  <2>5. Written'
    BY <1>17 DEF ReviewDecide
  <2>6. Decided'
    <3> SUFFICES ASSUME reviewer'.pc = "apply", reviewer'.verdict = "PASS", Undisturbed'
                 PROVE  Good' /\ (~early' => review'.attempt = last')
      OBVIOUS
    <3>1. /\ UNCHANGED <<files, history>>
          /\ review # None /\ Binds /\ review.verdict = "PASS" /\ Accepted
      BY <1>17 DEF ReviewDecide
    <3>2. Good
      BY <3>1, AcceptedIsGood
    <3>3. ~early => review.attempt = last
      <4> SUFFICES ASSUME ~early PROVE review.attempt = last
        OBVIOUS
      <4>1. reviewed # 0
        BY <1>17, <3>1 DEF ReviewDecide
      <4>2. Binding = last
        BY <4>1, PointerBinds
      <4> QED BY <3>1, <4>1, <4>2 DEF Binds
    <3> QED BY <3>1, <3>2, <3>3
  <2>7. Waiting'
    BY <1>17 DEF ReviewDecide
  <2> QED BY <2>1, <2>2, <2>3, <2>4, <2>5, <2>6, <2>7
<1>18. ASSUME ReviewApply PROVE IInv'
  <2>1. RunnerOK'
    BY <1>18 DEF ReviewApply
  <2>2. Numbered' /\ Attempts'
    BY <1>18 DEF ReviewApply
  <2>3. PointerValid' /\ Settled'
    <3>1. status' # status => status' \in {"done", "failed"} /\ status' \in Transitions[status]
      BY <1>18 DEF ReviewApply, MayMove
    <3>2. status' = "done" => status \in {"review", "done"}
      BY <3>1, DoneFromReview
    <3>3. UNCHANGED <<runner, last, record, reviewed, receipt>>
      BY <1>18 DEF ReviewApply
    <3>4. PointerValid'
      BY <3>3
    <3>5. Settled'
      BY <3>1, <3>2, <3>3
    <3> QED BY <3>4, <3>5
  <2>4. Stable' /\ Looked'
    BY <1>18 DEF ReviewApply
  <2>5. Written'
    BY <1>18 DEF ReviewApply
  <2>6. Decided'
    BY <1>18 DEF ReviewApply
  <2>7. Waiting'
    BY <1>18 DEF ReviewApply
  <2> QED BY <2>1, <2>2, <2>3, <2>4, <2>5, <2>6, <2>7
<1>19. ASSUME ReviewDies PROVE IInv'
  <2>1. RunnerOK'
    BY <1>19 DEF ReviewDies
  <2>2. Numbered' /\ Attempts'
    BY <1>19 DEF ReviewDies
  <2>3. PointerValid' /\ Settled'
    BY <1>19 DEF ReviewDies
  <2>4. Stable' /\ Looked'
    BY <1>19 DEF ReviewDies
  <2>5. Written'
    BY <1>19 DEF ReviewDies
  <2>6. Decided'
    BY <1>19 DEF ReviewDies
  <2>7. Waiting'
    BY <1>19 DEF ReviewDies
  <2> QED BY <2>1, <2>2, <2>3, <2>4, <2>5, <2>6, <2>7
<1>20. ASSUME MergeCheck PROVE IInv'
  <2>1. RunnerOK'
    BY <1>20 DEF MergeCheck
  <2>2. Numbered' /\ Attempts'
    BY <1>20 DEF MergeCheck
  <2>3. PointerValid' /\ Settled'
    BY <1>20 DEF MergeCheck
  <2>4. Stable' /\ Looked'
    BY <1>20 DEF MergeCheck
  <2>5. Written'
    BY <1>20 DEF MergeCheck
  <2>6. Decided'
    BY <1>20 DEF MergeCheck
  <2>7. Waiting'
    <3>1. status = "done" /\ Accepted /\ UNCHANGED <<files, history>>
      BY <1>20 DEF MergeCheck
    <3>2. Undisturbed => Good
      BY <3>1, AcceptedIsGood
    <3> QED BY <3>1, <3>2
  <2> QED BY <2>1, <2>2, <2>3, <2>4, <2>5, <2>6, <2>7
<1>21. ASSUME Merge PROVE IInv'
  <2>1. RunnerOK'
    BY <1>21 DEF Merge
  <2>2. Numbered' /\ Attempts'
    BY <1>21 DEF Merge
  <2>3. PointerValid' /\ Settled'
    BY <1>21 DEF Merge
  <2>4. Stable' /\ Looked'
    BY <1>21 DEF Merge
  <2>5. Written'
    BY <1>21 DEF Merge
  <2>6. Decided'
    BY <1>21 DEF Merge
  <2>7. Waiting'
    BY <1>21 DEF Merge
  <2> QED BY <2>1, <2>2, <2>3, <2>4, <2>5, <2>6, <2>7
<1>22. ASSUME NEW s \in Statuses, NEW force \in BOOLEAN, SetStatus(s, force) PROVE IInv'
  <2>1. RunnerOK'
    BY <1>22 DEF SetStatus
  <2>2. Numbered' /\ Attempts'
    BY <1>22 DEF SetStatus
  <2>3. PointerValid' /\ Settled'
    BY <1>22 DEF SetStatus, QualityGates
  <2>4. Stable' /\ Looked'
    BY <1>22 DEF SetStatus
  <2>5. Written'
    BY <1>22 DEF SetStatus
  <2>6. Decided'
    BY <1>22 DEF SetStatus
  <2>7. Waiting'
    BY <1>22 DEF SetStatus
  <2> QED BY <2>1, <2>2, <2>3, <2>4, <2>5, <2>6, <2>7
<1>23. ASSUME Commit PROVE IInv'
  <2>1. RunnerOK'
    BY <1>23 DEF Commit
  <2>2. Numbered' /\ Attempts'
    BY <1>23 DEF Commit
  <2>3. PointerValid' /\ Settled'
    BY <1>23 DEF Commit
  <2>4. Stable' /\ Looked'
    BY <1>23 DEF Commit
  <2>5. Written'
    BY <1>23 DEF Commit
  <2>6. Decided'
    BY <1>23 DEF Commit
  <2>7. Waiting'
    BY <1>23 DEF Commit
  <2> QED BY <2>1, <2>2, <2>3, <2>4, <2>5, <2>6, <2>7
<1>24. CASE UNCHANGED vars
  <2>1. RunnerOK'
    BY <1>24 DEF vars
  <2>2. Numbered' /\ Attempts'
    BY <1>24 DEF vars
  <2>3. PointerValid' /\ Settled'
    BY <1>24 DEF vars
  <2>4. Stable' /\ Looked'
    BY <1>24 DEF vars
  <2>5. Written'
    BY <1>24 DEF vars
  <2>6. Decided'
    BY <1>24 DEF vars
  <2>7. Waiting'
    BY <1>24 DEF vars
  <2> QED BY <2>1, <2>2, <2>3, <2>4, <2>5, <2>6, <2>7
<1> QED BY <1>1, <1>2, <1>3, <1>4, <1>5, <1>6, <1>7, <1>8, <1>9, <1>10, <1>11, <1>12, <1>13, <1>14, <1>15, <1>16, <1>17, <1>18, <1>19, <1>20, <1>21, <1>22, <1>23, <1>24 DEF Next

\* Only a review makes a task done.
LEMMA OnlyReviewsFinish ==
    ASSUME IInv, [Next]_vars, status # "done", status' = "done"
    PROVE  ReviewApply
BY DEF Next, vars, files, counters, history, RunStart, RunRecovers, BeginState,
   BeginRecord, Unlink, Agent, Outcome, Report, FinishRecord, FinishPoint, RunDies,
   RunStep, ReviewStart, ReviewLook, ReviewWrite, ReviewWritesNothing, ReviewRecheck,
   ReviewDecide, ReviewDies, MergeCheck, Merge, SetStatus, Commit, QualityGates,
   IInv, RunnerOK, Outcomes

\* The verdict it applies rests on the review on file.
LEMMA ApplyRests ==
    ASSUME IInv, ReviewApply, status # "done", status' = "done", Undisturbed
    PROVE  Good /\ (~early => review.attempt = last)
<1>1. reviewer.pc = "apply" /\ reviewer.verdict = "PASS"
  BY DEF ReviewApply
<1> QED BY <1>1 DEF IInv, Decided

-----------------------------------------------------------------------------
(* Theorems *)

\* The invariant holds, for any bounds.
THEOREM Invariant == Spec => []IInv
<1>1. Init => IInv
  BY Initial
<1>2. IInv /\ [Next]_vars => IInv'
  BY Inductive
<1> QED BY <1>1, <1>2, PTL DEF Spec

\* However run and crashes interleave, the run state points a review only at an
\* attempt that went to review.
THEOREM PointersValid == Spec => []PointerValid
<1>1. IInv => PointerValid
  BY DEF IInv
<1> QED BY <1>1, Invariant, PTL

\* What becomes done was passed by a review of the recorded code that binds this
\* receipt and these heads.
THEOREM DoneReviewed == Spec => DoneIsReviewed
<1>1. ASSUME IInv, [Next]_vars, status # "done", status' = "done", Undisturbed
      PROVE  /\ review.verdict = "PASS" /\ review.code = heads
             /\ review.receipt = receipt /\ review.heads = heads
  <2>1. ReviewApply
    BY <1>1, OnlyReviewsFinish
  <2> QED BY <1>1, <2>1, ApplyRests DEF Good
<1> QED BY <1>1, Invariant, PTL DEF Spec, DoneIsReviewed

\* That review is one of the last attempt, unless it started before the run had
\* finished its attempt.
THEOREM LastReviewed == Spec => LastIsReviewed
<1>1. ASSUME IInv, [Next]_vars, status # "done", status' = "done", Undisturbed, ~early
      PROVE  review.attempt = last
  <2>1. ReviewApply
    BY <1>1, OnlyReviewsFinish
  <2> QED BY <1>1, <2>1, ApplyRests
<1> QED BY <1>1, Invariant, PTL DEF Spec, LastIsReviewed

\* What reaches the line was passed by a review.
THEOREM DeliveredReviewed == Spec => DeliveredIsReviewed
<1>1. ASSUME IInv, [Next]_vars, delivered' # delivered, Undisturbed
      PROVE  delivered' \subseteq passed \cup delivered
  <2>1. Merge
    BY <1>1 DEF Next, vars, files, counters, history, RunStart, RunRecovers, BeginState,
         BeginRecord, Unlink, Agent, Outcome, Report, FinishRecord, FinishPoint, RunDies,
         RunStep, ReviewStart, ReviewLook, ReviewWrite, ReviewWritesNothing,
         ReviewRecheck, ReviewDecide, ReviewApply, ReviewDies, MergeCheck, SetStatus, Commit
  <2>2. Good /\ review.code \in passed
    BY <1>1, <2>1 DEF Merge, IInv, Waiting, Undisturbed, Written, Good
  <2> QED BY <2>1, <2>2 DEF Merge, Good
<1> QED BY <1>1, Invariant, PTL DEF Spec, DeliveredIsReviewed
=============================================================================
