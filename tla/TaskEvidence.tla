---------------------------- MODULE TaskEvidence ----------------------------
(***************************************************************************)
(* What the local execution of one task leaves behind, and what is done    *)
(* with it: receipt, recorded heads, attempt records and the run state     *)
(* (src/dyro/provenance.py), the review that binds them, and the merge     *)
(* that trusts the review (src/dyro/tasks.py).                             *)
(*                                                                         *)
(* Three commands work on these files at once, none of which excludes the  *)
(* others: a run (one at a time, execution lock), a review (one at a time, *)
(* review lock) and a merge (it waits up to half an hour for the lock of   *)
(* its line).  Every file is replaced by a step of its own and a command   *)
(* may die before any of them.  Reservation is one step here; TaskScheduling  *)
(* has its details, LineMerge those of the merge.                          *)
(*                                                                         *)
(* A hash of a file is the content of the file.  Commits of all worktrees  *)
(* of the task are numbered together.                                      *)
(***************************************************************************)
EXTENDS TaskBoard

CONSTANTS
    None,          \* no file
    MaxRuns,       \* bound: attempts begun
    MaxCommits,    \* bound: commits made in the task's worktrees
    MaxReviews,    \* bound: reviews started
    MaxOverrides   \* bound: `task status` commands given

ASSUME BoundsAssumption ==
    /\ MaxRuns \in Nat /\ MaxCommits \in Nat
    /\ MaxReviews \in Nat /\ MaxOverrides \in Nat

\* The absence of a file is not one of its contents.
ASSUME NoneAssumption == None \notin {"in_progress", "ended", "review"}

VARIABLES
    status,        \* the file status
    work,          \* the commit the worktrees are at
    receipt,       \* None or the content of receipt.md
    heads,         \* None or the commit in task-heads.json
    last,          \* last_attempt in execution-run.json
    reviewed,      \* review_attempt_id in execution-run.json, 0 for none
    record,        \* [1..MaxRuns -> None or the state of the attempt's record]
    review,        \* None or the content of review.md
    runner,        \* program counter and attempt of the run
    reviewer,      \* program counter and locals of the review
    merger,        \* program counter of the merge
    delivered,     \* commits merged into the line
    commits,       \* number of commits made
    reviews,       \* number of reviews started
    overrides,     \* number of `task status` commands
    passed,        \* history: commits that a PASS review looked at
    moved,         \* history: the operator moved the task since its review started
    early          \* history: the review started before the run had finished its attempt

files    == <<status, work, receipt, heads, last, reviewed, record, review>>
counters == <<commits, reviews, overrides>>
history  == <<passed, moved, early>>
vars     == <<files, runner, reviewer, merger, delivered, counters, history>>

RunPcs    == {"idle", "begin", "begun", "unlink", "agent", "outcome", "recorded",
              "finish", "point"}
ReviewPcs == {"idle", "reading", "looked", "wrote", "decide", "apply"}
Outcomes  == {"review", "waiting_answer", "failed"}

\* What an agent may write: a result, and a text of its own or boilerplate.
Receipts(n) == [result: {"DONE", "QUESTION", "BLOCKED"}, text: {0, n}]

NoRun    == [pc |-> "idle", cmd |-> "run", n |-> 0, result |-> "failed"]
NoReview == [pc |-> "idle", binding |-> 0, code |-> 0, verdict |-> "FAIL"]

-----------------------------------------------------------------------------
(* What the commands read *)

\* _assert_task_heads_current.
HeadsCurrent == heads # None /\ work = heads

\* review_binding: the attempt the run state points to or, without a pointer, the
\* last one whose record says that it went to review; 0 for none.
Binding ==
    LET ended == {n \in 1..MaxRuns : record[n] = "review"} IN
    IF reviewed # 0 /\ record[reviewed] # None THEN reviewed
    ELSE IF ended = {} THEN 0
    ELSE CHOOSE n \in ended : \A m \in ended : m <= n

\* validate_review_binding: a task without any attempt to bind takes any review.
Binds == Binding = 0 \/ review.attempt = Binding

\* Mutant: only the receipt is compared.
MatchesReceipt == review # None /\ Binds /\ review.receipt = receipt

\* The review binds what is there now.
Matches == /\ review # None /\ Binds
           /\ review.receipt = receipt /\ review.heads = heads

\* _valid_review_acceptance.
Accepted == Matches /\ review.verdict = "PASS" /\ HeadsCurrent

Init ==
    /\ status = "backlog"
    /\ work = 0
    /\ receipt = None
    /\ heads = None
    /\ last = 0
    /\ reviewed = 0
    /\ record = [n \in 1..MaxRuns |-> None]
    /\ review = None
    /\ runner = NoRun
    /\ reviewer = NoReview
    /\ merger = "idle"
    /\ delivered = {}
    /\ commits = 0
    /\ reviews = 0
    /\ overrides = 0
    /\ passed = {}
    /\ moved = FALSE
    /\ early = FALSE

RunStep(pc) ==
    /\ runner' = [runner EXCEPT !.pc = pc]
    /\ UNCHANGED <<reviewer, merger, delivered, counters, history>>

-----------------------------------------------------------------------------
(* A run: run_task, answer_task *)

\* The reservation.
RunStart(cmd) ==
    /\ runner.pc = "idle"
    /\ status \in IF cmd = "run" THEN {"backlog", "assigned", "failed"}
                                 ELSE {"waiting_answer"}
    /\ last < MaxRuns
    /\ status' = "in_progress"
    /\ runner' = [NoRun EXCEPT !.pc = "begin", !.cmd = cmd]
    /\ UNCHANGED <<work, receipt, heads, last, reviewed, record, review, reviewer,
                   merger, delivered, counters, history>>

\* The next run fails a task whose run died.
RunRecovers ==
    /\ runner.pc = "idle" /\ status = "in_progress"
    /\ status' = "failed"
    /\ UNCHANGED <<work, receipt, heads, last, reviewed, record, review, runner,
                   reviewer, merger, delivered, counters, history>>

\* begin_execution_attempt, first file: the run state, without a review pointer.
BeginState ==
    /\ runner.pc = "begin"
    /\ last' = last + 1
    /\ reviewed' = 0
    /\ runner' = [runner EXCEPT !.pc = "begun", !.n = last + 1]
    /\ UNCHANGED <<status, work, receipt, heads, record, review, reviewer, merger,
                   delivered, counters, history>>

\* begin_execution_attempt, second file.
BeginRecord ==
    /\ runner.pc = "begun"
    /\ record' = [record EXCEPT ![runner.n] = "in_progress"]
    /\ RunStep(IF runner.cmd = "run" THEN "unlink" ELSE "agent")
    /\ UNCHANGED <<status, work, receipt, heads, last, reviewed, review>>

\* A run (not a continuation) removes the old receipt.
Unlink ==
    /\ runner.pc = "unlink"
    /\ receipt' = None
    /\ RunStep("agent")
    /\ UNCHANGED <<status, work, heads, last, reviewed, record, review>>

\* The agent commits or not, and writes a receipt or not.
Agent(commit, r) ==
    /\ runner.pc = "agent"
    /\ commit => commits < MaxCommits
    /\ commits' = IF commit THEN commits + 1 ELSE commits
    /\ work' = IF commit THEN commits + 1 ELSE work
    /\ receipt' = IF r = None THEN receipt ELSE r
    /\ runner' = [runner EXCEPT !.pc = "outcome"]
    /\ UNCHANGED <<status, heads, last, reviewed, record, review, reviewer, merger,
                   delivered, reviews, overrides, history>>

\* What the exit code, the receipt and the gates add up to; a finished run records
\* the heads first.
Outcome(result) ==
    /\ runner.pc = "outcome"
    /\ result = "waiting_answer" => receipt # None /\ receipt.result = "QUESTION"
    /\ result = "review" => receipt # None /\ receipt.result = "DONE"
    /\ heads' = IF result = "review" THEN work ELSE heads
    /\ runner' = [runner EXCEPT !.pc = "recorded", !.result = result]
    /\ UNCHANGED <<status, work, receipt, last, reviewed, record, review, reviewer,
                   merger, delivered, counters, history>>

\* set_status; when it refuses the jump, the attempt has failed.
Report ==
    /\ runner.pc = "recorded"
    /\ IF MayMove(status, runner.result)
       THEN status' = runner.result /\ runner' = [runner EXCEPT !.pc = "finish"]
       ELSE /\ runner' = [runner EXCEPT !.pc = "finish", !.result = "failed"]
            /\ UNCHANGED status
    /\ UNCHANGED <<work, receipt, heads, last, reviewed, record, review, reviewer,
                   merger, delivered, counters, history>>

\* finish_execution_attempt, first file.
FinishRecord ==
    /\ runner.pc = "finish"
    /\ record' = [record EXCEPT ![runner.n] =
                     IF runner.result = "review" THEN "review" ELSE "ended"]
    /\ RunStep("point")
    /\ UNCHANGED <<status, work, receipt, heads, last, reviewed, review>>

\* finish_execution_attempt, second file, and the run is over.
FinishPoint ==
    /\ runner.pc = "point"
    /\ reviewed' = IF runner.result = "review" THEN runner.n ELSE reviewed
    /\ runner' = NoRun
    /\ UNCHANGED <<status, work, receipt, heads, last, record, review, reviewer,
                   merger, delivered, counters, history>>

\* The process dies.
RunDies ==
    /\ runner.pc # "idle"
    /\ runner' = NoRun
    /\ UNCHANGED <<files, reviewer, merger, delivered, counters, history>>

-----------------------------------------------------------------------------
(* A review: review_task, _apply_review_decision *)

ReviewStart ==
    /\ reviewer.pc = "idle" /\ reviews < MaxReviews
    /\ status = "review" /\ HeadsCurrent
    /\ reviews' = reviews + 1
    /\ reviewer' = [NoReview EXCEPT !.pc = "reading", !.binding = Binding]
    /\ moved' = (moved /\ merger # "idle")
    /\ early' = (reviewed = 0)
    /\ UNCHANGED <<files, runner, merger, delivered, commits, overrides, passed>>

\* The reviewing agent looks at the code.
ReviewLook ==
    /\ reviewer.pc = "reading"
    /\ reviewer' = [reviewer EXCEPT !.pc = "looked", !.code = work]
    /\ UNCHANGED <<files, runner, merger, delivered, counters, history>>

\* It writes review.md with the hashes it reads and the binding it was given, or
\* exits without writing.
ReviewWrite(verdict) ==
    /\ reviewer.pc = "looked"
    /\ review' = [verdict |-> verdict, receipt |-> receipt, heads |-> heads,
                  attempt |-> reviewer.binding, code |-> reviewer.code, moved |-> moved]
    /\ passed' = IF verdict = "PASS" THEN passed \cup {reviewer.code} ELSE passed
    /\ reviewer' = [reviewer EXCEPT !.pc = "wrote"]
    /\ UNCHANGED <<status, work, receipt, heads, last, reviewed, record, runner,
                   merger, delivered, counters, moved, early>>

ReviewWritesNothing ==
    /\ reviewer.pc = "looked"
    /\ reviewer' = [reviewer EXCEPT !.pc = "wrote"]
    /\ UNCHANGED <<files, runner, merger, delivered, counters, history>>

\* The heads are compared again, which ends a review of changed code.
ReviewRecheck ==
    /\ reviewer.pc = "wrote"
    /\ reviewer' = IF HeadsCurrent THEN [reviewer EXCEPT !.pc = "decide"] ELSE NoReview
    /\ UNCHANGED <<files, runner, merger, delivered, counters, history>>

\* The review file is compared with what is there now; a mismatch leaves the task
\* in review.
ReviewDecide ==
    /\ reviewer.pc = "decide"
    /\ reviewer' =
         IF review # None /\ Binds /\ (review.verdict = "FAIL" \/ Accepted)
         THEN [reviewer EXCEPT !.pc = "apply", !.verdict = review.verdict]
         ELSE NoReview
    /\ UNCHANGED <<files, runner, merger, delivered, counters, history>>

\* set_status by the verdict; the transition table is checked once more, the
\* evidence is not.
ReviewApply ==
    LET next == IF reviewer.verdict = "PASS" THEN "done" ELSE "failed" IN
    /\ reviewer.pc = "apply"
    /\ status' = IF MayMove(status, next) THEN next ELSE status
    /\ reviewer' = NoReview
    /\ UNCHANGED <<work, receipt, heads, last, reviewed, record, review, runner,
                   merger, delivered, counters, history>>

ReviewDies ==
    /\ reviewer.pc # "idle"
    /\ reviewer' = NoReview
    /\ UNCHANGED <<files, runner, merger, delivered, counters, history>>

-----------------------------------------------------------------------------
(* A merge: merge_task *)

\* The review is validated, then the merge waits for the lock of the line.
MergeCheck ==
    /\ merger = "idle"
    /\ status = "done" /\ Accepted
    /\ merger' = "waiting"
    /\ UNCHANGED <<files, runner, reviewer, delivered, counters, history>>

\* Mutant: the merge takes the branch as it is by now.
MergeBranch ==
    /\ merger = "waiting"
    /\ merger' = "idle"
    /\ delivered' = delivered \cup {work}
    /\ UNCHANGED <<files, runner, reviewer, counters, history>>

\* _prepare_merge under the lock: only the heads are compared again, and what they
\* record is merged.
Merge ==
    /\ merger = "waiting"
    /\ merger' = "idle"
    /\ delivered' = IF HeadsCurrent THEN delivered \cup {heads} ELSE delivered
    /\ UNCHANGED <<files, runner, reviewer, counters, history>>

-----------------------------------------------------------------------------
(* Others *)

\* `dyro task status s [--force]`.
SetStatus(s, force) ==
    /\ overrides < MaxOverrides
    /\ s \in Statuses \ QualityGates
    /\ s # status
    /\ force \/ s \in Transitions[status]
    /\ status' = s
    /\ overrides' = overrides + 1
    /\ moved' = TRUE
    /\ UNCHANGED <<work, receipt, heads, last, reviewed, record, review, runner,
                   reviewer, merger, delivered, commits, reviews, passed, early>>

\* Somebody goes on committing in the worktrees.
Commit ==
    /\ commits < MaxCommits
    /\ commits' = commits + 1
    /\ work' = commits + 1
    /\ UNCHANGED <<status, receipt, heads, last, reviewed, record, review, runner,
                   reviewer, merger, delivered, reviews, overrides, history>>

Next ==
    \/ \E cmd \in {"run", "answer"} : RunStart(cmd)
    \/ RunRecovers \/ BeginState \/ BeginRecord \/ Unlink
    \/ \E commit \in BOOLEAN, r \in {None} \cup Receipts(runner.n) : Agent(commit, r)
    \/ \E result \in Outcomes : Outcome(result)
    \/ Report \/ FinishRecord \/ FinishPoint \/ RunDies
    \/ ReviewStart \/ ReviewLook
    \/ \E verdict \in {"PASS", "FAIL"} : ReviewWrite(verdict)
    \/ ReviewWritesNothing \/ ReviewRecheck \/ ReviewDecide \/ ReviewApply
    \/ ReviewDies
    \/ MergeCheck \/ Merge
    \/ \E s \in Statuses, force \in BOOLEAN : SetStatus(s, force)
    \/ Commit

Spec == Init /\ [][Next]_vars

-----------------------------------------------------------------------------
(* Properties *)

TypeOK ==
    /\ status \in Statuses
    /\ work \in 0..MaxCommits
    /\ receipt \in {None} \cup [result: {"DONE", "QUESTION", "BLOCKED"}, text: 0..MaxRuns]
    /\ heads \in {None} \cup 0..MaxCommits
    /\ last \in 0..MaxRuns
    /\ reviewed \in 0..MaxRuns
    /\ record \in [1..MaxRuns -> {None, "in_progress", "ended", "review"}]
    /\ review # None => /\ review.verdict \in {"PASS", "FAIL"}
                        /\ review.attempt \in 0..MaxRuns
                        /\ review.code \in 0..MaxCommits
    /\ runner \in [pc: RunPcs, cmd: {"run", "answer"}, n: 0..MaxRuns, result: Outcomes]
    /\ reviewer \in [pc: ReviewPcs, binding: 0..MaxRuns, code: 0..MaxCommits,
                     verdict: {"PASS", "FAIL"}]
    /\ merger \in {"idle", "waiting"}
    /\ delivered \subseteq 0..MaxCommits

\* The run state never points a review at an attempt that did not go to review,
\* whichever of the two files a dying run still wrote.
PointerValid == reviewed # 0 => record[reviewed] = "review"

\* No operator moved the task since the review that counts started.
Undisturbed == ~moved /\ review # None /\ ~review.moved

\* A task that just became done was passed by a review that looked at the recorded
\* code and bound this receipt and these heads, although run, review and
\* commits go on at the same time; unless an operator moved the task meanwhile.
DoneIsReviewed ==
    [][status # "done" /\ status' = "done" /\ Undisturbed =>
           /\ review.verdict = "PASS" /\ review.code = heads
           /\ review.receipt = receipt /\ review.heads = heads]_vars

\* Then the review is one of the last attempt, unless it started in the window in
\* which the task is in review already and its attempt is not finished yet.
LastIsReviewed ==
    [][status # "done" /\ status' = "done" /\ Undisturbed /\ ~early
       => review.attempt = last]_vars

\* Only code that a review passed reaches the line, unless an operator moved the
\* task after its review started or while the merge waited.
DeliveredIsReviewed ==
    [][delivered' # delivered /\ Undisturbed => delivered' \subseteq passed \cup delivered]_vars

=============================================================================
