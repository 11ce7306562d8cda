-------------------------- MODULE ExternalClaims ---------------------------
(***************************************************************************)
(* Tasks of a workspace whose policy.execution_mode is "external": the     *)
(* agent runs elsewhere, and this workspace hands out claims and takes     *)
(* evidence back (src/dyro/tasks.py, provenance.py, evidence.py).          *)
(*                                                                         *)
(* A runner claims a task for a lease, builds a signed bundle from the     *)
(* claim and the attempts it sees, and the bundle is imported later, twice *)
(* or never.  claim and release hold the dispatch and the state lock,      *)
(* import, review and signoff the state lock, an answer only the execution *)
(* lock until it writes the status.  Each writes several files, and may    *)
(* die between two of them.                                                *)
(*                                                                         *)
(* A lease that is renewed in time just does not run out, so renewing is   *)
(* no action here.  The principal of a key stands for the key.             *)
(***************************************************************************)
EXTENDS TaskBoard, TLC

CONSTANTS
    Procs,         \* commands running in the workspace
    NoProc,        \* a free lock
    Principals,    \* who runs, reviews and signs
    None,          \* no claim, no file
    RequireSignoff,\* policy.require_external_signoff
    Clocks,        \* bound: what the clocks of runners read
    MaxClaims,     \* bound: claims granted
    MaxBundles,    \* bound: bundles built
    MaxAnswers,    \* bound: answers written
    MaxOverrides   \* bound: `task status` commands given

ASSUME ExternalAssumption == Mode = "external" /\ RequireSignoff \in BOOLEAN
ASSUME ProcsAssumption == NoProc \notin Procs /\ None \notin Principals
ASSUME BoundsAssumption ==
    /\ Clocks \subseteq Nat
    /\ MaxClaims \in Nat /\ MaxBundles \in Nat
    /\ MaxAnswers \in Nat /\ MaxOverrides \in Nat

VARIABLES
    status,        \* [Tasks -> Statuses]
    claim,         \* [Tasks -> None or claim.json and whether its lease runs]
    attempts,      \* [Tasks -> set of attempts in all evidence generations]
    current,       \* [Tasks -> None or the attempt of the current generation]
    answers,       \* [Tasks -> Nat], which text answers.md holds; 0 is no file
    review,        \* [Tasks -> None or the identity and the binding of review.md]
    signoff,       \* [Tasks -> None or the approver in signoff.json]
    bundles,       \* evidence bundles built so far
    execLock,      \* [Tasks -> Procs \cup {NoProc}]
    stateLock,     \* [Tasks -> Procs \cup {NoProc}]
    dispatchLock,  \* Procs \cup {NoProc}
    proc,          \* program counter and locals of each command
    claims,        \* number of claims granted: the claim ids used
    overrides,     \* number of `task status` commands
    overridden,    \* history: tasks an operator gave another status
    answered,      \* history: tasks an answer made assigned
    late           \* history: tasks started by evidence whose claim ran out

files   == <<status, claim, attempts, current, answers, review, signoff>>
locks   == <<execLock, stateLock, dispatchLock>>
history == <<claims, overrides, overridden, answered, late>>
vars    == <<files, bundles, locks, proc, history>>

Results == {"DONE", "QUESTION", "BLOCKED"}
Verdicts == {"PASS", "FAIL"}
Pcs     == {"idle", "claiming", "claimed", "released", "published", "started",
            "answering", "answered"}

Idle == [pc |-> "idle", task |-> None, runner |-> None]

Claims == [id: Nat, runner: Principals, live: BOOLEAN, gen: Nat]
Attempts == [task: Tasks, n: Nat, claim: Nat \X Nat \X Principals,
             runner: Principals, answer: Nat, result: Results, started: Nat,
             under: Nat]

ASSUME NoneAssumption == None \notin Claims \cup Attempts

-----------------------------------------------------------------------------
(* What the commands read *)

Live(t) == claim[t] # None /\ claim[t].live
LiveTasks == {t \in Tasks : Live(t)}

\* Mutant: a claimed task does not occupy its group before it is in_progress.
CanDispatchUnclaimed(t) ==
    Dispatchable(t, status, {d \in Tasks : status[d] = "done"}, {})

\* check_dispatchable.  The heads of a done task reach the line outside this
\* workspace (`task merge` is refused), which git then sees or not.
CanDispatch(t) ==
    Dispatchable(t, status, {d \in Tasks : status[d] = "done"}, LiveTasks)

\* latest_execution_attempt: attempts are sorted by the start time their runner
\* wrote, then by number.
Latest(t) ==
    CHOOSE x \in attempts[t] : \A y \in attempts[t] :
        x.started > y.started \/ (x.started = y.started /\ x.n >= y.n)

\* The number the next attempt gets.
NextNumber(t) == IF attempts[t] = {} THEN 1 ELSE Latest(t).n + 1

\* The answer that the plan of an attempt continues from, 0 for none.
Continues(t) == IF attempts[t] = {} THEN 0 ELSE answers[t]

\* Mutant: the plan names the runner and the generation, not the claim.
BindingByGeneration(c) == <<c.gen, c.runner>>

\* execution_claim_binding, as it stands in a plan.
Binding(c) == <<c.id, c.gen, c.runner>>

Goto(p, pc) == proc' = [proc EXCEPT ![p].pc = pc]

\* p's command ends, whatever locks it holds.
End(p) ==
    /\ proc' = [proc EXCEPT ![p] = Idle]
    /\ execLock' = [t \in Tasks |-> IF execLock[t] = p THEN NoProc ELSE execLock[t]]
    /\ stateLock' = [t \in Tasks |-> IF stateLock[t] = p THEN NoProc ELSE stateLock[t]]
    /\ dispatchLock' = IF dispatchLock = p THEN NoProc ELSE dispatchLock

Init ==
    /\ status = [t \in Tasks |-> "backlog"]
    /\ claim = [t \in Tasks |-> None]
    /\ attempts = [t \in Tasks |-> {}]
    /\ current = [t \in Tasks |-> None]
    /\ answers = [t \in Tasks |-> 0]
    /\ review = [t \in Tasks |-> None]
    /\ bundles = {}
    /\ execLock = [t \in Tasks |-> NoProc]
    /\ stateLock = [t \in Tasks |-> NoProc]
    /\ dispatchLock = NoProc
    /\ proc = [p \in Procs |-> Idle]
    /\ claims = 0
    /\ overrides = 0
    /\ signoff = [t \in Tasks |-> None]
    /\ overridden = {}
    /\ answered = {}
    /\ late = {}

-----------------------------------------------------------------------------
(* Claims: claim_task and release_task_claim *)

\* A task that waits for a runner, or one whose runner's lease ran out.
Claimable(t) ==
    /\ ~Live(t)
    /\ \/ status[t] \in {"backlog", "assigned", "waiting_answer"}
       \/ status[t] = "in_progress" /\ claim[t] # None

\* claim_task, up to the last check.  The other tasks are read without their locks.
ClaimCheck(p, t, r) ==
    /\ proc[p].pc = "idle"
    /\ dispatchLock = NoProc /\ stateLock[t] = NoProc
    /\ claims < MaxClaims
    /\ CanDispatch(t)
    /\ Claimable(t)
    /\ dispatchLock' = p
    /\ stateLock' = [stateLock EXCEPT ![t] = p]
    /\ proc' = [proc EXCEPT ![p] = [pc |-> "claiming", task |-> t, runner |-> r]]
    /\ UNCHANGED <<files, bundles, execLock, history>>

\* claim.json is replaced; the generation restarts where there was none.
ClaimWrite(p) ==
    LET t == proc[p].task IN
    /\ proc[p].pc = "claiming"
    /\ claims' = claims + 1
    /\ claim' = [claim EXCEPT ![t] =
           [id |-> claims + 1, runner |-> proc[p].runner, live |-> TRUE,
            gen |-> IF claim[t] = None THEN 1 ELSE claim[t].gen + 1]]
    /\ Goto(p, "claimed")
    /\ UNCHANGED <<status, attempts, current, answers, review, signoff, bundles, locks,
                   overrides, overridden, answered, late>>

\* The task becomes assigned, unless it waits for an answer.
ClaimStatus(p) ==
    LET t == proc[p].task IN
    /\ proc[p].pc = "claimed"
    /\ status' = IF status[t] \in {"backlog", "in_progress"}
                 THEN [status EXCEPT ![t] = "assigned"] ELSE status
    /\ End(p)
    /\ answered' = IF status[t] = "waiting_answer" THEN answered ELSE answered \ {t}
    /\ late' = late \ {t}
    /\ UNCHANGED <<claim, attempts, current, answers, review, signoff, bundles,
                   claims, overrides, overridden>>

\* release_task_claim by the claim's runner, running or not: the file goes first.
ReleaseUnlink(p, t) ==
    /\ proc[p].pc = "idle"
    /\ dispatchLock = NoProc /\ stateLock[t] = NoProc
    /\ claim[t] # None
    /\ claim' = [claim EXCEPT ![t] = None]
    /\ dispatchLock' = p
    /\ stateLock' = [stateLock EXCEPT ![t] = p]
    /\ proc' = [proc EXCEPT ![p] = [Idle EXCEPT !.pc = "released", !.task = t]]
    /\ UNCHANGED <<status, attempts, current, answers, review, signoff, bundles, execLock,
                   history>>

ReleaseStatus(p) ==
    LET t == proc[p].task IN
    /\ proc[p].pc = "released"
    /\ status' = [status EXCEPT ![t] = CASE @ = "assigned"    -> "backlog"
                                         [] @ = "in_progress" -> "assigned"
                                         [] OTHER             -> @]
    /\ End(p)
    /\ UNCHANGED <<claim, attempts, current, answers, review, signoff, bundles, history>>

\* The lease of t runs out.
Expire(t) ==
    /\ Live(t)
    /\ claim' = [claim EXCEPT ![t].live = FALSE]
    /\ UNCHANGED <<status, attempts, current, answers, review, signoff, bundles, locks,
                   proc, history>>

-----------------------------------------------------------------------------
(* Evidence: build_execution_bundle, import_execution_evidence *)

\* A runner builds a bundle from its claim file and what it sees of the task; its
\* clock is its own.  `under` is history: nothing reads it.
Build(t, result, clock) ==
    /\ Live(t)
    /\ Cardinality(bundles) < MaxBundles
    /\ bundles' = bundles \cup
           {[task |-> t, n |-> NextNumber(t), claim |-> Binding(claim[t]),
             runner |-> claim[t].runner, answer |-> Continues(t),
             result |-> result, started |-> clock, under |-> claim[t].id]}
    /\ UNCHANGED <<files, locks, proc, history>>

\* The plan of the bundle is the one this workspace would make now.
PlanMatches(b) ==
    LET t == b.task IN
    /\ b.claim = Binding(claim[t])
    /\ b.answer = Continues(t)
    /\ b.answer # 0 => b.n = NextNumber(t)

\* The bundle is the next attempt, or one that is there already, and is not
\* older than the current generation.
LineageMatches(b) ==
    LET t == b.task IN
    /\ b \in attempts[t] \/ b.n = NextNumber(t)
    /\ current[t] # None => \/ b.n > current[t].n
                            \/ b = current[t]

\* _import_execution_evidence, up to the pointer of the new generation.
ImportPublish(p, b) ==
    LET t == b.task IN
    /\ proc[p].pc = "idle"
    /\ stateLock[t] = NoProc
    /\ Live(t)
    /\ status[t] \in {"assigned", "in_progress"}
    /\ PlanMatches(b)
    /\ LineageMatches(b)
    /\ attempts' = [attempts EXCEPT ![t] = @ \cup {b}]
    /\ current' = [current EXCEPT ![t] = b]
    /\ stateLock' = [stateLock EXCEPT ![t] = p]
    /\ proc' = [proc EXCEPT ![p] = [Idle EXCEPT !.pc = "published", !.task = t]]
    /\ UNCHANGED <<status, claim, answers, review, signoff, bundles, execLock,
                   dispatchLock, history>>

\* An assigned task becomes in_progress first.
ImportStart(p) ==
    LET t == proc[p].task IN
    /\ proc[p].pc = "published"
    /\ late' = IF status[t] = "assigned" /\ ~Live(t) THEN late \cup {t} ELSE late
    /\ status' = [status EXCEPT ![t] = "in_progress"]
    /\ Goto(p, "started")
    /\ UNCHANGED <<claim, attempts, current, answers, review, signoff, bundles, locks,
                   claims, overrides, overridden, answered>>

\* The receipt decides the next status.
ImportEnd(p) ==
    LET t == proc[p].task IN
    /\ proc[p].pc = "started"
    /\ status' = [status EXCEPT ![t] = CASE current[t].result = "DONE"     -> "review"
                                         [] current[t].result = "QUESTION" -> "waiting_answer"
                                         [] current[t].result = "BLOCKED"  -> "failed"]
    /\ End(p)
    /\ UNCHANGED <<claim, attempts, current, answers, review, signoff, bundles, history>>

-----------------------------------------------------------------------------
(* answer_task in external mode *)

AnswerCheck(p, t) ==
    /\ proc[p].pc = "idle"
    /\ execLock[t] = NoProc
    /\ Live(t)
    /\ status[t] = "waiting_answer"
    /\ execLock' = [execLock EXCEPT ![t] = p]
    /\ proc' = [proc EXCEPT ![p] = [Idle EXCEPT !.pc = "answering", !.task = t]]
    /\ UNCHANGED <<files, bundles, stateLock, dispatchLock, history>>

\* answers.md is replaced.
AnswerWrite(p) ==
    LET t == proc[p].task IN
    /\ proc[p].pc = "answering"
    /\ answers[t] < MaxAnswers
    /\ answers' = [answers EXCEPT ![t] = @ + 1]
    /\ Goto(p, "answered")
    /\ UNCHANGED <<status, claim, attempts, current, review, signoff, bundles, locks,
                   history>>

\* set_status(assigned): the transition table is checked, the conflict group and
\* the claim are not.
AnswerAssign(p) ==
    LET t == proc[p].task IN
    /\ proc[p].pc = "answered"
    /\ stateLock[t] = NoProc
    /\ IF MayMove(status[t], "assigned")
       THEN /\ status' = [status EXCEPT ![t] = "assigned"]
            /\ answered' = IF status[t] = "assigned" THEN answered
                                                    ELSE answered \cup {t}
       ELSE UNCHANGED <<status, answered>>
    /\ End(p)
    /\ UNCHANGED <<claim, attempts, current, answers, review, signoff, bundles,
                   claims, overrides, overridden, late>>

-----------------------------------------------------------------------------
(* Verdicts: import_review_evidence, signoff_task *)

\* Mutant: the executor may review its own result.
IndependentOfNobody(t, by) == by \in Principals

\* A principal other than the one of the claim.
Independent(t, by) == by # claim[t].runner

\* The review binds the attempt its reviewer saw, which need not be the current
\* one; then review.md is replaced and the task stays where it is.
ImportReview(t, by, b, verdict) ==
    /\ status[t] = "review"
    /\ stateLock[t] = NoProc
    /\ Live(t)
    /\ Independent(t, by)
    /\ b \in attempts[t]
    /\ review' = [review EXCEPT ![t] = [by |-> by, of |-> b, verdict |-> verdict]]
    /\ IF b # current[t] THEN UNCHANGED status
       ELSE \/ status' = [status EXCEPT ![t] =
                  CASE verdict = "FAIL"                   -> "failed"
                    [] verdict = "PASS" /\ RequireSignoff  -> "review_pending_signoff"
                    [] verdict = "PASS" /\ ~RequireSignoff -> "done"]
            \/ UNCHANGED status  \* died before the status was written
    /\ UNCHANGED <<claim, attempts, current, answers, signoff, bundles, locks, proc,
                   history>>

\* _valid_review_acceptance: the review passed, and binds the current attempt.
Accepted(t) == review[t] # None /\ review[t].verdict = "PASS" /\ review[t].of = current[t]

\* _valid_external_signoff by `by`, whom neither execution nor review names.  It is
\* asked by signoff_task, by set_status before done, and by the proofs.
SignoffValid(t, by) ==
    /\ Live(t)
    /\ Independent(t, by) /\ by # review[t].by
    /\ Accepted(t)

\* signoff_task: signoff.json, then the status.
Signoff(t, by) ==
    /\ status[t] = "review_pending_signoff"
    /\ stateLock[t] = NoProc
    /\ SignoffValid(t, by)
    /\ signoff' = [signoff EXCEPT ![t] = by]
    /\ \/ status' = [status EXCEPT ![t] = "done"]
       \/ UNCHANGED status  \* died before the status was written, or the lease ran out
    /\ UNCHANGED <<claim, attempts, current, answers, review, bundles, locks, proc,
                   history>>

-----------------------------------------------------------------------------
\* `dyro task status t s [--force]`.
SetStatus(t, s, force) ==
    /\ overrides < MaxOverrides
    /\ stateLock[t] = NoProc
    /\ s \in Statuses \ QualityGates
    /\ s # status[t]
    /\ force \/ s \in Transitions[status[t]]
    /\ status' = [status EXCEPT ![t] = s]
    /\ overridden' = overridden \cup {t}
    /\ overrides' = overrides + 1
    /\ UNCHANGED <<claim, attempts, current, answers, review, signoff, bundles, locks,
                   proc, claims, answered, late>>

\* A command dies.
Crash(p) ==
    /\ proc[p].pc # "idle"
    /\ End(p)
    /\ UNCHANGED <<files, bundles, history>>

Next ==
    \/ \E p \in Procs :
        \/ \E t \in Tasks, r \in Principals : ClaimCheck(p, t, r)
        \/ ClaimWrite(p) \/ ClaimStatus(p)
        \/ \E t \in Tasks : ReleaseUnlink(p, t) \/ AnswerCheck(p, t)
        \/ ReleaseStatus(p)
        \/ \E b \in bundles : ImportPublish(p, b)
        \/ ImportStart(p) \/ ImportEnd(p)
        \/ AnswerWrite(p) \/ AnswerAssign(p)
        \/ Crash(p)
    \/ \E t \in Tasks : Expire(t)
    \/ \E t \in Tasks, result \in Results, clock \in Clocks : Build(t, result, clock)
    \/ \E t \in Tasks, by \in Principals :
        \/ \E b \in attempts[t], verdict \in Verdicts :
               ImportReview(t, by, b, verdict)
        \/ Signoff(t, by)
    \/ \E t \in Tasks, s \in Statuses, force \in BOOLEAN : SetStatus(t, s, force)

Spec == Init /\ [][Next]_vars

-----------------------------------------------------------------------------
(* Properties *)

TypeOK ==
    /\ status \in [Tasks -> Statuses]
    /\ claim \in [Tasks -> {None} \cup Claims]
    /\ bundles \subseteq Attempts
    /\ attempts \in [Tasks -> SUBSET bundles]
    /\ current \in [Tasks -> {None} \cup bundles]
    /\ answers \in [Tasks -> Nat]
    /\ review \in [Tasks -> {None} \cup [by: Principals, of: bundles, verdict: Verdicts]]
    /\ signoff \in [Tasks -> {None} \cup Principals]
    /\ execLock \in [Tasks -> Procs \cup {NoProc}]
    /\ stateLock \in [Tasks -> Procs \cup {NoProc}]
    /\ dispatchLock \in Procs \cup {NoProc}
    /\ proc \in [Procs -> [pc: Pcs, task: Tasks \cup {None},
                           runner: Principals \cup {None}]]
    /\ claims \in Nat

Active(t) == Occupies(t, status, LiveTasks)

\* conflict_group excludes claimed tasks, too: two of a group are never active
\* together, whatever leases run out, are released or taken over and whichever
\* command dies between two writes, unless one of them became active by an
\* answer, by evidence whose claim ran out half way, or by hand.
GroupsExclusive ==
    \A t, u \in Tasks :
        SameGroup(t, u) /\ Active(t) /\ Active(u)
        => {t, u} \cap (answered \cup late \cup overridden) # {}

\* Delayed evidence cannot be replayed: what becomes the current generation was
\* built under the claim that runs now, not under an earlier one of the task,
\* even where an earlier claim had the same runner and the same generation.
EvidenceFenced ==
    [][\A t \in Tasks : current'[t] # current[t] =>
           Live(t) /\ current'[t].under = claim[t].id]_vars

\* A done task was executed, reviewed and signed by three principals, and the
\* review binds the attempt that is current.
DoneIsAttested ==
    \A t \in Tasks : status[t] = "done" =>
        /\ current[t] # None /\ current[t].result = "DONE"
        /\ review[t].of = current[t] /\ review[t].verdict = "PASS"
        /\ review[t].by # current[t].runner
        /\ RequireSignoff => signoff[t] \notin {current[t].runner, review[t].by, None}

\* What is under review continues from the answer that is in answers.md, although
\* an answer is not written under the state lock.
AnswerBound ==
    \A t \in Tasks :
        status[t] \in QualityGates /\ t \notin overridden
        => current[t].answer = answers[t]

\* What is imported belongs to the claim and to the answer there are.
EvidenceBound == [][AnswerBound']_vars /\ EvidenceFenced

\* Principals and commands are interchangeable.
ClaimSymmetry == Permutations(Principals) \cup Permutations(Procs)

=============================================================================
