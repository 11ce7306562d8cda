------------------------ MODULE ExternalClaims_proofs ------------------------
(* Externally executed tasks, for any tasks, principals, commands and bounds:
   a done task is attested by three principals, evidence is bound to the claim
   and the answer there are, and conflict groups exclude claimed tasks. *)
EXTENDS ExternalClaims, TLAPS

(* Of the attempts of a task one started last. *)
Later(x, y) == x.started > y.started \/ (x.started = y.started /\ x.n >= y.n)
HasLatest ==
  \A t \in Tasks : attempts[t] # {} => \E x \in attempts[t] : \A y \in attempts[t] : Later(x, y)

(* A bundle names the claim it was built under. *)
Bundled ==
  /\ \A b \in bundles : b.claim[1] = b.under /\ b.claim[3] = b.runner
  /\ \A t \in Tasks : current[t] # None => current[t] \in attempts[t]

(* Who holds which lock. *)
Claiming == {"claiming", "claimed"}
Importing == {"published", "started"}
Answering == {"answering", "answered"}
Locked ==
  \A p \in Procs :
    /\ proc[p].pc # "idle" => proc[p].task \in Tasks
    /\ proc[p].pc = "claiming" => proc[p].runner \in Principals
    /\ proc[p].pc \in Claiming \cup {"released"} => dispatchLock = p
    /\ proc[p].pc \in Claiming \cup Importing \cup {"released"} => stateLock[proc[p].task] = p
    /\ proc[p].pc \in Answering => execLock[proc[p].task] = p

Core == TypeOK /\ HasLatest /\ Bundled /\ Locked

(* Before a claim is written, or evidence decides, the task is not under review. *)
Steady ==
  \A p \in Procs :
    LET t == proc[p].task
    IN /\ proc[p].pc \in Claiming =>
            status[t] \in {"backlog", "assigned", "in_progress", "waiting_answer"}
       /\ proc[p].pc \in Importing =>
            /\ status[t] \in {"assigned", "in_progress"}
            /\ claim[t] # None /\ current[t] # None /\ current[t].runner = claim[t].runner

(* What a task under review was given by those who executed, reviewed and signed. *)
Attested ==
  \A t \in Tasks :
    /\ status[t] \in QualityGates => current[t] # None /\ current[t].result = "DONE"
    /\ status[t] \in {"review", "review_pending_signoff"} /\ claim[t] # None =>
         current[t].runner = claim[t].runner
    /\ status[t] \in {"review_pending_signoff", "done"} =>
         /\ review[t].of = current[t] /\ review[t].verdict = "PASS"
         /\ review[t].by # current[t].runner
    /\ status[t] = "done" /\ RequireSignoff =>
         signoff[t] \notin {current[t].runner, review[t].by, None}

(* An answer is written while the task waits for it, and not while evidence is taken. *)
Answers ==
  /\ \A p \in Procs :
       LET t == proc[p].task
       IN /\ proc[p].pc \in Answering /\ t \notin overridden => status[t] = "waiting_answer"
          /\ proc[p].pc \in Importing /\ t \notin overridden => current[t].answer = answers[t]
  /\ \A t \in Tasks \ overridden : status[t] = "waiting_answer" \/ answers[t] # 0 =>
       attempts[t] # {}
  /\ AnswerBound

(* While a task is claimed, none of its group is active but by the exceptions. *)
Excepted(u) == u \in answered \cup late \cup overridden
Apart ==
  \A p \in Procs : proc[p].pc \in Claiming =>
    \A u \in Tasks : SameGroup(proc[p].task, u) /\ Active(u) => Excepted(u)

IInv == Core /\ Steady /\ Attested /\ Answers /\ Apart /\ GroupsExclusive

-----------------------------------------------------------------------------
(* The empty board. *)
LEMMA Initially == Init => IInv
<1> SUFFICES ASSUME Init PROVE IInv
  OBVIOUS
<1>1. TypeOK
  BY DEF Init, TypeOK, Idle, Pcs, Statuses
<1>2. HasLatest /\ Bundled /\ Locked /\ Steady /\ Attested /\ Answers /\ Apart
  BY DEF Init, HasLatest, Bundled, Locked, Steady, Attested, Answers, AnswerBound, Apart,
         Idle, Claiming, Importing, Answering, QualityGates
<1>3. GroupsExclusive
  BY DEF Init, GroupsExclusive, Active, Occupies
<1> QED
  BY <1>1, <1>2, <1>3 DEF IInv, Core

(* A command that ends gives back its locks and no others. *)
Ended(p) ==
  /\ proc' = [proc EXCEPT ![p] = Idle]
  /\ execLock' \in [Tasks -> Procs \cup {NoProc}]
  /\ stateLock' \in [Tasks -> Procs \cup {NoProc}]
  /\ dispatchLock' \in Procs \cup {NoProc}
  /\ \A t \in Tasks : /\ execLock[t] # p => execLock'[t] = execLock[t]
                      /\ stateLock[t] # p => stateLock'[t] = stateLock[t]
  /\ dispatchLock # p => dispatchLock' = dispatchLock

(* End writes the locks that the command holds, and Idle. *)
LEMMA EndEnds ==
  ASSUME TypeOK, NEW p \in Procs, End(p)
  PROVE  Ended(p)
  BY DEF TypeOK, End, Ended

(* The number of the next attempt. *)
LEMMA Numbered ==
  ASSUME TypeOK, HasLatest, NEW t \in Tasks
  PROVE  NextNumber(t) \in Nat
<1>1. CASE attempts[t] = {}
  BY <1>1 DEF NextNumber
<1>2. CASE attempts[t] # {}
  <2>1. \E x \in attempts[t] : \A y \in attempts[t] :
          x.started > y.started \/ (x.started = y.started /\ x.n >= y.n)
    BY <1>2 DEF HasLatest, Later
  <2>2. Latest(t) \in attempts[t]
    BY <2>1 DEF Latest
  <2> QED
    BY <1>2, <2>2 DEF NextNumber, TypeOK, Attempts
<1> QED
  BY <1>1, <1>2

(* Nothing becomes active but by an exception, and no exception ends. *)
LEMMA ApartLasts ==
  ASSUME Apart, GroupsExclusive,
         \A u \in Tasks : Active(u)' => Active(u) \/ Excepted(u)',
         \A u \in Tasks : Excepted(u) => Excepted(u)',
         \A q \in Procs : proc'[q].pc \in Claiming =>
           proc[q].pc \in Claiming /\ proc'[q].task = proc[q].task
  PROVE  Apart' /\ GroupsExclusive'
<1>1. Apart'
  BY DEF Apart, SameGroup
<1>2. GroupsExclusive'
  BY DEF GroupsExclusive, Excepted, SameGroup
<1> QED
  BY <1>1, <1>2

(* The command that claims a task is the only one that claims. *)
LEMMA ApartClaimed ==
  ASSUME Apart, GroupsExclusive, NEW p \in Procs, proc[p].pc \in Claiming,
         \A u \in Tasks : u # proc[p].task =>
           (Active(u)' => Active(u)) /\ (Excepted(u) => Excepted(u)'),
         \A q \in Procs : proc'[q].pc \in Claiming => proc'[q].task = proc[p].task
  PROVE  Apart' /\ GroupsExclusive'
<1>1. \A u \in Tasks : SameGroup(proc[p].task, u) /\ Active(u) => Excepted(u) /\ u # proc[p].task
  BY DEF Apart, SameGroup
<1>2. Apart'
  BY <1>1 DEF Apart, SameGroup
<1>3. GroupsExclusive'
  <2> SUFFICES ASSUME NEW t \in Tasks, NEW u \in Tasks, SameGroup(t, u), Active(t)', Active(u)'
               PROVE  Excepted(t)' \/ Excepted(u)'
    BY DEF GroupsExclusive, SameGroup, Excepted
  <2>1. CASE t = proc[p].task
    BY <1>1, <2>1 DEF SameGroup
  <2>2. CASE u = proc[p].task
    BY <1>1, <2>2 DEF SameGroup
  <2>3. CASE t # proc[p].task /\ u # proc[p].task
    BY <2>3 DEF GroupsExclusive, Excepted
  <2> QED
    BY <2>1, <2>2, <2>3
<1> QED
  BY <1>2, <1>3

(* The check and the claim are under one lock. *)
LEMMA ClaimCheckKeeps ==
  ASSUME IInv, NEW p \in Procs, NEW t \in Tasks, NEW r \in Principals, ClaimCheck(p, t, r)
  PROVE  IInv'
<1>a. /\ status[t] \in {"backlog", "assigned", "in_progress", "waiting_answer"}
      /\ dispatchLock = NoProc /\ stateLock[t] = NoProc
      /\ proc' = [proc EXCEPT ![p] = [pc |-> "claiming", task |-> t, runner |-> r]]
      /\ UNCHANGED <<files, bundles, history>>
  BY DEF ClaimCheck, Claimable
<1>1. TypeOK'
  BY ProcsAssumption
  DEF ClaimCheck, IInv, Core, TypeOK, Locked, files, history, Pcs, Claims, Claiming,
      Importing, Answering, Statuses
<1>2. HasLatest' /\ Bundled'
  BY ProcsAssumption DEF ClaimCheck, IInv, Core, TypeOK, HasLatest, Bundled, files, history
<1>3. Locked'
  BY ProcsAssumption
  DEF ClaimCheck, IInv, Core, TypeOK, Locked, files, history, Claiming, Importing, Answering
<1>4. Steady'
  BY <1>a DEF IInv, Core, TypeOK, Steady, files, Claiming, Importing
<1>5. Attested'
  BY ProcsAssumption
  DEF ClaimCheck, IInv, Core, TypeOK, Locked, Steady, Attested, files, history, Claiming,
      Importing, Answering, QualityGates
<1>6. Answers'
  BY ProcsAssumption
  DEF ClaimCheck, IInv, Core, TypeOK, Locked, Steady, Answers, AnswerBound, files, history,
      Claiming, Importing, Answering, QualityGates
<1>7. Apart' /\ GroupsExclusive'
  <2>1. \A q \in Procs : proc'[q].pc \in Claiming => proc'[q].task = t
    BY <1>a, ProcsAssumption DEF IInv, Core, TypeOK, Locked, Claiming
  <2>2. \A u \in Tasks : SameGroup(t, u) => ~Active(u)
    BY DEF ClaimCheck, CanDispatch, Dispatchable, Active
  <2>3. \A u \in Tasks : (Active(u)' <=> Active(u)) /\ (Excepted(u)' <=> Excepted(u))
    BY <1>a DEF Active, Occupies, LiveTasks, Live, Excepted, files, history
  <2>4. Apart'
    BY <2>1, <2>2, <2>3 DEF Apart, SameGroup
  <2>5. GroupsExclusive'
    BY <2>3 DEF IInv, GroupsExclusive, SameGroup, Excepted
  <2> QED
    BY <2>4, <2>5
<1> QED
  BY <1>1, <1>2, <1>3, <1>4, <1>5, <1>6, <1>7 DEF IInv, Core

(* A claim changes hands before the task is under review, never after. *)
LEMMA ClaimWriteKeeps ==
  ASSUME IInv, NEW p \in Procs, ClaimWrite(p)
  PROVE  IInv'
<1>1. TypeOK'
  BY ProcsAssumption
  DEF ClaimWrite, IInv, Core, TypeOK, Locked, locks, Goto, Pcs, Claims, Claiming, Importing,
      Answering, Statuses
<1>2. HasLatest' /\ Bundled'
  BY ProcsAssumption DEF ClaimWrite, IInv, Core, TypeOK, HasLatest, Bundled, locks
<1>3. Locked'
  BY ProcsAssumption
  DEF ClaimWrite, IInv, Core, TypeOK, Locked, locks, Goto, Claiming, Importing, Answering
<1>4. Steady'
  BY ProcsAssumption
  DEF ClaimWrite, IInv, Core, TypeOK, Locked, Steady, locks, Goto, Claiming, Importing,
      Answering
<1>5. Attested'
  BY ProcsAssumption
  DEF ClaimWrite, IInv, Core, TypeOK, Locked, Steady, Attested, locks, Claiming, Importing,
      Answering, QualityGates
<1>6. Answers'
  BY ProcsAssumption
  DEF ClaimWrite, IInv, Core, TypeOK, Locked, Steady, Answers, AnswerBound, locks, Goto,
      Claiming, Importing, Answering, QualityGates
<1>7. Apart' /\ GroupsExclusive'
  <2>1. proc[p].pc \in Claiming /\ dispatchLock = p
    BY DEF ClaimWrite, IInv, Core, Locked, Claiming
  <2>2. \A u \in Tasks : u # proc[p].task =>
           (Active(u)' => Active(u)) /\ (Excepted(u) => Excepted(u)')
    BY DEF ClaimWrite, IInv, Core, TypeOK, Active, Occupies, LiveTasks, Live, Excepted
  <2>3. \A q \in Procs : proc'[q].pc \in Claiming => proc'[q].task = proc[p].task
    BY <2>1 DEF ClaimWrite, IInv, Core, TypeOK, Locked, Claiming, Goto
  <2> QED
    BY <2>1, <2>2, <2>3, ApartClaimed DEF IInv
<1> QED
  BY <1>1, <1>2, <1>3, <1>4, <1>5, <1>6, <1>7 DEF IInv, Core

(* The exceptions of earlier claims end, as the group was checked anew. *)
LEMMA ClaimStatusKeeps ==
  ASSUME IInv, NEW p \in Procs, ClaimStatus(p)
  PROVE  IInv'
<1>a. Ended(p)
  BY EndEnds DEF ClaimStatus, IInv, Core
<1>1. TypeOK'
  BY <1>a, ProcsAssumption
  DEF ClaimStatus, Ended, IInv, Core, TypeOK, Locked, Idle, Pcs, Claims, Claiming,
      Importing, Answering, Statuses
<1>2. HasLatest' /\ Bundled'
  BY <1>a, ProcsAssumption DEF ClaimStatus, Ended, IInv, Core, TypeOK, HasLatest, Bundled
<1>3. Locked'
  BY <1>a, ProcsAssumption
  DEF ClaimStatus, Ended, IInv, Core, TypeOK, Locked, Idle, Claiming, Importing, Answering
<1>4. Steady'
  BY <1>a, ProcsAssumption
  DEF ClaimStatus, Ended, IInv, Core, TypeOK, Locked, Steady, Idle, Claiming, Importing,
      Answering
<1>5. Attested'
  BY <1>a, ProcsAssumption
  DEF ClaimStatus, Ended, IInv, Core, TypeOK, Locked, Steady, Attested, Claiming, Importing,
      Answering, QualityGates
<1>6. Answers'
  BY <1>a, ProcsAssumption
  DEF ClaimStatus, Ended, IInv, Core, TypeOK, Locked, Steady, Answers, AnswerBound, Idle,
      Claiming, Importing, Answering, QualityGates
<1>7. Apart' /\ GroupsExclusive'
  <2>1. proc[p].pc \in Claiming /\ dispatchLock = p
    BY DEF ClaimStatus, IInv, Core, Locked, Claiming
  <2>2. \A u \in Tasks : u # proc[p].task =>
           (Active(u)' => Active(u)) /\ (Excepted(u) => Excepted(u)')
    BY DEF ClaimStatus, IInv, Core, TypeOK, Active, Occupies, LiveTasks, Live, Excepted
  <2>3. \A q \in Procs : proc'[q].pc \in Claiming => proc'[q].task = proc[p].task
    BY <1>a, <2>1 DEF ClaimStatus, Ended, IInv, Core, TypeOK, Locked, Claiming, Idle
  <2> QED
    BY <2>1, <2>2, <2>3, ApartClaimed DEF IInv
<1> QED
  BY <1>1, <1>2, <1>3, <1>4, <1>5, <1>6, <1>7 DEF IInv, Core

(* Without a claim nothing is signed or imported. *)
LEMMA ReleaseUnlinkKeeps ==
  ASSUME IInv, NEW p \in Procs, NEW t \in Tasks, ReleaseUnlink(p, t)
  PROVE  IInv'
<1>1. TypeOK'
  BY ProcsAssumption
  DEF ReleaseUnlink, IInv, Core, TypeOK, Locked, history, Idle, Pcs, Claims, Claiming,
      Importing, Answering, Statuses
<1>2. HasLatest' /\ Bundled'
  BY ProcsAssumption DEF ReleaseUnlink, IInv, Core, TypeOK, HasLatest, Bundled, history
<1>3. Locked'
  BY ProcsAssumption
  DEF ReleaseUnlink, IInv, Core, TypeOK, Locked, history, Idle, Claiming, Importing,
      Answering
<1>4. Steady'
  BY ProcsAssumption
  DEF ReleaseUnlink, IInv, Core, TypeOK, Locked, Steady, history, Idle, Claiming, Importing,
      Answering
<1>5. Attested'
  BY ProcsAssumption
  DEF ReleaseUnlink, IInv, Core, TypeOK, Locked, Steady, Attested, history, Claiming,
      Importing, Answering, QualityGates
<1>6. Answers'
  BY ProcsAssumption
  DEF ReleaseUnlink, IInv, Core, TypeOK, Locked, Steady, Answers, AnswerBound, history,
      Idle, Claiming, Importing, Answering, QualityGates
<1>7. Apart' /\ GroupsExclusive'
  BY ProcsAssumption
  DEF ReleaseUnlink, IInv, Core, TypeOK, Locked, Steady, Apart, GroupsExclusive, Active,
      Occupies, Live, LiveTasks, Excepted, history, Idle, Claiming, Importing, Answering
<1> QED
  BY <1>1, <1>2, <1>3, <1>4, <1>5, <1>6, <1>7 DEF IInv, Core

(* A task that is given back was active before, if at all. *)
LEMMA ReleaseStatusKeeps ==
  ASSUME IInv, NEW p \in Procs, ReleaseStatus(p)
  PROVE  IInv'
<1>a. Ended(p)
  BY EndEnds DEF ReleaseStatus, IInv, Core
<1>1. TypeOK'
  BY <1>a, ProcsAssumption
  DEF ReleaseStatus, Ended, IInv, Core, TypeOK, Locked, history, Idle, Pcs, Claims,
      Claiming, Importing, Answering, Statuses
<1>2. HasLatest' /\ Bundled'
  BY <1>a, ProcsAssumption
  DEF ReleaseStatus, Ended, IInv, Core, TypeOK, HasLatest, Bundled, history
<1>3. Locked'
  BY <1>a, ProcsAssumption
  DEF ReleaseStatus, Ended, IInv, Core, TypeOK, Locked, history, Idle, Claiming, Importing,
      Answering
<1>4. Steady'
  BY <1>a, ProcsAssumption
  DEF ReleaseStatus, Ended, IInv, Core, TypeOK, Locked, Steady, history, Idle, Claiming,
      Importing, Answering
<1>5. Attested'
  BY <1>a, ProcsAssumption
  DEF ReleaseStatus, Ended, IInv, Core, TypeOK, Locked, Steady, Attested, history, Claiming,
      Importing, Answering, QualityGates
<1>6. Answers'
  BY <1>a, ProcsAssumption
  DEF ReleaseStatus, Ended, IInv, Core, TypeOK, Locked, Steady, Answers, AnswerBound,
      history, Idle, Claiming, Importing, Answering, QualityGates
<1>7. Apart' /\ GroupsExclusive'
  <2>1. \A u \in Tasks : Active(u)' => Active(u) \/ Excepted(u)'
    BY <1>a
    DEF ReleaseStatus, IInv, Core, TypeOK, Locked, Active, Occupies, Live, LiveTasks,
        Excepted, history
  <2>2. \A u \in Tasks : Excepted(u) => Excepted(u)'
    BY DEF ReleaseStatus, Excepted, history
  <2>3. \A q \in Procs : proc'[q].pc \in Claiming =>
          proc[q].pc \in Claiming /\ proc'[q].task = proc[q].task
    BY <1>a DEF ReleaseStatus, Ended, IInv, Core, TypeOK, Idle, Claiming
  <2> QED
    BY <2>1, <2>2, <2>3, ApartLasts DEF IInv
<1> QED
  BY <1>1, <1>2, <1>3, <1>4, <1>5, <1>6, <1>7 DEF IInv, Core

(* A claim that ran out still names its runner. *)
LEMMA ExpireKeeps ==
  ASSUME IInv, NEW t \in Tasks, Expire(t)
  PROVE  IInv'
<1>a. /\ claim \in [Tasks -> {None} \cup Claims]
      /\ claim' = [claim EXCEPT ![t].live = FALSE] /\ claim[t] # None
      /\ UNCHANGED <<status, attempts, current, answers, review, signoff, bundles, locks,
                     proc, history>>
  BY DEF Expire, Live, IInv, Core, TypeOK
<1>b. /\ claim' \in [Tasks -> {None} \cup Claims]
      /\ \A u \in Tasks : claim[u] # None => claim'[u].runner = claim[u].runner /\ claim'[u] # None
      /\ \A u \in Tasks : claim'[u] # None => claim[u] # None
  BY <1>a, NoneAssumption DEF Claims
<1>1. TypeOK'
  BY <1>a, <1>b DEF IInv, Core, TypeOK, locks, history
<1>2. HasLatest' /\ Bundled'
  BY ProcsAssumption DEF Expire, IInv, Core, TypeOK, HasLatest, Bundled, locks, history
<1>3. Locked'
  BY ProcsAssumption
  DEF Expire, IInv, Core, TypeOK, Locked, locks, history, Claiming, Importing, Answering
<1>4. Steady'
  BY <1>a, <1>b DEF IInv, Core, Locked, Steady, Claiming, Importing
<1>5. Attested'
  BY <1>a, <1>b DEF IInv, Attested
<1>6. Answers'
  BY ProcsAssumption
  DEF Expire, IInv, Core, TypeOK, Locked, Steady, Answers, AnswerBound, locks, history,
      Claiming, Importing, Answering, QualityGates
<1>7. Apart' /\ GroupsExclusive'
  BY SMTT(20), ProcsAssumption
  DEF Expire, IInv, Core, TypeOK, Locked, Steady, Apart, GroupsExclusive, Active, Occupies,
      Live, LiveTasks, Excepted, locks, history, Claiming, Importing, Answering
<1> QED
  BY <1>1, <1>2, <1>3, <1>4, <1>5, <1>6, <1>7 DEF IInv, Core

(* A runner reads its own claim. *)
LEMMA BuildKeeps ==
  ASSUME IInv, NEW t \in Tasks, NEW result \in Results, NEW clock \in Clocks,
         Build(t, result, clock)
  PROVE  IInv'
<1>a. PICK c \in Attempts : /\ bundles' = bundles \cup {c}
                            /\ c.claim[1] = c.under /\ c.claim[3] = c.runner
  <2> DEFINE c == [task |-> t, n |-> NextNumber(t), claim |-> Binding(claim[t]),
                   runner |-> claim[t].runner, answer |-> Continues(t),
                   result |-> result, started |-> clock, under |-> claim[t].id]
  <2>1. NextNumber(t) \in Nat /\ Continues(t) \in Nat /\ clock \in Nat
    BY Numbered, BoundsAssumption DEF IInv, Core, TypeOK, Continues
  <2>2. claim[t] \in Claims
    BY DEF Build, Live, IInv, Core, TypeOK
  <2>3. c \in Attempts /\ c.claim[1] = c.under /\ c.claim[3] = c.runner
    BY <2>1, <2>2 DEF Attempts, Claims, Binding
  <2> QED
    BY <2>3 DEF Build
<1>b. UNCHANGED <<files, locks, proc, history>>
  BY DEF Build
<1>1. TypeOK'
  BY <1>a, <1>b DEF IInv, Core, TypeOK, files, locks, history
<1>2. HasLatest' /\ Bundled'
  BY <1>a, <1>b DEF IInv, Core, HasLatest, Bundled, files
<1>3. Locked'
  BY ProcsAssumption
  DEF Build, IInv, Core, TypeOK, Locked, files, locks, history, Claiming, Importing,
      Answering
<1>4. Steady'
  BY ProcsAssumption
  DEF Build, IInv, Core, TypeOK, Locked, Steady, files, locks, history, Claiming, Importing,
      Answering
<1>5. Attested'
  BY ProcsAssumption
  DEF Build, IInv, Core, TypeOK, Locked, Steady, Attested, files, locks, history, Claiming,
      Importing, Answering, QualityGates
<1>6. Answers'
  BY ProcsAssumption
  DEF Build, IInv, Core, TypeOK, Locked, Steady, Answers, AnswerBound, files, locks,
      history, Claiming, Importing, Answering, QualityGates
<1>7. Apart' /\ GroupsExclusive'
  BY ProcsAssumption
  DEF Build, IInv, Core, TypeOK, Locked, Steady, Apart, GroupsExclusive, Active, Occupies,
      Live, LiveTasks, Excepted, files, locks, history, Claiming, Importing, Answering
<1> QED
  BY <1>1, <1>2, <1>3, <1>4, <1>5, <1>6, <1>7 DEF IInv, Core

(* The bundle is of the claim and the answer there are. *)
LEMMA ImportPublishKeeps ==
  ASSUME IInv, NEW p \in Procs, NEW b \in bundles, ImportPublish(p, b)
  PROVE  IInv'
<1> DEFINE t == b.task
<1>a. /\ t \in Tasks /\ b \in Attempts /\ b # None
      /\ claim[t] \in Claims /\ claim[t] # None
      /\ b.runner = claim[t].runner
      /\ b.answer = Continues(t)
      /\ status[t] \in {"assigned", "in_progress"}
  <2>1. b \in Attempts /\ t \in Tasks
    BY DEF IInv, Core, TypeOK, Attempts
  <2>2. b.claim = <<claim[t].id, claim[t].gen, claim[t].runner>> /\ b.answer = Continues(t)
    BY DEF ImportPublish, PlanMatches, Binding
  <2>3. b.claim[3] = b.runner
    BY DEF IInv, Core, Bundled
  <2>4. claim[t] \in Claims /\ claim[t] # None /\ status[t] \in {"assigned", "in_progress"}
    BY <2>1 DEF ImportPublish, Live, IInv, Core, TypeOK
  <2> QED
    BY <2>1, <2>2, <2>3, <2>4, NoneAssumption
<1>b. /\ attempts' = [attempts EXCEPT ![t] = @ \cup {b}]
      /\ current' = [current EXCEPT ![t] = b]
      /\ stateLock' = [stateLock EXCEPT ![t] = p] /\ stateLock[t] = NoProc
      /\ proc' = [proc EXCEPT ![p] = [Idle EXCEPT !.pc = "published", !.task = t]]
      /\ UNCHANGED <<status, claim, answers, review, signoff, bundles, execLock,
                     dispatchLock, history>>
  BY DEF ImportPublish
<1> HIDE DEF t
<1>1. TypeOK'
  BY <1>a, <1>b DEF IInv, Core, TypeOK, history, Idle, Pcs
<1>2. HasLatest' /\ Bundled'
  <2>1. Bundled'
    BY <1>a, <1>b DEF IInv, Core, TypeOK, Bundled
  <2>2. \A u \in Tasks : attempts[u] \subseteq Attempts
    BY DEF IInv, Core, TypeOK
  <2>3. ASSUME NEW u \in Tasks, attempts'[u] # {}
        PROVE  \E x \in attempts'[u] : \A y \in attempts'[u] : Later(x, y)
    <3>1. CASE u # t
      BY <1>a, <1>b, <2>3, <3>1 DEF IInv, Core, TypeOK, HasLatest
    <3>2. CASE u = t
      <4>1. attempts'[t] = attempts[t] \cup {b}
        BY <1>a, <1>b DEF IInv, Core, TypeOK
      <4>2. CASE attempts[t] = {}
        BY <1>a, <3>2, <4>1, <4>2 DEF Later, Attempts
      <4>3. CASE attempts[t] # {}
        <5>1. PICK x \in attempts[t] : \A y \in attempts[t] : Later(x, y)
          BY <1>a, <4>3 DEF IInv, Core, HasLatest
        <5>2. Later(x, b) \/ ((\A y \in attempts[t] : Later(b, y)) /\ Later(b, b))
          BY <1>a, <2>2, <5>1 DEF Later, Attempts
        <5> QED
          BY <3>2, <4>1, <5>1, <5>2
      <4> QED
        BY <4>2, <4>3
    <3> QED
      BY <3>1, <3>2
  <2> QED
    BY <2>1, <2>3 DEF HasLatest
<1>3. Locked'
  BY <1>a, <1>b, ProcsAssumption
  DEF IInv, Core, TypeOK, Locked, Idle, Claiming, Importing, Answering
<1>4. Steady'
  BY <1>a, <1>b, ProcsAssumption
  DEF IInv, Core, TypeOK, Locked, Steady, Idle, Claiming, Importing
<1>5. Attested'
  BY ProcsAssumption
  DEF ImportPublish, IInv, Core, TypeOK, Locked, Steady, Attested, history, Claiming,
      Importing, Answering, QualityGates
<1>6. Answers'
  <2>1. t \notin overridden => b.answer = answers[t]
    BY <1>a DEF IInv, Core, TypeOK, Answers, Continues
  <2>2. \A u \in Tasks : attempts[u] \subseteq attempts'[u]
    BY <1>a, <1>b DEF IInv, Core, TypeOK
  <2>3. AnswerBound'
    BY <1>a, <1>b DEF IInv, Core, TypeOK, Answers, AnswerBound, QualityGates, history
  <2>4. \A q \in Procs :
          q # p => proc'[q] = proc[q] /\ (proc[q].pc \in Importing => proc[q].task # t)
    BY <1>a, <1>b, ProcsAssumption DEF IInv, Core, TypeOK, Locked
  <2> QED
    BY <1>a, <1>b, <2>1, <2>2, <2>3, <2>4
    DEF IInv, Core, TypeOK, Answers, Idle, Importing, Answering, history
<1>7. Apart' /\ GroupsExclusive'
  BY SMTT(20), ProcsAssumption
  DEF ImportPublish, IInv, Core, TypeOK, Locked, Steady, Apart, GroupsExclusive, Active,
      Occupies, Live, LiveTasks, Excepted, history, Idle, Claiming, Importing, Answering
<1> QED
  BY <1>1, <1>2, <1>3, <1>4, <1>5, <1>6, <1>7 DEF IInv, Core

(* The lease may have run out since. *)
LEMMA ImportStartKeeps ==
  ASSUME IInv, NEW p \in Procs, ImportStart(p)
  PROVE  IInv'
<1>1. TypeOK'
  BY SMTT(20), ProcsAssumption
  DEF ImportStart, IInv, Core, TypeOK, Locked, locks, Goto, Pcs, Claims, Claiming,
      Importing, Answering, Statuses
<1>2. HasLatest' /\ Bundled'
  BY ProcsAssumption DEF ImportStart, IInv, Core, TypeOK, HasLatest, Bundled, locks
<1>3. Locked'
  BY ProcsAssumption
  DEF ImportStart, IInv, Core, TypeOK, Locked, locks, Goto, Claiming, Importing, Answering
<1>4. Steady'
  BY ProcsAssumption
  DEF ImportStart, IInv, Core, TypeOK, Locked, Steady, locks, Goto, Claiming, Importing,
      Answering
<1>5. Attested'
  BY ProcsAssumption
  DEF ImportStart, IInv, Core, TypeOK, Locked, Steady, Attested, locks, Claiming, Importing,
      Answering, QualityGates
<1>6. Answers'
  BY ProcsAssumption
  DEF ImportStart, IInv, Core, TypeOK, Locked, Steady, Answers, AnswerBound, locks, Goto,
      Claiming, Importing, Answering, QualityGates
<1>7. Apart' /\ GroupsExclusive'
  <2>1. \A u \in Tasks : Active(u)' => Active(u) \/ Excepted(u)'
    BY ExternalAssumption
    DEF ImportStart, IInv, Core, TypeOK, Locked, Steady, Importing, Active, Occupies, Live,
        LiveTasks, Excepted
  <2>2. \A u \in Tasks : Excepted(u) => Excepted(u)'
    BY DEF ImportStart, Excepted
  <2>3. \A q \in Procs : proc'[q].pc \in Claiming =>
          proc[q].pc \in Claiming /\ proc'[q].task = proc[q].task
    BY ExternalAssumption DEF ImportStart, IInv, Core, TypeOK, Goto, Claiming
  <2> QED
    BY <2>1, <2>2, <2>3, ApartLasts DEF IInv
<1> QED
  BY <1>1, <1>2, <1>3, <1>4, <1>5, <1>6, <1>7 DEF IInv, Core

(* The receipt was of the runner that holds the claim. *)
LEMMA ImportEndKeeps ==
  ASSUME IInv, NEW p \in Procs, ImportEnd(p)
  PROVE  IInv'
<1>a. Ended(p)
  BY EndEnds DEF ImportEnd, IInv, Core
<1> DEFINE t == proc[p].task
<1>b. /\ t \in Tasks /\ current[t] # None
      /\ \E s \in {"review", "waiting_answer", "failed"} :
           /\ status' = [status EXCEPT ![t] = s]
           /\ s = "review" => current[t].result = "DONE"
      /\ UNCHANGED <<claim, attempts, current, answers, review, signoff, bundles, history>>
  <2>1. t \in Tasks /\ current[t] # None
    BY DEF ImportEnd, IInv, Core, Locked, Steady, Importing
  <2>2. current[t].result \in Results
    BY <2>1 DEF IInv, Core, TypeOK, Attempts
  <2> QED
    BY <2>1, <2>2 DEF ImportEnd, IInv, Core, TypeOK, Results
<1>c. /\ proc[p].pc \in Importing
      /\ \A q \in Procs : q # p => proc'[q] = proc[q]
      /\ proc'[p].pc = "idle"
  BY <1>a DEF ImportEnd, Importing, Ended, Idle, IInv, Core, TypeOK
<1> HIDE DEF t
<1>1. TypeOK'
  BY <1>a, <1>b DEF Ended, IInv, Core, TypeOK, Statuses, Idle, Pcs, history
<1>2. HasLatest' /\ Bundled'
  BY <1>a, ProcsAssumption
  DEF ImportEnd, Ended, IInv, Core, TypeOK, HasLatest, Bundled, history
<1>3. Locked'
  BY <1>a, ProcsAssumption
  DEF ImportEnd, Ended, IInv, Core, TypeOK, Locked, history, Idle, Claiming, Importing,
      Answering
<1>4. Steady'
  BY <1>a, ProcsAssumption
  DEF ImportEnd, Ended, IInv, Core, TypeOK, Locked, Steady, history, Idle, Claiming,
      Importing, Answering
<1>5. Attested'
  BY <1>b, <1>c DEF t, IInv, Core, TypeOK, Locked, Steady, Attested, QualityGates
<1>6. Answers'
  <2>1. current[t] \in attempts[t]
    BY <1>b DEF IInv, Core, Bundled
  <2>2. \A q \in Procs :
          q # p /\ proc[q].pc \in Answering /\ t \notin overridden => proc[q].task # t
    BY <1>c DEF t, IInv, Steady, Answers
  <2>3. t \notin overridden => current[t].answer = answers[t]
    BY <1>c DEF t, IInv, Answers
  <2>4. PICK s \in {"review", "waiting_answer", "failed"} :
               status' = [status EXCEPT ![t] = s]
    BY <1>b
  <2>5. /\ status'[t] = s /\ \A u \in Tasks : u # t => status'[u] = status[u]
        /\ UNCHANGED <<attempts, current, answers, overridden>>
    BY <1>b, <2>4 DEF IInv, Core, TypeOK, history
  <2>6. AnswerBound'
    BY <1>b, <2>3, <2>5 DEF IInv, Answers, AnswerBound, QualityGates
  <2>7. \A u \in Tasks \ overridden' : status'[u] = "waiting_answer" \/ answers'[u] # 0 =>
          attempts'[u] # {}
    BY <2>1, <2>5 DEF IInv, Answers
  <2>8. \A q \in Procs : q # p /\ proc[q].pc # "idle" => proc[q].task \in Tasks
    BY DEF IInv, Core, Locked
  <2>9. ASSUME NEW q \in Procs, proc'[q].pc \in Answering \cup Importing,
               proc'[q].task \notin overridden'
        PROVE  /\ proc'[q].pc \in Answering => status'[proc'[q].task] = "waiting_answer"
               /\ proc'[q].pc \in Importing =>
                    current'[proc'[q].task].answer = answers'[proc'[q].task]
    <3>1. q # p /\ proc'[q] = proc[q] /\ proc[q].task \in Tasks
      BY <1>c, <2>8, <2>9 DEF Answering, Importing
    <3>2. proc[q].task \notin overridden
      BY <2>5, <2>9, <3>1
    <3>3. proc[q].pc \in Answering => proc[q].task # t /\ status[proc[q].task] = "waiting_answer"
      BY <2>2, <3>1, <3>2 DEF IInv, Answers
    <3>4. proc[q].pc \in Importing => current[proc[q].task].answer = answers[proc[q].task]
      BY <3>2 DEF IInv, Answers
    <3> QED
      BY <2>5, <3>1, <3>3, <3>4
  <2> QED
    BY <2>6, <2>7, <2>9 DEF Answers
<1>7. Apart' /\ GroupsExclusive'
  <2>1. \A u \in Tasks : Active(u)' => Active(u) \/ Excepted(u)'
    BY <1>b DEF IInv, Core, TypeOK, Active, Occupies, Live, LiveTasks, Excepted, history
  <2>2. \A u \in Tasks : Excepted(u) => Excepted(u)'
    BY DEF ImportEnd, Excepted, history
  <2>3. \A q \in Procs : proc'[q].pc \in Claiming =>
          proc[q].pc \in Claiming /\ proc'[q].task = proc[q].task
    BY <1>a DEF ImportEnd, Ended, IInv, Core, TypeOK, Idle, Claiming
  <2> QED
    BY <2>1, <2>2, <2>3, ApartLasts DEF IInv
<1> QED
  BY <1>1, <1>2, <1>3, <1>4, <1>5, <1>6, <1>7 DEF IInv, Core

(* An answer starts while the task waits. *)
LEMMA AnswerCheckKeeps ==
  ASSUME IInv, NEW p \in Procs, NEW t \in Tasks, AnswerCheck(p, t)
  PROVE  IInv'
<1>1. TypeOK'
  BY ProcsAssumption
  DEF AnswerCheck, IInv, Core, TypeOK, Locked, files, history, Idle, Pcs, Claims, Claiming,
      Importing, Answering, Statuses
<1>2. HasLatest' /\ Bundled'
  BY ProcsAssumption DEF AnswerCheck, IInv, Core, TypeOK, HasLatest, Bundled, files, history
<1>3. Locked'
  BY ProcsAssumption
  DEF AnswerCheck, IInv, Core, TypeOK, Locked, files, history, Idle, Claiming, Importing,
      Answering
<1>4. Steady'
  BY ProcsAssumption
  DEF AnswerCheck, IInv, Core, TypeOK, Locked, Steady, files, history, Idle, Claiming,
      Importing, Answering
<1>5. Attested'
  BY ProcsAssumption
  DEF AnswerCheck, IInv, Core, TypeOK, Locked, Steady, Attested, files, history, Claiming,
      Importing, Answering, QualityGates
<1>6. Answers'
  BY ProcsAssumption
  DEF AnswerCheck, IInv, Core, TypeOK, Locked, Steady, Answers, AnswerBound, files, history,
      Idle, Claiming, Importing, Answering, QualityGates
<1>7. Apart' /\ GroupsExclusive'
  BY ZenonT(30), ProcsAssumption
  DEF AnswerCheck, IInv, Core, TypeOK, Locked, Steady, Apart, GroupsExclusive, Active,
      Occupies, Live, LiveTasks, Excepted, files, history, Idle, Claiming, Importing,
      Answering
<1> QED
  BY <1>1, <1>2, <1>3, <1>4, <1>5, <1>6, <1>7 DEF IInv, Core

(* An answer is written while the task waits: nothing is under review. *)
LEMMA AnswerWriteKeeps ==
  ASSUME IInv, NEW p \in Procs, AnswerWrite(p)
  PROVE  IInv'
<1>1. TypeOK'
  BY ProcsAssumption
  DEF AnswerWrite, IInv, Core, TypeOK, Locked, locks, history, Goto, Pcs, Claims, Claiming,
      Importing, Answering, Statuses
<1>2. HasLatest' /\ Bundled'
  BY ProcsAssumption DEF AnswerWrite, IInv, Core, TypeOK, HasLatest, Bundled, locks, history
<1>3. Locked'
  BY ProcsAssumption
  DEF AnswerWrite, IInv, Core, TypeOK, Locked, locks, history, Goto, Claiming, Importing,
      Answering
<1>4. Steady'
  BY ProcsAssumption
  DEF AnswerWrite, IInv, Core, TypeOK, Locked, Steady, locks, history, Goto, Claiming,
      Importing, Answering
<1>5. Attested'
  BY ProcsAssumption
  DEF AnswerWrite, IInv, Core, TypeOK, Locked, Steady, Attested, locks, history, Claiming,
      Importing, Answering, QualityGates
<1>6. Answers'
  BY ProcsAssumption
  DEF AnswerWrite, IInv, Core, TypeOK, Locked, Steady, Answers, AnswerBound, locks, history,
      Goto, Claiming, Importing, Answering, QualityGates
<1>7. Apart' /\ GroupsExclusive'
  <2>1. \A u \in Tasks : Active(u)' => Active(u) \/ Excepted(u)'
    BY DEF AnswerWrite, IInv, Core, TypeOK, Active, Occupies, Live, LiveTasks, Excepted,
           history
  <2>2. \A u \in Tasks : Excepted(u) => Excepted(u)'
    BY DEF AnswerWrite, Excepted, history
  <2>3. \A q \in Procs : proc'[q].pc \in Claiming =>
          proc[q].pc \in Claiming /\ proc'[q].task = proc[q].task
    BY DEF AnswerWrite, IInv, Core, TypeOK, Goto, Claiming
  <2> QED
    BY <2>1, <2>2, <2>3, ApartLasts DEF IInv
<1> QED
  BY <1>1, <1>2, <1>3, <1>4, <1>5, <1>6, <1>7 DEF IInv, Core

(* An answer makes the task active without a look at its group. *)
LEMMA AnswerAssignKeeps ==
  ASSUME IInv, NEW p \in Procs, AnswerAssign(p)
  PROVE  IInv'
<1>a. Ended(p)
  BY EndEnds DEF AnswerAssign, IInv, Core
<1>1. TypeOK'
  BY <1>a, ProcsAssumption
  DEF AnswerAssign, Ended, IInv, Core, TypeOK, Locked, Idle, Pcs, Claims, Claiming,
      Importing, Answering, Statuses
<1>2. HasLatest' /\ Bundled'
  BY <1>a, ProcsAssumption DEF AnswerAssign, Ended, IInv, Core, TypeOK, HasLatest, Bundled
<1>3. Locked'
  BY <1>a, ProcsAssumption
  DEF AnswerAssign, Ended, IInv, Core, TypeOK, Locked, Idle, Claiming, Importing, Answering
<1>4. Steady'
  BY <1>a, ProcsAssumption
  DEF AnswerAssign, Ended, IInv, Core, TypeOK, Locked, Steady, Idle, Claiming, Importing,
      Answering
<1>5. Attested'
  BY <1>a, ProcsAssumption
  DEF AnswerAssign, Ended, IInv, Core, TypeOK, Locked, Steady, Attested, Claiming,
      Importing, Answering, QualityGates
<1>6. Answers'
  BY <1>a, ProcsAssumption
  DEF AnswerAssign, Ended, IInv, Core, TypeOK, Locked, Steady, Answers, AnswerBound, Idle,
      Claiming, Importing, Answering, QualityGates
<1>7. Apart' /\ GroupsExclusive'
  <2>1. \A u \in Tasks : Active(u)' => Active(u) \/ Excepted(u)'
    BY <1>a
    DEF AnswerAssign, IInv, Core, TypeOK, Locked, Answering, Active, Occupies, Live,
        LiveTasks, Excepted
  <2>2. \A u \in Tasks : Excepted(u) => Excepted(u)'
    BY DEF AnswerAssign, Excepted
  <2>3. \A q \in Procs : proc'[q].pc \in Claiming =>
          proc[q].pc \in Claiming /\ proc'[q].task = proc[q].task
    BY <1>a DEF AnswerAssign, Ended, IInv, Core, TypeOK, Idle, Claiming
  <2> QED
    BY <2>1, <2>2, <2>3, ApartLasts DEF IInv
<1> QED
  BY <1>1, <1>2, <1>3, <1>4, <1>5, <1>6, <1>7 DEF IInv, Core

(* Who reviews is not who executed, as the claim has not changed since. *)
LEMMA ImportReviewKeeps ==
  ASSUME IInv, NEW t \in Tasks, NEW by \in Principals, NEW b \in attempts[t],
         NEW verdict \in Verdicts, ImportReview(t, by, b, verdict)
  PROVE  IInv'
<1>a. /\ status[t] = "review" /\ claim[t] # None /\ by # claim[t].runner
      /\ review' = [review EXCEPT ![t] = [by |-> by, of |-> b, verdict |-> verdict]]
      /\ UNCHANGED <<claim, attempts, current, answers, signoff, bundles, locks, proc, history>>
  BY DEF ImportReview, Live, Independent
<1>b. \E s \in {"review", "failed", "review_pending_signoff", "done"} :
        /\ status' = [status EXCEPT ![t] = s]
        /\ s = "done" => ~RequireSignoff
        /\ s \in {"review_pending_signoff", "done"} => b = current[t] /\ verdict = "PASS"
  BY <1>a DEF ImportReview, IInv, Core, TypeOK, Verdicts
<1>1. TypeOK'
  BY <1>a, <1>b DEF IInv, Core, TypeOK, locks, history, Statuses
<1>2. HasLatest' /\ Bundled'
  BY ProcsAssumption
  DEF ImportReview, IInv, Core, TypeOK, HasLatest, Bundled, locks, history
<1>3. Locked'
  BY ProcsAssumption
  DEF ImportReview, IInv, Core, TypeOK, Locked, locks, history, Claiming, Importing,
      Answering
<1>4. Steady'
  BY ProcsAssumption
  DEF ImportReview, IInv, Core, TypeOK, Locked, Steady, locks, history, Claiming, Importing,
      Answering
<1>5. Attested'
  BY <1>a, <1>b DEF IInv, Core, TypeOK, Attested, QualityGates
<1>6. Answers'
  BY ProcsAssumption
  DEF ImportReview, IInv, Core, TypeOK, Locked, Steady, Answers, AnswerBound, locks,
      history, Claiming, Importing, Answering, QualityGates
<1>7. Apart' /\ GroupsExclusive'
  <2>1. \A u \in Tasks : Active(u)' => Active(u) \/ Excepted(u)'
    BY <1>a, <1>b
    DEF IInv, Core, TypeOK, Active, Occupies, Live, LiveTasks, Excepted, history
  <2>2. \A u \in Tasks : Excepted(u) => Excepted(u)'
    BY DEF ImportReview, Excepted, history
  <2>3. \A q \in Procs : proc'[q].pc \in Claiming =>
          proc[q].pc \in Claiming /\ proc'[q].task = proc[q].task
    BY DEF ImportReview, IInv, Core, TypeOK, Claiming
  <2> QED
    BY <2>1, <2>2, <2>3, ApartLasts DEF IInv
<1> QED
  BY <1>1, <1>2, <1>3, <1>4, <1>5, <1>6, <1>7 DEF IInv, Core

(* Who signs is neither of them. *)
LEMMA SignoffKeeps ==
  ASSUME IInv, NEW t \in Tasks, NEW by \in Principals, Signoff(t, by)
  PROVE  IInv'
<1>a. /\ status[t] = "review_pending_signoff" /\ claim[t] # None
      /\ by # claim[t].runner /\ by # review[t].by /\ by # None
      /\ signoff' = [signoff EXCEPT ![t] = by]
      /\ status' = [status EXCEPT ![t] = "done"] \/ UNCHANGED status
      /\ UNCHANGED <<claim, attempts, current, answers, review, bundles, locks, proc, history>>
  BY ProcsAssumption DEF Signoff, SignoffValid, Live, Independent
<1>1. TypeOK'
  BY ProcsAssumption
  DEF Signoff, IInv, Core, TypeOK, Locked, locks, history, Pcs, Claims, Claiming, Importing,
      Answering, Statuses
<1>2. HasLatest' /\ Bundled'
  BY ProcsAssumption DEF Signoff, IInv, Core, TypeOK, HasLatest, Bundled, locks, history
<1>3. Locked'
  BY ProcsAssumption
  DEF Signoff, IInv, Core, TypeOK, Locked, locks, history, Claiming, Importing, Answering
<1>4. Steady'
  BY ProcsAssumption
  DEF Signoff, IInv, Core, TypeOK, Locked, Steady, locks, history, Claiming, Importing,
      Answering
<1>5. Attested'
  BY <1>a DEF IInv, Core, TypeOK, Attested, QualityGates
<1>6. Answers'
  BY ProcsAssumption
  DEF Signoff, IInv, Core, TypeOK, Locked, Steady, Answers, AnswerBound, locks, history,
      Claiming, Importing, Answering, QualityGates
<1>7. Apart' /\ GroupsExclusive'
  BY SMTT(20), ProcsAssumption
  DEF Signoff, IInv, Core, TypeOK, Locked, Steady, Apart, GroupsExclusive, Active, Occupies,
      Live, LiveTasks, Excepted, locks, history, Claiming, Importing, Answering
<1> QED
  BY <1>1, <1>2, <1>3, <1>4, <1>5, <1>6, <1>7 DEF IInv, Core

(* What is set by hand is an exception. *)
LEMMA SetStatusKeeps ==
  ASSUME IInv, NEW t \in Tasks, NEW s \in Statuses, NEW force \in BOOLEAN, SetStatus(t, s, force)
  PROVE  IInv'
<1>1. TypeOK'
  BY ProcsAssumption
  DEF SetStatus, IInv, Core, TypeOK, Locked, locks, Pcs, Claims, Claiming, Importing,
      Answering, QualityGates, Statuses
<1>2. HasLatest' /\ Bundled'
  BY ProcsAssumption DEF SetStatus, IInv, Core, TypeOK, HasLatest, Bundled, locks
<1>3. Locked'
  BY ProcsAssumption
  DEF SetStatus, IInv, Core, TypeOK, Locked, locks, Claiming, Importing, Answering
<1>4. Steady'
  BY ProcsAssumption
  DEF SetStatus, IInv, Core, TypeOK, Locked, Steady, locks, Claiming, Importing, Answering,
      QualityGates
<1>5. Attested'
  BY ProcsAssumption
  DEF SetStatus, IInv, Core, TypeOK, Locked, Steady, Attested, locks, Claiming, Importing,
      Answering, QualityGates
<1>6. Answers'
  BY ProcsAssumption
  DEF SetStatus, IInv, Core, TypeOK, Locked, Steady, Answers, AnswerBound, locks, Claiming,
      Importing, Answering, QualityGates
<1>7. Apart' /\ GroupsExclusive'
  <2>1. \A u \in Tasks : Active(u)' => Active(u) \/ Excepted(u)'
    BY DEF SetStatus, IInv, Core, TypeOK, Active, Occupies, Live, LiveTasks, Excepted
  <2>2. \A u \in Tasks : Excepted(u) => Excepted(u)'
    BY DEF SetStatus, Excepted
  <2>3. \A q \in Procs : proc'[q].pc \in Claiming =>
          proc[q].pc \in Claiming /\ proc'[q].task = proc[q].task
    BY DEF SetStatus, IInv, Core, TypeOK, Claiming
  <2> QED
    BY <2>1, <2>2, <2>3, ApartLasts DEF IInv
<1> QED
  BY <1>1, <1>2, <1>3, <1>4, <1>5, <1>6, <1>7 DEF IInv, Core

(* Who dies leaves its locks, and every file as it is. *)
LEMMA CrashKeeps ==
  ASSUME IInv, NEW p \in Procs, Crash(p)
  PROVE  IInv'
<1>a. Ended(p)
  BY EndEnds DEF Crash, IInv, Core
<1>1. TypeOK'
  BY <1>a, ProcsAssumption
  DEF Crash, Ended, IInv, Core, TypeOK, Locked, files, history, Idle, Pcs, Claims, Claiming,
      Importing, Answering, Statuses
<1>2. HasLatest' /\ Bundled'
  BY <1>a, ProcsAssumption
  DEF Crash, Ended, IInv, Core, TypeOK, HasLatest, Bundled, files, history
<1>3. Locked'
  BY <1>a, ProcsAssumption
  DEF Crash, Ended, IInv, Core, TypeOK, Locked, files, history, Idle, Claiming, Importing,
      Answering
<1>4. Steady'
  BY <1>a, ProcsAssumption
  DEF Crash, Ended, IInv, Core, TypeOK, Locked, Steady, files, history, Idle, Claiming,
      Importing, Answering
<1>5. Attested'
  BY <1>a, ProcsAssumption
  DEF Crash, Ended, IInv, Core, TypeOK, Locked, Steady, Attested, files, history, Claiming,
      Importing, Answering, QualityGates
<1>6. Answers'
  BY <1>a, ProcsAssumption
  DEF Crash, Ended, IInv, Core, TypeOK, Locked, Steady, Answers, AnswerBound, files,
      history, Idle, Claiming, Importing, Answering, QualityGates
<1>7. Apart' /\ GroupsExclusive'
  <2>1. \A u \in Tasks : Active(u)' => Active(u) \/ Excepted(u)'
    BY <1>a
    DEF Crash, IInv, Core, TypeOK, Active, Occupies, Live, LiveTasks, Excepted, files,
        history
  <2>2. \A u \in Tasks : Excepted(u) => Excepted(u)'
    BY DEF Crash, Excepted, history
  <2>3. \A q \in Procs : proc'[q].pc \in Claiming =>
          proc[q].pc \in Claiming /\ proc'[q].task = proc[q].task
    BY <1>a DEF Crash, Ended, IInv, Core, TypeOK, Idle, Claiming
  <2> QED
    BY <2>1, <2>2, <2>3, ApartLasts DEF IInv
<1> QED
  BY <1>1, <1>2, <1>3, <1>4, <1>5, <1>6, <1>7 DEF IInv, Core

(* Every step keeps the invariant. *)
LEMMA NextKeeps == IInv /\ [Next]_vars => IInv'
<1> SUFFICES ASSUME IInv, [Next]_vars PROVE IInv'
  OBVIOUS
<1>1. CASE UNCHANGED vars
  <2>1. Core' /\ Steady' /\ Attested'
    BY <1>1
    DEF vars, files, locks, history, IInv, Core, TypeOK, HasLatest, Bundled, Locked, Steady,
        Attested
  <2>2. Answers' /\ Apart' /\ GroupsExclusive'
    BY <1>1
    DEF vars, files, locks, history, IInv, Answers, AnswerBound, Apart, GroupsExclusive,
        Excepted, Active, Occupies, LiveTasks, Live
  <2> QED
    BY <2>1, <2>2 DEF IInv
<1>2. ASSUME NEW p \in Procs,
             \/ \E t \in Tasks, r \in Principals : ClaimCheck(p, t, r)
             \/ ClaimWrite(p) \/ ClaimStatus(p)
             \/ \E t \in Tasks : ReleaseUnlink(p, t) \/ AnswerCheck(p, t)
             \/ ReleaseStatus(p)
             \/ \E b \in bundles : ImportPublish(p, b)
             \/ ImportStart(p) \/ ImportEnd(p)
             \/ AnswerWrite(p) \/ AnswerAssign(p)
             \/ Crash(p)
      PROVE  IInv'
  BY <1>2, ClaimCheckKeeps, ClaimWriteKeeps, ClaimStatusKeeps, ReleaseUnlinkKeeps,
     AnswerCheckKeeps, ReleaseStatusKeeps, ImportPublishKeeps, ImportStartKeeps,
     ImportEndKeeps, AnswerWriteKeeps, AnswerAssignKeeps, CrashKeeps
<1>3. ASSUME NEW t \in Tasks,
             \/ Expire(t)
             \/ \E result \in Results, clock \in Clocks : Build(t, result, clock)
             \/ \E s \in Statuses, force \in BOOLEAN : SetStatus(t, s, force)
             \/ \E by \in Principals :
                  \/ \E b \in attempts[t], verdict \in Verdicts : ImportReview(t, by, b, verdict)
                  \/ Signoff(t, by)
      PROVE  IInv'
  BY <1>3, ExpireKeeps, BuildKeeps, SetStatusKeeps, ImportReviewKeeps, SignoffKeeps
<1> QED
  BY <1>1, <1>2, <1>3 DEF Next

(* The invariant holds. *)
LEMMA Invariance == Spec => []IInv
  BY Initially, NextKeeps, PTL DEF Spec

-----------------------------------------------------------------------------
(* Every file and lock holds what it may hold; in particular, of the attempts of a
   task there is one that started last. *)
THEOREM TypeCorrect == Spec => []TypeOK
<1>1. IInv => TypeOK
  BY DEF IInv, Core
<1> QED
  BY <1>1, Invariance, PTL

(* A done task was executed, reviewed and signed by three principals, whatever leases
   run out, are released or taken over, and wherever a command dies. *)
THEOREM DoneAttested == Spec => []DoneIsAttested
<1>1. IInv => DoneIsAttested
  BY DEF IInv, Attested, DoneIsAttested, QualityGates
<1> QED
  BY <1>1, Invariance, PTL

(* No two tasks of a conflict group are active together, but by an answer, by
   evidence whose claim ran out half way, or by hand. *)
THEOREM GroupsApart == Spec => []GroupsExclusive
<1>1. IInv => GroupsExclusive
  BY DEF IInv
<1> QED
  BY <1>1, Invariance, PTL

(* Only the evidence of the claim that runs becomes current. *)
LEMMA Fenced ==
  ASSUME IInv, [Next]_vars, NEW t \in Tasks, current'[t] # current[t]
  PROVE  Live(t) /\ current'[t].under = claim[t].id
<1>1. \E p \in Procs, b \in bundles : ImportPublish(p, b)
  BY ZenonT(30) DEF Next, vars, files, locks, history, ClaimCheck, ClaimWrite, ClaimStatus,
         ReleaseUnlink, AnswerCheck, ReleaseStatus, ImportStart, ImportEnd, AnswerWrite,
         AnswerAssign, Crash, Expire, Build, ImportReview, Signoff, SetStatus
<1>2. PICK p \in Procs, b \in bundles : ImportPublish(p, b)
  BY <1>1
<1>3. current' = [current EXCEPT ![b.task] = b] /\ b.task \in Tasks
  BY <1>2 DEF ImportPublish, IInv, Core, TypeOK, Attempts
<1>4. t = b.task /\ current'[t] = b
  BY <1>3 DEF IInv, Core, TypeOK
<1>5. Live(t) /\ b.claim = <<claim[t].id, claim[t].gen, claim[t].runner>>
  BY <1>2, <1>4 DEF ImportPublish, PlanMatches, Binding
<1> QED
  BY <1>4, <1>5 DEF IInv, Core, Bundled

(* What becomes current was built under the claim that runs now and from the answer
   there is, and what is under review still continues from that answer. *)
THEOREM EvidenceIsBound == Spec => EvidenceBound
<1>1. Spec => [][AnswerBound']_vars
  <2>1. IInv' => AnswerBound'
    BY DEF IInv, Answers
  <2> QED
    BY <2>1, Invariance, PTL
<1>2. Spec => EvidenceFenced
  <2>1. IInv /\ [Next]_vars =>
          [\A t \in Tasks : current'[t] # current[t] =>
             Live(t) /\ current'[t].under = claim[t].id]_vars
    BY Fenced
  <2> QED
    BY <2>1, Invariance, PTL DEF Spec, EvidenceFenced
<1> QED
  BY <1>1, <1>2 DEF EvidenceBound
=============================================================================
