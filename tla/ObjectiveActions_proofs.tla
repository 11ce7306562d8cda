------------------------ MODULE ObjectiveActions_proofs ------------------------
(* The continuation engine, for any actions, schedulers, budget and clock: one thing
   at a time and within the budget, a journal that fits events, leases and what is
   executed, and the life of an action that ActionLifecycle promises.  And for any
   Objectives over any tasks (ObjectiveScopes): one authority over a task and its run,
   a wave that can run as a whole, and no Objective that halts unseen. *)
EXTENDS ObjectiveActions, ObjectiveScopes, FiniteSetTheorems, SequenceTheorems,
        WellFoundedInduction, TLAPS

(* An action with an intent that is not over, or whose outcome is not known. *)
Open == Reserved \cup Unresolved

(* The files of an action come in order. *)
Filed ==
  \A a \in Actions :
    /\ intent[a] = None => a \notin started /\ receipt[a] = None
    /\ receipt[a] # None => (receipt[a].status = "cancelled" <=> a \notin started)

(* At most one action is open. *)
Alone == \A a, b \in Open : a = b

(* The budget is charged for what is open as if it had failed. *)
Charged ==
  /\ IsFiniteSet(started \cup Reserved)
  /\ Cardinality(started \cup Reserved) <= MaxActions
  /\ Cardinality(Failed \cup Open) <= MaxFailures

(* What a scheduler does. *)
Acts(p) ==
  /\ proc[p].pc \notin {"pending", "appended"}
  /\ proc[p].pc \in {"idle", "leasing", "leased"} => proc[p].act = None
  /\ proc[p].pc = "planned" => proc[p].act \in Actions /\ intent[proc[p].act] = None
  /\ proc[p].pc \in {"reserved", "refused"} =>
       proc[p].act \in Actions /\ intent[proc[p].act] # None
  /\ proc[p].pc = "reserved" => proc[p].act \notin started
  /\ proc[p].pc \in {"started", "running", "ran"} =>
       /\ proc[p].act \in started /\ receipt[proc[p].act] = None
       /\ intent[proc[p].act].gen = proc[p].gen

(* Each acts on an action of its own. *)
Doing ==
  /\ \A p \in Schedulers : Acts(p)
  /\ \A p, q \in Schedulers : p # q /\ proc[p].act = proc[q].act => proc[p].act = None

(* Every scheduler has a grant of its own, and what is reserved is not of one that
   still looks for an action. *)
Granted ==
  /\ \A p \in Schedulers :
       /\ proc[p].pc \in {"leasing", "leased"} => lock = p
       /\ proc[p].pc = "leasing" => takeover # None /\ takeover.lease.gen = proc[p].gen
       /\ proc[p].pc \notin {"idle", "leasing"} => lease # None /\ proc[p].gen <= lease.gen
       /\ proc[p].pc \in {"leasing", "leased", "owner", "planned"} =>
            \A a \in Reserved : intent[a].gen # proc[p].gen
  /\ \A p, q \in Schedulers :
       p # q /\ proc[p].pc # "idle" /\ proc[q].pc # "idle" => proc[p].gen # proc[q].gen

(* What is reserved is of the lease, or is cancelled with the takeover. *)
TakenOver ==
  /\ takeover = None => \A a \in Reserved : lease # None /\ intent[a].gen = lease.gen
  /\ takeover # None =>
       /\ takeover.previous # None /\ takeover.lease.gen = takeover.previous.gen + 1
       /\ lease \in {takeover.lease, takeover.previous}
       /\ \A a \in Reserved : a \in takeover.cancel /\ intent[a].gen = takeover.previous.gen
       /\ \A a \in takeover.cancel : intent[a] # None

(* What is reserved is under the last event, or is cancelled with the next one. *)
Committed ==
  /\ pending = None => \A a \in Reserved : intent[a].seq = seq
  /\ pending # None =>
       /\ pending.seq \in {seq, seq + 1}
       /\ \A a \in Reserved : a \in pending.cancel /\ intent[a].seq + 1 = pending.seq
       /\ \A a \in pending.cancel : intent[a] # None
  /\ state # "active" => Reserved = {} \/ (pending # None /\ pending.seq = seq)
  /\ proc[Operator].pc \in {"idle", "pending", "appended"}
  /\ proc[Operator].pc \in {"pending", "appended"} => lock = Operator /\ pending # None
  /\ proc[Operator].pc = "pending" => pending.seq = seq + 1

IInv == TypeOK /\ Filed /\ Alone /\ Charged /\ Doing /\ Granted /\ TakenOver /\ Committed

-----------------------------------------------------------------------------
(* No action has a file. *)
LEMMA Initially == Init => IInv
<1> SUFFICES ASSUME Init PROVE IInv
  OBVIOUS
<1>1. Reserved = {} /\ Unresolved = {} /\ Failed = {} /\ Open = {}
  BY DEF Init, Open, Reserved, Unresolved, Failed
<1>2. TypeOK /\ Filed
  BY DEF Init, TypeOK, ProcStates, Filed, States, Processes, Idle, Pcs, Outcomes
<1>3. Alone /\ Charged
  BY <1>1, FS_EmptySet, BoundsAssumption DEF Init, Alone, Charged
<1>4. Doing /\ Granted /\ TakenOver /\ Committed
  BY <1>1, ProcsAssumption
  DEF Init, Doing, Acts, Granted, TakenOver, Committed, Idle, Processes
<1> QED
  BY <1>2, <1>3, <1>4 DEF IInv

(* What is charged for a subset was charged before. *)
LEMMA Charging ==
  ASSUME Charged, NEW S, NEW F, S \subseteq started \cup Reserved,
         F \subseteq Failed \cup Open
  PROVE  /\ IsFiniteSet(S) /\ Cardinality(S) <= MaxActions
         /\ Cardinality(F) <= MaxFailures
<1>1. IsFiniteSet(Failed \cup Open)
  BY FS_Subset DEF Charged, Failed, Open, Unresolved
<1>2. /\ Cardinality(S) \in Nat /\ Cardinality(started \cup Reserved) \in Nat
      /\ Cardinality(F) \in Nat /\ Cardinality(Failed \cup Open) \in Nat
  BY <1>1, FS_Subset, FS_CardinalityType DEF Charged
<1> QED
  BY <1>1, <1>2, FS_Subset, BoundsAssumption DEF Charged

(* A step of a process changes its program counter alone. *)
LEMMA Stepping ==
  ASSUME TypeOK, NEW p \in Processes, NEW pc \in Pcs, Goto(p, pc)
  PROVE  /\ proc' \in [Processes -> ProcStates]
         /\ proc'[p] = [proc[p] EXCEPT !.pc = pc]
         /\ \A q \in Processes : q # p => proc'[q] = proc[q]
  BY DEF TypeOK, ProcStates, Goto

(* A receipt of the process for its action. *)
LEMMA Receiving ==
  ASSUME TypeOK, NEW p \in Processes, NEW how \in Outcomes \cup {"cancelled"},
         NEW by \in {"owner", "takeover", "event"}
  PROVE  [status |-> how, by |-> by, n |-> proc[p].gen] \in Receipts
  BY DEF TypeOK, ProcStates, Receipts

(* A new owner names what is reserved as what its takeover cancels, or finds nothing
   reserved. *)
LEMMA AcquireKeeps ==
  ASSUME IInv, NEW p \in Schedulers, Acquire(p)
  PROVE  IInv'
<1>1. TypeOK'
  <2>1. NewLease \in Leases
    BY BoundsAssumption DEF NewLease, IInv, TypeOK, Leases
  <2>2. PICK pc \in Pcs : proc' = [proc EXCEPT ![p].pc = pc, ![p].gen = NewLease.gen]
    BY DEF Acquire, Pcs
  <2>3. proc' \in [Processes -> ProcStates]
    BY ZenonT(30), <2>1, <2>2 DEF IInv, TypeOK, ProcStates, Leases
  <2>4. takeover' \in {None} \cup Takeovers
    BY <2>1 DEF Acquire, owner, IInv, TypeOK, Takeovers, Reserved
  <2> QED
    BY <2>1, <2>2, <2>3, <2>4 DEF Acquire, journal, events, owner, IInv, TypeOK
<1>2. Filed'
  BY ProcsAssumption, ActionsAssumption, BoundsAssumption, NoneAssumption
  DEF Acquire, journal, events, owner, NewLease, LeaseFree, Processes, IInv, TypeOK,
      ProcStates, Leases, Takeovers, Transactions, Intents, Receipts, States, Pcs, Outcomes,
      Filed
<1>3. Alone'
  BY ProcsAssumption, ActionsAssumption, BoundsAssumption, NoneAssumption
  DEF Acquire, journal, events, owner, NewLease, LeaseFree, Processes, IInv, TypeOK,
      ProcStates, Leases, Takeovers, Transactions, Intents, Receipts, States, Pcs, Outcomes,
      Filed, Alone, Open, Reserved, Unresolved
<1>4. Charged'
  BY ProcsAssumption, ActionsAssumption, BoundsAssumption, NoneAssumption, Charging
  DEF Acquire, journal, events, owner, NewLease, LeaseFree, Processes, IInv, TypeOK,
      ProcStates, Leases, Takeovers, Transactions, Intents, Receipts, States, Pcs, Outcomes,
      Filed, Charged, Open, Reserved, Unresolved, Failed
<1>5. Doing'
  BY ProcsAssumption, ActionsAssumption, BoundsAssumption, NoneAssumption
  DEF Acquire, journal, events, owner, NewLease, LeaseFree, Processes, IInv, TypeOK,
      ProcStates, Leases, Takeovers, Transactions, Intents, Receipts, States, Pcs, Outcomes,
      Filed, Doing, Acts
<1>6. Granted'
  <2>1. /\ proc'[p].pc # "idle" /\ proc'[p].gen = NewLease.gen
        /\ \A q \in Schedulers : q # p => proc'[q] = proc[q]
        /\ p \in Processes /\ takeover = None /\ UNCHANGED journal
    BY DEF Acquire, IInv, TypeOK, ProcStates, Processes
  <2>2. NewLease \in Leases /\ (lease # None => lease.gen \in Nat /\ NewLease.gen > lease.gen)
    BY BoundsAssumption DEF NewLease, IInv, TypeOK, Leases
  <2>3. \A q \in Schedulers : proc[q].pc # "idle" =>
          proc[q].gen \in Nat /\ lease # None /\ proc[q].gen <= lease.gen
    BY ProcsAssumption DEF Acquire, IInv, TypeOK, ProcStates, Processes, Granted
  <2>4. /\ Reserved' = Reserved
        /\ \A a \in Reserved : lease # None /\ intent[a].gen = lease.gen
    BY <2>1 DEF journal, Reserved, IInv, TakenOver
  <2>5. \/ proc'[p].pc = "owner" /\ lease' = NewLease /\ takeover' = None
        \/ /\ proc'[p].pc = "leasing" /\ lock' = p /\ UNCHANGED lease
           /\ takeover' \in Takeovers /\ takeover'.lease = NewLease
    <3>1. proc[p] \in ProcStates /\ lock' \in Processes \cup {NoProc}
      BY <1>1 DEF IInv, TypeOK, Processes
    <3>2. CASE Reserved = {}
      BY <2>1, <3>1, <3>2 DEF Acquire, IInv, TypeOK, ProcStates
    <3>3. CASE Reserved # {}
      <4>1. /\ takeover' = [lease |-> NewLease, previous |-> lease, cancel |-> Reserved]
            /\ lock' = p /\ UNCHANGED lease /\ proc'[p].pc = "leasing"
        BY <2>1, <3>1, <3>3 DEF Acquire, IInv, TypeOK, ProcStates
      <4>2. lease \in {None} \cup Leases /\ Reserved \subseteq Actions
        BY DEF IInv, TypeOK, Reserved
      <4> QED
        BY <2>2, <4>1, <4>2 DEF Takeovers
    <3> QED
      BY <3>2, <3>3
  <2>6. \A q \in Schedulers : q # p /\ proc[q].pc # "idle" => proc'[q].gen < proc'[p].gen
    BY <2>1, <2>2, <2>3, NoneAssumption DEF Leases
  <2>7. \A q \in Schedulers : q # p => proc[q].pc \notin {"leasing", "leased"}
    BY ProcsAssumption DEF Acquire, IInv, Granted
  <2>8. \A a \in Reserved' : intent'[a].gen # proc'[p].gen
    BY <2>1, <2>2, <2>4 DEF journal
  <2>9. (lease' # None /\ proc'[p].gen <= lease'.gen) \/ proc'[p].pc = "leasing"
    BY <2>1, <2>2, <2>5, NoneAssumption DEF Leases
  <2>10. \A q \in Schedulers : q # p /\ proc'[q].pc # "idle" =>
           lease' # None /\ proc'[q].gen <= lease'.gen
    BY <2>1, <2>2, <2>3, <2>5, NoneAssumption DEF Leases
  <2>11. \A q \in Schedulers : q # p /\ proc'[q].pc \in {"owner", "planned"} =>
           \A a \in Reserved' : intent'[a].gen # proc'[q].gen
    BY <2>1, <2>4 DEF journal, IInv, Granted
  <2> QED
    BY <2>1, <2>2, <2>5, <2>6, <2>7, <2>8, <2>9, <2>10, <2>11, <2>3, NoneAssumption
    DEF Granted, IInv
<1>7. TakenOver'
  BY ProcsAssumption, ActionsAssumption, BoundsAssumption, NoneAssumption
  DEF Acquire, journal, events, owner, NewLease, LeaseFree, Processes, IInv, TypeOK,
      ProcStates, Leases, Takeovers, Transactions, Intents, Receipts, States, Pcs, Outcomes,
      Filed, Reserved, Doing, Acts, Granted, TakenOver
<1>8. Committed'
  BY ProcsAssumption, ActionsAssumption, BoundsAssumption, NoneAssumption
  DEF Acquire, journal, events, owner, NewLease, LeaseFree, Processes, IInv, TypeOK,
      ProcStates, Leases, Takeovers, Transactions, Intents, Receipts, States, Pcs, Outcomes,
      Filed, Reserved, Doing, Acts, TakenOver, Committed
<1> QED
  BY <1>1, <1>2, <1>3, <1>4, <1>5, <1>6, <1>7, <1>8 DEF IInv

(* The lease of the takeover is one generation above the one it replaces. *)
LEMMA ReplaceLeaseKeeps ==
  ASSUME IInv, NEW p \in Schedulers, ReplaceLease(p)
  PROVE  IInv'
<1>1. TypeOK'
  <2>1. proc' \in [Processes -> ProcStates]
    BY Stepping DEF ReplaceLease, IInv, Pcs, Processes
  <2>2. lease' \in Leases
    BY DEF ReplaceLease, IInv, TypeOK, Granted, Takeovers
  <2> QED
    BY <2>1, <2>2 DEF ReplaceLease, journal, events, IInv, TypeOK
<1>2. Filed'
  BY ProcsAssumption, ActionsAssumption, BoundsAssumption, NoneAssumption
  DEF ReplaceLease, journal, events, owner, Goto, Processes, IInv, TypeOK, ProcStates,
      Leases, Takeovers, Transactions, Intents, Receipts, States, Pcs, Outcomes, Filed
<1>3. Alone'
  BY ProcsAssumption, ActionsAssumption, BoundsAssumption, NoneAssumption
  DEF ReplaceLease, journal, events, owner, Goto, Processes, IInv, TypeOK, ProcStates,
      Leases, Takeovers, Transactions, Intents, Receipts, States, Pcs, Outcomes, Filed,
      Alone, Open, Reserved, Unresolved
<1>4. Charged'
  BY ProcsAssumption, ActionsAssumption, BoundsAssumption, NoneAssumption, Charging
  DEF ReplaceLease, journal, events, owner, Goto, Processes, IInv, TypeOK, ProcStates,
      Leases, Takeovers, Transactions, Intents, Receipts, States, Pcs, Outcomes, Filed,
      Charged, Open, Reserved, Unresolved, Failed
<1>5. Doing'
  BY ProcsAssumption, ActionsAssumption, BoundsAssumption, NoneAssumption
  DEF ReplaceLease, journal, events, owner, Goto, Processes, IInv, TypeOK, ProcStates,
      Leases, Takeovers, Transactions, Intents, Receipts, States, Pcs, Outcomes, Filed,
      Doing, Acts
<1>6. Granted'
  BY ProcsAssumption, ActionsAssumption, BoundsAssumption, NoneAssumption
  DEF ReplaceLease, journal, events, owner, Goto, Processes, IInv, TypeOK, ProcStates,
      Leases, Takeovers, Transactions, Intents, Receipts, States, Pcs, Outcomes, Filed,
      Alone, Open, Reserved, Unresolved, Doing, Acts, Granted, TakenOver
<1>7. TakenOver'
  BY ProcsAssumption, ActionsAssumption, BoundsAssumption, NoneAssumption
  DEF ReplaceLease, journal, events, owner, Goto, Processes, IInv, TypeOK, ProcStates,
      Leases, Takeovers, Transactions, Intents, Receipts, States, Pcs, Outcomes, Filed,
      Reserved, Doing, Acts, Granted, TakenOver
<1>8. Committed'
  BY ProcsAssumption, ActionsAssumption, BoundsAssumption, NoneAssumption
  DEF ReplaceLease, journal, events, owner, Goto, Processes, IInv, TypeOK, ProcStates,
      Leases, Takeovers, Transactions, Intents, Receipts, States, Pcs, Outcomes, Filed,
      Reserved, Doing, Acts, TakenOver, Committed
<1> QED
  BY <1>1, <1>2, <1>3, <1>4, <1>5, <1>6, <1>7, <1>8 DEF IInv

(* The grant is returned when the takeover is over. *)
LEMMA OwnKeeps ==
  ASSUME IInv, NEW p \in Schedulers, Own(p)
  PROVE  IInv'
<1>1. TypeOK'
  BY ProcsAssumption, ActionsAssumption, BoundsAssumption, NoneAssumption
  DEF Own, journal, events, owner, Goto, Processes, IInv, TypeOK, ProcStates, Leases,
      Takeovers, Transactions, Intents, Receipts, States, Pcs
<1>2. Filed'
  BY ProcsAssumption, ActionsAssumption, BoundsAssumption, NoneAssumption
  DEF Own, journal, events, owner, Goto, Processes, IInv, TypeOK, ProcStates, Leases,
      Takeovers, Transactions, Intents, Receipts, States, Pcs, Outcomes, Filed
<1>3. Alone'
  BY ProcsAssumption, ActionsAssumption, BoundsAssumption, NoneAssumption
  DEF Own, journal, events, owner, Goto, Processes, IInv, TypeOK, ProcStates, Leases,
      Takeovers, Transactions, Intents, Receipts, States, Pcs, Outcomes, Filed, Alone, Open,
      Reserved, Unresolved
<1>4. Charged'
  BY ProcsAssumption, ActionsAssumption, BoundsAssumption, NoneAssumption, Charging
  DEF Own, journal, events, owner, Goto, Processes, IInv, TypeOK, ProcStates, Leases,
      Takeovers, Transactions, Intents, Receipts, States, Pcs, Outcomes, Filed, Charged,
      Open, Reserved, Unresolved, Failed
<1>5. Doing'
  BY ProcsAssumption, ActionsAssumption, BoundsAssumption, NoneAssumption
  DEF Own, journal, events, owner, Goto, Processes, IInv, TypeOK, ProcStates, Leases,
      Takeovers, Transactions, Intents, Receipts, States, Pcs, Outcomes, Filed, Doing, Acts
<1>6. Granted'
  BY ProcsAssumption, ActionsAssumption, BoundsAssumption, NoneAssumption
  DEF Own, journal, events, owner, Goto, Processes, IInv, TypeOK, ProcStates, Leases,
      Takeovers, Transactions, Intents, Receipts, States, Pcs, Outcomes, Filed, Alone, Open,
      Reserved, Unresolved, Doing, Acts, Granted
<1>7. TakenOver'
  BY ProcsAssumption, ActionsAssumption, BoundsAssumption, NoneAssumption
  DEF Own, journal, events, owner, Goto, Processes, IInv, TypeOK, ProcStates, Leases,
      Takeovers, Transactions, Intents, Receipts, States, Pcs, Outcomes, Filed, Reserved,
      Doing, Acts, Granted, TakenOver
<1>8. Committed'
  BY ProcsAssumption
  DEF Own, journal, events, owner, Goto, Processes, IInv, TypeOK, ProcStates, Granted,
      Reserved, Committed
<1> QED
  BY <1>1, <1>2, <1>3, <1>4, <1>5, <1>6, <1>7, <1>8 DEF IInv

(* Nothing is open when an action is reserved, so that it is alone and within the
   budget. *)
LEMMA ReserveKeeps ==
  ASSUME IInv, NEW p \in Schedulers, Reserve(p)
  PROVE  IInv'
<1>1. TypeOK'
  <2>1. proc' \in [Processes -> ProcStates]
    BY Stepping DEF Reserve, IInv, Pcs, Processes
  <2>2. [gen |-> proc[p].gen, seq |-> seq] \in Intents
    BY DEF Intents, IInv, TypeOK, ProcStates, Processes
  <2> QED
    BY <2>1, <2>2 DEF Reserve, events, owner, IInv, TypeOK
<1>2. Filed'
  BY ProcsAssumption, ActionsAssumption, BoundsAssumption, NoneAssumption
  DEF Reserve, events, owner, Goto, OwnerOK, Processes, IInv, TypeOK, ProcStates, Leases,
      Takeovers, Transactions, Intents, Receipts, States, Pcs, Outcomes, Filed
<1>3. Alone'
  BY ProcsAssumption, ActionsAssumption, BoundsAssumption, NoneAssumption
  DEF Reserve, events, owner, Goto, OwnerOK, Processes, IInv, TypeOK, ProcStates, Leases,
      Takeovers, Transactions, Intents, Receipts, States, Pcs, Outcomes, Filed, Alone, Open,
      Reserved, Unresolved, Doing, Acts, Granted, TakenOver
<1>4. Charged'
  <2> DEFINE a == proc[p].act
  <2>1. a \in Actions /\ a \notin started /\ receipt[a] = None /\ intent[a] = None
    BY DEF Reserve, IInv, Doing, Acts, Filed
  <2>2. Reserved' = Reserved \cup {a} /\ UNCHANGED <<started, receipt>>
    <3>1. [gen |-> proc[p].gen, seq |-> seq] \in Intents
      BY DEF Intents, IInv, TypeOK, ProcStates, Processes
    <3> QED
      BY <2>1, <3>1, NoneAssumption DEF Reserve, Reserved, IInv, TypeOK
  <2>3. (started \cup Reserved)' = (started \cup Reserved) \cup {a}
    BY <2>2
  <2>4. Unresolved = {} /\ Unresolved' = {} /\ Failed' = Failed
    BY <2>2 DEF Reserve, Unresolved, Failed
  <2>5. (Failed \cup Open)' = (Failed \cup Reserved) \cup {a}
    BY <2>2, <2>4 DEF Open
  <2>6. IsFiniteSet(started \cup Reserved) /\ IsFiniteSet(Failed \cup Reserved)
    BY FS_Subset DEF IInv, Charged, Failed
  <2>7. /\ Cardinality(started \cup Reserved) \in Nat /\ Cardinality(Failed \cup Reserved) \in Nat
        /\ Cardinality(started \cup Reserved) + 1 <= MaxActions
        /\ Cardinality(Failed \cup Reserved) + 1 <= MaxFailures
    BY <2>6, FS_CardinalityType DEF Reserve, WithinBudget
  <2>8. /\ IsFiniteSet((started \cup Reserved) \cup {a})
        /\ Cardinality((started \cup Reserved) \cup {a}) <= Cardinality(started \cup Reserved) + 1
        /\ Cardinality((Failed \cup Reserved) \cup {a}) <= Cardinality(Failed \cup Reserved) + 1
    <3> DEFINE S == started \cup Reserved
               F == Failed \cup Reserved
    <3> HIDE DEF S, F, a
    <3>1. IsFiniteSet(S \cup {a}) /\ Cardinality(S \cup {a}) <= Cardinality(S) + 1
      <4>1. IsFiniteSet(S) /\ Cardinality(S) \in Nat
        BY <2>6, <2>7 DEF S
      <4>2. IsFiniteSet(S \cup {a})
            /\ Cardinality(S \cup {a}) = IF a \in S THEN Cardinality(S) ELSE Cardinality(S) + 1
        BY <4>1, FS_AddElement
      <4> QED
        BY <4>1, <4>2
    <3>2. Cardinality(F \cup {a}) <= Cardinality(F) + 1
      <4>1. IsFiniteSet(F) /\ Cardinality(F) \in Nat
        BY <2>6, <2>7 DEF F
      <4>2. Cardinality(F \cup {a}) = IF a \in F THEN Cardinality(F) ELSE Cardinality(F) + 1
        BY <4>1, FS_AddElement
      <4> QED
        BY <4>1, <4>2
    <3> QED
      BY <3>1, <3>2 DEF S, F
  <2>9. /\ Cardinality((started \cup Reserved) \cup {a}) \in Nat
        /\ Cardinality((Failed \cup Reserved) \cup {a}) \in Nat
    BY <2>6, FS_AddElement, FS_CardinalityType
  <2>10. /\ Cardinality((started \cup Reserved) \cup {a}) <= MaxActions
         /\ Cardinality((Failed \cup Reserved) \cup {a}) <= MaxFailures
    BY <2>7, <2>8, <2>9, BoundsAssumption
  <2> QED
    BY <2>3, <2>5, <2>8, <2>10 DEF Charged
<1>5. Doing'
  BY ProcsAssumption, ActionsAssumption, BoundsAssumption, NoneAssumption
  DEF Reserve, events, owner, Goto, OwnerOK, Processes, IInv, TypeOK, ProcStates, Leases,
      Takeovers, Transactions, Intents, Receipts, States, Pcs, Outcomes, Filed, Doing, Acts
<1>6. Granted'
  BY ProcsAssumption, ActionsAssumption, BoundsAssumption, NoneAssumption
  DEF Reserve, events, owner, Goto, OwnerOK, Processes, IInv, TypeOK, ProcStates, Leases,
      Takeovers, Transactions, Intents, Receipts, States, Pcs, Outcomes, Filed, Alone, Open,
      Reserved, Unresolved, Failed, Doing, Acts, Granted
<1>7. TakenOver'
  BY ProcsAssumption, ActionsAssumption, BoundsAssumption, NoneAssumption
  DEF Reserve, events, owner, Goto, OwnerOK, Processes, IInv, TypeOK, ProcStates, Leases,
      Takeovers, Transactions, Intents, Receipts, States, Pcs, Outcomes, Filed, Reserved,
      Doing, Acts, Granted, TakenOver
<1>8. Committed'
  BY ProcsAssumption, ActionsAssumption, BoundsAssumption, NoneAssumption
  DEF Reserve, events, owner, Goto, OwnerOK, Processes, IInv, TypeOK, ProcStates, Leases,
      Takeovers, Transactions, Intents, Receipts, States, Pcs, Outcomes, Filed, Reserved,
      Doing, Acts, TakenOver, Committed
<1> QED
  BY <1>1, <1>2, <1>3, <1>4, <1>5, <1>6, <1>7, <1>8 DEF IInv

(* A wave that ends leaves its action as it is. *)
LEMMA EndWaveKeeps ==
  ASSUME IInv, NEW p \in Schedulers, EndWave(p)
  PROVE  IInv'
<1>1. TypeOK'
  BY ProcsAssumption, ActionsAssumption, BoundsAssumption, NoneAssumption
  DEF EndWave, journal, events, owner, Goto, Processes, IInv, TypeOK, ProcStates, Leases,
      Takeovers, Transactions, Intents, Receipts, States, Pcs
<1>2. Filed'
  BY ProcsAssumption, ActionsAssumption, BoundsAssumption, NoneAssumption
  DEF EndWave, journal, events, owner, Goto, Processes, IInv, TypeOK, ProcStates, Leases,
      Takeovers, Transactions, Intents, Receipts, States, Pcs, Outcomes, Filed
<1>3. Alone'
  BY ProcsAssumption, ActionsAssumption, BoundsAssumption, NoneAssumption
  DEF EndWave, journal, events, owner, Goto, Processes, IInv, TypeOK, ProcStates, Leases,
      Takeovers, Transactions, Intents, Receipts, States, Pcs, Outcomes, Filed, Alone, Open,
      Reserved, Unresolved
<1>4. Charged'
  BY ProcsAssumption, ActionsAssumption, BoundsAssumption, NoneAssumption, Charging
  DEF EndWave, journal, events, owner, Goto, Processes, IInv, TypeOK, ProcStates, Leases,
      Takeovers, Transactions, Intents, Receipts, States, Pcs, Outcomes, Filed, Charged,
      Open, Reserved, Unresolved, Failed
<1>5. Doing'
  BY ProcsAssumption, ActionsAssumption, BoundsAssumption, NoneAssumption
  DEF EndWave, journal, events, owner, Goto, Processes, IInv, TypeOK, ProcStates, Leases,
      Takeovers, Transactions, Intents, Receipts, States, Pcs, Outcomes, Filed, Doing, Acts
<1>6. Granted'
  BY ProcsAssumption, ActionsAssumption, BoundsAssumption, NoneAssumption
  DEF EndWave, journal, events, owner, Goto, Processes, IInv, TypeOK, ProcStates, Leases,
      Takeovers, Transactions, Intents, Receipts, States, Pcs, Outcomes, Filed, Alone, Open,
      Reserved, Unresolved, Doing, Acts, Granted
<1>7. TakenOver'
  BY ProcsAssumption, ActionsAssumption, BoundsAssumption, NoneAssumption
  DEF EndWave, journal, events, owner, Goto, Processes, IInv, TypeOK, ProcStates, Leases,
      Takeovers, Transactions, Intents, Receipts, States, Pcs, Outcomes, Filed, Reserved,
      Doing, Acts, Granted, TakenOver
<1>8. Committed'
  BY ProcsAssumption, ActionsAssumption, BoundsAssumption, NoneAssumption
  DEF EndWave, journal, events, owner, Goto, Processes, IInv, TypeOK, ProcStates, Leases,
      Takeovers, Transactions, Intents, Receipts, States, Pcs, Outcomes, Filed, Reserved,
      Doing, Acts, TakenOver, Committed
<1> QED
  BY <1>1, <1>2, <1>3, <1>4, <1>5, <1>6, <1>7, <1>8 DEF IInv

(* The reserved action becomes the open one that is started, of the same charge. *)
LEMMA StartKeeps ==
  ASSUME IInv, NEW p \in Schedulers, Start(p)
  PROVE  IInv'
<1>1. TypeOK'
  <2>1. proc' \in [Processes -> ProcStates]
    BY Stepping DEF Start, IInv, Pcs, Processes
  <2>2. proc[p].act \in Actions
    BY DEF Start, IInv, Doing, Acts
  <2> QED
    BY <2>1, <2>2 DEF Start, events, owner, IInv, TypeOK
<1>2. Filed'
  BY ProcsAssumption, ActionsAssumption, BoundsAssumption, NoneAssumption
  DEF Start, events, owner, Goto, OwnerOK, Processes, IInv, TypeOK, ProcStates, Leases,
      Takeovers, Transactions, Intents, Receipts, States, Pcs, Outcomes, Filed, Doing, Acts
<1>3. Alone'
  BY ProcsAssumption, ActionsAssumption, BoundsAssumption, NoneAssumption
  DEF Start, events, owner, Goto, OwnerOK, Processes, IInv, TypeOK, ProcStates, Leases,
      Takeovers, Transactions, Intents, Receipts, States, Pcs, Outcomes, Filed, Alone, Open,
      Reserved, Unresolved, Doing, Acts, Granted
<1>4. Charged'
  BY ProcsAssumption, ActionsAssumption, BoundsAssumption, NoneAssumption, Charging
  DEF Start, events, owner, Goto, OwnerOK, Processes, IInv, TypeOK, ProcStates, Leases,
      Takeovers, Transactions, Intents, Receipts, States, Pcs, Outcomes, Filed, Charged,
      Open, Reserved, Unresolved, Failed, Doing, Acts
<1>5. Doing'
  <2>1. PICK pc \in {"started", "refused"} : Goto(p, pc)
    BY DEF Start
  <2>2. /\ proc'[p] = [proc[p] EXCEPT !.pc = pc]
        /\ \A q \in Schedulers : q # p => proc'[q] = proc[q]
    <3>1. pc \in Pcs /\ p \in Processes /\ TypeOK
      BY DEF IInv, Pcs, Processes
    <3> QED
      BY <2>1, <3>1, Stepping DEF Processes
  <2>3. proc[p] \in ProcStates /\ proc'[p].pc = pc
        /\ proc'[p].act = proc[p].act /\ proc'[p].gen = proc[p].gen
    BY <2>2 DEF IInv, TypeOK, Processes
  <2>4. /\ proc[p].act \in Actions /\ proc[p].act # None /\ intent[proc[p].act] # None
        /\ receipt[proc[p].act] = None /\ intent[proc[p].act].gen = proc[p].gen
        /\ started' = started \cup {proc[p].act} /\ UNCHANGED <<intent, receipt>>
    BY ActionsAssumption DEF Start, OwnerOK, IInv, Doing, Acts
  <2>5. \A q \in Schedulers : q # p => proc[q].act # proc[p].act
    BY <2>4 DEF IInv, Doing
  <2>6. \A q \in Schedulers : proc'[q].act = proc[q].act
    BY <2>2, <2>3
  <2>7. \A q, t \in Schedulers : q # t /\ proc'[q].act = proc'[t].act => proc'[q].act = None
    BY <2>6 DEF IInv, Doing
  <2>8. \A q \in Schedulers : q # p =>
          (proc[q].pc = "reserved" => proc[q].act \notin started')
    BY <2>4, <2>5 DEF IInv, Doing, Acts
  <2>9. Acts(p)'
    BY <2>3, <2>4 DEF Acts
  <2>10. ASSUME NEW q \in Schedulers, q # p PROVE Acts(q)'
    <3>1. Acts(q)
      BY DEF IInv, Doing
    <3> QED
      BY <2>2, <2>4, <2>8, <2>10, <3>1 DEF Acts
  <2> QED
    BY <2>7, <2>9, <2>10 DEF Doing
<1>6. Granted'
  BY ProcsAssumption, ActionsAssumption, BoundsAssumption, NoneAssumption
  DEF Start, events, owner, Goto, OwnerOK, Processes, IInv, TypeOK, ProcStates, Leases,
      Takeovers, Transactions, Intents, Receipts, States, Pcs, Outcomes, Filed, Alone, Open,
      Reserved, Unresolved, Doing, Acts, Granted
<1>7. TakenOver'
  BY ProcsAssumption, ActionsAssumption, BoundsAssumption, NoneAssumption
  DEF Start, events, owner, Goto, OwnerOK, Processes, IInv, TypeOK, ProcStates, Leases,
      Takeovers, Transactions, Intents, Receipts, States, Pcs, Outcomes, Filed, Reserved,
      Doing, Acts, Granted, TakenOver
<1>8. Committed'
  BY ProcsAssumption, ActionsAssumption, BoundsAssumption, NoneAssumption
  DEF Start, events, owner, Goto, OwnerOK, Processes, IInv, TypeOK, ProcStates, Leases,
      Takeovers, Transactions, Intents, Receipts, States, Pcs, Outcomes, Filed, Reserved,
      Doing, Acts, TakenOver, Committed
<1> QED
  BY <1>1, <1>2, <1>3, <1>4, <1>5, <1>6, <1>7, <1>8 DEF IInv

(* A start that was refused wrote nothing. *)
LEMMA StartRefusedKeeps ==
  ASSUME IInv, NEW p \in Schedulers, StartRefused(p)
  PROVE  IInv'
<1>1. TypeOK'
  BY ProcsAssumption, ActionsAssumption, BoundsAssumption, NoneAssumption
  DEF StartRefused, journal, events, owner, Goto, Processes, IInv, TypeOK, ProcStates,
      Leases, Takeovers, Transactions, Intents, Receipts, States, Pcs
<1>2. Filed'
  BY ProcsAssumption, ActionsAssumption, BoundsAssumption, NoneAssumption
  DEF StartRefused, journal, events, owner, Goto, Processes, IInv, TypeOK, ProcStates,
      Leases, Takeovers, Transactions, Intents, Receipts, States, Pcs, Outcomes, Filed
<1>3. Alone'
  BY ProcsAssumption, ActionsAssumption, BoundsAssumption, NoneAssumption
  DEF StartRefused, journal, events, owner, Goto, Processes, IInv, TypeOK, ProcStates,
      Leases, Takeovers, Transactions, Intents, Receipts, States, Pcs, Outcomes, Filed,
      Alone, Open, Reserved, Unresolved
<1>4. Charged'
  BY ProcsAssumption, ActionsAssumption, BoundsAssumption, NoneAssumption, Charging
  DEF StartRefused, journal, events, owner, Goto, Processes, IInv, TypeOK, ProcStates,
      Leases, Takeovers, Transactions, Intents, Receipts, States, Pcs, Outcomes, Filed,
      Charged, Open, Reserved, Unresolved, Failed
<1>5. Doing'
  BY ProcsAssumption, ActionsAssumption, BoundsAssumption, NoneAssumption
  DEF StartRefused, journal, events, owner, Goto, Processes, IInv, TypeOK, ProcStates,
      Leases, Takeovers, Transactions, Intents, Receipts, States, Pcs, Outcomes, Filed,
      Doing, Acts
<1>6. Granted'
  BY ProcsAssumption, ActionsAssumption, BoundsAssumption, NoneAssumption
  DEF StartRefused, journal, events, owner, Goto, Processes, IInv, TypeOK, ProcStates,
      Leases, Takeovers, Transactions, Intents, Receipts, States, Pcs, Outcomes, Filed,
      Alone, Open, Reserved, Unresolved, Doing, Acts, Granted
<1>7. TakenOver'
  BY ProcsAssumption, ActionsAssumption, BoundsAssumption, NoneAssumption
  DEF StartRefused, journal, events, owner, Goto, Processes, IInv, TypeOK, ProcStates,
      Leases, Takeovers, Transactions, Intents, Receipts, States, Pcs, Outcomes, Filed,
      Reserved, Doing, Acts, Granted, TakenOver
<1>8. Committed'
  BY ProcsAssumption, ActionsAssumption, BoundsAssumption, NoneAssumption
  DEF StartRefused, journal, events, owner, Goto, Processes, IInv, TypeOK, ProcStates,
      Leases, Takeovers, Transactions, Intents, Receipts, States, Pcs, Outcomes, Filed,
      Reserved, Doing, Acts, TakenOver, Committed
<1> QED
  BY <1>1, <1>2, <1>3, <1>4, <1>5, <1>6, <1>7, <1>8 DEF IInv

(* After an error of the start its receipt is uncertain exactly when the action was
   started. *)
LEMMA RefusedReceiptKeeps ==
  ASSUME IInv, NEW p \in Schedulers, RefusedReceipt(p)
  PROVE  IInv'
<1>1. TypeOK'
  <2>1. proc' \in [Processes -> ProcStates]
    BY Stepping DEF RefusedReceipt, IInv, Pcs, Processes
  <2>2. receipt' \in [Actions -> {None} \cup Receipts]
    BY Receiving DEF RefusedReceipt, IInv, TypeOK, Outcomes, Processes
  <2> QED
    BY <2>1, <2>2 DEF RefusedReceipt, events, owner, IInv, TypeOK
<1>2. Filed'
  BY ProcsAssumption, ActionsAssumption, BoundsAssumption, NoneAssumption
  DEF RefusedReceipt, events, owner, Goto, OwnerOK, Processes, IInv, TypeOK, ProcStates,
      Leases, Takeovers, Transactions, Intents, Receipts, States, Pcs, Outcomes, Filed,
      Doing, Acts
<1>3. Alone'
  BY ProcsAssumption, ActionsAssumption, BoundsAssumption, NoneAssumption
  DEF RefusedReceipt, events, owner, Goto, OwnerOK, Processes, IInv, TypeOK, ProcStates,
      Leases, Takeovers, Transactions, Intents, Receipts, States, Pcs, Outcomes, Filed,
      Alone, Open, Reserved, Unresolved
<1>4. Charged'
  BY ProcsAssumption, ActionsAssumption, BoundsAssumption, NoneAssumption, Charging
  DEF RefusedReceipt, events, owner, Goto, OwnerOK, Processes, IInv, TypeOK, ProcStates,
      Leases, Takeovers, Transactions, Intents, Receipts, States, Pcs, Outcomes, Filed,
      Charged, Open, Reserved, Unresolved, Failed
<1>5. Doing'
  BY ProcsAssumption, ActionsAssumption, BoundsAssumption, NoneAssumption
  DEF RefusedReceipt, events, owner, Goto, OwnerOK, Processes, IInv, TypeOK, ProcStates,
      Leases, Takeovers, Transactions, Intents, Receipts, States, Pcs, Outcomes, Filed,
      Doing, Acts
<1>6. Granted'
  BY ProcsAssumption, ActionsAssumption, BoundsAssumption, NoneAssumption
  DEF RefusedReceipt, events, owner, Goto, OwnerOK, Processes, IInv, TypeOK, ProcStates,
      Leases, Takeovers, Transactions, Intents, Receipts, States, Pcs, Outcomes, Filed,
      Alone, Open, Reserved, Unresolved, Doing, Acts, Granted
<1>7. TakenOver'
  BY ProcsAssumption, ActionsAssumption, BoundsAssumption, NoneAssumption
  DEF RefusedReceipt, events, owner, Goto, OwnerOK, Processes, IInv, TypeOK, ProcStates,
      Leases, Takeovers, Transactions, Intents, Receipts, States, Pcs, Outcomes, Filed,
      Reserved, Doing, Acts, Granted, TakenOver
<1>8. Committed'
  BY ProcsAssumption, ActionsAssumption, BoundsAssumption, NoneAssumption
  DEF RefusedReceipt, events, owner, Goto, OwnerOK, Processes, IInv, TypeOK, ProcStates,
      Leases, Takeovers, Transactions, Intents, Receipts, States, Pcs, Outcomes, Filed,
      Reserved, Doing, Acts, TakenOver, Committed
<1> QED
  BY <1>1, <1>2, <1>3, <1>4, <1>5, <1>6, <1>7, <1>8 DEF IInv

(* Work begins on the action that was started. *)
LEMMA RunTaskKeeps ==
  ASSUME IInv, NEW p \in Schedulers, RunTask(p)
  PROVE  IInv'
<1>1. TypeOK'
  <2>1. proc' \in [Processes -> ProcStates]
    BY Stepping DEF RunTask, IInv, Pcs, Processes
  <2>2. proc[p].act \in Actions
    BY DEF RunTask, IInv, TypeOK, Doing, Acts
  <2> QED
    BY <2>1, <2>2 DEF RunTask, journal, events, owner, IInv, TypeOK
<1>2. Filed'
  BY ProcsAssumption, ActionsAssumption, BoundsAssumption, NoneAssumption
  DEF RunTask, journal, events, owner, Goto, Processes, IInv, TypeOK, ProcStates, Leases,
      Takeovers, Transactions, Intents, Receipts, States, Pcs, Outcomes, Filed
<1>3. Alone'
  BY ProcsAssumption, ActionsAssumption, BoundsAssumption, NoneAssumption
  DEF RunTask, journal, events, owner, Goto, Processes, IInv, TypeOK, ProcStates, Leases,
      Takeovers, Transactions, Intents, Receipts, States, Pcs, Outcomes, Filed, Alone, Open,
      Reserved, Unresolved
<1>4. Charged'
  BY ProcsAssumption, ActionsAssumption, BoundsAssumption, NoneAssumption, Charging
  DEF RunTask, journal, events, owner, Goto, Processes, IInv, TypeOK, ProcStates, Leases,
      Takeovers, Transactions, Intents, Receipts, States, Pcs, Outcomes, Filed, Charged,
      Open, Reserved, Unresolved, Failed
<1>5. Doing'
  BY ProcsAssumption, ActionsAssumption, BoundsAssumption, NoneAssumption
  DEF RunTask, journal, events, owner, Goto, Processes, IInv, TypeOK, ProcStates, Leases,
      Takeovers, Transactions, Intents, Receipts, States, Pcs, Outcomes, Filed, Doing, Acts
<1>6. Granted'
  BY ProcsAssumption, ActionsAssumption, BoundsAssumption, NoneAssumption
  DEF RunTask, journal, events, owner, Goto, Processes, IInv, TypeOK, ProcStates, Leases,
      Takeovers, Transactions, Intents, Receipts, States, Pcs, Outcomes, Filed, Alone, Open,
      Reserved, Unresolved, Doing, Acts, Granted
<1>7. TakenOver'
  BY ProcsAssumption, ActionsAssumption, BoundsAssumption, NoneAssumption
  DEF RunTask, journal, events, owner, Goto, Processes, IInv, TypeOK, ProcStates, Leases,
      Takeovers, Transactions, Intents, Receipts, States, Pcs, Outcomes, Filed, Reserved,
      Doing, Acts, Granted, TakenOver
<1>8. Committed'
  BY ProcsAssumption, ActionsAssumption, BoundsAssumption, NoneAssumption
  DEF RunTask, journal, events, owner, Goto, Processes, IInv, TypeOK, ProcStates, Leases,
      Takeovers, Transactions, Intents, Receipts, States, Pcs, Outcomes, Filed, Reserved,
      Doing, Acts, TakenOver, Committed
<1> QED
  BY <1>1, <1>2, <1>3, <1>4, <1>5, <1>6, <1>7, <1>8 DEF IInv

(* The receipt of the outcome closes an action that was open, or leaves it charged as
   failed. *)
LEMMA ReceiptKeeps ==
  ASSUME IInv, NEW p \in Schedulers, Receipt(p)
  PROVE  IInv'
<1>1. TypeOK'
  <2>1. proc' \in [Processes -> ProcStates]
    BY Stepping DEF Receipt, IInv, Pcs, Processes
  <2>2. proc[p].result \in Outcomes
    BY DEF IInv, TypeOK, ProcStates, Processes
  <2>3. receipt' \in [Actions -> {None} \cup Receipts]
    BY <2>2, Receiving DEF Receipt, IInv, TypeOK, Processes
  <2> QED
    BY <2>1, <2>2, <2>3 DEF Receipt, events, owner, IInv, TypeOK
<1>2. Filed'
  BY ProcsAssumption, ActionsAssumption, BoundsAssumption, NoneAssumption
  DEF Receipt, events, owner, Goto, Processes, IInv, TypeOK, ProcStates, Leases, Takeovers,
      Transactions, Intents, Receipts, States, Pcs, Outcomes, Filed, Doing, Acts
<1>3. Alone'
  BY ProcsAssumption, ActionsAssumption, BoundsAssumption, NoneAssumption
  DEF Receipt, events, owner, Goto, Processes, IInv, TypeOK, ProcStates, Leases, Takeovers,
      Transactions, Intents, Receipts, States, Pcs, Outcomes, Filed, Alone, Open, Reserved,
      Unresolved
<1>4. Charged'
  BY SMTT(20), ProcsAssumption, ActionsAssumption, BoundsAssumption, NoneAssumption, Charging
  DEF Receipt, events, owner, Goto, Processes, IInv, TypeOK, ProcStates, Leases, Takeovers,
      Transactions, Intents, Receipts, States, Pcs, Outcomes, Filed, Charged, Open,
      Reserved, Unresolved, Failed
<1>5. Doing'
  BY ProcsAssumption, ActionsAssumption, BoundsAssumption, NoneAssumption
  DEF Receipt, events, owner, Goto, Processes, IInv, TypeOK, ProcStates, Leases, Takeovers,
      Transactions, Intents, Receipts, States, Pcs, Outcomes, Filed, Doing, Acts
<1>6. Granted'
  BY ProcsAssumption, ActionsAssumption, BoundsAssumption, NoneAssumption
  DEF Receipt, events, owner, Goto, Processes, IInv, TypeOK, ProcStates, Leases, Takeovers,
      Transactions, Intents, Receipts, States, Pcs, Outcomes, Filed, Alone, Open, Reserved,
      Unresolved, Doing, Acts, Granted
<1>7. TakenOver'
  BY ProcsAssumption, ActionsAssumption, BoundsAssumption, NoneAssumption
  DEF Receipt, events, owner, Goto, Processes, IInv, TypeOK, ProcStates, Leases, Takeovers,
      Transactions, Intents, Receipts, States, Pcs, Outcomes, Filed, Reserved, Doing, Acts,
      Granted, TakenOver
<1>8. Committed'
  BY ProcsAssumption, ActionsAssumption, BoundsAssumption, NoneAssumption
  DEF Receipt, events, owner, Goto, Processes, IInv, TypeOK, ProcStates, Leases, Takeovers,
      Transactions, Intents, Receipts, States, Pcs, Outcomes, Filed, Reserved, Doing, Acts,
      TakenOver, Committed
<1> QED
  BY <1>1, <1>2, <1>3, <1>4, <1>5, <1>6, <1>7, <1>8 DEF IInv

(* Without a receipt the action stays open. *)
LEMMA ReceiptFailsKeeps ==
  ASSUME IInv, NEW p \in Schedulers, ReceiptFails(p)
  PROVE  IInv'
<1>1. TypeOK'
  BY ProcsAssumption, ActionsAssumption, BoundsAssumption, NoneAssumption
  DEF ReceiptFails, journal, events, owner, Goto, Processes, IInv, TypeOK, ProcStates,
      Leases, Takeovers, Transactions, Intents, Receipts, States, Pcs
<1>2. Filed'
  BY ProcsAssumption, ActionsAssumption, BoundsAssumption, NoneAssumption
  DEF ReceiptFails, journal, events, owner, Goto, Processes, IInv, TypeOK, ProcStates,
      Leases, Takeovers, Transactions, Intents, Receipts, States, Pcs, Outcomes, Filed
<1>3. Alone'
  BY ProcsAssumption, ActionsAssumption, BoundsAssumption, NoneAssumption
  DEF ReceiptFails, journal, events, owner, Goto, Processes, IInv, TypeOK, ProcStates,
      Leases, Takeovers, Transactions, Intents, Receipts, States, Pcs, Outcomes, Filed,
      Alone, Open, Reserved, Unresolved
<1>4. Charged'
  BY ProcsAssumption, ActionsAssumption, BoundsAssumption, NoneAssumption, Charging
  DEF ReceiptFails, journal, events, owner, Goto, Processes, IInv, TypeOK, ProcStates,
      Leases, Takeovers, Transactions, Intents, Receipts, States, Pcs, Outcomes, Filed,
      Charged, Open, Reserved, Unresolved, Failed
<1>5. Doing'
  BY ProcsAssumption, ActionsAssumption, BoundsAssumption, NoneAssumption
  DEF ReceiptFails, journal, events, owner, Goto, Processes, IInv, TypeOK, ProcStates,
      Leases, Takeovers, Transactions, Intents, Receipts, States, Pcs, Outcomes, Filed,
      Doing, Acts
<1>6. Granted'
  BY ProcsAssumption, ActionsAssumption, BoundsAssumption, NoneAssumption
  DEF ReceiptFails, journal, events, owner, Goto, Processes, IInv, TypeOK, ProcStates,
      Leases, Takeovers, Transactions, Intents, Receipts, States, Pcs, Outcomes, Filed,
      Alone, Open, Reserved, Unresolved, Doing, Acts, Granted
<1>7. TakenOver'
  BY ProcsAssumption, ActionsAssumption, BoundsAssumption, NoneAssumption
  DEF ReceiptFails, journal, events, owner, Goto, Processes, IInv, TypeOK, ProcStates,
      Leases, Takeovers, Transactions, Intents, Receipts, States, Pcs, Outcomes, Filed,
      Reserved, Doing, Acts, Granted, TakenOver
<1>8. Committed'
  BY ProcsAssumption, ActionsAssumption, BoundsAssumption, NoneAssumption
  DEF ReceiptFails, journal, events, owner, Goto, Processes, IInv, TypeOK, ProcStates,
      Leases, Takeovers, Transactions, Intents, Receipts, States, Pcs, Outcomes, Filed,
      Reserved, Doing, Acts, TakenOver, Committed
<1> QED
  BY <1>1, <1>2, <1>3, <1>4, <1>5, <1>6, <1>7, <1>8 DEF IInv

(* A lease that is released keeps its generation. *)
LEMMA ReleaseKeeps ==
  ASSUME IInv, NEW p \in Schedulers, Release(p)
  PROVE  IInv'
<1>1. TypeOK'
  BY ProcsAssumption, ActionsAssumption, BoundsAssumption, NoneAssumption
  DEF Release, journal, events, owner, Idle, OwnerOK, Processes, IInv, TypeOK, ProcStates,
      Leases, Takeovers, Transactions, Intents, Receipts, States, Pcs, Outcomes
<1>2. Filed'
  BY ProcsAssumption, ActionsAssumption, BoundsAssumption, NoneAssumption
  DEF Release, journal, events, owner, Idle, OwnerOK, Processes, IInv, TypeOK, ProcStates,
      Leases, Takeovers, Transactions, Intents, Receipts, States, Pcs, Outcomes, Filed
<1>3. Alone'
  BY ProcsAssumption, ActionsAssumption, BoundsAssumption, NoneAssumption
  DEF Release, journal, events, owner, Idle, OwnerOK, Processes, IInv, TypeOK, ProcStates,
      Leases, Takeovers, Transactions, Intents, Receipts, States, Pcs, Outcomes, Filed,
      Alone, Open, Reserved, Unresolved
<1>4. Charged'
  BY ProcsAssumption, ActionsAssumption, BoundsAssumption, NoneAssumption, Charging
  DEF Release, journal, events, owner, Idle, OwnerOK, Processes, IInv, TypeOK, ProcStates,
      Leases, Takeovers, Transactions, Intents, Receipts, States, Pcs, Outcomes, Filed,
      Charged, Open, Reserved, Unresolved, Failed
<1>5. Doing'
  BY ProcsAssumption, ActionsAssumption, BoundsAssumption, NoneAssumption
  DEF Release, journal, events, owner, Idle, OwnerOK, Processes, IInv, TypeOK, ProcStates,
      Leases, Takeovers, Transactions, Intents, Receipts, States, Pcs, Outcomes, Filed,
      Doing, Acts
<1>6. Granted'
  <2>1. /\ proc'[p] = Idle /\ \A q \in Schedulers : q # p => proc'[q] = proc[q]
        /\ takeover = None /\ UNCHANGED <<takeover, lock, journal>>
    BY DEF Release, IInv, TypeOK, Processes
  <2>2. lease \in Leases /\ lease' \in Leases /\ lease'.gen = lease.gen /\ lease' # None
    BY NoneAssumption DEF Release, OwnerOK, IInv, TypeOK, Leases
  <2>3. Reserved' = Reserved
    BY <2>1 DEF journal, Reserved
  <2> QED
    BY <2>1, <2>2, <2>3 DEF Idle, IInv, Granted, journal
<1>7. TakenOver'
  BY ZenonT(30), ProcsAssumption, ActionsAssumption, BoundsAssumption, NoneAssumption
  DEF Release, journal, events, owner, Idle, OwnerOK, Processes, IInv, TypeOK, ProcStates,
      Leases, Takeovers, Transactions, Intents, Receipts, States, Pcs, Outcomes, Filed,
      Reserved, Doing, Acts, Granted, TakenOver, Committed
<1>8. Committed'
  BY ProcsAssumption, ActionsAssumption, BoundsAssumption, NoneAssumption
  DEF Release, journal, events, owner, Idle, OwnerOK, Processes, IInv, TypeOK, ProcStates,
      Leases, Takeovers, Transactions, Intents, Receipts, States, Pcs, Outcomes, Filed,
      Reserved, Doing, Acts, TakenOver, Committed
<1> QED
  BY <1>1, <1>2, <1>3, <1>4, <1>5, <1>6, <1>7, <1>8 DEF IInv

(* A release that fails leaves the lease. *)
LEMMA ReleaseFailsKeeps ==
  ASSUME IInv, NEW p \in Schedulers, ReleaseFails(p)
  PROVE  IInv'
<1>1. TypeOK'
  BY ProcsAssumption, ActionsAssumption, BoundsAssumption, NoneAssumption
  DEF ReleaseFails, journal, events, owner, Idle, Processes, IInv, TypeOK, ProcStates,
      Leases, Takeovers, Transactions, Intents, Receipts, States, Pcs, Outcomes
<1>2. Filed'
  BY ProcsAssumption, ActionsAssumption, BoundsAssumption, NoneAssumption
  DEF ReleaseFails, journal, events, owner, Idle, Processes, IInv, TypeOK, ProcStates,
      Leases, Takeovers, Transactions, Intents, Receipts, States, Pcs, Outcomes, Filed
<1>3. Alone'
  BY ProcsAssumption, ActionsAssumption, BoundsAssumption, NoneAssumption
  DEF ReleaseFails, journal, events, owner, Idle, Processes, IInv, TypeOK, ProcStates,
      Leases, Takeovers, Transactions, Intents, Receipts, States, Pcs, Outcomes, Filed,
      Alone, Open, Reserved, Unresolved
<1>4. Charged'
  BY ProcsAssumption, ActionsAssumption, BoundsAssumption, NoneAssumption, Charging
  DEF ReleaseFails, journal, events, owner, Idle, Processes, IInv, TypeOK, ProcStates,
      Leases, Takeovers, Transactions, Intents, Receipts, States, Pcs, Outcomes, Filed,
      Charged, Open, Reserved, Unresolved, Failed
<1>5. Doing'
  BY ProcsAssumption, ActionsAssumption, BoundsAssumption, NoneAssumption
  DEF ReleaseFails, journal, events, owner, Idle, Processes, IInv, TypeOK, ProcStates,
      Leases, Takeovers, Transactions, Intents, Receipts, States, Pcs, Outcomes, Filed,
      Doing, Acts
<1>6. Granted'
  BY ProcsAssumption, ActionsAssumption, BoundsAssumption, NoneAssumption
  DEF ReleaseFails, journal, events, owner, Idle, Processes, IInv, TypeOK, ProcStates,
      Leases, Takeovers, Transactions, Intents, Receipts, States, Pcs, Outcomes, Filed,
      Alone, Open, Reserved, Unresolved, Doing, Acts, Granted
<1>7. TakenOver'
  BY ProcsAssumption, ActionsAssumption, BoundsAssumption, NoneAssumption
  DEF ReleaseFails, journal, events, owner, Idle, Processes, IInv, TypeOK, ProcStates,
      Leases, Takeovers, Transactions, Intents, Receipts, States, Pcs, Outcomes, Filed,
      Reserved, Doing, Acts, Granted, TakenOver
<1>8. Committed'
  BY ProcsAssumption, ActionsAssumption, BoundsAssumption, NoneAssumption
  DEF ReleaseFails, journal, events, owner, Idle, Processes, IInv, TypeOK, ProcStates,
      Leases, Takeovers, Transactions, Intents, Receipts, States, Pcs, Outcomes, Filed,
      Reserved, Doing, Acts, TakenOver, Committed
<1> QED
  BY <1>1, <1>2, <1>3, <1>4, <1>5, <1>6, <1>7, <1>8 DEF IInv

(* A scheduler plans an action that has no intent and that no other has. *)
LEMMA PlanKeeps ==
  ASSUME IInv, NEW p \in Schedulers, NEW a \in Actions, Plan(p, a)
  PROVE  IInv'
<1>1. TypeOK'
  BY ProcsAssumption, ActionsAssumption, BoundsAssumption, NoneAssumption
  DEF Plan, journal, events, owner, Processes, IInv, TypeOK, ProcStates
<1>2. Filed'
  BY ProcsAssumption, ActionsAssumption, BoundsAssumption, NoneAssumption
  DEF Plan, journal, events, owner, Processes, IInv, TypeOK, ProcStates
<1>3. Alone'
  BY ProcsAssumption, ActionsAssumption, BoundsAssumption, NoneAssumption
  DEF Plan, journal, events, owner, Processes, IInv, TypeOK, ProcStates, Leases, Takeovers,
      Transactions
<1>4. Charged'
  BY ProcsAssumption, ActionsAssumption, BoundsAssumption, NoneAssumption, Charging
  DEF Plan, journal, events, owner, Processes, IInv, TypeOK, ProcStates, Leases
<1>5. Doing'
  BY ProcsAssumption, ActionsAssumption, BoundsAssumption, NoneAssumption
  DEF Plan, journal, events, owner, Processes, IInv, TypeOK, ProcStates
<1>6. Granted'
  BY ProcsAssumption, ActionsAssumption, BoundsAssumption, NoneAssumption
  DEF Plan, journal, events, owner, Processes, IInv, TypeOK, ProcStates, Leases, Takeovers,
      Transactions
<1>7. TakenOver'
  BY ProcsAssumption, ActionsAssumption, BoundsAssumption, NoneAssumption
  DEF Plan, journal, events, owner, Processes, IInv, TypeOK, ProcStates, Leases, Takeovers
<1>8. Committed'
  BY ProcsAssumption, ActionsAssumption, BoundsAssumption, NoneAssumption
  DEF Plan, journal, events, owner, Processes, IInv, TypeOK, ProcStates, Leases
<1> QED
  BY <1>1, <1>2, <1>3, <1>4, <1>5, <1>6, <1>7, <1>8 DEF IInv

(* The outcome is known to the scheduler, not yet to the journal. *)
LEMMA TaskEndsKeeps ==
  ASSUME IInv, NEW p \in Schedulers, NEW result \in Outcomes, TaskEnds(p, result)
  PROVE  IInv'
<1>1. TypeOK'
  <2>1. "ran" \in Pcs
    BY DEF Pcs
  <2>2. proc' \in [Processes -> ProcStates]
    BY <2>1 DEF TaskEnds, IInv, TypeOK, ProcStates
  <2> QED
    BY <2>1, <2>2 DEF TaskEnds, journal, events, owner, IInv, TypeOK
<1>2. Filed'
  BY ProcsAssumption, ActionsAssumption, BoundsAssumption, NoneAssumption
  DEF TaskEnds, journal, events, owner, Processes, IInv, TypeOK, ProcStates, Leases,
      Takeovers, Transactions, Intents, Receipts, States, Pcs, Outcomes, Filed
<1>3. Alone'
  BY ProcsAssumption, ActionsAssumption, BoundsAssumption, NoneAssumption
  DEF TaskEnds, journal, events, owner, Processes, IInv, TypeOK, ProcStates, Leases,
      Takeovers, Transactions, Intents, Receipts, States, Pcs, Outcomes, Filed, Alone, Open,
      Reserved, Unresolved
<1>4. Charged'
  BY ProcsAssumption, ActionsAssumption, BoundsAssumption, NoneAssumption, Charging
  DEF TaskEnds, journal, events, owner, Processes, IInv, TypeOK, ProcStates, Leases,
      Takeovers, Transactions, Intents, Receipts, States, Pcs, Outcomes, Filed, Charged,
      Open, Reserved, Unresolved, Failed
<1>5. Doing'
  BY ProcsAssumption, ActionsAssumption, BoundsAssumption, NoneAssumption
  DEF TaskEnds, journal, events, owner, Processes, IInv, TypeOK, ProcStates, Leases,
      Takeovers, Transactions, Intents, Receipts, States, Pcs, Outcomes, Filed, Doing, Acts
<1>6. Granted'
  BY ProcsAssumption, ActionsAssumption, BoundsAssumption, NoneAssumption
  DEF TaskEnds, journal, events, owner, Processes, IInv, TypeOK, ProcStates, Leases,
      Takeovers, Transactions, Intents, Receipts, States, Pcs, Outcomes, Filed, Alone, Open,
      Reserved, Unresolved, Doing, Acts, Granted
<1>7. TakenOver'
  BY ProcsAssumption, ActionsAssumption, BoundsAssumption, NoneAssumption
  DEF TaskEnds, journal, events, owner, Processes, IInv, TypeOK, ProcStates, Leases,
      Takeovers, Transactions, Intents, Receipts, States, Pcs, Outcomes, Filed, Reserved,
      Doing, Acts, Granted, TakenOver
<1>8. Committed'
  BY ProcsAssumption, ActionsAssumption, BoundsAssumption, NoneAssumption
  DEF TaskEnds, journal, events, owner, Processes, IInv, TypeOK, ProcStates, Leases,
      Takeovers, Transactions, Intents, Receipts, States, Pcs, Outcomes, Filed, Reserved,
      Doing, Acts, TakenOver, Committed
<1> QED
  BY <1>1, <1>2, <1>3, <1>4, <1>5, <1>6, <1>7, <1>8 DEF IInv

(* What the takeover cancels was reserved and never started. *)
LEMMA TakeoverCancelsKeeps ==
  ASSUME IInv, NEW a \in Actions, TakeoverCancels(a)
  PROVE  IInv'
<1>1. TypeOK'
  BY ProcsAssumption, ActionsAssumption, BoundsAssumption, NoneAssumption
  DEF TakeoverCancels, events, owner, TakeoverReadable, Fits, ByTakeover, Processes, IInv,
      TypeOK, ProcStates, Leases, Takeovers, Transactions, Intents, Receipts, States
<1>2. Filed'
  BY ProcsAssumption, ActionsAssumption, BoundsAssumption, NoneAssumption
  DEF TakeoverCancels, events, owner, TakeoverReadable, Fits, ByTakeover, Processes, IInv,
      TypeOK, ProcStates, Leases, Takeovers, Transactions, Intents, Receipts, States, Pcs,
      Outcomes, Filed, Doing, Acts, TakenOver
<1>3. Alone'
  BY ProcsAssumption, ActionsAssumption, BoundsAssumption, NoneAssumption
  DEF TakeoverCancels, events, owner, TakeoverReadable, Fits, ByTakeover, Processes, IInv,
      TypeOK, ProcStates, Leases, Takeovers, Transactions, Intents, Receipts, States, Pcs,
      Outcomes, Filed, Alone, Open, Reserved, Unresolved
<1>4. Charged'
  BY SMTT(20), ProcsAssumption, ActionsAssumption, BoundsAssumption, NoneAssumption, Charging
  DEF TakeoverCancels, events, owner, TakeoverReadable, Fits, ByTakeover, Processes, IInv,
      TypeOK, ProcStates, Leases, Takeovers, Transactions, Intents, Receipts, States, Pcs,
      Outcomes, Filed, Charged, Open, Reserved, Unresolved, Failed
<1>5. Doing'
  BY ProcsAssumption, ActionsAssumption, BoundsAssumption, NoneAssumption
  DEF TakeoverCancels, events, owner, TakeoverReadable, Fits, ByTakeover, Processes, IInv,
      TypeOK, ProcStates, Leases, Takeovers, Transactions, Intents, Receipts, States, Pcs,
      Outcomes, Filed, Doing, Acts
<1>6. Granted'
  BY ProcsAssumption, ActionsAssumption, BoundsAssumption, NoneAssumption
  DEF TakeoverCancels, events, owner, TakeoverReadable, Fits, ByTakeover, Processes, IInv,
      TypeOK, ProcStates, Leases, Takeovers, Transactions, Intents, Receipts, States, Pcs,
      Outcomes, Filed, Alone, Open, Reserved, Unresolved, Doing, Acts, Granted
<1>7. TakenOver'
  BY ProcsAssumption, ActionsAssumption, BoundsAssumption, NoneAssumption
  DEF TakeoverCancels, events, owner, TakeoverReadable, Fits, ByTakeover, Processes, IInv,
      TypeOK, ProcStates, Leases, Takeovers, Transactions, Intents, Receipts, States, Pcs,
      Outcomes, Filed, Reserved, Doing, Acts, Granted, TakenOver
<1>8. Committed'
  BY ProcsAssumption, ActionsAssumption, BoundsAssumption, NoneAssumption
  DEF TakeoverCancels, events, owner, TakeoverReadable, Fits, ByTakeover, Processes, IInv,
      TypeOK, ProcStates, Leases, Takeovers, Transactions, Intents, Receipts, States, Pcs,
      Outcomes, Filed, Reserved, Doing, Acts, TakenOver, Committed
<1> QED
  BY <1>1, <1>2, <1>3, <1>4, <1>5, <1>6, <1>7, <1>8 DEF IInv

(* What the event cancels was reserved and never started. *)
LEMMA EventCancelsKeeps ==
  ASSUME IInv, NEW a \in Actions, EventCancels(a)
  PROVE  IInv'
<1>1. TypeOK'
  BY ProcsAssumption, ActionsAssumption, BoundsAssumption, NoneAssumption
  DEF EventCancels, events, owner, PendingReadable, Fits, ByEvent, Processes, IInv, TypeOK,
      ProcStates, Leases, Takeovers, Transactions, Intents, Receipts, States
<1>2. Filed'
  BY ProcsAssumption, ActionsAssumption, BoundsAssumption, NoneAssumption
  DEF EventCancels, events, owner, PendingReadable, Fits, ByEvent, Processes, IInv, TypeOK,
      ProcStates, Leases, Takeovers, Transactions, Intents, Receipts, States, Pcs, Outcomes,
      Filed, Doing, Acts, TakenOver, Committed
<1>3. Alone'
  BY ProcsAssumption, ActionsAssumption, BoundsAssumption, NoneAssumption
  DEF EventCancels, events, owner, PendingReadable, Fits, ByEvent, Processes, IInv, TypeOK,
      ProcStates, Leases, Takeovers, Transactions, Intents, Receipts, States, Pcs, Outcomes,
      Filed, Alone, Open, Reserved, Unresolved
<1>4. Charged'
  BY SMTT(20), ProcsAssumption, ActionsAssumption, BoundsAssumption, NoneAssumption, Charging
  DEF EventCancels, events, owner, PendingReadable, Fits, ByEvent, Processes, IInv, TypeOK,
      ProcStates, Leases, Takeovers, Transactions, Intents, Receipts, States, Pcs, Outcomes,
      Filed, Charged, Open, Reserved, Unresolved, Failed
<1>5. Doing'
  BY ProcsAssumption, ActionsAssumption, BoundsAssumption, NoneAssumption
  DEF EventCancels, events, owner, PendingReadable, Fits, ByEvent, Processes, IInv, TypeOK,
      ProcStates, Leases, Takeovers, Transactions, Intents, Receipts, States, Pcs, Outcomes,
      Filed, Doing, Acts
<1>6. Granted'
  BY ProcsAssumption, ActionsAssumption, BoundsAssumption, NoneAssumption
  DEF EventCancels, events, owner, PendingReadable, Fits, ByEvent, Processes, IInv, TypeOK,
      ProcStates, Leases, Takeovers, Transactions, Intents, Receipts, States, Pcs, Outcomes,
      Filed, Alone, Open, Reserved, Unresolved, Doing, Acts, Granted
<1>7. TakenOver'
  BY ProcsAssumption, ActionsAssumption, BoundsAssumption, NoneAssumption
  DEF EventCancels, events, owner, PendingReadable, Fits, ByEvent, Processes, IInv, TypeOK,
      ProcStates, Leases, Takeovers, Transactions, Intents, Receipts, States, Pcs, Outcomes,
      Filed, Reserved, Doing, Acts, Granted, TakenOver
<1>8. Committed'
  BY ProcsAssumption, ActionsAssumption, BoundsAssumption, NoneAssumption
  DEF EventCancels, events, owner, PendingReadable, Fits, ByEvent, Processes, IInv, TypeOK,
      ProcStates, Leases, Takeovers, Transactions, Intents, Receipts, States, Pcs, Outcomes,
      Filed, Reserved, Doing, Acts, TakenOver, Committed
<1> QED
  BY <1>1, <1>2, <1>3, <1>4, <1>5, <1>6, <1>7, <1>8 DEF IInv

(* Resetting a task changes no file of the engine. *)
LEMMA ResetTaskKeeps ==
  ASSUME IInv, NEW a \in Actions, ResetTask(a)
  PROVE  IInv'
<1>1. TypeOK'
  BY ProcsAssumption, ActionsAssumption, BoundsAssumption, NoneAssumption
  DEF ResetTask, journal, events, owner, Processes, IInv, TypeOK, ProcStates
<1>2. Filed'
  BY ProcsAssumption, ActionsAssumption, BoundsAssumption, NoneAssumption
  DEF ResetTask, journal, events, owner, Processes, IInv, TypeOK, ProcStates, Leases,
      Takeovers, Transactions, Intents, Receipts, States, Pcs, Outcomes, Filed
<1>3. Alone'
  BY ProcsAssumption, ActionsAssumption, BoundsAssumption, NoneAssumption
  DEF ResetTask, journal, events, owner, Processes, IInv, TypeOK, ProcStates, Leases,
      Takeovers, Transactions, Intents, Receipts, States, Pcs, Outcomes, Filed, Alone, Open,
      Reserved, Unresolved
<1>4. Charged'
  BY ProcsAssumption, ActionsAssumption, BoundsAssumption, NoneAssumption, Charging
  DEF ResetTask, journal, events, owner, Processes, IInv, TypeOK, ProcStates, Leases,
      Takeovers, Transactions, Intents, Receipts, States, Pcs, Outcomes, Filed, Charged,
      Open, Reserved, Unresolved, Failed
<1>5. Doing'
  BY ProcsAssumption, ActionsAssumption, BoundsAssumption, NoneAssumption
  DEF ResetTask, journal, events, owner, Processes, IInv, TypeOK, ProcStates, Leases,
      Takeovers, Transactions, Intents, Receipts, States, Pcs, Outcomes, Filed, Doing, Acts
<1>6. Granted'
  BY ProcsAssumption, ActionsAssumption, BoundsAssumption, NoneAssumption
  DEF ResetTask, journal, events, owner, Processes, IInv, TypeOK, ProcStates, Leases,
      Takeovers, Transactions, Intents, Receipts, States, Pcs, Outcomes, Filed, Alone, Open,
      Reserved, Unresolved, Doing, Acts, Granted
<1>7. TakenOver'
  BY ProcsAssumption, ActionsAssumption, BoundsAssumption, NoneAssumption
  DEF ResetTask, journal, events, owner, Processes, IInv, TypeOK, ProcStates, Leases,
      Takeovers, Transactions, Intents, Receipts, States, Pcs, Outcomes, Filed, Reserved,
      Doing, Acts, Granted, TakenOver
<1>8. Committed'
  BY ProcsAssumption, ActionsAssumption, BoundsAssumption, NoneAssumption
  DEF ResetTask, journal, events, owner, Processes, IInv, TypeOK, ProcStates, Leases,
      Takeovers, Transactions, Intents, Receipts, States, Pcs, Outcomes, Filed, Reserved,
      Doing, Acts, TakenOver, Committed
<1> QED
  BY <1>1, <1>2, <1>3, <1>4, <1>5, <1>6, <1>7, <1>8 DEF IInv

(* When the record of a takeover goes, nothing is reserved, or its lease was never
   taken. *)
LEMMA TakeoverEndsKeeps ==
  ASSUME IInv, TakeoverEnds
  PROVE  IInv'
<1>1. TypeOK'
  BY ProcsAssumption, ActionsAssumption, BoundsAssumption, NoneAssumption
  DEF TakeoverEnds, journal, events, TakeoverReadable, ByTakeover, Processes, IInv, TypeOK,
      ProcStates
<1>2. Filed'
  BY ProcsAssumption, ActionsAssumption, BoundsAssumption, NoneAssumption
  DEF TakeoverEnds, journal, events, owner, TakeoverReadable, ByTakeover, Processes, IInv,
      TypeOK, ProcStates, Leases, Takeovers, Transactions, Intents, Receipts, States, Pcs,
      Outcomes, Filed
<1>3. Alone'
  BY ProcsAssumption, ActionsAssumption, BoundsAssumption, NoneAssumption
  DEF TakeoverEnds, journal, events, owner, TakeoverReadable, ByTakeover, Processes, IInv,
      TypeOK, ProcStates, Leases, Takeovers, Transactions, Intents, Receipts, States, Pcs,
      Outcomes, Filed, Alone, Open, Reserved, Unresolved
<1>4. Charged'
  BY ProcsAssumption, ActionsAssumption, BoundsAssumption, NoneAssumption, Charging
  DEF TakeoverEnds, journal, events, owner, TakeoverReadable, ByTakeover, Processes, IInv,
      TypeOK, ProcStates, Leases, Takeovers, Transactions, Intents, Receipts, States, Pcs,
      Outcomes, Filed, Charged, Open, Reserved, Unresolved, Failed
<1>5. Doing'
  BY ProcsAssumption, ActionsAssumption, BoundsAssumption, NoneAssumption
  DEF TakeoverEnds, journal, events, owner, TakeoverReadable, ByTakeover, Processes, IInv,
      TypeOK, ProcStates, Leases, Takeovers, Transactions, Intents, Receipts, States, Pcs,
      Outcomes, Filed, Doing, Acts
<1>6. Granted'
  BY ProcsAssumption, ActionsAssumption, BoundsAssumption, NoneAssumption
  DEF TakeoverEnds, journal, events, owner, TakeoverReadable, ByTakeover, Processes, IInv,
      TypeOK, ProcStates, Leases, Takeovers, Transactions, Intents, Receipts, States, Pcs,
      Outcomes, Filed, Alone, Open, Reserved, Unresolved, Doing, Acts, Granted
<1>7. TakenOver'
  BY ProcsAssumption, ActionsAssumption, BoundsAssumption, NoneAssumption
  DEF TakeoverEnds, journal, events, owner, TakeoverReadable, ByTakeover, Processes, IInv,
      TypeOK, ProcStates, Leases, Takeovers, Transactions, Intents, Receipts, States, Pcs,
      Outcomes, Filed, Reserved, Doing, Acts, Granted, TakenOver
<1>8. Committed'
  BY ProcsAssumption, ActionsAssumption, BoundsAssumption, NoneAssumption
  DEF TakeoverEnds, journal, events, owner, TakeoverReadable, ByTakeover, Processes, IInv,
      TypeOK, ProcStates, Leases, Takeovers, Transactions, Intents, Receipts, States, Pcs,
      Outcomes, Filed, Reserved, Doing, Acts, TakenOver, Committed
<1> QED
  BY <1>1, <1>2, <1>3, <1>4, <1>5, <1>6, <1>7, <1>8 DEF IInv

(* When a transaction goes, nothing is reserved, or its event never reached the log. *)
LEMMA EventEndsKeeps ==
  ASSUME IInv, EventEnds
  PROVE  IInv'
<1>1. TypeOK'
  BY ProcsAssumption, ActionsAssumption, BoundsAssumption, NoneAssumption
  DEF EventEnds, journal, owner, Idle, PendingReadable, ByEvent, Processes, IInv, TypeOK,
      ProcStates, Leases, Takeovers, Transactions, Intents, Receipts, States, Pcs, Outcomes
<1>2. Filed'
  BY ProcsAssumption, ActionsAssumption, BoundsAssumption, NoneAssumption
  DEF EventEnds, journal, owner, Idle, PendingReadable, ByEvent, Processes, IInv, TypeOK,
      ProcStates, Leases, Takeovers, Transactions, Intents, Receipts, States, Pcs, Outcomes,
      Filed
<1>3. Alone'
  BY ProcsAssumption, ActionsAssumption, BoundsAssumption, NoneAssumption
  DEF EventEnds, journal, owner, Idle, PendingReadable, ByEvent, Processes, IInv, TypeOK,
      ProcStates, Leases, Takeovers, Transactions, Intents, Receipts, States, Pcs, Outcomes,
      Filed, Alone, Open, Reserved, Unresolved
<1>4. Charged'
  BY ProcsAssumption, ActionsAssumption, BoundsAssumption, NoneAssumption, Charging
  DEF EventEnds, journal, owner, Idle, PendingReadable, ByEvent, Processes, IInv, TypeOK,
      ProcStates, Leases, Takeovers, Transactions, Intents, Receipts, States, Pcs, Outcomes,
      Filed, Charged, Open, Reserved, Unresolved, Failed
<1>5. Doing'
  BY ProcsAssumption, ActionsAssumption, BoundsAssumption, NoneAssumption
  DEF EventEnds, journal, owner, Idle, PendingReadable, ByEvent, Processes, IInv, TypeOK,
      ProcStates, Leases, Takeovers, Transactions, Intents, Receipts, States, Pcs, Outcomes,
      Filed, Doing, Acts
<1>6. Granted'
  BY ProcsAssumption, ActionsAssumption, BoundsAssumption, NoneAssumption
  DEF EventEnds, journal, owner, Idle, PendingReadable, ByEvent, Processes, IInv, TypeOK,
      ProcStates, Leases, Takeovers, Transactions, Intents, Receipts, States, Pcs, Outcomes,
      Filed, Alone, Open, Reserved, Unresolved, Doing, Acts, Granted
<1>7. TakenOver'
  BY ProcsAssumption, ActionsAssumption, BoundsAssumption, NoneAssumption
  DEF EventEnds, journal, owner, Idle, PendingReadable, ByEvent, Processes, IInv, TypeOK,
      ProcStates, Leases, Takeovers, Transactions, Intents, Receipts, States, Pcs, Outcomes,
      Filed, Reserved, Doing, Acts, Granted, TakenOver
<1>8. Committed'
  BY ProcsAssumption, ActionsAssumption, BoundsAssumption, NoneAssumption
  DEF EventEnds, journal, owner, Idle, PendingReadable, ByEvent, Processes, IInv, TypeOK,
      ProcStates, Leases, Takeovers, Transactions, Intents, Receipts, States, Pcs, Outcomes,
      Filed, Reserved, Doing, Acts, TakenOver, Committed
<1> QED
  BY <1>1, <1>2, <1>3, <1>4, <1>5, <1>6, <1>7, <1>8 DEF IInv

(* Once the event counts, what is reserved is cancelled with it. *)
LEMMA AppendEventKeeps ==
  ASSUME IInv, AppendEvent
  PROVE  IInv'
<1>1. TypeOK'
  <2>1. proc' \in [Processes -> ProcStates]
    BY Stepping DEF AppendEvent, IInv, Pcs, Processes
  <2>2. pending \in Transactions
    BY DEF AppendEvent, IInv, TypeOK, Committed
  <2> QED
    BY <2>1, <2>2 DEF AppendEvent, journal, owner, IInv, TypeOK, Transactions
<1>2. Filed'
  BY ProcsAssumption, ActionsAssumption, BoundsAssumption, NoneAssumption
  DEF AppendEvent, journal, owner, Goto, Processes, IInv, TypeOK, ProcStates, Leases,
      Takeovers, Transactions, Intents, Receipts, States, Pcs, Outcomes, Filed
<1>3. Alone'
  BY ProcsAssumption, ActionsAssumption, BoundsAssumption, NoneAssumption
  DEF AppendEvent, journal, owner, Goto, Processes, IInv, TypeOK, ProcStates, Leases,
      Takeovers, Transactions, Intents, Receipts, States, Pcs, Outcomes, Filed, Alone, Open,
      Reserved, Unresolved
<1>4. Charged'
  BY ProcsAssumption, ActionsAssumption, BoundsAssumption, NoneAssumption, Charging
  DEF AppendEvent, journal, owner, Goto, Processes, IInv, TypeOK, ProcStates, Leases,
      Takeovers, Transactions, Intents, Receipts, States, Pcs, Outcomes, Filed, Charged,
      Open, Reserved, Unresolved, Failed
<1>5. Doing'
  BY ProcsAssumption, ActionsAssumption, BoundsAssumption, NoneAssumption
  DEF AppendEvent, journal, owner, Goto, Processes, IInv, TypeOK, ProcStates, Leases,
      Takeovers, Transactions, Intents, Receipts, States, Pcs, Outcomes, Filed, Doing, Acts
<1>6. Granted'
  BY ProcsAssumption, ActionsAssumption, BoundsAssumption, NoneAssumption
  DEF AppendEvent, journal, owner, Goto, Processes, IInv, TypeOK, ProcStates, Leases,
      Takeovers, Transactions, Intents, Receipts, States, Pcs, Outcomes, Filed, Alone, Open,
      Reserved, Unresolved, Doing, Acts, Granted
<1>7. TakenOver'
  BY ProcsAssumption, ActionsAssumption, BoundsAssumption, NoneAssumption
  DEF AppendEvent, journal, owner, Goto, Processes, IInv, TypeOK, ProcStates, Leases,
      Takeovers, Transactions, Intents, Receipts, States, Pcs, Outcomes, Filed, Reserved,
      Doing, Acts, Granted, TakenOver
<1>8. Committed'
  BY ProcsAssumption, ActionsAssumption, BoundsAssumption, NoneAssumption
  DEF AppendEvent, journal, owner, Goto, Processes, IInv, TypeOK, ProcStates, Leases,
      Takeovers, Transactions, Intents, Receipts, States, Pcs, Outcomes, Filed, Reserved,
      Doing, Acts, TakenOver, Committed
<1> QED
  BY <1>1, <1>2, <1>3, <1>4, <1>5, <1>6, <1>7, <1>8 DEF IInv

(* A transaction names everything that is reserved. *)
LEMMA WritePendingKeeps ==
  ASSUME IInv, NEW command \in Commands, WritePending(command)
  PROVE  IInv'
<1>1. TypeOK'
  <2>1. proc' \in [Processes -> ProcStates]
    BY Stepping DEF WritePending, IInv, Pcs, Processes
  <2>2. NextState(command) \in States
    BY DEF NextState, Commands, States, IInv, TypeOK
  <2>3. pending' \in Transactions
    BY <2>2 DEF WritePending, Transactions, IInv, TypeOK, Reserved
  <2> QED
    BY <2>1, <2>2, <2>3 DEF WritePending, journal, owner, IInv, TypeOK, Processes
<1>2. Filed'
  BY ProcsAssumption, ActionsAssumption, BoundsAssumption, NoneAssumption
  DEF WritePending, journal, owner, Goto, NextState, Processes, IInv, TypeOK, ProcStates,
      Leases, Takeovers, Transactions, Intents, Receipts, States, Pcs, Outcomes, Commands,
      Filed
<1>3. Alone'
  BY ProcsAssumption, ActionsAssumption, BoundsAssumption, NoneAssumption
  DEF WritePending, journal, owner, Goto, NextState, Processes, IInv, TypeOK, ProcStates,
      Leases, Takeovers, Transactions, Intents, Receipts, States, Pcs, Outcomes, Commands,
      Filed, Alone, Open, Reserved, Unresolved
<1>4. Charged'
  BY ProcsAssumption, ActionsAssumption, BoundsAssumption, NoneAssumption, Charging
  DEF WritePending, journal, owner, Goto, NextState, Processes, IInv, TypeOK, ProcStates,
      Leases, Takeovers, Transactions, Intents, Receipts, States, Pcs, Outcomes, Commands,
      Filed, Charged, Open, Reserved, Unresolved, Failed
<1>5. Doing'
  BY ProcsAssumption, ActionsAssumption, BoundsAssumption, NoneAssumption
  DEF WritePending, journal, owner, Goto, NextState, Processes, IInv, TypeOK, ProcStates,
      Leases, Takeovers, Transactions, Intents, Receipts, States, Pcs, Outcomes, Commands,
      Filed, Doing, Acts
<1>6. Granted'
  BY ProcsAssumption, ActionsAssumption, BoundsAssumption, NoneAssumption
  DEF WritePending, journal, owner, Goto, NextState, Processes, IInv, TypeOK, ProcStates,
      Leases, Takeovers, Transactions, Intents, Receipts, States, Pcs, Outcomes, Commands,
      Filed, Alone, Open, Reserved, Unresolved, Doing, Acts, Granted
<1>7. TakenOver'
  BY ProcsAssumption, ActionsAssumption, BoundsAssumption, NoneAssumption
  DEF WritePending, journal, owner, Goto, NextState, Processes, IInv, TypeOK, ProcStates,
      Leases, Takeovers, Transactions, Intents, Receipts, States, Pcs, Outcomes, Commands,
      Filed, Reserved, Doing, Acts, Granted, TakenOver
<1>8. Committed'
  <2>1. /\ pending' = [seq |-> seq + 1, state |-> NextState(command),
                       cancel |-> IF command = "resume" THEN {} ELSE Reserved]
        /\ pending' \in Transactions /\ pending' # None /\ pending = None
        /\ UNCHANGED <<state, seq>> /\ seq \in Nat /\ lock' = Operator
    <3>1. NextState(command) \in States
      BY DEF NextState, Commands, States, IInv, TypeOK
    <3>2. [seq |-> seq + 1, state |-> NextState(command),
           cancel |-> IF command = "resume" THEN {} ELSE Reserved] \in Transactions
      BY <3>1 DEF Transactions, IInv, TypeOK, Reserved
    <3> QED
      BY <3>2, NoneAssumption DEF WritePending, IInv, TypeOK
  <2>2. Reserved' = Reserved /\ UNCHANGED intent /\ proc'[Operator].pc = "pending"
    BY DEF WritePending, journal, Reserved, Goto, IInv, TypeOK, Processes
  <2>3. command = "resume" => Reserved = {}
    BY <2>1 DEF WritePending, Accepts, IInv, Committed
  <2>4. \A a \in Reserved : intent[a] # None /\ intent[a].seq = seq
    BY <2>1 DEF IInv, Committed, Reserved
  <2>5. state # "active" => Reserved = {}
    BY <2>1 DEF IInv, Committed
  <2> QED
    BY <2>1, <2>2, <2>3, <2>4, <2>5 DEF Committed
<1> QED
  BY <1>1, <1>2, <1>3, <1>4, <1>5, <1>6, <1>7, <1>8 DEF IInv

(* A process that dies leaves its files and frees its lock. *)
LEMMA CrashKeeps ==
  ASSUME IInv, NEW p \in Processes, Crash(p)
  PROVE  IInv'
<1>1. TypeOK'
  BY ProcsAssumption, ActionsAssumption, BoundsAssumption, NoneAssumption
  DEF Crash, journal, events, owner, Idle, Processes, IInv, TypeOK, ProcStates, Leases,
      Takeovers, Transactions, Intents, Receipts, States, Pcs, Outcomes
<1>2. Filed'
  BY ProcsAssumption, ActionsAssumption, BoundsAssumption, NoneAssumption
  DEF Crash, journal, events, owner, Idle, Processes, IInv, TypeOK, ProcStates, Leases,
      Takeovers, Transactions, Intents, Receipts, States, Pcs, Outcomes, Filed
<1>3. Alone'
  BY ProcsAssumption, ActionsAssumption, BoundsAssumption, NoneAssumption
  DEF Crash, journal, events, owner, Idle, Processes, IInv, TypeOK, ProcStates, Leases,
      Takeovers, Transactions, Intents, Receipts, States, Pcs, Outcomes, Filed, Alone, Open,
      Reserved, Unresolved
<1>4. Charged'
  BY ProcsAssumption, ActionsAssumption, BoundsAssumption, NoneAssumption, Charging
  DEF Crash, journal, events, owner, Idle, Processes, IInv, TypeOK, ProcStates, Leases,
      Takeovers, Transactions, Intents, Receipts, States, Pcs, Outcomes, Filed, Charged,
      Open, Reserved, Unresolved, Failed
<1>5. Doing'
  BY ProcsAssumption, ActionsAssumption, BoundsAssumption, NoneAssumption
  DEF Crash, journal, events, owner, Idle, Processes, IInv, TypeOK, ProcStates, Leases,
      Takeovers, Transactions, Intents, Receipts, States, Pcs, Outcomes, Filed, Doing, Acts
<1>6. Granted'
  BY ProcsAssumption, ActionsAssumption, BoundsAssumption, NoneAssumption
  DEF Crash, journal, events, owner, Idle, Processes, IInv, TypeOK, ProcStates, Leases,
      Takeovers, Transactions, Intents, Receipts, States, Pcs, Outcomes, Filed, Alone, Open,
      Reserved, Unresolved, Doing, Acts, Granted
<1>7. TakenOver'
  BY ProcsAssumption, ActionsAssumption, BoundsAssumption, NoneAssumption
  DEF Crash, journal, events, owner, Idle, Processes, IInv, TypeOK, ProcStates, Leases,
      Takeovers, Transactions, Intents, Receipts, States, Pcs, Outcomes, Filed, Reserved,
      Doing, Acts, Granted, TakenOver
<1>8. Committed'
  BY ProcsAssumption, ActionsAssumption, BoundsAssumption, NoneAssumption
  DEF Crash, journal, events, owner, Idle, Processes, IInv, TypeOK, ProcStates, Leases,
      Takeovers, Transactions, Intents, Receipts, States, Pcs, Outcomes, Filed, Reserved,
      Doing, Acts, TakenOver, Committed
<1> QED
  BY <1>1, <1>2, <1>3, <1>4, <1>5, <1>6, <1>7, <1>8 DEF IInv

(* The clock decides nothing that was decided. *)
LEMMA SetClockKeeps ==
  ASSUME IInv, NEW t \in 0..MaxTime, SetClock(t)
  PROVE  IInv'
<1>1. TypeOK'
  BY ProcsAssumption, ActionsAssumption, BoundsAssumption, NoneAssumption
  DEF SetClock, journal, events, owner, Processes, IInv, TypeOK, ProcStates
<1>2. Filed'
  BY ProcsAssumption, ActionsAssumption, BoundsAssumption, NoneAssumption
  DEF SetClock, journal, events, owner, Processes, IInv, TypeOK, ProcStates, Leases,
      Takeovers, Transactions, Intents, Receipts, States, Pcs, Outcomes, Filed
<1>3. Alone'
  BY ProcsAssumption, ActionsAssumption, BoundsAssumption, NoneAssumption
  DEF SetClock, journal, events, owner, Processes, IInv, TypeOK, ProcStates, Leases,
      Takeovers, Transactions, Intents, Receipts, States, Pcs, Outcomes, Filed, Alone, Open,
      Reserved, Unresolved
<1>4. Charged'
  BY ProcsAssumption, ActionsAssumption, BoundsAssumption, NoneAssumption, Charging
  DEF SetClock, journal, events, owner, Processes, IInv, TypeOK, ProcStates, Leases,
      Takeovers, Transactions, Intents, Receipts, States, Pcs, Outcomes, Filed, Charged,
      Open, Reserved, Unresolved, Failed
<1>5. Doing'
  BY ProcsAssumption, ActionsAssumption, BoundsAssumption, NoneAssumption
  DEF SetClock, journal, events, owner, Processes, IInv, TypeOK, ProcStates, Leases,
      Takeovers, Transactions, Intents, Receipts, States, Pcs, Outcomes, Filed, Doing, Acts
<1>6. Granted'
  BY ProcsAssumption, ActionsAssumption, BoundsAssumption, NoneAssumption
  DEF SetClock, journal, events, owner, Processes, IInv, TypeOK, ProcStates, Leases,
      Takeovers, Transactions, Intents, Receipts, States, Pcs, Outcomes, Filed, Alone, Open,
      Reserved, Unresolved, Doing, Acts, Granted
<1>7. TakenOver'
  BY ProcsAssumption, ActionsAssumption, BoundsAssumption, NoneAssumption
  DEF SetClock, journal, events, owner, Processes, IInv, TypeOK, ProcStates, Leases,
      Takeovers, Transactions, Intents, Receipts, States, Pcs, Outcomes, Filed, Reserved,
      Doing, Acts, Granted, TakenOver
<1>8. Committed'
  BY ProcsAssumption, ActionsAssumption, BoundsAssumption, NoneAssumption
  DEF SetClock, journal, events, owner, Processes, IInv, TypeOK, ProcStates, Leases,
      Takeovers, Transactions, Intents, Receipts, States, Pcs, Outcomes, Filed, Reserved,
      Doing, Acts, TakenOver, Committed
<1> QED
  BY <1>1, <1>2, <1>3, <1>4, <1>5, <1>6, <1>7, <1>8 DEF IInv

-----------------------------------------------------------------------------

(* Every step keeps the invariant. *)
LEMMA NextKeeps ==
  ASSUME IInv, [Next]_vars
  PROVE  IInv'
<1>1. ASSUME NEW p \in Schedulers,
             \/ Acquire(p) \/ ReplaceLease(p) \/ Own(p) \/ \E a \in Actions : Plan(p, a)
             \/ Reserve(p) \/ EndWave(p) \/ Start(p) \/ StartRefused(p)
             \/ RefusedReceipt(p) \/ RunTask(p) \/ \E result \in Outcomes : TaskEnds(p, result)
             \/ Receipt(p) \/ ReceiptFails(p) \/ Release(p) \/ ReleaseFails(p)
      PROVE  IInv'
  BY <1>1, AcquireKeeps, ReplaceLeaseKeeps, OwnKeeps, PlanKeeps, ReserveKeeps, EndWaveKeeps,
     StartKeeps, StartRefusedKeeps, RefusedReceiptKeeps, RunTaskKeeps, TaskEndsKeeps,
     ReceiptKeeps, ReceiptFailsKeeps, ReleaseKeeps, ReleaseFailsKeeps
<1>2. ASSUME NEW a \in Actions, TakeoverCancels(a) \/ EventCancels(a) \/ ResetTask(a)
      PROVE  IInv'
  BY <1>2, TakeoverCancelsKeeps, EventCancelsKeeps, ResetTaskKeeps
<1>3. CASE UNCHANGED vars
  <2>1. UNCHANGED <<Reserved, Unresolved, Failed, Open>>
    BY <1>3 DEF vars, journal, Reserved, Unresolved, Failed, Open
  <2>2. TypeOK' /\ Filed' /\ Alone' /\ Charged'
    BY <1>3, <2>1 DEF vars, journal, events, owner, IInv, TypeOK, Filed, Alone, Charged
  <2>3. Doing' /\ Granted' /\ TakenOver' /\ Committed'
    BY <1>3, <2>1
    DEF vars, journal, events, owner, IInv, Doing, Acts, Granted, TakenOver, Committed
  <2> QED
    BY <2>2, <2>3 DEF IInv
<1> QED
  BY <1>1, <1>2, <1>3, TakeoverEndsKeeps, EventEndsKeeps, WritePendingKeeps,
     AppendEventKeeps, CrashKeeps, SetClockKeeps
  DEF Next

(* Everything above holds of every reachable state. *)
LEMMA Invariance == Spec => []IInv
<1> USE Initially, NextKeeps
<1> HIDE DEF Init, Next, vars, IInv
<1> QED
  BY PTL DEF Spec

(* The files, the clock and the processes have their types. *)
THEOREM TypeCorrect == Spec => []TypeOK
<1>1. IInv => TypeOK
  BY DEF IInv
<1> QED
  BY <1>1, Invariance, PTL

(* One thing at a time: what another scheduler left in doubt is not worked beside,
   and the budget bounds what starts and what fails. *)
THEOREM WorkIsBounded == Spec => []WorkBounded
<1>1. ASSUME IInv PROVE WorkBounded
  <2>1. OneUnresolved
    <3>1. IsFiniteSet(Unresolved) /\ Cardinality(Unresolved) \in Nat
      BY <1>1, FS_Subset, FS_CardinalityType DEF IInv, Charged, Unresolved
    <3>2. CASE Unresolved = {}
      BY <3>2, FS_EmptySet DEF OneUnresolved
    <3>3. ASSUME NEW a \in Unresolved PROVE OneUnresolved
      <4>1. Unresolved = {} \cup {a}
        BY <1>1, <3>3 DEF IInv, Alone, Open
      <4>2. Cardinality({} \cup {a}) = 0 + 1
        BY FS_AddElement, FS_EmptySet
      <4> QED
        BY <4>1, <4>2 DEF OneUnresolved
    <3> QED
      BY <3>2, <3>3
  <2>2. Cardinality(started) <= MaxActions /\ Cardinality(Failed) <= MaxFailures
    BY <1>1, Charging DEF IInv
  <2> QED
    BY <2>1, <2>2 DEF WorkBounded, BudgetHolds
<1> QED
  BY <1>1, Invariance, PTL

(* Whatever died half way, the journal fits the events, the lease and what is executed. *)
THEOREM JournalFits == Spec => []JournalHolds
<1>1. ASSUME IInv PROVE JournalHolds
  <2>1. ReservedAreCurrent
    BY <1>1 DEF IInv, TakenOver, Committed, ReservedAreCurrent
  <2>2. ExecutionRecorded
    BY <1>1 DEF IInv, Doing, Acts, ExecutionRecorded
  <2>3. TakeoverMatches
    BY <1>1 DEF IInv, TakenOver, TakeoverMatches
  <2> QED
    BY <2>1, <2>2, <2>3 DEF JournalHolds
<1> QED
  BY <1>1, Invariance, PTL

-----------------------------------------------------------------------------
(* The life of an action, as ActionLifecycle promises it. *)

PhaseOf == [a \in Actions |-> Phase(a)]
Promised == [Lifecycle!Next]_PhaseOf

(* What is unresolved there is unresolved here. *)
LEMMA UnresolvedIs ==
  ASSUME IInv
  PROVE  Lifecycle!Unresolved = Unresolved
<1>1. ASSUME NEW a \in Actions
      PROVE  Phase(a) \in {"started", "uncertain"} <=> a \in Unresolved
  <2>1. receipt[a] # None => receipt[a].status \in Outcomes \cup {"cancelled"}
    BY DEF IInv, TypeOK, Receipts
  <2> QED
    BY <2>1 DEF IInv, Filed, Unresolved, Phase, Outcomes
<1>2. Unresolved \subseteq Actions
  BY DEF IInv, TypeOK, Unresolved
<1> QED
  BY <1>1, <1>2 DEF Lifecycle!Unresolved

(* A step at the files of one action changes its phase alone. *)
LEMMA Becoming ==
  ASSUME NEW a \in Actions, NEW phase, phase = Phase(a)',
         \A b \in Actions \ {a} : intent'[b] = intent[b] /\ receipt'[b] = receipt[b],
         \A b \in Actions \ {a} : b \in started' <=> b \in started
  PROVE  Lifecycle!Become(a, phase)
<1>1. \A b \in Actions \ {a} : Phase(b)' = Phase(b)
  BY DEF Phase
<1>2. PhaseOf' = [PhaseOf EXCEPT ![a] = phase]
  BY <1>1 DEF PhaseOf
<1> QED
  BY <1>2 DEF PhaseOf, Lifecycle!Become

(* The steps of the promise, for one action. *)
LEMMA Lifted ==
  ASSUME NEW a \in Actions,
         Lifecycle!Reserve(a) \/ Lifecycle!Start(a) \/ Lifecycle!Cancel(a) \/ Lifecycle!Finish(a)
  PROVE  Promised
<1>1. Lifecycle!Next
  BY Zenon DEF Lifecycle!Next
<1> QED
  BY <1>1 DEF Promised

(* Most steps touch no file of an action. *)
LEMMA Untouched == ASSUME UNCHANGED journal PROVE Promised
<1>1. PhaseOf' = PhaseOf
  BY DEF journal, PhaseOf, Phase
<1> QED
  BY <1>1 DEF Promised

(* A reservation of a new action is the promise's, with no unresolved one beside it. *)
LEMMA ReserveMaps ==
  ASSUME IInv, NEW p \in Schedulers, Reserve(p)
  PROVE  Promised
<1>1. PICK a \in Actions : a = proc[p].act
  BY DEF Reserve, IInv, Doing, Acts
<1>2. Phase(a) = "new" /\ Phase(a)' = "reserved" /\ Unresolved = {}
  <2>1. [gen |-> proc[p].gen, seq |-> seq] \in Intents
    BY DEF Intents, IInv, TypeOK, ProcStates, Processes
  <2> QED
    BY <1>1, <2>1, NoneAssumption DEF Reserve, IInv, TypeOK, Doing, Acts, Filed, Phase
<1>3. Lifecycle!Become(a, "reserved")
  BY <1>1, <1>2, Becoming DEF Reserve
<1>4. Lifecycle!Reserve(a)
  BY <1>2, <1>3, UnresolvedIs DEF Lifecycle!Reserve
<1> QED
  BY <1>4, Lifted

(* So is the start of the one reserved action. *)
LEMMA StartMaps ==
  ASSUME IInv, NEW p \in Schedulers, Start(p)
  PROVE  Promised
<1>1. PICK a \in Actions : a = proc[p].act
  BY DEF Start, IInv, Doing, Acts
<1>2. a \in Reserved
  BY <1>1 DEF Start, IInv, Doing, Acts, Reserved
<1>3. Phase(a) = "reserved" /\ Phase(a)' = "started"
  BY <1>1, <1>2 DEF Start, Reserved, Phase
<1>4. Unresolved = {}
  BY <1>2 DEF IInv, Alone, Open, Reserved, Unresolved
<1>5. Lifecycle!Become(a, "started")
  BY <1>1, <1>3, Becoming DEF Start
<1>6. Lifecycle!Start(a)
  BY <1>3, <1>4, <1>5, UnresolvedIs DEF Lifecycle!Start
<1> QED
  BY <1>6, Lifted

(* A reservation is cancelled by a receipt. *)
LEMMA CancelMaps ==
  ASSUME IInv, NEW a \in Reserved, NEW r \in Receipts, r.status = "cancelled",
         receipt' = [receipt EXCEPT ![a] = r], UNCHANGED <<intent, started>>
  PROVE  Promised
<1>1. a \in Actions /\ Phase(a) = "reserved" /\ Phase(a)' = "cancelled"
  BY NoneAssumption DEF IInv, TypeOK, Reserved, Phase
<1>2. Lifecycle!Become(a, "cancelled")
  BY <1>1, Becoming
<1>3. Lifecycle!Cancel(a)
  BY <1>1, <1>2 DEF Lifecycle!Cancel
<1> QED
  BY <1>1, <1>3, Lifted

(* An action ends once. *)
LEMMA FinishMaps ==
  ASSUME IInv, NEW a \in started, receipt[a] = None, NEW r \in Receipts, r.status \in Outcomes,
         receipt' = [receipt EXCEPT ![a] = r], UNCHANGED <<intent, started>>
  PROVE  Promised
<1>1. PICK end \in Outcomes : end = r.status
  OBVIOUS
<1>2. a \in Actions /\ Phase(a) = "started" /\ Phase(a)' = end
  BY <1>1, NoneAssumption DEF IInv, TypeOK, Phase
<1>3. Lifecycle!Become(a, end)
  BY <1>2, Becoming
<1>4. Lifecycle!Finish(a)
  BY <1>2, <1>3 DEF Lifecycle!Finish, Outcomes
<1> QED
  BY <1>2, <1>4, Lifted

(* Every step is a step of the promise or a stutter. *)
LEMMA NextMaps == ASSUME IInv, [Next]_vars PROVE Promised
<1>1. ASSUME NEW p \in Schedulers, RefusedReceipt(p) PROVE Promised
  <2>1. PICK a \in Actions : a = proc[p].act /\ intent[a] # None /\ receipt[a] = None
    BY <1>1 DEF RefusedReceipt, IInv, Doing, Acts
  <2> DEFINE r == [status |-> IF a \in started THEN "uncertain" ELSE "cancelled", by |-> "owner",
                   n |-> proc[p].gen]
  <2>2. r \in Receipts /\ r.status = IF a \in started THEN "uncertain" ELSE "cancelled"
    BY Receiving DEF IInv, Outcomes, Processes
  <2>3. receipt' = [receipt EXCEPT ![a] = r] /\ UNCHANGED <<intent, started>>
    BY <1>1, <2>1 DEF RefusedReceipt
  <2>4. "uncertain" \in Outcomes
    BY DEF Outcomes
  <2> HIDE DEF r
  <2>5. CASE a \in started
    BY <2>1, <2>2, <2>3, <2>4, <2>5, FinishMaps
  <2>6. CASE a \notin started
    <3>1. a \in Reserved
      BY <2>1, <2>6 DEF Reserved
    <3> QED
      BY <2>2, <2>3, <2>6, <3>1, CancelMaps
  <2> QED
    BY <2>5, <2>6
<1>2. ASSUME NEW p \in Schedulers, Receipt(p) PROVE Promised
  <2>1. PICK a \in started : a = proc[p].act /\ receipt[a] = None
    BY <1>2 DEF Receipt, IInv, Doing, Acts
  <2> DEFINE r == [status |-> proc[p].result, by |-> "owner", n |-> proc[p].gen]
  <2>2. proc[p].result \in Outcomes
    BY DEF IInv, TypeOK, ProcStates, Processes
  <2>3. r \in Receipts /\ r.status \in Outcomes
    BY <2>2, Receiving DEF IInv, Processes
  <2>4. receipt' = [receipt EXCEPT ![a] = r] /\ UNCHANGED <<intent, started>>
    BY <1>2, <2>1 DEF Receipt
  <2> HIDE DEF r
  <2> QED
    BY <2>1, <2>3, <2>4, FinishMaps
<1>3. ASSUME NEW a \in Actions, TakeoverCancels(a) PROVE Promised
  <2>1. ByTakeover \in Receipts /\ ByTakeover.status = "cancelled"
    BY <1>3
    DEF TakeoverCancels, TakeoverReadable, ByTakeover, Receipts, IInv, TypeOK, Takeovers,
        Leases
  <2>2. a \in Reserved
    BY <1>3, <2>1, NoneAssumption
    DEF TakeoverCancels, TakeoverReadable, Fits, Reserved, IInv, TakenOver
  <2> QED
    BY <1>3, <2>1, <2>2, CancelMaps DEF TakeoverCancels
<1>4. ASSUME NEW a \in Actions, EventCancels(a) PROVE Promised
  <2>1. ByEvent \in Receipts /\ ByEvent.status = "cancelled"
    BY <1>4 DEF EventCancels, PendingReadable, ByEvent, Receipts, IInv, TypeOK
  <2>2. a \in Reserved
    BY <1>4, <2>1, NoneAssumption
    DEF EventCancels, PendingReadable, Fits, Reserved, IInv, Committed
  <2> QED
    BY <1>4, <2>1, <2>2, CancelMaps DEF EventCancels
<1>5. CASE UNCHANGED journal
  BY <1>5, Untouched
<1>6. ASSUME NEW p \in Schedulers,
             \/ Acquire(p) \/ ReplaceLease(p) \/ Own(p) \/ \E a \in Actions : Plan(p, a)
             \/ EndWave(p) \/ StartRefused(p) \/ RunTask(p)
             \/ \E result \in Outcomes : TaskEnds(p, result)
             \/ ReceiptFails(p) \/ Release(p) \/ ReleaseFails(p)
      PROVE  UNCHANGED journal
  BY <1>6
  DEF Acquire, ReplaceLease, Own, Plan, EndWave, StartRefused, RunTask, TaskEnds,
      ReceiptFails, Release, ReleaseFails
<1>7. ASSUME \/ \E a \in Actions : ResetTask(a)
             \/ TakeoverEnds \/ EventEnds \/ AppendEvent
             \/ \E command \in Commands : WritePending(command)
             \/ \E p \in Processes : Crash(p)
             \/ \E t \in 0..MaxTime : SetClock(t)
             \/ UNCHANGED vars
      PROVE  UNCHANGED journal
  BY <1>7
  DEF ResetTask, TakeoverEnds, EventEnds, AppendEvent, WritePending, Crash, SetClock, vars
<1> QED
  BY <1>1, <1>2, <1>3, <1>4, <1>5, <1>6, <1>7, ReserveMaps, StartMaps DEF Next

(* Every step of every process, and every crash, is a step of the life of an action
   or none at all. *)
THEOREM PromiseKept == Spec => LifecycleHolds
<1>1. ASSUME Init PROVE Lifecycle!Init
  <2>1. \A a \in Actions : Phase(a) = "new"
    BY <1>1 DEF Init, Phase
  <2> QED
    BY <2>1 DEF Lifecycle!Init
<1>2. IInv /\ [Next]_vars => [Lifecycle!Next]_([a \in Actions |-> Phase(a)])
  BY NextMaps DEF Promised, PhaseOf
<1> QED
  BY <1>1, <1>2, Invariance, PTL DEF Spec, LifecycleHolds, Lifecycle!Spec

--------------------------------------------------------------------------------
(* The Objectives, the loop and the people over one board *)

(* A set of natural numbers has a least one, *)
LEMMA LeastOne ==
  ASSUME NEW S \in SUBSET Nat, S # {}
  PROVE  \E n \in S : \A m \in S : n <= m
<1> DEFINE T == {0..n : n \in S}
<1>1. T \subseteq FiniteSubsetsOf(Nat)
  <2>1. \A n \in S : 0..n \subseteq Nat /\ IsFiniteSet(0..n)
    BY FS_Interval
  <2> QED
    BY <2>1 DEF FiniteSubsetsOf
<1>2. PICK x \in T : \A y \in T : ~ (<<y, x>> \in StrictSubsetOrdering(Nat))
  <2>1. IsWellFoundedOn(StrictSubsetOrdering(Nat), FiniteSubsetsOf(Nat))
    BY FS_StrictSubsetOrderingWellFounded
  <2>2. T # {}
    OBVIOUS
  <2> HIDE DEF T
  <2> QED
    BY <1>1, <2>1, <2>2, WFMin
<1>3. PICK n \in S : x = 0..n
  OBVIOUS
<1>4. ASSUME NEW m \in S, ~ (n <= m) PROVE FALSE
  <2>1. 0..m \in T /\ 0..m \subseteq 0..n /\ 0..m # 0..n /\ 0..n \subseteq Nat
    <3>1. n \in 0..n /\ n \notin 0..m
      BY <1>4
    <3> QED
      BY <1>4, <3>1
  <2>2. <<0..m, x>> \in StrictSubsetOrdering(Nat)
    BY <2>1, <1>3 DEF StrictSubsetOrdering
  <2> QED
    BY <2>1, <2>2, <1>2
<1> QED
  BY <1>4

(* hence what holds of 0 and of the next number holds of all. *)
LEMMA AllNumbers ==
  ASSUME NEW S, 0 \in S, \A n \in Nat : n \in S => n + 1 \in S
  PROVE  Nat \subseteq S
<1> SUFFICES ASSUME Nat \ S # {} PROVE FALSE
  OBVIOUS
<1>1. PICK n \in Nat \ S : \A m \in Nat \ S : n <= m
  BY LeastOne
<1>2. n # 0 /\ n - 1 \in Nat
  BY <1>1
<1>3. n - 1 \in S
  BY <1>1, <1>2
<1> QED
  BY <1>1, <1>2, <1>3

(* A tick considers each task twice. *)
LEMMA ManyConsidered == Len(Considered) \in Nat
<1> DEFINE N == Len(TaskOrder)
<1>1. N \in Nat
  BY PlannerAssumption
<1> DEFINE Both == {Do(kind, TaskOrder[i]) : kind \in {"execute", "review"}, i \in 1..N}
<1>2. /\ [i \in 1..N |-> Do("execute", TaskOrder[i])] \in Seq(Both)
      /\ [i \in 1..N |-> Do("review", TaskOrder[i])] \in Seq(Both)
  BY <1>1
<1> QED
  BY <1>2 DEF Considered

(* The wave is what its recursion says. *)
LEMMA WaveGrows ==
  ASSUME NEW b, NEW r
  PROVE  /\ Waves(b, r)[0] = {}
         /\ \A n \in 1..Len(Considered) :
              Waves(b, r)[n] = Waves(b, r)[n - 1]
                \cup {a \in {Considered[n]} : Joins(a, Waves(b, r)[n - 1], PlanOf(b, r),
                                                    MaxParallel - ActiveParallel(b, r))}
<1> DEFINE N == Len(Considered)
           More(g, n) == g[n - 1] \cup {a \in {Considered[n]} :
                           Joins(a, g[n - 1], PlanOf(b, r), MaxParallel - ActiveParallel(b, r))}
           IsWave(g, k) == g = [n \in 0..k |-> IF n = 0 THEN {} ELSE More(g, n)]
           Good == {k \in Nat : \E g : IsWave(g, k)}
<1>1. 0 \in Good
  <2>1. IsWave([n \in 0..0 |-> {}], 0)
    OBVIOUS
  <2> QED
    BY <2>1
<1>2. ASSUME NEW k \in Nat, k \in Good PROVE k + 1 \in Good
  <2>1. PICK g : IsWave(g, k)
    BY <1>2
  <2> DEFINE h == [n \in 0..k + 1 |-> IF n = k + 1 THEN More(g, k + 1) ELSE g[n]]
  <2>2. ASSUME NEW n \in 0..k + 1 PROVE h[n] = IF n = 0 THEN {} ELSE More(h, n)
    <3>1. CASE n = 0
      <4>1. h[n] = g[0]
        BY <3>1
      <4>2. g[0] = {}
        BY <2>1
      <4> QED
        BY <3>1, <4>1, <4>2
    <3>2. CASE n # 0
      <4>1. n - 1 \in 0..k /\ h[n - 1] = g[n - 1]
        BY <3>2
      <4>2. h[n] = More(g, n)
        <5>1. CASE n = k + 1
          BY <5>1
        <5>2. CASE n # k + 1
          <6>1. n \in 0..k
            BY <5>2
          <6>2. g[n] = IF n = 0 THEN {} ELSE More(g, n)
            BY <2>1, <6>1
          <6> QED
            BY <3>2, <5>2, <6>2
        <5> QED
          BY <5>1, <5>2
      <4>3. More(h, n) = More(g, n)
        BY <4>1
      <4> HIDE DEF h, More
      <4> QED
        BY <3>2, <4>2, <4>3
    <3> QED
      BY <3>1, <3>2
  <2>3. h = [n \in 0..k + 1 |-> h[n]]
    OBVIOUS
  <2> HIDE DEF h, More
  <2>4. IsWave(h, k + 1)
    BY <2>2, <2>3
  <2> QED
    BY <2>4
<1>3. N \in Good
  <2> HIDE DEF Good
  <2> QED
    BY <1>1, <1>2, AllNumbers, ManyConsidered
<1>4. \E g : IsWave(g, N)
  BY <1>3
<1>5. Waves(b, r) = CHOOSE g : IsWave(g, N)
  BY DEF Waves
<1>6. IsWave(Waves(b, r), N)
  <2> HIDE DEF IsWave
  <2> QED
    BY <1>4, <1>5
<1>7. 0 \in 0..N /\ \A n \in 1..N : n \in 0..N /\ n # 0
  BY ManyConsidered
<1> HIDE DEF More, N
<1>8. Waves(b, r)[0] = {} /\ \A n \in 1..N : Waves(b, r)[n] = More(Waves(b, r), n)
  BY <1>6, <1>7
<1> QED
  BY <1>8 DEF More, N

(* A wave is planned, and each of it claims something else. *)
LEMMA WaveFits ==
  ASSUME NEW b, NEW r
  PROVE  /\ Wave(b, r) \subseteq PlanOf(b, r).selected
         /\ \A v, w \in Wave(b, r) : v = w \/ Resources(v) \cap Resources(w) = {}
<1> DEFINE N == Len(Considered)
           Suits(W) == /\ W \subseteq PlanOf(b, r).selected
                      /\ \A v, w \in W : v = w \/ Resources(v) \cap Resources(w) = {}
           Good == {n \in Nat : n <= N => Suits(Waves(b, r)[n])}
<1>1. 0 \in Good
  BY WaveGrows
<1>2. ASSUME NEW n \in Nat, n \in Good PROVE n + 1 \in Good
  <2> SUFFICES ASSUME n + 1 <= N PROVE Suits(Waves(b, r)[n + 1])
    OBVIOUS
  <2>1. Suits(Waves(b, r)[n])
    BY <1>2, ManyConsidered
  <2>2. n + 1 \in 1..N /\ (n + 1) - 1 = n
    BY ManyConsidered
  <2>3. Waves(b, r)[n + 1] = Waves(b, r)[n]
          \cup {a \in {Considered[n + 1]} : Joins(a, Waves(b, r)[n], PlanOf(b, r),
                                                  MaxParallel - ActiveParallel(b, r))}
    BY <2>2, WaveGrows
  <2>4. ASSUME NEW v, NEW w, Resources(v) \cap Resources(w) = {}
        PROVE  Resources(w) \cap Resources(v) = {}
    BY <2>4
  <2> QED
    BY <2>1, <2>3, <2>4 DEF Joins
<1>3. N \in Good
  <2> HIDE DEF Good
  <2> QED
    BY <1>1, <1>2, AllNumbers, ManyConsidered
<1> QED
  BY <1>3, ManyConsidered DEF Wave

(* What targets rest on are tasks, reached walk by walk. *)
LEMMA ClosureGrows ==
  ASSUME NEW targets \in SUBSET Tasks, NEW deps \in [Tasks -> SUBSET Tasks]
  PROVE  \E W \in [0..Cardinality(Tasks) -> SUBSET Tasks] :
           /\ W[0] = targets /\ Closure(targets, deps) = W[Cardinality(Tasks)]
           /\ \A n \in 1..Cardinality(Tasks) :
                W[n] = W[n - 1] \cup UNION {deps[t] : t \in W[n - 1]}
<1> DEFINE N == Cardinality(Tasks)
           Further(g, n) == g[n - 1] \cup UNION {deps[t] : t \in g[n - 1]}
           IsReach(g, k) == g = [n \in 0..k |-> IF n = 0 THEN targets ELSE Further(g, n)]
           Good == {k \in Nat : \E g \in [0..k -> SUBSET Tasks] : IsReach(g, k)}
<1>1. 0 \in Good
  <2>1. IsReach([n \in 0..0 |-> targets], 0)
    OBVIOUS
  <2> QED
    BY <2>1
<1>2. ASSUME NEW k \in Nat, k \in Good PROVE k + 1 \in Good
  <2>1. PICK g \in [0..k -> SUBSET Tasks] : IsReach(g, k)
    BY <1>2
  <2> DEFINE h == [n \in 0..k + 1 |-> IF n = k + 1 THEN Further(g, k + 1) ELSE g[n]]
  <2>2. ASSUME NEW n \in 0..k + 1
        PROVE  h[n] = (IF n = 0 THEN targets ELSE Further(h, n)) /\ h[n] \in SUBSET Tasks
    <3>1. CASE n = 0
      <4>1. h[n] = g[0] /\ 0 \in 0..k
        BY <3>1
      <4>2. g[0] = targets
        BY <2>1
      <4> QED
        BY <3>1, <4>1, <4>2
    <3>2. CASE n # 0
      <4>1. n - 1 \in 0..k /\ h[n - 1] = g[n - 1]
        BY <3>2
      <4>2. h[n] = Further(g, n)
        <5>1. CASE n = k + 1
          BY <5>1
        <5>2. CASE n # k + 1
          <6>1. n \in 0..k
            BY <5>2
          <6>2. g[n] = IF n = 0 THEN targets ELSE Further(g, n)
            BY <2>1, <6>1
          <6> QED
            BY <3>2, <5>2, <6>2
        <5> QED
          BY <5>1, <5>2
      <4>3. Further(h, n) = Further(g, n)
        BY <4>1
      <4>4. Further(g, n) \in SUBSET Tasks
        BY <4>1, <2>1
      <4> HIDE DEF h, Further
      <4> QED
        BY <3>2, <4>2, <4>3, <4>4
    <3> QED
      BY <3>1, <3>2
  <2>3. h = [n \in 0..k + 1 |-> h[n]]
    OBVIOUS
  <2> HIDE DEF h, Further
  <2>4. IsReach(h, k + 1) /\ h \in [0..k + 1 -> SUBSET Tasks]
    BY <2>2, <2>3
  <2> QED
    BY <2>4
<1>3. N \in Nat
  BY PlannerAssumption
<1>4. N \in Good
  <2> HIDE DEF Good
  <2> QED
    BY <1>1, <1>2, <1>3, AllNumbers
<1>5. PICK g \in [0..N -> SUBSET Tasks] : IsReach(g, N)
  BY <1>4
<1>6. Closure(targets, deps) = (CHOOSE f : IsReach(f, N))[N]
  BY DEF Closure
<1> DEFINE W == CHOOSE f : IsReach(f, N)
<1>7. IsReach(W, N)
  <2> HIDE DEF IsReach
  <2> QED
    BY <1>5
<1> DEFINE Tame == {n \in Nat : n <= N => W[n] \in SUBSET Tasks}
<1> HIDE DEF W
<1>8. 0 \in Tame
  BY <1>3, <1>7
<1>9. ASSUME NEW n \in Nat, n \in Tame PROVE n + 1 \in Tame
  <2> SUFFICES ASSUME n + 1 <= N PROVE W[n + 1] \in SUBSET Tasks
    OBVIOUS
  <2>1. W[n] \in SUBSET Tasks
    BY <1>3, <1>9
  <2>2. n + 1 \in 0..N /\ n + 1 # 0 /\ (n + 1) - 1 = n
    BY <1>3
  <2>3. W[n + 1] = Further(W, n + 1)
    BY <1>7, <2>2
  <2> QED
    BY <2>1, <2>2, <2>3
<1>10. Nat \subseteq Tame
  <2> HIDE DEF Tame
  <2> QED
    BY <1>8, <1>9, AllNumbers
<1>11. W \in [0..N -> SUBSET Tasks]
  <2>1. \A n \in 0..N : W[n] \in SUBSET Tasks
    BY <1>3, <1>10
  <2>2. W = [n \in 0..N |-> IF n = 0 THEN targets ELSE Further(W, n)]
    BY <1>7
  <2>3. DOMAIN W = 0..N
    BY <2>2
  <2>4. W = [n \in 0..N |-> W[n]]
    BY <2>2, <2>3
  <2> HIDE DEF Further
  <2> QED
    BY <2>1, <2>4
<1>12. W[0] = targets /\ \A n \in 1..N : W[n] = Further(W, n)
  <2>1. 0 \in 0..N /\ \A n \in 1..N : n \in 0..N /\ n # 0
    BY <1>3
  <2> HIDE DEF Further
  <2> QED
    BY <1>7, <2>1
<1>13. Closure(targets, deps) = W[N]
  BY <1>6 DEF W
<1> QED
  BY <1>11, <1>12, <1>13

(* So a closure consists of tasks. *)
LEMMA ClosureOfTasks ==
  ASSUME NEW targets \in SUBSET Tasks, NEW deps \in [Tasks -> SUBSET Tasks]
  PROVE  Closure(targets, deps) \in SUBSET Tasks
<1>1. PICK W \in [0..Cardinality(Tasks) -> SUBSET Tasks] :
        Closure(targets, deps) = W[Cardinality(Tasks)]
  BY ClosureGrows
<1> QED
  BY <1>1, PlannerAssumption

(* What the record of an Objective may say. *)
Pins == UNION {[S -> Nat] : S \in SUBSET Tasks}
Records ==
  {r \in [targets : SUBSET Tasks, state : {"active", "paused", "stopped"}, seq : Nat,
          scope : SUBSET Tasks, pins : Pins] : r.pins \in [r.scope -> Nat]}

(* The board: each task is in a version of its contract. *)
BoardType ==
  /\ DOMAIN status = Tasks
  /\ version \in [Tasks -> Nat] /\ \A t \in Tasks : version[t] \in DOMAIN DepsOf[t]

(* What a supervised process and the loop are doing. *)
SupType == [pc : {"idle", "started", "running", "ran", "lost"},
            act : [kind : {"execute", "review", "ask", "none"}, task : Tasks \cup {Nothing}],
            pin : Nat]
LoopType == [pc : {"idle", "passed", "running"}, task : Tasks \cup {Nothing}, blind : BOOLEAN]

ScopesType ==
  /\ BoardType
  /\ record \in [Objectives -> Records \cup {Nothing}]
  /\ sup \in [Objectives -> SupType]
  /\ manual \in Tasks \cup {Nothing}
  /\ loop \in LoopType
  /\ loop.pc # "idle" => loop.task \in Tasks

(* A supervised action is one of the scope that its Objective keeps. *)
Scoped ==
  \A o \in Objectives :
    /\ sup[o].pc # "idle" => record[o] # Nothing
    /\ sup[o].pc \in {"started", "running"} => sup[o].act.task \in record[o].scope

(* A task that is executed is in progress, and nobody else executes it. *)
Executing(o) == sup[o].pc = "running" /\ sup[o].act.kind = "execute"
Executed ==
  /\ \A o \in Objectives : Executing(o) =>
       status[sup[o].act.task] = "in_progress" /\ sup[o].act.task # manual
  /\ loop.pc = "running" => status[loop.task] = "in_progress" /\ loop.task # manual
  /\ manual # Nothing => status[manual] = "in_progress"

(* The loop, where it passed before there was an Objective: what is reviewed stays so
   until it goes on. *)
Passed ==
  loop.pc = "passed" =>
    /\ loop.blind
    /\ \A o \in Objectives : sup[o].pc = "running" /\ ~Executing(o) =>
         status[sup[o].act.task] = "review"

(* It holds in every state. *)
ScopesInv == ScopesType /\ Scoped /\ ScopesDisjoint /\ OneAuthority /\ Executed /\ Passed

(* What a contract depends on are tasks, *)
LEMMA DepsAreTasks == ASSUME BoardType PROVE Deps \in [Tasks -> SUBSET Tasks]
BY ScopesAssumption DEF BoardType, Deps

(* so that a record that is made is one. *)
LEMMA RecordsOfTasks ==
  ASSUME BoardType, NEW targets \in SUBSET Tasks, NEW st \in {"active", "paused", "stopped"},
         NEW n \in Nat
  PROVE  Record(targets, st, n) \in Records
<1>1. Closure(targets, Deps) \in SUBSET Tasks
  BY DepsAreTasks, ClosureOfTasks
<1>2. [t \in Closure(targets, Deps) |-> version[t]] \in [Closure(targets, Deps) -> Nat]
  BY <1>1 DEF BoardType
<1> QED
  BY <1>1, <1>2 DEF Record, Records, Pins

(* What is in a wave is in the scope. *)
LEMMA WaveInScope ==
  ASSUME NEW b, NEW r, NEW a \in Wave(b, r)
  PROVE  /\ a \in [kind : {"execute", "review", "ask"}, task : r.scope]
         /\ a.kind = "execute" => a.task \in Ready(b)
<1>1. a \in PlanOf(b, r).selected
  BY WaveFits
<1>2. a \in Selected(b, r)
  BY <1>1 DEF PlanOf
<1> QED
  BY <1>2 DEF Selected, All, Do

(* The planner finds nothing in the way of a task that is ready. *)
LEMMA ReadyIsFree ==
  ASSUME NEW b, NEW t, Blocker(b, t) = "none"
  PROVE  /\ BlockedOn[t] \cap b.open = {}
         /\ \A d \in b.deps[t] : b.status[d] = "done" /\ Merged(b, d)
         /\ Rivals(b, t) = {}
BY DEF Blocker

(* A wave can run as a whole, and what can run is planned. *)
LEMMA WavesRun == ASSUME ScopesType PROVE WaveRunnable
<1> SUFFICES ASSUME NEW o \in Objectives, record[o] # Nothing, GraphValid(Deps),
                    ~Complete(Board, record[o])
             PROVE  LET r == record[o]
                        starts == {a.task : a \in {w \in Wave(Board, r) : w.kind = "execute"}}
                        after(S) == [Board EXCEPT !.status =
                               [t \in Tasks |-> IF t \in S THEN "in_progress" ELSE status[t]]]
                    IN  /\ \A S \in SUBSET starts : \A t \in starts \ S : Dispatchable(after(S), t)
                        /\ \A t \in r.scope \cap Queued(Board) :
                             Dispatchable(Board, t) =>
                               Do("execute", t) \in PlanOf(Board, r).selected
  BY DEF WaveRunnable
<1> DEFINE r == record[o]
           starts == {a.task : a \in {w \in Wave(Board, r) : w.kind = "execute"}}
           after(S) == [Board EXCEPT !.status =
                          [t \in Tasks |-> IF t \in S THEN "in_progress" ELSE status[t]]]
<1>1. ASSUME NEW t \in starts
      PROVE  Do("execute", t) \in Wave(Board, r) /\ t \in Ready(Board) /\ t \in Tasks
  <2>1. PICK a \in Wave(Board, r) : a.kind = "execute" /\ a.task = t
    OBVIOUS
  <2>2. a \in [kind : {"execute", "review", "ask"}, task : r.scope] /\ t \in Ready(Board)
    BY <2>1, WaveInScope
  <2>3. a = Do("execute", t)
    BY <2>1, <2>2 DEF Do
  <2> QED
    BY <2>1, <2>2, <2>3 DEF Ready, Queued
<1>2. ASSUME NEW S \in SUBSET starts, NEW t \in starts \ S PROVE Dispatchable(after(S), t)
  <2>1. /\ after(S).deps = Deps /\ after(S).open = open /\ after(S).integrated = integrated
        /\ \A u \in Tasks : after(S).status[u] = IF u \in S THEN "in_progress" ELSE status[u]
    BY DEF Board
  <2>2. /\ BlockedOn[t] \cap open = {}
        /\ \A d \in Deps[t] : status[d] = "done" /\ d \in integrated
        /\ Rivals(Board, t) = {} /\ t \in Tasks
    BY <1>1, ReadyIsFree DEF Ready, Board, Merged
  <2>3. \A d \in Deps[t] : d \in Tasks /\ d \notin S
    <3>1. \A d \in S : status[d] # "done"
      BY <1>1 DEF Ready, Queued, Board
    <3> QED
      BY <2>2, <3>1, DepsAreTasks DEF ScopesType, SupType, LoopType
  <2>4. ASSUME NEW u \in Tasks, u # t, ConflictGroup[t] # NoGroup,
               ConflictGroup[u] = ConflictGroup[t]
        PROVE  after(S).status[u] # "in_progress"
    <3>1. CASE u \in S
      <4>1. Do("execute", u) \in Wave(Board, r) /\ Do("execute", t) \in Wave(Board, r)
        BY <1>1, <3>1
      <4>2. Do("execute", u) # Do("execute", t)
        BY <2>4 DEF Do
      <4>3. Resources(Do("execute", u)) \cap Resources(Do("execute", t)) = {}
        BY <4>1, <4>2, WaveFits
      <4>4. /\ <<"conflict", ConflictGroup[t]>> \in Resources(Do("execute", t))
            /\ <<"conflict", ConflictGroup[t]>> \in Resources(Do("execute", u))
        BY <2>4 DEF Resources, Do
      <4> QED
        BY <4>3, <4>4
    <3>2. CASE u \notin S
      BY <2>1, <2>2, <2>4, <3>2 DEF Rivals, Board
    <3> QED
      BY <3>1, <3>2
  <2> HIDE DEF after
  <2> QED
    BY <2>1, <2>2, <2>3, <2>4 DEF Dispatchable
<1>3. ASSUME NEW t \in r.scope \cap Queued(Board), Dispatchable(Board, t)
      PROVE  Do("execute", t) \in PlanOf(Board, r).selected
  <2>1. Blocker(Board, t) = "none"
    <3>1. BlockedOn[t] \cap Board.open = {}
      BY <1>3 DEF Dispatchable
    <3>2. \A d \in Board.deps[t] : Board.status[d] = "done" /\ Merged(Board, d)
      BY <1>3 DEF Dispatchable, Merged
    <3>3. Rivals(Board, t) = {}
      BY <1>3 DEF Dispatchable, Rivals
    <3> QED
      BY <3>1, <3>2, <3>3 DEF Blocker
  <2>2. t \in Ready(Board) \cap r.scope
    BY <2>1, <1>3 DEF Ready
  <2> QED
    BY <2>2 DEF PlanOf, Selected, All
<1> QED
  BY <1>2, <1>3

(* At first there is no Objective. *)
LEMMA ScopesStart == ScopesInit => ScopesInv
<1> SUFFICES ASSUME ScopesInit PROVE ScopesInv
  OBVIOUS
<1>1. IdleSup \in [pc : {"idle", "started", "running", "ran", "lost"},
                   act : [kind : {"execute", "review", "ask", "none"},
                          task : Tasks \cup {Nothing}], pin : Nat]
  BY DEF IdleSup, NoAction, Do
<1>2. ScopesType
  BY <1>1, ScopesAssumption DEF ScopesInit, ScopesType, SupType, LoopType, BoardType, IdleLoop
<1>3. \A o \in Objectives : sup[o].pc = "idle" /\ record[o] = Nothing
  BY DEF ScopesInit, IdleSup
<1>4. loop.pc = "idle" /\ manual = Nothing
  BY DEF ScopesInit, IdleLoop
<1> QED
  BY <1>2, <1>3, <1>4 DEF ScopesInv, Scoped, ScopesDisjoint, Owner, OneAuthority, Executed,
     Executing, Passed

(* A command of an Objective: a record that clears its scope of other owners and of runs. *)
LEMMA RecordChanges ==
  ASSUME ScopesInv, NEW o \in Objectives, NEW r \in Records, CommitEvent(o, r), Quiet(r),
         InDoubt(o) => record[o] # Nothing /\ r.scope = record[o].scope,
         r.state = "active" /\ ~InDoubt(o) =>
           \/ Available(o, r)
           \/ record[o] # Nothing /\ record[o].state = "active" /\ r.scope = record[o].scope
  PROVE  ScopesInv'
<1>1. /\ record' = [record EXCEPT ![o] = r]
      /\ UNCHANGED <<status, integrated, open, version, sup, loop, manual, failures>>
  BY DEF CommitEvent, board
<1>2. record' \in [Objectives -> Records \cup {Nothing}] /\ r # Nothing
  BY <1>1, ScopesAssumption DEF ScopesInv, ScopesType, SupType, LoopType, Records, Pins
<1>3. ScopesType'
  BY <1>1, <1>2 DEF ScopesInv, ScopesType, SupType, LoopType, BoardType
<1>4. /\ record'[o] = r /\ \A p \in Objectives \ {o} : record'[p] = record[p]
      /\ \A p \in Objectives : InDoubt(p)' <=> InDoubt(p)
  BY <1>1 DEF InDoubt, ScopesInv, ScopesType, SupType, LoopType
<1>5. Scoped'
  BY <1>1, <1>2, <1>4 DEF ScopesInv, Scoped, InDoubt
<1>6. \A p \in Objectives \ {o} : Owner(p)' <=> Owner(p)
  BY <1>4 DEF Owner
<1>7. \A p \in Objectives \ {o} :
         Owner(o)' /\ Owner(p) => r.scope \cap record[p].scope = {}
  <2>1. CASE InDoubt(o)
    <3>1. Owner(o) /\ r.scope = record[o].scope
      BY <2>1 DEF Owner
    <3> QED
      BY <3>1 DEF ScopesInv, ScopesDisjoint
  <2>2. CASE ~InDoubt(o) /\ r.state = "active"
    <3>1. CASE Available(o, r)
      <4>1. \A p \in Objectives \ {o} : Owner(p) => record[p].scope \cap r.scope = {}
        BY <2>2, <3>1 DEF Available, Owns, Owner
      <4> QED
        BY <4>1
    <3>2. CASE record[o] # Nothing /\ record[o].state = "active" /\ r.scope = record[o].scope
      <4>1. Owner(o)
        BY <3>2 DEF Owner
      <4> QED
        BY <3>2, <4>1 DEF ScopesInv, ScopesDisjoint
    <3> QED
      BY <2>2, <3>1, <3>2
  <2>3. CASE ~InDoubt(o) /\ r.state # "active"
    BY <2>3, <1>4 DEF Owner
  <2> QED
    BY <2>1, <2>2, <2>3
<1>8. ScopesDisjoint'
  <2> SUFFICES ASSUME NEW p \in Objectives, NEW q \in Objectives, p # q, Owner(p)', Owner(q)'
               PROVE  record'[p].scope \cap record'[q].scope = {}
    BY DEF ScopesDisjoint
  <2>1. CASE p = o
    BY <2>1, <1>4, <1>6, <1>7
  <2>2. CASE q = o
    BY <2>2, <1>4, <1>6, <1>7
  <2>3. CASE p # o /\ q # o
    BY <2>3, <1>4, <1>6 DEF ScopesInv, ScopesDisjoint
  <2> QED
    BY <2>1, <2>2, <2>3
<1>9. OneAuthority'
  <2>1. ASSUME NEW p \in Objectives, sup'[p].pc = "running"
        PROVE  /\ Owner(p)' /\ sup'[p].act.task \in record'[p].scope
               /\ ~(loop'.pc = "running" /\ loop'.task = sup'[p].act.task)
    <3>1. sup[p].pc = "running" /\ InDoubt(p) /\ InDoubt(p)'
      BY <1>1, <2>1, <1>4 DEF InDoubt
    <3>2. record'[p] # Nothing /\ record'[p].scope = record[p].scope
      BY <1>2, <1>4, <3>1, <2>1 DEF ScopesInv, Scoped
    <3> QED
      BY <1>1, <3>1, <3>2 DEF Owner, ScopesInv, OneAuthority
  <2>2. ASSUME loop'.pc = "running", ~loop'.blind, NEW p \in Objectives, Owner(p)'
        PROVE  loop'.task \notin record'[p].scope
    <3>1. CASE p = o
      <4>1. status[loop.task] = "in_progress"
        BY <1>1, <2>2 DEF ScopesInv, Executed
      <4> QED
        BY <1>1, <1>4, <3>1, <4>1 DEF Quiet
    <3>2. CASE p # o
      BY <1>1, <1>4, <1>6, <2>2, <3>2 DEF ScopesInv, OneAuthority
    <3> QED
      BY <3>1, <3>2
  <2> QED
    BY <2>1, <2>2 DEF OneAuthority
<1>10. Executed' /\ Passed'
  BY <1>1 DEF ScopesInv, Executed, Executing, Passed
<1> QED
  BY <1>3, <1>5, <1>8, <1>9, <1>10 DEF ScopesInv

(* Each of the commands writes such a record. *)
LEMMA CommandKeeps ==
  ASSUME ScopesInv, NEW o \in Objectives, Command(o)
  PROVE  ScopesInv'
<1>1. CASE Create(o)
  <2> DEFINE r == Record(InitialTargets[o], "active", 1)
  <2>1. r \in Records
    BY RecordsOfTasks, ScopesAssumption DEF ScopesInv, ScopesType, SupType, LoopType
  <2>2. record[o] = Nothing /\ Available(o, r) /\ Quiet(r) /\ CommitEvent(o, r)
    BY <1>1 DEF Create
  <2>3. ~InDoubt(o)
    BY <2>2 DEF InDoubt, ScopesInv, Scoped
  <2> HIDE DEF r
  <2> QED
    BY <2>1, <2>2, <2>3, RecordChanges
<1>2. ASSUME NEW targets, Revise(o, targets),
             targets \in SUBSET Tasks
      PROVE  ScopesInv'
  <2> DEFINE r == Record(targets, record[o].state, record[o].seq + 1)
  <2>1. record[o] \in Records
    BY <1>2 DEF Revise, ScopesInv, ScopesType, SupType, LoopType
  <2>2. r \in Records
    <3>1. record[o].state \in {"active", "paused", "stopped"} /\ record[o].seq + 1 \in Nat
      BY <2>1 DEF Records
    <3> QED
      BY <1>2, <3>1, RecordsOfTasks DEF ScopesInv, ScopesType, SupType, LoopType
  <2>3. Available(o, r) /\ Quiet(r) /\ CommitEvent(o, r) /\ ~InDoubt(o)
    BY <1>2 DEF Revise
  <2> HIDE DEF r
  <2> QED
    BY <2>2, <2>3, RecordChanges
<1>3. ASSUME NEW st \in {"active", "paused", "stopped"}, Transition(o, st),
             st = "active" => Available(o, [record[o] EXCEPT !.state = "active"])
      PROVE  ScopesInv'
  <2> DEFINE r == [record[o] EXCEPT !.state = st, !.seq = @ + 1]
  <2>1. record[o] \in Records /\ record[o] # Nothing
    BY <1>3 DEF Transition, ScopesInv, ScopesType, SupType, LoopType
  <2>2. r \in Records /\ r.scope = record[o].scope /\ r.state = st
    <3>1. ASSUME NEW x \in Records, NEW n \in Nat
          PROVE  LET y == [x EXCEPT !.state = st, !.seq = n]
                 IN  y \in Records /\ y.scope = x.scope /\ y.state = st
      BY DEF Records
    <3>2. record[o].seq + 1 \in Nat
      BY <2>1 DEF Records
    <3>3. PICK n \in Nat : n = record[o].seq + 1
      BY <3>2
    <3>4. r = [record[o] EXCEPT !.state = st, !.seq = n]
      BY <3>3
    <3> HIDE DEF r
    <3> QED
      BY <2>1, <3>1, <3>4
  <2>3. Quiet(r) /\ CommitEvent(o, r)
    BY <1>3 DEF Transition
  <2>4. st = "active" => Available(o, r)
    <3> SUFFICES ASSUME st = "active" PROVE Available(o, r)
      OBVIOUS
    <3>1. [record[o] EXCEPT !.state = "active"].scope = record[o].scope
          /\ [record[o] EXCEPT !.state = "active"].state = "active"
      BY <2>1 DEF Records
    <3> HIDE DEF r
    <3> QED
      BY <1>3, <2>2, <3>1 DEF Available, Owns
  <2> HIDE DEF r
  <2> QED
    BY <2>1, <2>2, <2>3, <2>4, RecordChanges
<1>4. record[o] # Nothing => record[o].targets \in SUBSET Tasks
  BY DEF ScopesInv, ScopesType, SupType, LoopType, Records
<1>5. CASE Reconcile(o)
  BY <1>2, <1>4, <1>5 DEF Reconcile
<1>6. CASE \E t \in Tasks : AddTarget(o, t) \/ RemoveTarget(o, t)
  <2>1. PICK t \in Tasks : AddTarget(o, t) \/ RemoveTarget(o, t)
    BY <1>6
  <2>2. record[o] # Nothing
    BY <2>1 DEF AddTarget, RemoveTarget
  <2>3. Revise(o, record[o].targets \cup {t}) \/ Revise(o, record[o].targets \ {t})
    BY <2>1 DEF AddTarget, RemoveTarget
  <2>4. record[o].targets \cup {t} \in SUBSET Tasks /\ record[o].targets \ {t} \in SUBSET Tasks
    BY <1>4, <2>2
  <2> QED
    BY <1>2, <2>3, <2>4
<1>7. CASE Pause(o) \/ Stop(o)
  BY <1>3, <1>7 DEF Pause, Stop
<1>8. CASE Resume(o)
  BY <1>3, <1>8 DEF Resume
<1> QED
  BY <1>1, <1>5, <1>6, <1>7, <1>8 DEF Command

(* A step of a supervised process that leaves the board alone. *)
LEMMA SupChanges ==
  ASSUME ScopesInv, NEW o \in Objectives, NEW s \in SupType,
         sup' = [sup EXCEPT ![o] = s], UNCHANGED <<board, record, loop, manual>>,
         s.pc # "running",
         s.pc # "idle" => Owner(o),
         s.pc = "started" => s.act.task \in record[o].scope
  PROVE  ScopesInv'
<1>1. UNCHANGED <<status, integrated, open, version>>
  BY DEF board
<1>2. sup' \in [Objectives -> SupType]
  BY DEF ScopesInv, ScopesType, SupType, LoopType
<1>3. ScopesType'
  BY <1>1, <1>2 DEF ScopesInv, ScopesType, SupType, LoopType, BoardType
<1>4. sup'[o] = s /\ \A p \in Objectives \ {o} : sup'[p] = sup[p]
  BY DEF ScopesInv, ScopesType, SupType, LoopType
<1>5. \A p \in Objectives : Owner(p)' => Owner(p)
  BY <1>4 DEF Owner, InDoubt
<1>6. Scoped'
  BY <1>4 DEF ScopesInv, Scoped, Owner
<1>7. ScopesDisjoint'
  BY <1>5 DEF ScopesInv, ScopesDisjoint
<1>8. OneAuthority'
  <2>1. ASSUME NEW p \in Objectives, sup'[p].pc = "running" PROVE p # o /\ (Owner(p) => Owner(p)')
    BY <1>4, <2>1 DEF Owner, InDoubt
  <2> QED
    BY <1>4, <1>5, <2>1 DEF ScopesInv, OneAuthority
<1>9. Executed'
  BY <1>1, <1>4 DEF ScopesInv, Executed, Executing
<1>10. Passed'
  BY <1>1, <1>4 DEF ScopesInv, Passed, Executing
<1> QED
  BY <1>3, <1>6, <1>7, <1>8, <1>9, <1>10 DEF ScopesInv

(* An action is started from the wave. *)
LEMMA WaveKeeps ==
  ASSUME ScopesInv, NEW o \in Objectives, StartAction(o)
  PROVE  ScopesInv'
<1>1. PICK a \in Wave(Board, record[o]) :
        Set(o, [pc |-> "started", act |-> a, pin |-> record[o].pins[a.task]])
  BY DEF StartAction
<1>2. record[o] # Nothing /\ record[o].state = "active" /\ record[o] \in Records
  BY DEF StartAction, Acting, ScopesInv, ScopesType, SupType, LoopType
<1>3. a \in [kind : {"execute", "review", "ask"}, task : record[o].scope]
  BY WaveInScope
<1>4. a.task \in Tasks /\ record[o].pins[a.task] \in Nat
  BY <1>2, <1>3 DEF Records
<1>5. [pc |-> "started", act |-> a, pin |-> record[o].pins[a.task]] \in SupType
  BY <1>2, <1>3, <1>4 DEF SupType, Records
<1>6. Owner(o)
  BY <1>2 DEF Owner
<1> QED
  BY <1>1, <1>3, <1>5, <1>6, SupChanges DEF StartAction, Set

(* What a process is put to between two actions. *)
LEMMA IdleType ==
  /\ NoAction \in [kind : {"execute", "review", "ask", "none"}, task : Tasks \cup {Nothing}]
  /\ IdleSup \in SupType /\ IdleSup.pc = "idle"
BY DEF NoAction, Do, SupType, IdleSup

(* The receipt is written, or the process dies. *)
LEMMA SuperviseEnds ==
  ASSUME ScopesInv, NEW o \in Objectives, WriteReceipt(o) \/ Lose(o)
  PROVE  ScopesInv'
<1>1. CASE WriteReceipt(o)
  <2>1. IdleSup \in SupType /\ IdleSup.pc = "idle"
    BY IdleType
  <2> QED
    BY <1>1, <2>1, SupChanges DEF WriteReceipt, Set
<1>2. CASE Lose(o)
  <2>1. /\ [pc |-> "lost", act |-> NoAction, pin |-> 0] \in SupType
        /\ [pc |-> "lost", act |-> NoAction, pin |-> 0].pc = "lost"
    BY IdleType DEF SupType
  <2>2. Owner(o)
    BY <1>2 DEF Lose, Owner, InDoubt, ScopesInv, Scoped
  <2> QED
    BY <1>2, <2>1, <2>2, SupChanges DEF Lose, Set, Puts
<1> QED
  BY <1>1, <1>2

(* The task command takes the task, reviews it, or refuses. *)
LEMMA LaunchKeeps ==
  ASSUME ScopesInv, NEW o \in Objectives, Launch(o)
  PROVE  ScopesInv'
<1> DEFINE t == sup[o].act.task
           a == sup[o].act
<1>1. /\ sup[o].pc = "started"
      /\ UNCHANGED <<integrated, open, version, record, loop, manual, failures>>
      /\ \/ a.kind = "execute" /\ Reservable(t) /\ Takes(t) /\ Puts(o, "running", a)
         \/ a.kind = "review" /\ status[t] = "review" /\ UNCHANGED status /\ Puts(o, "running", a)
         \/ UNCHANGED status /\ Puts(o, "lost", NoAction)
  BY DEF Launch
<1>2. Owner(o) /\ t \in record[o].scope /\ record[o] # Nothing
  BY <1>1 DEF Owner, InDoubt, ScopesInv, Scoped
<1>3. t \in Tasks
  BY <1>2 DEF ScopesInv, ScopesType, SupType, LoopType, Records
<1>4. a \in [kind : {"execute", "review", "ask", "none"}, task : Tasks \cup {Nothing}]
  BY DEF ScopesInv, ScopesType, SupType, LoopType
<1>5. CASE UNCHANGED status /\ Puts(o, "lost", NoAction)
  <2>1. /\ [pc |-> "lost", act |-> NoAction, pin |-> 0] \in SupType
        /\ [pc |-> "lost", act |-> NoAction, pin |-> 0].pc = "lost"
    BY IdleType DEF SupType
  <2> HIDE DEF t, a
  <2> QED
    BY <1>1, <1>2, <1>5, <2>1, SupChanges DEF Set, Puts, board
<1>6. ASSUME Puts(o, "running", a),
             \/ a.kind = "execute" /\ Reservable(t) /\ Takes(t)
             \/ a.kind = "review" /\ status[t] = "review" /\ UNCHANGED status
      PROVE  ScopesInv'
  <2> DEFINE s == [pc |-> "running", act |-> a, pin |-> 0]
  <2>1. s \in SupType /\ s.pc = "running" /\ s.act = a
    BY <1>4 DEF SupType
  <2>2. sup' = [sup EXCEPT ![o] = s]
    BY <1>6 DEF Puts, Set
  <2> HIDE DEF s, a, t
  <2>3. sup' \in [Objectives -> SupType]
    BY <2>1, <2>2 DEF ScopesInv, ScopesType, SupType, LoopType
  <2>4. sup'[o] = s /\ \A p \in Objectives \ {o} : sup'[p] = sup[p]
    BY <2>2 DEF ScopesInv, ScopesType, SupType, LoopType
  <2>5. DOMAIN status' = Tasks /\ \A u \in Tasks \ {t} : status'[u] = status[u]
    BY <1>6, <1>3 DEF Takes, ScopesInv, ScopesType, SupType, LoopType, BoardType
  <2>6. /\ a.kind = "execute" => status'[t] = "in_progress" /\ status[t] \in {"backlog", "failed"}
        /\ a.kind # "execute" => status'[t] = status[t] /\ status[t] = "review"
        /\ a.kind \in {"execute", "review"}
    BY <1>6, <1>3 DEF Takes, Reservable, ScopesInv, ScopesType, SupType, LoopType, BoardType
  <2>7. ScopesType'
    BY <1>1, <2>3, <2>5 DEF ScopesInv, ScopesType, SupType, LoopType, BoardType
  <2>8. \A p \in Objectives : Owner(p)' <=> Owner(p)
    BY <1>1, <1>2, <2>1, <2>4 DEF Owner, InDoubt
  <2>9. Scoped'
    BY <1>1, <1>2, <2>1, <2>4 DEF ScopesInv, Scoped, a, t
  <2>10. ScopesDisjoint'
    BY <1>1, <2>8 DEF ScopesInv, ScopesDisjoint
  <2>11. ~(loop.pc = "running" /\ loop.task = t)
    BY <2>6 DEF ScopesInv, Executed
  <2>12. OneAuthority'
    BY <1>1, <1>2, <2>1, <2>4, <2>8, <2>11 DEF ScopesInv, OneAuthority, a, t
  <2>13. \A p \in Objectives \ {o} : sup[p].pc = "running" => sup[p].act.task # t
    BY <1>2 DEF ScopesInv, OneAuthority, ScopesDisjoint
  <2>14. manual # Nothing => manual # t
    BY <2>6 DEF ScopesInv, Executed
  <2>15. \A p \in Objectives : sup[p].act.task \in Tasks \/ sup[p].pc # "running"
    BY DEF ScopesInv, ScopesType, SupType, LoopType, Scoped, Records
  <2>16. Executed'
    <3>1. ASSUME NEW p \in Objectives, Executing(p)'
          PROVE  status'[sup'[p].act.task] = "in_progress" /\ sup'[p].act.task # manual'
      <4>1. CASE p = o
        <5>1. manual # t
          BY <1>3, <2>14, ScopesAssumption DEF ScopesInv, ScopesType, SupType, LoopType
        <5> QED
          BY <1>1, <3>1, <4>1, <5>1, <2>1, <2>4, <2>6 DEF Executing, a, t
      <4>2. CASE p # o
        BY <1>1, <3>1, <4>2, <2>4, <2>5, <2>13, <2>15 DEF Executing, ScopesInv, Executed
      <4> QED
        BY <4>1, <4>2
    <3>2. loop'.pc = "running" => status'[loop'.task] = "in_progress" /\ loop'.task # manual'
      BY <1>1, <2>5, <2>11 DEF ScopesInv, Executed, ScopesType, SupType, LoopType
    <3>3. manual' # Nothing => status'[manual'] = "in_progress"
      BY <1>1, <2>5, <2>14 DEF ScopesInv, Executed, ScopesType, SupType, LoopType
    <3> QED
      BY <3>1, <3>2, <3>3 DEF Executed
  <2>17. Passed'
    <3> SUFFICES ASSUME loop'.pc = "passed", NEW p \in Objectives, sup'[p].pc = "running",
                        ~Executing(p)'
                 PROVE  status'[sup'[p].act.task] = "review"
      BY <1>1 DEF Passed, ScopesInv
    <3>1. CASE p = o
      BY <3>1, <2>1, <2>4, <2>6 DEF Executing, a, t
    <3>2. CASE p # o
      <4>1. sup[p].pc = "running" /\ ~Executing(p) /\ sup'[p] = sup[p]
        BY <3>2, <2>4 DEF Executing
      <4> QED
        BY <1>1, <4>1, <2>5, <2>13, <2>15, <3>2 DEF ScopesInv, Passed
    <3> QED
      BY <3>1, <3>2
  <2> QED
    BY <2>7, <2>9, <2>10, <2>12, <2>16, <2>17 DEF ScopesInv
<1> QED
  BY <1>1, <1>5, <1>6

(* A run or a review of t ends, or a run is given up: nobody executes t any more. *)
LEMMA TaskLeaves ==
  ASSUME ScopesInv, NEW t \in Tasks, DOMAIN status' = Tasks,
         \A u \in Tasks \ {t} : status'[u] = status[u],
         UNCHANGED <<version, record>>,
         sup' \in [Objectives -> SupType],
         \A p \in Objectives :
           sup'[p] = sup[p] \/ (sup[p].pc = "running" /\ sup'[p].pc = "ran"),
         loop' = loop \/ loop' = IdleLoop, manual' = manual \/ manual' = Nothing,
         \A p \in Objectives : Executing(p)' => sup'[p].act.task # t,
         loop'.pc = "running" => loop'.task # t, manual' # t,
         loop'.pc = "passed" =>
           \/ status'[t] = status[t]
           \/ \A p \in Objectives : sup'[p].pc = "running" => sup'[p].act.task # t
  PROVE  ScopesInv'
<1>1. ScopesType'
  <2>1. BoardType'
    BY DEF ScopesInv, ScopesType, SupType, LoopType, BoardType
  <2>2. loop' \in LoopType /\ (loop'.pc # "idle" => loop'.task \in Tasks)
    <3>1. CASE loop' = loop
      BY <3>1 DEF ScopesInv, ScopesType, SupType, LoopType
    <3>2. CASE loop' = IdleLoop
      BY <3>2 DEF IdleLoop, LoopType
    <3> QED
      BY <3>1, <3>2
  <2>3. manual' \in Tasks \cup {Nothing}
    BY DEF ScopesInv, ScopesType, SupType, LoopType
  <2>4. record' \in [Objectives -> Records \cup {Nothing}]
    BY DEF ScopesInv, ScopesType, SupType, LoopType
  <2> QED
    BY <2>1, <2>2, <2>3, <2>4 DEF ScopesType, SupType, LoopType
<1>2. \A p \in Objectives : Owner(p)' <=> Owner(p)
  BY DEF Owner, InDoubt
<1>3. Scoped'
  BY DEF ScopesInv, Scoped
<1>4. ScopesDisjoint'
  BY <1>2 DEF ScopesInv, ScopesDisjoint
<1>5. loop'.pc # "idle" => loop' = loop
  BY DEF IdleLoop
<1>6. OneAuthority'
  BY <1>2, <1>5 DEF ScopesInv, OneAuthority
<1>7. \A p \in Objectives : sup'[p].pc = "running" =>
        sup'[p] = sup[p] /\ sup[p].act.task \in Tasks
  BY DEF ScopesInv, Scoped, ScopesType, SupType, LoopType, Records
<1>8. Executed'
  <2>1. ASSUME NEW p \in Objectives, Executing(p)'
        PROVE  status'[sup'[p].act.task] = "in_progress" /\ sup'[p].act.task # manual'
    BY <1>7, <2>1, ScopesAssumption DEF Executing, ScopesInv, Executed
  <2>2. loop'.pc = "running" => status'[loop'.task] = "in_progress" /\ loop'.task # manual'
    BY <1>5, ScopesAssumption DEF ScopesInv, Executed, ScopesType, SupType, LoopType
  <2>3. manual' # Nothing => status'[manual'] = "in_progress"
    BY DEF ScopesInv, Executed, ScopesType, SupType, LoopType
  <2> QED
    BY <2>1, <2>2, <2>3 DEF Executed
<1>9. Passed'
  <2> SUFFICES ASSUME loop'.pc = "passed", NEW p \in Objectives, sup'[p].pc = "running",
                      ~Executing(p)'
               PROVE  status'[sup'[p].act.task] = "review"
    BY <1>5 DEF Passed, ScopesInv
  <2>1. sup'[p] = sup[p] /\ sup[p].act.task \in Tasks /\ ~Executing(p)
    BY <1>7 DEF Executing
  <2>2. status[sup[p].act.task] = "review"
    BY <2>1, <1>5 DEF ScopesInv, Passed
  <2> QED
    BY <2>1, <2>2
<1> QED
  BY <1>1, <1>3, <1>4, <1>6, <1>8, <1>9 DEF ScopesInv

(* The loop or a person takes t, which is neither running nor in review. *)
LEMMA TaskTaken ==
  ASSUME ScopesInv, NEW t \in Tasks, status[t] \in {"backlog", "failed", "waiting_answer"},
         Takes(t), UNCHANGED <<version, record, sup>>,
         \/ loop' = loop /\ manual = Nothing /\ manual' = t
         \/ /\ manual' = manual /\ loop' = [pc |-> "running", task |-> t, blind |-> loop'.blind]
            /\ loop'.blind \in BOOLEAN
            /\ ~loop'.blind => Fenced(t)
            /\ \A p \in Objectives : sup[p].pc = "running" => sup[p].act.task # t
  PROVE  ScopesInv'
<1>1. /\ DOMAIN status' = Tasks /\ status'[t] = "in_progress"
      /\ \A u \in Tasks \ {t} : status'[u] = status[u]
  BY DEF Takes, ScopesInv, ScopesType, SupType, LoopType, BoardType
<1>2. ScopesType'
  BY <1>1 DEF ScopesInv, ScopesType, SupType, LoopType, BoardType
<1>3. \A p \in Objectives : Owner(p)' <=> Owner(p)
  BY DEF Owner, InDoubt
<1>4. Scoped' /\ ScopesDisjoint'
  BY <1>3 DEF ScopesInv, Scoped, ScopesDisjoint
<1>5. \A p \in Objectives : Owner(p) /\ Fenced(t) => t \notin record[p].scope
  BY DEF Fenced, Unfenced, Owner, Owns
<1>6. OneAuthority'
  <2>1. CASE loop' = loop
    BY <1>3, <2>1 DEF ScopesInv, OneAuthority
  <2>2. CASE loop' # loop
    BY <1>3, <1>5, <2>2 DEF ScopesInv, OneAuthority
  <2> QED
    BY <2>1, <2>2
<1>7. Executed'
  <2>1. ASSUME NEW p \in Objectives, Executing(p)
        PROVE  /\ sup[p].act.task \in Tasks \ {t} /\ status[sup[p].act.task] = "in_progress"
               /\ sup[p].act.task # manual /\ sup[p].act.task # manual'
    BY <2>1 DEF Executing, ScopesInv, Executed, Scoped, ScopesType, SupType, LoopType, Records
  <2>2. loop.pc = "running" => loop.task # t /\ loop.task \in Tasks
    BY DEF ScopesInv, Executed, ScopesType, SupType, LoopType
  <2>3. manual # Nothing => manual # t /\ manual \in Tasks
    BY DEF ScopesInv, Executed, ScopesType, SupType, LoopType
  <2>4. \A p \in Objectives : Executing(p)' => Executing(p)
    BY DEF Executing
  <2>5. CASE loop' = loop /\ manual = Nothing /\ manual' = t
    BY <1>1, <2>1, <2>2, <2>4, <2>5 DEF ScopesInv, Executed
  <2>6. CASE manual' = manual /\ loop'.task = t
    <3>1. manual # t
      BY <2>3, ScopesAssumption
    <3> QED
      BY <1>1, <2>1, <2>3, <2>4, <2>6, <3>1 DEF ScopesInv, Executed
  <2> QED
    BY <2>5, <2>6
<1>8. Passed'
  <2> SUFFICES ASSUME loop'.pc = "passed", NEW p \in Objectives, sup[p].pc = "running",
                      ~Executing(p)
               PROVE  loop'.blind /\ status'[sup[p].act.task] = "review"
    BY DEF Passed, Executing, ScopesInv
  <2>1. loop' = loop
    OBVIOUS
  <2>2. status[sup[p].act.task] = "review" /\ sup[p].act.task \in Tasks
    BY <2>1 DEF ScopesInv, Passed, Scoped, ScopesType, SupType, LoopType, Records
  <2> QED
    BY <1>1, <2>1, <2>2 DEF ScopesInv, Passed
<1> QED
  BY <1>2, <1>4, <1>6, <1>7, <1>8 DEF ScopesInv

(* What else is done to the board. *)
LEMMA BoardKeeps ==
  ASSUME ScopesInv, BoardType', UNCHANGED <<status, record, sup, manual>>,
         \/ loop' = loop \/ loop' = IdleLoop
         \/ /\ loop' \in [pc : {"passed"}, task : Tasks, blind : {TRUE}]
            /\ \A p \in Objectives : sup[p].pc = "idle"
  PROVE  ScopesInv'
<1>1. ScopesType'
  <2>1. loop' \in LoopType /\ (loop'.pc # "idle" => loop'.task \in Tasks)
    <3>1. CASE loop' = loop
      BY <3>1 DEF ScopesInv, ScopesType, SupType, LoopType
    <3>2. CASE loop' = IdleLoop
      BY <3>2 DEF IdleLoop, LoopType
    <3>3. CASE loop' \in [pc : {"passed"}, task : Tasks, blind : {TRUE}]
      BY <3>3 DEF LoopType
    <3> QED
      BY <3>1, <3>2, <3>3
  <2> QED
    BY <2>1 DEF ScopesInv, ScopesType, SupType, LoopType
<1>2. \A p \in Objectives : Owner(p)' <=> Owner(p)
  BY DEF Owner, InDoubt
<1>3. Scoped' /\ ScopesDisjoint'
  BY <1>2 DEF ScopesInv, Scoped, ScopesDisjoint
<1>4. loop'.pc = "running" => loop' = loop
  <2>1. loop' = IdleLoop => loop'.pc = "idle"
    BY DEF IdleLoop
  <2>2. loop' \in [pc : {"passed"}, task : Tasks, blind : {TRUE}] => loop'.pc = "passed"
    OBVIOUS
  <2> QED
    BY <2>1, <2>2
<1>5. OneAuthority' /\ Executed'
  BY <1>2, <1>4 DEF ScopesInv, OneAuthority, Executed, Executing
<1>6. Passed'
  <2>1. CASE loop' = loop
    BY <2>1 DEF ScopesInv, Passed, Executing
  <2>2. CASE loop' = IdleLoop
    BY <2>2 DEF Passed, IdleLoop
  <2>3. CASE /\ loop' \in [pc : {"passed"}, task : Tasks, blind : {TRUE}]
             /\ \A p \in Objectives : sup[p].pc = "idle"
    BY <2>3 DEF Passed
  <2> QED
    BY <2>1, <2>2, <2>3
<1> QED
  BY <1>1, <1>3, <1>5, <1>6 DEF ScopesInv

(* A run or a review changes the task it is of. *)
LEMMA Ended ==
  ASSUME BoardType, NEW t \in Tasks, RunEnds(t) \/ ReviewEnds(t)
  PROVE  DOMAIN status' = Tasks /\ \A u \in Tasks \ {t} : status'[u] = status[u]
BY DEF RunEnds, ReviewEnds, BoardType

(* The supervised action ends. *)
LEMMA FinishKeeps ==
  ASSUME ScopesInv, NEW o \in Objectives, Finish(o)
  PROVE  ScopesInv'
<1> DEFINE t == sup[o].act.task
<1>1. /\ sup[o].pc = "running"
      /\ sup' = [sup EXCEPT ![o] = [pc |-> "ran", act |-> NoAction, pin |-> 0]]
      /\ UNCHANGED <<integrated, open, version, record, loop, manual>>
  BY DEF Finish, Puts, Set
<1>2. t \in record[o].scope /\ record[o] # Nothing /\ Owner(o)
  BY <1>1 DEF ScopesInv, Scoped, Owner, InDoubt
<1>3. t \in Tasks
  BY <1>2 DEF ScopesInv, ScopesType, SupType, LoopType, Records
<1>4. \/ sup[o].act.kind = "execute" /\ RunEnds(t)
      \/ sup[o].act.kind # "execute" /\ status[t] = "review" /\ ReviewEnds(t)
      \/ UNCHANGED status
  BY DEF Finish
<1>5. DOMAIN status' = Tasks /\ \A u \in Tasks \ {t} : status'[u] = status[u]
  BY <1>3, <1>4, Ended DEF ScopesInv, ScopesType, SupType, LoopType, BoardType
<1>6. /\ sup' \in [Objectives -> SupType] /\ sup'[o].pc = "ran"
      /\ \A p \in Objectives \ {o} : sup'[p] = sup[p]
  BY <1>1, IdleType DEF ScopesInv, ScopesType, SupType, LoopType
<1>7. \A p \in Objectives \ {o} : sup[p].pc = "running" => sup[p].act.task # t
  BY <1>2 DEF ScopesInv, OneAuthority, ScopesDisjoint
<1>8. CASE UNCHANGED status
  <2>1. [pc |-> "ran", act |-> NoAction, pin |-> 0] \in SupType
    BY IdleType DEF SupType
  <2> QED
    BY <1>1, <1>2, <1>8, <2>1, SupChanges DEF board
<1>9. CASE ~UNCHANGED status
  <2>1. manual # t /\ ~(loop.pc = "running" /\ loop.task = t)
    <3>1. ~(loop.pc = "running" /\ loop.task = t)
      BY <1>1 DEF ScopesInv, OneAuthority
    <3>2. CASE sup[o].act.kind = "execute"
      BY <1>1, <3>1, <3>2 DEF ScopesInv, Executed, Executing
    <3>3. CASE status[t] = "review"
      BY <1>3, <3>1, <3>3, ScopesAssumption DEF ScopesInv, Executed
    <3> QED
      BY <1>4, <1>9, <3>1, <3>2, <3>3
  <2> HIDE DEF t
  <2> QED
    BY <1>1, <1>3, <1>5, <1>6, <1>7, <2>1, TaskLeaves DEF Executing
<1> QED
  BY <1>8, <1>9

(* What the old loop does. *)
LEMMA LoopKeeps ==
  ASSUME ScopesInv, Loop
  PROVE  ScopesInv'
<1>1. CASE LoopReserve
  <2>1. loop.pc = "passed" /\ loop.task \in Tasks /\ loop.blind
    BY <1>1 DEF LoopReserve, ScopesInv, ScopesType, SupType, LoopType, Passed
  <2>2. CASE Reservable(loop.task)
    <3>1. /\ Takes(loop.task) /\ loop' = [loop EXCEPT !.pc = "running"]
          /\ UNCHANGED <<version, record, sup, manual>>
      BY <1>1, <2>2 DEF LoopReserve
    <3>2. loop' = [pc |-> "running", task |-> loop.task, blind |-> TRUE]
      BY <2>1, <3>1 DEF ScopesInv, ScopesType, SupType, LoopType
    <3>3. status[loop.task] \in {"backlog", "failed"}
      BY <2>2 DEF Reservable
    <3>4. ASSUME NEW p \in Objectives, sup[p].pc = "running" PROVE sup[p].act.task # loop.task
      BY <2>1, <3>3, <3>4 DEF ScopesInv, Passed, Executed, Executing
    <3> QED
      BY <2>1, <3>1, <3>2, <3>3, <3>4, TaskTaken
  <2>3. CASE ~Reservable(loop.task)
    BY <1>1, <2>3, BoardKeeps DEF LoopReserve, ScopesInv, ScopesType, SupType, LoopType, BoardType
  <2> QED
    BY <2>2, <2>3
<1>2. CASE LoopRan
  <2>1. /\ loop.pc = "running" /\ RunEnds(loop.task) /\ loop' = IdleLoop /\ loop.task \in Tasks
        /\ UNCHANGED <<integrated, open, version, record, sup, manual>>
    BY <1>2 DEF LoopRan, ScopesInv, ScopesType, SupType, LoopType
  <2>2. DOMAIN status' = Tasks /\ \A u \in Tasks \ {loop.task} : status'[u] = status[u]
    BY <2>1, Ended DEF ScopesInv, ScopesType, SupType, LoopType
  <2>3. manual # loop.task
    BY <2>1 DEF ScopesInv, Executed
  <2>4. \A p \in Objectives : sup[p].pc = "running" => sup[p].act.task # loop.task
    BY <2>1 DEF ScopesInv, OneAuthority
  <2>5. sup \in [Objectives -> SupType] /\ loop'.pc = "idle"
    BY <2>1 DEF ScopesInv, ScopesType, SupType, LoopType, IdleLoop
  <2> QED
    BY <2>1, <2>2, <2>3, <2>4, <2>5, TaskLeaves DEF Executing
<1>3. ASSUME NEW t \in Tasks, LoopTake(t) PROVE ScopesInv'
  <2>1. /\ Fenced(t) /\ Reservable(t) /\ Takes(t) /\ UNCHANGED <<version, record, sup, manual>>
        /\ loop' = [pc |-> "running", task |-> t, blind |-> FALSE]
    BY <1>3 DEF LoopTake
  <2>2. status[t] \in {"backlog", "failed"}
    BY <2>1 DEF Reservable
  <2>3. ASSUME NEW p \in Objectives, sup[p].pc = "running" PROVE sup[p].act.task # t
    <3>1. Owner(p) /\ sup[p].act.task \in record[p].scope
      BY <2>3 DEF ScopesInv, OneAuthority
    <3> QED
      BY <2>1, <3>1 DEF Fenced, Unfenced, Owner, Owns
  <2> QED
    BY <2>1, <2>2, <2>3, TaskTaken
<1>4. ASSUME NEW t \in Tasks, LoopPass(t) PROVE ScopesInv'
  <2>1. \A p \in Objectives : sup[p].pc = "idle"
    BY <1>4 DEF LoopPass, Rooted, ScopesInv, Scoped
  <2>2. loop' \in [pc : {"passed"}, task : Tasks, blind : {TRUE}]
    BY <1>4 DEF LoopPass
  <2> QED
    BY <1>4, <2>1, <2>2, BoardKeeps
    DEF LoopPass, board, ScopesInv, ScopesType, SupType, LoopType, BoardType
<1>5. ASSUME NEW t \in Tasks, LoopReview(t) PROVE ScopesInv'
  <2>1. /\ loop.pc = "idle" /\ status[t] = "review" /\ ReviewEnds(t)
        /\ UNCHANGED <<integrated, open, version, record, sup, loop, manual>>
    BY <1>5 DEF LoopReview
  <2>2. DOMAIN status' = Tasks /\ \A u \in Tasks \ {t} : status'[u] = status[u]
    BY <2>1, Ended DEF ScopesInv, ScopesType, SupType, LoopType
  <2>3. manual # t /\ \A p \in Objectives : Executing(p) => sup[p].act.task # t
    BY <2>1, ScopesAssumption DEF ScopesInv, Executed
  <2>4. sup \in [Objectives -> SupType]
    BY DEF ScopesInv, ScopesType, SupType, LoopType
  <2> QED
    BY <2>1, <2>2, <2>3, <2>4, TaskLeaves DEF Executing
<1> QED
  BY <1>1, <1>2, <1>3, <1>4, <1>5 DEF Loop

(* What people do. *)
LEMMA PeopleKeep ==
  ASSUME ScopesInv,
         \/ ManualRan \/ \E t \in Tasks : Edit(t)
         \/ \E o \in Objectives, t \in Tasks : Attend(o, t)
  PROVE  ScopesInv'
<1>1. CASE ManualRan
  <2>1. /\ manual \in Tasks /\ RunEnds(manual) /\ manual' = Nothing
        /\ UNCHANGED <<integrated, open, version, record, sup, loop>>
    BY <1>1 DEF ManualRan, ScopesInv, ScopesType, SupType, LoopType
  <2>2. DOMAIN status' = Tasks /\ \A u \in Tasks \ {manual} : status'[u] = status[u]
    BY <2>1, Ended DEF ScopesInv, ScopesType, SupType, LoopType
  <2>3. /\ loop.pc = "running" => loop.task # manual
        /\ \A p \in Objectives : Executing(p) => sup[p].act.task # manual
        /\ Nothing # manual /\ status[manual] = "in_progress"
    BY <2>1, ScopesAssumption DEF ScopesInv, Executed
  <2>4. sup \in [Objectives -> SupType]
    BY DEF ScopesInv, ScopesType, SupType, LoopType
  <2>5. ASSUME loop.pc = "passed", NEW p \in Objectives, sup[p].pc = "running"
        PROVE  sup[p].act.task # manual
    BY <2>3, <2>5 DEF ScopesInv, Passed
  <2> QED
    BY <2>1, <2>2, <2>3, <2>4, <2>5, TaskLeaves DEF Executing
<1>2. ASSUME NEW t \in Tasks, Edit(t) PROVE ScopesInv'
  <2>1. version' \in [Tasks -> Nat] /\ \A u \in Tasks : version'[u] \in DOMAIN DepsOf[u]
    <3>1. version[t] + 1 \in DOMAIN DepsOf[t] /\ version[t] + 1 \in Nat
      BY <1>2, ScopesAssumption DEF Edit, ScopesInv, ScopesType, SupType, LoopType, BoardType
    <3> QED
      BY <1>2, <3>1 DEF Edit, ScopesInv, ScopesType, SupType, LoopType, BoardType
  <2> QED
    BY <1>2, <2>1, BoardKeeps DEF Edit, ScopesInv, ScopesType, SupType, LoopType, BoardType
<1>3. ASSUME NEW o \in Objectives, NEW t \in Tasks, MergeTask(o, t) \/ Decide(o, t)
      PROVE  ScopesInv'
  BY <1>3, BoardKeeps DEF MergeTask, Decide, ScopesInv, ScopesType, SupType, LoopType, BoardType
<1>4. ASSUME NEW o \in Objectives, NEW t \in Tasks, Rerun(o, t) PROVE ScopesInv'
  BY <1>4, TaskTaken DEF Rerun, CanRerun
<1> QED
  BY <1>1, <1>2, <1>3, <1>4 DEF Attend

(* No step breaks it. *)
LEMMA ScopesKeep == ASSUME ScopesInv, [ScopesNext]_scopeVars PROVE ScopesInv'
<1>1. ASSUME NEW o \in Objectives, Supervise(o) \/ Lose(o) PROVE ScopesInv'
  BY <1>1, WaveKeeps, LaunchKeeps, FinishKeeps, SuperviseEnds DEF Supervise
<1>2. CASE UNCHANGED scopeVars
  <2>1. BoardType'
    BY <1>2 DEF scopeVars, board, ScopesInv, ScopesType, SupType, LoopType, BoardType
  <2> QED
    BY <1>2, <2>1, BoardKeeps DEF scopeVars, board
<1> QED
  BY <1>1, <1>2, CommandKeeps, LoopKeeps, PeopleKeep DEF ScopesNext

(* The tasks are finitely many. *)
LEMMA TasksAreFinite == IsFiniteSet(Tasks) /\ Cardinality(Tasks) \in Nat
<1> DEFINE I == 1..Len(TaskOrder)
           f == [i \in I |-> TaskOrder[i]]
<1>1. TaskOrder \in Seq(Tasks) /\ ToSet(TaskOrder) = Tasks
  BY PlannerAssumption
<1>2. DOMAIN TaskOrder = I
  BY <1>1
<1>3. f \in Surjection(I, Tasks)
  <2>1. \A t \in Tasks : \E i \in I : f[i] = t
    BY <1>1, <1>2 DEF ToSet
  <2>2. f \in [I -> Tasks]
    BY <1>1, <1>2
  <2> HIDE DEF f, I
  <2> QED
    BY <2>1, <2>2 DEF Surjection
<1>4. IsFiniteSet(I)
  <2>1. Len(TaskOrder) \in Int
    BY <1>1
  <2> QED
    BY <2>1, FS_Interval
<1> QED
  BY <1>3, <1>4, FS_Surjection, FS_CardinalityType

(* What is reached stays reached. *)
LEMMA ReachedStays ==
  ASSUME NEW N \in Nat, NEW W,
         \A n \in 1..N : W[n - 1] \subseteq W[n],
         NEW m \in 0..N, NEW n \in m..N
  PROVE  W[m] \subseteq W[n]
<1> DEFINE Good == {k \in Nat : m + k <= N => W[m] \subseteq W[m + k]}
<1>1. 0 \in Good
  OBVIOUS
<1>2. ASSUME NEW k \in Nat, k \in Good PROVE k + 1 \in Good
  <2> SUFFICES ASSUME m + (k + 1) <= N PROVE W[m] \subseteq W[m + (k + 1)]
    OBVIOUS
  <2>1. W[m] \subseteq W[m + k]
    BY <1>2
  <2>2. m + (k + 1) \in 1..N /\ (m + (k + 1)) - 1 = m + k
    OBVIOUS
  <2>3. W[m + k] \subseteq W[m + (k + 1)]
    BY <2>2
  <2> QED
    BY <2>1, <2>3
<1>3. Nat \subseteq Good
  <2> HIDE DEF Good
  <2> QED
    BY <1>1, <1>2, AllNumbers
<1>4. n - m \in Nat /\ m + (n - m) = n
  OBVIOUS
<1>5. n - m \in Good
  BY <1>3, <1>4
<1> QED
  BY <1>4, <1>5

(* A walk along dependencies is in the closure of where it went next. *)
LEMMA WalkIsReached ==
  ASSUME NEW deps \in [Tasks -> SUBSET Tasks], Cardinality(Tasks) \in Nat,
         NEW g \in [0..Cardinality(Tasks) -> Tasks],
         \A n \in 1..Cardinality(Tasks) : g[n] \in deps[g[n - 1]],
         NEW i \in 0..Cardinality(Tasks), NEW j \in (i + 1)..Cardinality(Tasks)
  PROVE  g[j] \in Closure(deps[g[i]], deps)
<1> DEFINE N == Cardinality(Tasks)
<1>1. deps[g[i]] \in SUBSET Tasks
  OBVIOUS
<1>2. PICK W \in [0..N -> SUBSET Tasks] :
        /\ W[0] = deps[g[i]] /\ Closure(deps[g[i]], deps) = W[N]
        /\ \A n \in 1..N : W[n] = W[n - 1] \cup UNION {deps[t] : t \in W[n - 1]}
  BY <1>1, ClosureGrows
<1> DEFINE Good == {k \in Nat : (i + 1) + k <= N => g[(i + 1) + k] \in W[k]}
<1>3. 0 \in Good
  <2> SUFFICES ASSUME i + 1 <= N PROVE g[(i + 1) + 0] \in W[0]
    OBVIOUS
  <2>1. i + 1 \in 1..N /\ (i + 1) - 1 = i /\ (i + 1) + 0 = i + 1
    OBVIOUS
  <2>2. g[i + 1] \in deps[g[i]]
    BY <2>1
  <2> QED
    BY <1>2, <2>1, <2>2
<1>4. ASSUME NEW k \in Nat, k \in Good PROVE k + 1 \in Good
  <2> SUFFICES ASSUME (i + 1) + (k + 1) <= N PROVE g[(i + 1) + (k + 1)] \in W[k + 1]
    OBVIOUS
  <2>1. g[(i + 1) + k] \in W[k]
    BY <1>4
  <2>2. (i + 1) + (k + 1) \in 1..N /\ ((i + 1) + (k + 1)) - 1 = (i + 1) + k
        /\ k + 1 \in 1..N /\ (k + 1) - 1 = k
    OBVIOUS
  <2>3. g[(i + 1) + (k + 1)] \in deps[g[(i + 1) + k]]
    BY <2>2
  <2>4. W[k + 1] = W[k] \cup UNION {deps[t] : t \in W[k]}
    BY <1>2, <2>2
  <2> QED
    BY <2>1, <2>3, <2>4
<1>5. j - (i + 1) \in Nat /\ (i + 1) + (j - (i + 1)) = j /\ j - (i + 1) <= N
  OBVIOUS
<1>6. j - (i + 1) \in Good
  <2> HIDE DEF Good
  <2> QED
    BY <1>3, <1>4, <1>5, AllNumbers
<1>7. g[j] \in W[j - (i + 1)]
  BY <1>5, <1>6
<1>8. \A n \in 1..N : W[n - 1] \subseteq W[n]
  BY <1>2
<1>9. W[j - (i + 1)] \subseteq W[N]
  <2>1. PICK m \in 0..N : m = j - (i + 1)
    BY <1>5
  <2>2. N \in Nat /\ N \in m..N
    OBVIOUS
  <2> HIDE DEF N
  <2>3. W[m] \subseteq W[N]
    BY <1>8, <2>2, ReachedStays
  <2> QED
    BY <2>1, <2>3
<1> QED
  BY <1>2, <1>7, <1>9

(* Of the tasks of a scope that are in U, one depends on none in U. *)
LEMMA SomethingIsNext ==
  ASSUME NEW targets \in SUBSET Tasks, NEW deps \in [Tasks -> SUBSET Tasks], GraphValid(deps),
         NEW U, targets \cap U # {}
  PROVE  \E t \in Closure(targets, deps) \cap U : deps[t] \cap U = {}
<1> SUFFICES ASSUME \A t \in Closure(targets, deps) \cap U : deps[t] \cap U # {} PROVE FALSE
  OBVIOUS
<1>1. IsFiniteSet(Tasks) /\ Cardinality(Tasks) \in Nat
  BY TasksAreFinite
<1>2. PICK W \in [0..Cardinality(Tasks) -> SUBSET Tasks] :
        /\ W[0] = targets /\ Closure(targets, deps) = W[Cardinality(Tasks)]
        /\ \A n \in 1..Cardinality(Tasks) :
             W[n] = W[n - 1] \cup UNION {deps[t] : t \in W[n - 1]}
  <2>1. targets \in SUBSET Tasks /\ deps \in [Tasks -> SUBSET Tasks]
    OBVIOUS
  <2> QED
    BY ONLY <2>1, ClosureGrows
<1> DEFINE N == Cardinality(Tasks)
<1>3. \A n \in 1..N : W[n - 1] \subseteq W[n]
  BY <1>2
<1> DEFINE IsWalk(g, k) == /\ \A n \in 0..k : g[n] \in W[n] \cap U
                           /\ \A n \in 1..k : g[n] \in deps[g[n - 1]]
           Good == {k \in Nat : k <= N => \E g \in [0..k -> Tasks] : IsWalk(g, k)}
<1>4. 0 \in Good
  <2>1. PICK u \in Tasks : u \in W[0] \cap U
    BY <1>2
  <2>2. [n \in 0..0 |-> u] \in [0..0 -> Tasks] /\ IsWalk([n \in 0..0 |-> u], 0)
    BY <2>1
  <2> QED
    BY <2>2
<1>5. ASSUME NEW k \in Nat, k \in Good PROVE k + 1 \in Good
  <2> SUFFICES ASSUME k + 1 <= N PROVE \E g \in [0..k + 1 -> Tasks] : IsWalk(g, k + 1)
    OBVIOUS
  <2>0. \E g \in [0..k -> Tasks] : IsWalk(g, k)
    <3>1. k <= N
      BY <1>1
    <3> HIDE DEF IsWalk, N
    <3> QED
      BY <1>5, <3>1
  <2>1. PICK g \in [0..k -> Tasks] : IsWalk(g, k)
    <3> HIDE DEF IsWalk
    <3> QED
      BY <2>0
  <2>2. k \in 0..N /\ N \in k..N /\ k \in 0..k /\ k + 1 \in 1..N /\ (k + 1) - 1 = k
    BY <1>1
  <2>3. W[k] \subseteq W[N]
    BY <1>1, <1>3, <2>2, ReachedStays
  <2>4. g[k] \in W[k] \cap U
    BY <2>1, <2>2
  <2>5. PICK d \in deps[g[k]] : d \in U
    BY <1>2, <2>3, <2>4
  <2>6. d \in Tasks /\ d \in W[k + 1]
    BY <1>2, <2>2, <2>4, <2>5
  <2> DEFINE h == [n \in 0..k + 1 |-> IF n = k + 1 THEN d ELSE g[n]]
  <2>7. h \in [0..k + 1 -> Tasks]
    BY <2>6
  <2>8. h[k + 1] = d /\ \A n \in 0..k : h[n] = g[n]
    OBVIOUS
  <2> HIDE DEF h
  <2>9. ASSUME NEW n \in 0..k + 1 PROVE h[n] \in W[n] \cap U
    BY <2>1, <2>5, <2>6, <2>8
  <2>10. ASSUME NEW n \in 1..k + 1 PROVE h[n] \in deps[h[n - 1]]
    <3>1. CASE n = k + 1
      BY <2>2, <2>5, <2>8, <3>1
    <3>2. CASE n # k + 1
      <4>1. n \in 1..k /\ n \in 0..k /\ n - 1 \in 0..k
        BY <3>2
      <4> QED
        BY <2>1, <2>8, <4>1
    <3> QED
      BY <3>1, <3>2
  <2> QED
    BY <2>7, <2>9, <2>10
<1>6. N \in Good
  <2> HIDE DEF Good
  <2> QED
    BY <1>1, <1>4, <1>5, AllNumbers
<1>7. PICK g \in [0..N -> Tasks] : IsWalk(g, N)
  BY <1>1, <1>6
<1>8. PICK i, j \in 0..N : i # j /\ g[i] = g[j]
  <2>1. IsFiniteSet(0..N) /\ Cardinality(0..N) = N + 1
    BY <1>1, FS_Interval
  <2> HIDE DEF IsWalk
  <2> QED
    BY <1>1, <2>1, FS_PigeonHole
<1>9. ASSUME NEW a \in 0..N, NEW b \in 0..N, a < b PROVE g[a] # g[b]
  <2>1. b \in (a + 1)..N
    BY <1>1, <1>9
  <2>2. g[b] \in Closure(deps[g[a]], deps)
    BY <1>1, <1>7, <2>1, WalkIsReached
  <2>3. g[a] \notin Closure(deps[g[a]], deps)
    BY DEF GraphValid
  <2> QED
    BY <2>2, <2>3
<1> QED
  BY <1>1, <1>8, <1>9

(* A wave takes something of what is planned where nothing of the scope is running. *)
LEMMA WaveStarts ==
  ASSUME NEW b, NEW r, ActiveParallel(b, r) = 0, NEW kind \in {"execute", "review"},
         NEW t \in Tasks, Do(kind, t) \in PlanOf(b, r).selected
  PROVE  Wave(b, r) # {}
<1> SUFFICES ASSUME Wave(b, r) = {} PROVE FALSE
  OBVIOUS
<1> DEFINE N == Len(Considered)
           L == Len(TaskOrder)
           W == Waves(b, r)
           of(k) == [i \in 1..L |-> Do(k, TaskOrder[i])]
           Both == {Do(k, u) : k \in {"execute", "review"}, u \in Tasks}
<1>1. N \in Nat /\ L \in Nat
  BY ManyConsidered, PlannerAssumption
<1>2. PICK n \in 1..N : Considered[n] = Do(kind, t)
  <2>1. TaskOrder \in Seq(Tasks) /\ ToSet(TaskOrder) = Tasks
    BY PlannerAssumption
  <2>2. PICK i \in 1..L : TaskOrder[i] = t
    BY <2>1 DEF ToSet
  <2>3. \A i1 \in 1..L : TaskOrder[i1] \in Tasks
    BY <2>1
  <2>4. of("execute") \in Seq(Both) /\ of("review") \in Seq(Both)
    BY <1>1, <2>3
  <2>5. Len(of("execute")) = L /\ Len(of("review")) = L
    BY <1>1
  <2>6. of("execute")[i] = Do("execute", t) /\ of("review")[i] = Do("review", t)
    BY <2>2
  <2>7. Considered = of("execute") \o of("review")
    BY DEF Considered
  <2> HIDE DEF of, Both
  <2>8. /\ N = L + L
        /\ \A m \in 1..L + L : Considered[m] =
             IF m <= L THEN of("execute")[m] ELSE of("review")[m - L]
    <3> DEFINE E == of("execute")
               V == of("review")
    <3> HIDE DEF E, V, L
    <3>1. E \in Seq(Both) /\ V \in Seq(Both) /\ Len(E) = L /\ Len(V) = L /\ Considered = E \o V
      BY <2>4, <2>5, <2>7 DEF E, V
    <3>2. /\ Len(E \o V) = Len(E) + Len(V)
          /\ \A m \in 1..Len(E) + Len(V) :
               (E \o V)[m] = IF m <= Len(E) THEN E[m] ELSE V[m - Len(E)]
      <4>1. E \in Seq(Both) /\ V \in Seq(Both)
        BY <3>1
      <4> QED
        BY <4>1, ConcatProperties
    <3> QED
      BY <3>1, <3>2 DEF E, V
  <2>9. CASE kind = "execute"
    <3>1. i \in 1..N /\ i \in 1..L + L /\ i <= L
      BY <1>1, <2>8
    <3>2. Considered[i] = Do("execute", t)
      BY <2>6, <2>8, <3>1
    <3> QED
      BY <2>9, <3>1, <3>2
  <2>10. CASE kind = "review"
    <3>1. L + i \in 1..N /\ L + i \in 1..L + L /\ ~(L + i <= L) /\ (L + i) - L = i
      BY <1>1, <2>8
    <3>2. Considered[L + i] = Do("review", t)
      BY <2>6, <2>8, <3>1
    <3> QED
      BY <2>10, <3>1, <3>2
  <2> QED
    BY <2>9, <2>10
<1> HIDE DEF N, W
<1>3. \A m \in 1..N : W[m - 1] \subseteq W[m]
  BY WaveGrows DEF N, W
<1>4. W[N] = {}
  BY DEF Wave, N, W
<1>5. W[n] = {} /\ W[n - 1] = {}
  <2>1. n \in 0..N /\ n - 1 \in 0..N /\ N \in n..N /\ N \in (n - 1)..N
    BY <1>1
  <2>2. W[n] \subseteq W[N]
    BY <1>1, <1>3, <2>1, ReachedStays
  <2>3. W[n - 1] \subseteq W[N]
    BY <1>1, <1>3, <2>1, ReachedStays
  <2> QED
    BY <1>4, <2>2, <2>3
<1>6. Joins(Do(kind, t), {}, PlanOf(b, r), MaxParallel - ActiveParallel(b, r))
  BY FS_EmptySet, PlannerAssumption DEF Joins
<1>7. Do(kind, t) \in W[n]
  <2>1. W[n] = W[n - 1] \cup {a \in {Considered[n]} : Joins(a, W[n - 1], PlanOf(b, r),
                                            MaxParallel - ActiveParallel(b, r))}
    BY WaveGrows DEF N, W
  <2> QED
    BY <1>2, <1>5, <1>6, <2>1
<1> QED
  BY <1>5, <1>7

(* Whoever has a task in progress: a supervised run, one that nobody ends, the loop, or
   a person. *)
Held(t) ==
  \/ \E p \in Objectives : Executing(p) /\ sup[p].act.task = t
  \/ \E p \in Objectives : sup[p].pc = "lost"
  \/ loop.pc = "running" /\ loop.task = t
  \/ manual = t

(* Nothing is in progress that nobody holds, and what was ever taken waits for no
   decision. *)
Statuses == {"backlog", "in_progress", "review", "done", "failed", "waiting_answer"}
Accounted ==
  /\ status \in [Tasks -> Statuses]
  /\ \A t \in Tasks : status[t] = "in_progress" => Held(t)
  /\ \A t \in Tasks : status[t] # "backlog" => BlockedOn[t] \cap open = {}

(* At first everything is queued. *)
LEMMA AccountedAtFirst == ScopesInit => Accounted
BY DEF ScopesInit, Accounted, Statuses

(* A step that leaves the tasks as they are, *)
LEMMA TasksStay ==
  ASSUME Accounted, UNCHANGED status, open' \subseteq open, \A t \in Tasks : Held(t) => Held(t)'
  PROVE  Accounted'
BY DEF Accounted

(* that takes one, *)
LEMMA TaskIsHeld ==
  ASSUME Accounted, NEW t \in Tasks, Dispatchable(Board, t), Takes(t), UNCHANGED open,
         Held(t)', \A u \in Tasks \ {t} : Held(u) => Held(u)'
  PROVE  Accounted'
<1>1. /\ status' \in [Tasks -> Statuses] /\ status'[t] = "in_progress"
      /\ \A u \in Tasks \ {t} : status'[u] = status[u]
  BY DEF Accounted, Takes, Statuses
<1>2. BlockedOn[t] \cap open' = {}
  BY DEF Dispatchable, Board
<1> QED
  BY <1>1, <1>2 DEF Accounted

(* or that ends the run or the review of one. *)
LEMMA TaskIsLeft ==
  ASSUME ScopesInv, Accounted, NEW t \in Tasks, status[t] # "backlog",
         RunEnds(t) \/ ReviewEnds(t), UNCHANGED open,
         \A u \in Tasks \ {t} : Held(u) => Held(u)'
  PROVE  Accounted'
<1>1. PICK s \in {"review", "waiting_answer", "failed", "done"} :
        status' = [status EXCEPT ![t] = s]
  BY DEF RunEnds, ReviewEnds
<1>2. /\ status' \in [Tasks -> Statuses] /\ status'[t] \notin {"in_progress", "backlog"}
      /\ \A u \in Tasks \ {t} : status'[u] = status[u]
  BY <1>1 DEF Accounted, Statuses
<1> QED
  BY <1>2 DEF Accounted

(* A supervised process lets go of nothing but the task it executes. *)
LEMMA HeldBySup ==
  ASSUME ScopesType, NEW o \in Objectives, NEW s, sup' = [sup EXCEPT ![o] = s],
         sup[o].pc # "lost", UNCHANGED <<loop, manual>>,
         NEW t \in Tasks, Held(t), ~(Executing(o) /\ sup[o].act.task = t)
  PROVE  Held(t)'
<1>1. \A p \in Objectives \ {o} : sup'[p] = sup[p]
  BY DEF ScopesType
<1> QED
  BY <1>1 DEF Held, Executing

(* What a supervised process does. *)
LEMMA SuperviseAccounts ==
  ASSUME ScopesInv, Accounted, NEW o \in Objectives, Supervise(o) \/ Lose(o)
  PROVE  Accounted'
<1>0. ScopesType
  BY DEF ScopesInv
<1>1. CASE StartAction(o)
  <2>1. PICK s : sup' = [sup EXCEPT ![o] = s]
    BY <1>1 DEF StartAction, Set
  <2>2. sup[o].pc = "idle" /\ UNCHANGED <<status, open, loop, manual>>
    BY <1>1 DEF StartAction, board
  <2>3. \A t \in Tasks : Held(t) => Held(t)'
    BY <1>0, <2>1, <2>2, HeldBySup DEF Executing
  <2> QED
    BY <2>2, <2>3, TasksStay
<1>2. CASE WriteReceipt(o)
  <2>1. /\ sup' = [sup EXCEPT ![o] = IdleSup]
        /\ sup[o].pc = "ran" /\ UNCHANGED <<status, open, loop, manual>>
    BY <1>2 DEF WriteReceipt, Set, board
  <2>2. \A t \in Tasks : Held(t) => Held(t)'
    BY <1>0, <2>1, HeldBySup DEF Executing
  <2> QED
    BY <2>1, <2>2, TasksStay
<1>3. ASSUME Puts(o, "lost", NoAction), UNCHANGED <<status, open>> PROVE Accounted'
  <2>1. sup'[o].pc = "lost"
    BY <1>0, <1>3 DEF Puts, Set, ScopesType
  <2>2. \A t \in Tasks : Held(t)'
    BY <2>1 DEF Held
  <2> QED
    BY <1>3, <2>2, TasksStay
<1>4. CASE Lose(o)
  BY <1>3, <1>4 DEF Lose, board
<1>5. CASE Launch(o)
  <2> DEFINE t == sup[o].act.task
             a == sup[o].act
  <2>1. /\ sup[o].pc = "started" /\ UNCHANGED <<open, loop, manual>>
        /\ \/ a.kind = "execute" /\ Reservable(t) /\ Takes(t) /\ Puts(o, "running", a)
           \/ UNCHANGED status /\ Puts(o, "running", a)
           \/ UNCHANGED status /\ Puts(o, "lost", NoAction)
    BY <1>5 DEF Launch
  <2>2. t \in Tasks
    BY <2>1 DEF ScopesInv, Scoped, ScopesType, Records
  <2>3. ASSUME Puts(o, "running", a)
        PROVE  \A u \in Tasks : Held(u) => Held(u)'
    <3>1. PICK s : sup' = [sup EXCEPT ![o] = s]
      BY <2>3 DEF Puts, Set
    <3> QED
      BY <1>0, <2>1, <3>1, HeldBySup DEF Executing
  <2>4. CASE a.kind = "execute" /\ Reservable(t) /\ Takes(t) /\ Puts(o, "running", a)
    <3>1. PICK u \in Tasks : u = t
      BY <2>2
    <3>2. sup'[o] = [pc |-> "running", act |-> a, pin |-> 0]
      BY <1>0, <2>4 DEF Puts, Set, ScopesType
    <3>3. Executing(o)' /\ sup'[o].act.task = u
      BY <2>4, <3>1, <3>2 DEF Executing
    <3>4. Held(u)'
      BY <3>3 DEF Held
    <3>5. Dispatchable(Board, u) /\ Takes(u)
      BY <2>4, <3>1 DEF Reservable
    <3> QED
      BY <2>1, <2>3, <2>4, <3>4, <3>5, TaskIsHeld
  <2>5. CASE UNCHANGED status /\ Puts(o, "running", a)
    BY <2>1, <2>3, <2>5, TasksStay
  <2>6. CASE UNCHANGED status /\ Puts(o, "lost", NoAction)
    BY <1>3, <2>1, <2>6
  <2> QED
    BY <2>1, <2>4, <2>5, <2>6
<1>6. CASE Finish(o)
  <2> DEFINE t == sup[o].act.task
  <2>1. /\ sup[o].pc = "running" /\ UNCHANGED <<open, loop, manual>>
        /\ Puts(o, "ran", NoAction)
    BY <1>6 DEF Finish
  <2>2. t \in Tasks
    BY <2>1 DEF ScopesInv, Scoped, ScopesType, Records
  <2>3. \A u \in Tasks \ {t} : Held(u) => Held(u)'
    <3>1. PICK s : sup' = [sup EXCEPT ![o] = s]
      BY <2>1 DEF Puts, Set
    <3> QED
      BY <1>0, <2>1, <3>1, HeldBySup DEF Executing
  <2>4. CASE sup[o].act.kind = "execute"
    <3>1. RunEnds(t) /\ status[t] = "in_progress"
      BY <1>6, <2>1, <2>4 DEF Finish, ScopesInv, Executed, Executing
    <3> QED
      BY <2>1, <2>2, <2>3, <3>1, TaskIsLeft
  <2>5. CASE sup[o].act.kind # "execute" /\ status[t] = "review"
    <3>1. ReviewEnds(t)
      BY <1>6, <2>5 DEF Finish
    <3> QED
      BY <2>1, <2>2, <2>3, <2>5, <3>1, TaskIsLeft
  <2>6. CASE sup[o].act.kind # "execute" /\ status[t] # "review"
    <3>1. UNCHANGED status
      BY <1>6, <2>6 DEF Finish
    <3>2. ASSUME NEW u \in Tasks, Held(u) PROVE Held(u)'
      <4>1. PICK s : sup' = [sup EXCEPT ![o] = s]
        BY <2>1 DEF Puts, Set
      <4>2. ~Executing(o)
        BY <2>6 DEF Executing
      <4> QED
        BY <1>0, <2>1, <3>2, <4>1, <4>2, HeldBySup
    <3> QED
      BY <2>1, <3>1, <3>2, TasksStay
  <2> QED
    BY <2>4, <2>5, <2>6
<1> QED
  BY <1>1, <1>2, <1>4, <1>5, <1>6 DEF Supervise

(* What the loop does. *)
LEMMA LoopAccounts ==
  ASSUME ScopesInv, Accounted, Loop
  PROVE  Accounted'
<1>1. CASE LoopReserve
  <2>1. /\ loop.pc = "passed" /\ loop.task \in Tasks /\ loop \in LoopType
        /\ UNCHANGED <<open, sup, manual>>
    BY <1>1 DEF LoopReserve, ScopesInv, ScopesType
  <2>2. \A u \in Tasks : Held(u) => Held(u)'
    BY <2>1 DEF Held, Executing
  <2>3. CASE Reservable(loop.task)
    <3>1. Takes(loop.task) /\ loop' = [loop EXCEPT !.pc = "running"]
      BY <1>1, <2>3 DEF LoopReserve
    <3>2. loop'.pc = "running" /\ loop'.task = loop.task
      BY <2>1, <3>1 DEF LoopType
    <3>3. PICK t \in Tasks : t = loop.task
      BY <2>1
    <3>4. Held(t)' /\ Takes(t) /\ Dispatchable(Board, t)
      BY <2>3, <3>1, <3>2, <3>3 DEF Reservable, Held
    <3> QED
      BY <2>1, <2>2, <3>4, TaskIsHeld
  <2>4. CASE ~Reservable(loop.task)
    BY <1>1, <2>1, <2>2, <2>4, TasksStay DEF LoopReserve
  <2> QED
    BY <2>3, <2>4
<1>2. CASE LoopRan
  <2>1. PICK t \in Tasks : t = loop.task
    BY <1>2 DEF LoopRan, ScopesInv, ScopesType
  <2>2. /\ loop.pc = "running" /\ RunEnds(t) /\ status[t] = "in_progress"
        /\ UNCHANGED <<open, sup, manual>>
    BY <1>2, <2>1 DEF LoopRan, ScopesInv, Executed
  <2>3. \A u \in Tasks \ {t} : Held(u) => Held(u)'
    BY <2>1, <2>2 DEF Held, Executing
  <2> QED
    BY <2>2, <2>3, TaskIsLeft
<1>3. ASSUME NEW t \in Tasks, LoopTake(t) PROVE Accounted'
  <2>1. /\ loop.pc = "idle" /\ Dispatchable(Board, t) /\ Takes(t)
        /\ loop' = [pc |-> "running", task |-> t, blind |-> FALSE]
        /\ UNCHANGED <<open, sup, manual>>
    BY <1>3 DEF LoopTake, Reservable
  <2>2. Held(t)' /\ \A u \in Tasks \ {t} : Held(u) => Held(u)'
    BY <2>1 DEF Held, Executing
  <2> QED
    BY <2>1, <2>2, TaskIsHeld
<1>4. ASSUME NEW t \in Tasks, LoopPass(t) PROVE Accounted'
  <2>1. loop.pc = "idle" /\ UNCHANGED <<status, open, sup, manual>>
    BY <1>4 DEF LoopPass, board
  <2>2. \A u \in Tasks : Held(u) => Held(u)'
    BY <2>1 DEF Held, Executing
  <2> QED
    BY <2>1, <2>2, TasksStay
<1>5. ASSUME NEW t \in Tasks, LoopReview(t) PROVE Accounted'
  <2>1. status[t] = "review" /\ ReviewEnds(t) /\ UNCHANGED <<open, sup, loop, manual>>
    BY <1>5 DEF LoopReview
  <2>2. \A u \in Tasks : Held(u) => Held(u)'
    BY <2>1 DEF Held, Executing
  <2> QED
    BY <2>1, <2>2, TaskIsLeft
<1> QED
  BY <1>1, <1>2, <1>3, <1>4, <1>5 DEF Loop

(* What people do. *)
LEMMA PeopleAccount ==
  ASSUME ScopesInv, Accounted,
         \/ ManualRan \/ \E t \in Tasks : Edit(t)
         \/ \E o \in Objectives, t \in Tasks : Attend(o, t)
  PROVE  Accounted'
<1>1. CASE ManualRan
  <2>1. PICK t \in Tasks : t = manual
    BY <1>1 DEF ManualRan, ScopesInv, ScopesType
  <2>2. /\ RunEnds(t) /\ status[t] = "in_progress" /\ UNCHANGED <<open, sup, loop>>
    BY <1>1, <2>1 DEF ManualRan, ScopesInv, Executed
  <2>3. \A u \in Tasks \ {t} : Held(u) => Held(u)'
    BY <2>1, <2>2 DEF Held, Executing
  <2> QED
    BY <2>2, <2>3, TaskIsLeft
<1>2. ASSUME UNCHANGED <<status, sup, loop, manual>>, open' \subseteq open PROVE Accounted'
  <2>1. \A u \in Tasks : Held(u) => Held(u)'
    BY <1>2 DEF Held, Executing
  <2> QED
    BY <1>2, <2>1, TasksStay
<1>3. ASSUME NEW o \in Objectives, NEW t \in Tasks, Rerun(o, t) PROVE Accounted'
  <2>1. /\ manual = Nothing /\ Dispatchable(Board, t) /\ Takes(t) /\ manual' = t
        /\ UNCHANGED <<open, sup, loop>>
    BY <1>3 DEF Rerun, CanRerun
  <2>2. Held(t)' /\ \A u \in Tasks \ {t} : Held(u) => Held(u)'
    BY <2>1, ScopesAssumption DEF Held, Executing
  <2> QED
    BY <2>1, <2>2, TaskIsHeld
<1>4. ASSUME NEW t \in Tasks, Edit(t) PROVE Accounted'
  BY <1>2, <1>4 DEF Edit
<1>5. ASSUME NEW o \in Objectives, NEW t \in Tasks, MergeTask(o, t) \/ Decide(o, t)
      PROVE  Accounted'
  BY <1>2, <1>5 DEF MergeTask, Decide
<1> QED
  BY <1>1, <1>3, <1>4, <1>5 DEF Attend

(* No step breaks it. *)
LEMMA AccountsKeep ==
  ASSUME ScopesInv, Accounted, [ScopesNext]_scopeVars
  PROVE  Accounted'
<1>1. ASSUME UNCHANGED <<status, open, sup, loop, manual>> PROVE Accounted'
  BY <1>1 DEF Accounted, Held, Executing
<1>2. CASE UNCHANGED scopeVars
  BY <1>1, <1>2 DEF scopeVars, board
<1>3. ASSUME NEW o \in Objectives, Command(o) PROVE Accounted'
  <2>1. PICK r : CommitEvent(o, r)
    BY <1>3 DEF Command, Create, Reconcile, AddTarget, RemoveTarget, Revise, Pause, Stop,
       Resume, Transition
  <2> QED
    BY <1>1, <2>1 DEF CommitEvent, board
<1> QED
  BY <1>2, <1>3, SuperviseAccounts, LoopAccounts, PeopleAccount DEF ScopesNext

(* An Objective whose contracts stand and that is not complete has a run under way, a
   wave to start, or something in its plan that people can do. *)
LEMMA ScopesGoOn == ASSUME ScopesInv, Accounted PROVE NeverStuck
<1> SUFFICES ASSUME NEW o \in Objectives, Acting(o), ~Complete(Board, record[o]),
                    \A p \in Objectives : sup[p].pc = "idle",
                    loop.pc # "running", manual = Nothing, Wave(Board, record[o]) = {}
             PROVE  \E t \in Tasks : CanMerge(o, t) \/ CanRerun(o, t) \/ CanDecide(o, t)
  BY DEF NeverStuck
<1> DEFINE r == record[o]
           U == {t \in Tasks : ~Merged(Board, t)}
<1>1. \A t \in Tasks : status[t] # "in_progress"
  BY ScopesAssumption DEF Accounted, Held, Executing
<1>2. /\ GraphValid(Deps) /\ Deps \in [Tasks -> SUBSET Tasks]
      /\ r.targets \in SUBSET Tasks /\ r.scope = Closure(r.targets, Deps)
  <2>1. GraphValid(Deps) /\ ~Drifted(r) /\ r \in Records
    BY DEF Acting, ScopesInv, ScopesType
  <2>2. Record(r.targets, r.state, r.seq) = r
    BY <2>1 DEF Drifted
  <2>3. Record(r.targets, r.state, r.seq).scope = Closure(r.targets, Deps)
    BY DEF Record
  <2> QED
    BY <2>1, <2>2, <2>3, DepsAreTasks DEF ScopesInv, ScopesType, Records
<1>3. PICK t \in r.scope \cap U : Deps[t] \cap U = {}
  <2>1. r.targets \cap U # {}
    BY <1>2 DEF Complete
  <2> HIDE DEF U, r
  <2> QED
    BY <1>2, <2>1, SomethingIsNext
<1>4. /\ t \in Tasks /\ t \in r.scope /\ ~Merged(Board, t)
      /\ \A d \in Deps[t] : Merged(Board, d)
  BY <1>2, <1>3
<1>5. /\ Board.status = status /\ Board.integrated = integrated /\ Board.open = open
      /\ Board.deps = Deps
  BY DEF Board
<1>6. Rivals(Board, t) = {}
  BY <1>1, <1>5 DEF Rivals
<1>7. PlanOf(Board, r) = [selected |-> Selected(Board, r), blocked |-> Blocked(Board, r),
                         attention |-> Attention(Board, r)]
  BY DEF PlanOf
<1>8. ASSUME NEW part \in {"selected", "blocked", "attention"}, NEW a,
             a \in PlanOf(Board, r)[part]
      PROVE  Shows(o, part, a)
  BY <1>8 DEF Shows
<1>9. ActiveParallel(Board, r) = 0
  <2>1. {u \in r.scope : Board.status[u] = "in_progress"} = {}
    BY <1>1, <1>2, <1>5, ClosureOfTasks
  <2> QED
    BY <2>1, FS_EmptySet DEF ActiveParallel
<1>10. status[t] # "backlog" => Dispatchable(Board, t)
  BY <1>1, <1>2, <1>4, <1>5 DEF Dispatchable, Accounted, Merged
<1> HIDE DEF U
<1>11. CASE status[t] = "backlog"
  <2>1. t \in Queued(Board)
    BY <1>4, <1>5, <1>11 DEF Queued
  <2>2. CASE Blocker(Board, t) = "decision"
    <3>1. Do("execute", t) \in Blocked(Board, r)
      BY <1>4, <2>1, <2>2 DEF Blocked, All, Ready
    <3> QED
      BY <1>4, <1>7, <1>8, <2>2, <3>1 DEF CanDecide
  <2>3. CASE Blocker(Board, t) # "decision"
    <3>1. Blocker(Board, t) = "none"
      BY <1>4, <1>5, <1>6, <2>3 DEF Blocker, Merged
    <3>2. Do("execute", t) \in Selected(Board, r)
      BY <1>4, <2>1, <3>1 DEF Selected, All, Ready
    <3> QED
      BY <1>4, <1>7, <1>9, <3>2, WaveStarts
  <2> QED
    BY <2>2, <2>3
<1>12. CASE status[t] = "review"
  <2>1. Do("review", t) \in Selected(Board, r)
    BY <1>4, <1>5, <1>12 DEF Selected, All
  <2> QED
    BY <1>4, <1>7, <1>9, <2>1, WaveStarts
<1>13. CASE status[t] = "waiting_answer"
  <2>1. Do("ask", t) \in Selected(Board, r)
    BY <1>4, <1>5, <1>13 DEF Selected, All
  <2>2. Shows(o, "selected", Do("ask", t))
    BY <1>7, <1>8, <2>1
  <2> QED
    BY <1>4, <1>10, <1>13, <2>2 DEF CanRerun
<1>14. CASE status[t] = "failed"
  <2>1. Do("failed", t) \in Attention(Board, r)
    BY <1>4, <1>5, <1>14 DEF Attention, All
  <2>2. Shows(o, "attention", Do("failed", t))
    BY <1>7, <1>8, <2>1
  <2> QED
    BY <1>4, <1>10, <1>14, <2>2 DEF CanRerun
<1>15. CASE status[t] = "done"
  <2>1. Do("merge", t) \in Blocked(Board, r)
    BY <1>4, <1>5, <1>15 DEF Blocked, All, Merged
  <2>2. Shows(o, "blocked", Do("merge", t))
    BY <1>7, <1>8, <2>1
  <2> QED
    BY <1>4, <2>2 DEF CanMerge
<1> QED
  BY <1>1, <1>4, <1>11, <1>12, <1>13, <1>14, <1>15 DEF Accounted, Statuses

(* However Objectives are made, revised, paused and resumed while contracts change, and
   whatever is run by the supervised waves, by the loop and by people: no task has two
   owners, and a run has one authority. *)
THEOREM AuthorityIsOne == ScopesSpec => []AuthorityHolds
<1>1. ScopesInv => AuthorityHolds
  BY DEF ScopesInv, AuthorityHolds
<1> QED
  BY <1>1, ScopesStart, ScopesKeep, PTL DEF ScopesSpec

(* A wave can run as a whole, whichever part of it runs already, and what the dispatcher
   would take is planned. *)
THEOREM WavesCanRun == ScopesSpec => []WaveRunnable
<1>1. ScopesInv => WaveRunnable
  BY WavesRun DEF ScopesInv
<1> QED
  BY <1>1, ScopesStart, ScopesKeep, PTL DEF ScopesSpec

(* A wave that is planned can run as a whole, and no Objective that is not complete comes
   to a halt unseen, however many tasks rest on each other. *)
THEOREM WavesKeepGoing == ScopesSpec => []WavesGo
<1>1. ScopesInv /\ Accounted => WavesGo
  BY WavesRun, ScopesGoOn DEF WavesGo, ScopesInv
<1>2. ScopesInit => ScopesInv /\ Accounted
  BY ScopesStart, AccountedAtFirst
<1>3. ScopesInv /\ Accounted /\ [ScopesNext]_scopeVars => (ScopesInv /\ Accounted)'
  BY ScopesKeep, AccountsKeep
<1> QED
  BY <1>1, <1>2, <1>3, PTL DEF ScopesSpec

================================================================================
