--------------------------- MODULE Records_proofs ---------------------------
(* The records that others are to believe, for any processes, keys, purposes,
   attempts and bounds: no two copies of a workspace ever hold receipts for two
   branches of its log; no key delivers work under two purposes and only trusted
   keys verify; the current evidence is whole and never goes back; the event log
   tells what is in the channels, once, whatever dies between the files; and pages,
   of the log or of the overview of the Console, make up one list. *)
EXTENDS AuditWitness, TrustStore, EvidenceStore, FamilyChannel, ConsoleOverview,
        FiniteSetTheorems, SequenceTheorems, WellFoundedInduction, TLAPS

(* The audit witness *)

Chain == Seq(Events)
AnyBatch == [id : Nat, prev : Chain, head : Chain, key : Keys,
             epoch : Nat, recovery : Recovery \cup {NoKey}]
ClientState == [head : Chain, key : Keys \cup {NoKey}, epoch : Nat,
                recovery : Recovery \cup {NoKey}, confirmed : BOOLEAN,
                pending : AnyBatch \cup {NoBatch}]

(* What is a chain of events, as far as the argument needs to know. *)
AuditTyped ==
  /\ log \in [Clients -> Chain]
  /\ state \in [Clients -> ClientState]
  /\ pc \in [Clients -> {"idle", "wait", "answered"}]
  /\ wire \subseteq AnyBatch
  /\ checkpoint \in [head : Chain, key : Keys \cup {NoKey}, epoch : Nat,
                     recovery : Recovery \cup {NoKey}]
  /\ requests \in Nat

(* A batch that was posted extends the head it starts from. *)
Forward == \A b \in wire : IsPrefix(b.prev, b.head)

(* Every pending batch was posted, by this client or by the one it is a copy of,
   and who syncs has one. *)
Posted ==
  \A c \in Clients : \/ state[c].pending \in wire
                     \/ state[c].pending = NoBatch /\ pc[c] = "idle"

(* The batch between record and checkpoint still continues the checkpoint. *)
JobContinues == job # NoJob => job \in wire /\ job.prev = checkpoint.head

AuditInv == AuditTyped /\ Forward /\ Posted /\ JobContinues /\ ConfirmedIsWitnessed

-----------------------------------------------------------------------------
(* IsPrefix, by the elements. *)
LEMMA PrefixElements ==
  ASSUME NEW s \in Chain, NEW t \in Chain
  PROVE  IsPrefix(s, t) <=> Len(s) <= Len(t) /\ \A i \in 1..Len(s) : s[i] = t[i]
<1>1. SubSeq(s, 1, Len(s)) = s
  BY DEF Chain
<1>2. ASSUME Len(s) <= Len(t)
      PROVE  SubSeq(s, 1, Len(s)) = SubSeq(t, 1, Len(s))
               <=> \A i \in 1..Len(s) : s[i] = t[i]
  <2>1. SubSeq(t, 1, Len(s)) \in Chain /\ Len(SubSeq(t, 1, Len(s))) = Len(s)
    BY <1>2 DEF Chain
  <2>2. \A i \in 1..Len(s) : SubSeq(t, 1, Len(s))[i] = t[i]
    BY <1>2 DEF Chain
  <2>3. ASSUME \A i \in 1..Len(s) : s[i] = t[i]
        PROVE  s = SubSeq(t, 1, Len(s))
    BY <2>1, <2>2, <2>3 DEF Chain
  <2> QED
    BY <1>1, <2>2, <2>3
<1> QED
  BY <1>2 DEF IsPrefix

(* A history continues itself. *)
LEMMA PrefixReflexive == ASSUME NEW s \in Chain PROVE IsPrefix(s, s)
  BY PrefixElements

(* What continues a continuation continues the history. *)
LEMMA PrefixTransitive ==
  ASSUME NEW s \in Chain, NEW t \in Chain, NEW u \in Chain,
         IsPrefix(s, t), IsPrefix(t, u)
  PROVE  IsPrefix(s, u)
<1>1. Len(s) <= Len(t) /\ Len(t) <= Len(u) /\ Len(s) \in Nat /\ Len(t) \in Nat /\ Len(u) \in Nat
  BY PrefixElements DEF Chain
<1>2. \A i \in 1..Len(s) : s[i] = u[i]
  BY <1>1, PrefixElements
<1> QED
  BY <1>1, <1>2, PrefixElements

(* A checkpoint moved to the end of a batch that continues it keeps what it
   had, and has what the batch brings. *)
LEMMA MovingOn ==
  ASSUME AuditInv, NEW b \in wire, b.prev = checkpoint.head, checkpoint' = After(b),
         UNCHANGED state, NEW to \in Waiting(b),
         pc' = IF to = Nobody THEN pc ELSE [pc EXCEPT ![to] = "answered"]
  PROVE  ConfirmedIsWitnessed'
<1>1. IsPrefix(checkpoint.head, b.head) /\ b.head \in Chain /\ checkpoint.head \in Chain
  BY DEF AuditInv, Forward, AuditTyped, AnyBatch
<1>2. checkpoint'.head = b.head
  BY DEF After
<1>3. ASSUME NEW c \in Clients PROVE IsPrefix(state'[c].head, checkpoint'.head)
  <2>1. state[c].head \in Chain /\ IsPrefix(state[c].head, checkpoint.head)
    BY DEF AuditInv, AuditTyped, ClientState, ConfirmedIsWitnessed
  <2> QED
    BY <1>1, <1>2, <2>1, PrefixTransitive
<1>4. ASSUME NEW c \in Clients, pc'[c] = "answered"
      PROVE  IsPrefix(state'[c].pending.head, checkpoint'.head)
  <2>1. CASE c = to /\ to # Nobody
    <3>1. state[c].pending = b
      BY <2>1 DEF Waiting
    <3> QED
      BY <1>1, <1>2, <3>1, PrefixReflexive
  <2>2. CASE ~(c = to /\ to # Nobody)
    <3>1. pc[c] = "answered"
      BY <1>4, <2>2 DEF AuditInv, AuditTyped
    <3>2. state[c].pending \in AnyBatch /\ IsPrefix(state[c].pending.head, checkpoint.head)
      BY <3>1 DEF AuditInv, AuditTyped, Posted, ConfirmedIsWitnessed
    <3>3. state[c].pending.head \in Chain
      BY <3>2 DEF AnyBatch
    <3> QED
      BY <1>1, <1>2, <3>2, <3>3, PrefixTransitive
  <2> QED
    BY <2>1, <2>2
<1> QED
  BY <1>3, <1>4 DEF ConfirmedIsWitnessed

(* Answering changes nothing but where the one who waits stands. *)
LEMMA Answering ==
  ASSUME AuditInv, NEW b, NEW to, Respond(b, to), UNCHANGED <<state, wire>>
  PROVE  /\ pc' \in [Clients -> {"idle", "wait", "answered"}]
         /\ Posted'
<1>1. pc' \in [Clients -> {"idle", "wait", "answered"}]
  BY DEF AuditInv, AuditTyped, Respond
<1>2. \A c \in Clients : pc'[c] # "idle" => pc[c] # "idle"
  BY DEF AuditInv, AuditTyped, Respond, Waiting
<1> QED
  BY <1>1, <1>2 DEF AuditInv, Posted

-----------------------------------------------------------------------------

(* Nothing is recorded at first. *)
LEMMA Initially == Init => AuditInv
<1> SUFFICES ASSUME Init PROVE AuditInv
  OBVIOUS
<1>1. AuditTyped
  BY KeysAssumption DEF Init, AuditTyped, Blank, ClientState, Chain
<1>2. Forward /\ Posted /\ JobContinues
  BY DEF Init, Forward, Posted, JobContinues, Blank
<1>3. ConfirmedIsWitnessed
  <2>1. <<>> \in Chain
    BY DEF Chain
  <2> QED
    BY <2>1, PrefixReflexive DEF Init, Blank, ConfirmedIsWitnessed
<1> QED
  BY <1>1, <1>2, <1>3 DEF AuditInv

(* A batch is built from a log that continues the head the client has. *)
LEMMA SyncKeeps ==
  ASSUME AuditInv, NEW c \in Clients, NEW k \in Keys, NEW r \in Recovery \cup {NoKey}, Sync(c, k, r)
  PROVE  AuditInv'
<1> DEFINE asked == IF r = NoKey THEN state[c].recovery ELSE r
           b == BuildBatch(c, k, asked)
<1>0. state[c] \in ClientState /\ log[c] \in Chain /\ asked \in Recovery \cup {NoKey}
  BY DEF AuditInv, AuditTyped, ClientState
<1>1. IsPrefix(state[c].head, log[c])
  BY DEF Sync, LocalHistory
<1>2. /\ wire' = wire \cup {state'[c].pending}
      /\ pc' = [pc EXCEPT ![c] = "wait"]
      /\ UNCHANGED <<log, checkpoint, job>>
  BY DEF Sync, witness
<1>3. CASE state[c].pending = NoBatch
  <2>1. /\ requests' = requests + 1
        /\ state' = [state EXCEPT ![c] = [state[c] EXCEPT
             !.pending = b,
             !.key = IF state[c].key = NoKey THEN k ELSE state[c].key,
             !.recovery = asked]]
    BY <1>3 DEF Sync, AuditInv, AuditTyped
  <2>2. b \in AnyBatch /\ b.prev = state[c].head /\ b.head = log[c]
    BY <1>0 DEF BuildBatch, NextEpoch, AnyBatch, ClientState, AuditInv, AuditTyped
  <2>3. state' \in [Clients -> ClientState] /\ state'[c].pending = b
    BY <1>0, <2>1, <2>2 DEF AuditInv, AuditTyped, ClientState
  <2>4. \A d \in Clients : /\ state'[d].head = state[d].head
                           /\ d # c => state'[d] = state[d]
    BY <1>0, <2>1 DEF AuditInv, AuditTyped, ClientState
  <2>5. AuditTyped'
    BY <1>2, <2>1, <2>2, <2>3 DEF AuditInv, AuditTyped
  <2>6. Forward'
    BY <1>1, <1>2, <2>2, <2>3 DEF AuditInv, Forward
  <2>7. Posted' /\ JobContinues'
    BY <1>2, <2>3, <2>4 DEF AuditInv, AuditTyped, Posted, JobContinues
  <2>8. ConfirmedIsWitnessed'
    BY <1>2, <2>4 DEF AuditInv, AuditTyped, ConfirmedIsWitnessed
  <2> QED
    BY <2>5, <2>6, <2>7, <2>8 DEF AuditInv
<1>4. CASE state[c].pending # NoBatch
  <2>1. UNCHANGED <<state, requests>> /\ PendingValid(c, k, asked)
    BY <1>4 DEF Sync
  <2>2. state[c].pending \in AnyBatch
    BY <1>0, <1>4 DEF ClientState
  <2>3. IsPrefix(state[c].pending.prev, state[c].pending.head)
    BY <1>4 DEF AuditInv, Posted, Forward
  <2> QED
    BY <1>2, <2>1, <2>2, <2>3
    DEF AuditInv, AuditTyped, Forward, Posted, JobContinues, ConfirmedIsWitnessed
<1> QED
  BY <1>3, <1>4

(* A client that takes its receipt holds confirmed what the witness has. *)
LEMMA ReceiveKeeps == ASSUME AuditInv, NEW c \in Clients, Receive(c) PROVE AuditInv'
<1> DEFINE b == state[c].pending
<1>1. b \in wire /\ b \in AnyBatch /\ IsPrefix(b.head, checkpoint.head)
  BY DEF Receive, AuditInv, Posted, AuditTyped, ConfirmedIsWitnessed
<1>2. /\ state' = [state EXCEPT ![c] =
            [head |-> b.head, key |-> b.key, epoch |-> b.epoch,
             recovery |-> b.recovery, confirmed |-> TRUE, pending |-> NoBatch]]
      /\ pc' = [pc EXCEPT ![c] = "idle"]
      /\ UNCHANGED <<log, wire, requests, checkpoint, job>>
  BY DEF Receive, witness
<1>3. AuditTyped'
  BY <1>1, <1>2 DEF AuditInv, AuditTyped, AnyBatch, ClientState
<1>4. Forward' /\ JobContinues'
  BY <1>2 DEF AuditInv, Forward, JobContinues
<1>5. Posted'
  BY <1>2 DEF AuditInv, Posted, AuditTyped
<1>6. ConfirmedIsWitnessed'
  BY <1>1, <1>2 DEF AuditInv, AuditTyped, ConfirmedIsWitnessed
<1> QED
  BY <1>3, <1>4, <1>5, <1>6 DEF AuditInv

(* A workspace that is replaced by a copy holds what the original held. *)
LEMMA CopyKeeps ==
  ASSUME AuditInv, NEW c \in Clients, NEW d \in Clients, Copy(c, d) PROVE AuditInv'
<1>1. /\ log' = [log EXCEPT ![c] = log[d]] /\ state' = [state EXCEPT ![c] = state[d]]
      /\ pc[c] = "idle" /\ UNCHANGED <<pc, wire, requests, checkpoint, job>>
  BY DEF Copy, witness
<1>2. AuditTyped'
  BY <1>1 DEF AuditInv, AuditTyped
<1>3. Forward' /\ JobContinues'
  BY <1>1 DEF AuditInv, Forward, JobContinues
<1>4. Posted' /\ ConfirmedIsWitnessed'
  BY <1>1 DEF AuditInv, AuditTyped, Posted, ConfirmedIsWitnessed
<1> QED
  BY <1>2, <1>3, <1>4 DEF AuditInv

(* Steps of a client that touch neither its state file nor the witness. *)
LEMMA LocalKeeps ==
  ASSUME AuditInv, NEW c \in Clients,
         \/ \E e \in Events : AppendEvent(c, e)
         \/ GiveUp(c)
         \/ \E n \in 0..MaxLog : Rollback(c, n)
  PROVE  AuditInv'
<1>1. /\ UNCHANGED <<state, wire, requests, checkpoint, job>>
      /\ log' \in [Clients -> Chain]
      /\ pc' = pc \/ pc' = [pc EXCEPT ![c] = "idle"]
  <2>1. ASSUME NEW e \in Events, AppendEvent(c, e)
        PROVE  /\ UNCHANGED <<state, wire, requests, checkpoint, job, pc>>
               /\ log' \in [Clients -> Chain]
    BY <2>1 DEF AppendEvent, witness, AuditInv, AuditTyped, Chain
  <2>2. ASSUME NEW n \in 0..MaxLog, Rollback(c, n)
        PROVE  /\ UNCHANGED <<state, wire, requests, checkpoint, job, pc>>
               /\ log' \in [Clients -> Chain]
    <3>1. SubSeq(log[c], 1, n) \in Chain
      BY <2>2 DEF Rollback, AuditInv, AuditTyped, Chain
    <3> QED
      BY <2>2, <3>1 DEF Rollback, witness, AuditInv, AuditTyped
  <2>3. CASE GiveUp(c)
    BY <2>3 DEF GiveUp, witness, AuditInv, AuditTyped
  <2> QED
    BY <2>1, <2>2, <2>3
<1>2. AuditTyped' /\ Forward' /\ JobContinues'
  BY <1>1 DEF AuditInv, AuditTyped, Forward, JobContinues
<1>3. Posted' /\ ConfirmedIsWitnessed'
  BY <1>1 DEF AuditInv, AuditTyped, Posted, ConfirmedIsWitnessed
<1> QED
  BY <1>2, <1>3 DEF AuditInv

(* After(b) is a checkpoint. *)
LEMMA AfterTyped ==
  ASSUME NEW b \in AnyBatch
  PROVE  After(b) \in [head : Chain, key : Keys \cup {NoKey}, epoch : Nat,
                       recovery : Recovery \cup {NoKey}]
  BY DEF After, AnyBatch

(* A receipt is handed out again only while it is the durable checkpoint. *)
LEMMA CachedKeeps ==
  ASSUME AuditInv, NEW b \in wire, NEW to, AcceptCached(b, to) PROVE AuditInv'
<1>1. Respond(b, to) /\ UNCHANGED <<log, state, wire, requests, checkpoint, job>>
  BY DEF AcceptCached, witness
<1>2. AuditTyped' /\ Posted'
  BY <1>1, Answering DEF AuditInv, AuditTyped
<1>3. Forward' /\ JobContinues'
  BY <1>1 DEF AuditInv, Forward, JobContinues
<1>4. b.head = checkpoint.head /\ b.head \in Chain
  BY DEF AcceptCached, ReceiptMatches, Recorded, After, Checkpoint, AuditInv, AuditTyped, AnyBatch
<1>5. ASSUME NEW c \in Clients, pc'[c] = "answered"
      PROVE  IsPrefix(state'[c].pending.head, checkpoint'.head)
  <2>1. CASE c = to /\ to # Nobody
    <3>1. state[c].pending = b
      BY <1>1, <2>1 DEF Respond, Waiting
    <3> QED
      BY <1>1, <1>4, <3>1, PrefixReflexive
  <2>2. CASE ~(c = to /\ to # Nobody)
    BY <1>1, <1>5, <2>2 DEF AuditInv, AuditTyped, Respond, ConfirmedIsWitnessed
  <2> QED
    BY <2>1, <2>2
<1>6. ConfirmedIsWitnessed'
  BY <1>1, <1>5 DEF AuditInv, ConfirmedIsWitnessed
<1> QED
  BY <1>2, <1>3, <1>6 DEF AuditInv

(* A new checkpoint continues the one before. *)
LEMMA CheckpointKeeps ==
  ASSUME AuditInv, NEW b \in wire, NEW to, b.prev = checkpoint.head, checkpoint' = After(b),
         Respond(b, to), job' = NoJob, UNCHANGED <<log, state, wire, requests>>
  PROVE  AuditInv'
<1>1. AuditTyped' /\ Posted'
  BY Answering, AfterTyped DEF AuditInv, AuditTyped
<1>2. Forward' /\ JobContinues'
  BY DEF AuditInv, Forward, JobContinues
<1>3. ConfirmedIsWitnessed'
  BY MovingOn DEF Respond
<1> QED
  BY <1>1, <1>2, <1>3 DEF AuditInv

(* Every step keeps the invariant. *)
LEMMA NextKeeps == ASSUME AuditInv, [Next]_vars PROVE AuditInv'
<1>1. ASSUME NEW c \in Clients, NEW k \in Keys, NEW r \in Recovery \cup {NoKey}, Sync(c, k, r)
      PROVE  AuditInv'
  BY <1>1, SyncKeeps
<1>2. ASSUME NEW c \in Clients, Receive(c) PROVE AuditInv'
  BY <1>2, ReceiveKeeps
<1>3. ASSUME NEW c \in Clients, NEW d \in Clients, Copy(c, d) PROVE AuditInv'
  BY <1>3, CopyKeeps
<1>4. ASSUME NEW c \in Clients,
             \/ \E e \in Events : AppendEvent(c, e)
             \/ GiveUp(c)
             \/ \E n \in 0..MaxLog : Rollback(c, n)
      PROVE  AuditInv'
  BY <1>4, LocalKeeps
<1>5. ASSUME NEW b \in wire, AcceptRecord(b) PROVE AuditInv'
  <2>1. /\ b.prev = checkpoint.head /\ job' = b
        /\ UNCHANGED <<log, state, pc, wire, requests, checkpoint>>
    BY <1>5 DEF AcceptRecord, Continues, Checkpoint, client
  <2> QED
    BY <2>1 DEF AuditInv, AuditTyped, Forward, Posted, JobContinues, ConfirmedIsWitnessed
<1>6. ASSUME NEW b \in wire, NEW to, AcceptCached(b, to) PROVE AuditInv'
  BY <1>6, CachedKeeps
<1>7. ASSUME NEW b \in wire, NEW to, AcceptRecover(b, to) PROVE AuditInv'
  <2>1. /\ b.prev = checkpoint.head /\ checkpoint' = After(b) /\ Respond(b, to)
        /\ job' = NoJob /\ UNCHANGED <<log, state, wire, requests>>
    BY <1>7 DEF AcceptRecover, Continues, Checkpoint
  <2> QED
    BY <2>1, CheckpointKeeps
<1>8. ASSUME NEW to, AcceptCheckpoint(to) PROVE AuditInv'
  <2>1. /\ job \in wire /\ job.prev = checkpoint.head /\ checkpoint' = After(job)
        /\ Respond(job, to) /\ job' = NoJob /\ UNCHANGED <<log, state, wire, requests>>
    BY <1>8 DEF AcceptCheckpoint, AuditInv, JobContinues
  <2> QED
    BY <2>1, CheckpointKeeps
<1>9. ASSUME WitnessCrash \/ (\E cfg \in Configs : Configure(cfg)) \/ UNCHANGED vars
      PROVE  AuditInv'
  <2>1. /\ UNCHANGED <<log, state, pc, wire, requests, checkpoint>>
        /\ job' = job \/ job' = NoJob
    BY <1>9 DEF WitnessCrash, Configure, vars, client, witness
  <2> QED
    BY <2>1 DEF AuditInv, AuditTyped, Forward, Posted, JobContinues, ConfirmedIsWitnessed
<1> QED
  BY <1>1, <1>2, <1>3, <1>4, <1>5, <1>6, <1>7, <1>8, <1>9 DEF Next

-----------------------------------------------------------------------------
(* Whatever is lost, repeated, copied, cut or restarted, a client holds receipts
   only for what the durable checkpoint of the witness contains: so all receipts
   are for one branch. *)
THEOREM ReceiptsOnOneBranch == Spec => []ConfirmedIsWitnessed
<1>1. Init => AuditInv
  BY Initially
<1>2. AuditInv /\ [Next]_vars => AuditInv'
  BY NextKeeps
<1>3. AuditInv => ConfirmedIsWitnessed
  BY DEF AuditInv
<1> QED
  BY <1>1, <1>2, <1>3, PTL DEF Spec

-----------------------------------------------------------------------------
(* The trust store *)

AtWork == {"lock", "look", "meta", "put meta", "put key"}   \* trust_public_key
CommandState == [pc : AtWork \cup {"idle", "revoke"}, slot : Slots \cup {Nil},
                 of : Binding \cup {Nil}, since : Nat]
VerifierState == [pc : {"idle", "revocation", "meta", "accepted"},
                  slot : Slots \cup {Nil}, by : PublicKeys \cup {Nil},
                  at : Nat \cup {Nil}, ignore : BOOLEAN, was : BOOLEAN,
                  began : Nat]
TrustTyped ==
  /\ meta \in [Slots -> Binding \cup {Nil}]
  /\ pem \in [Slots -> PublicKeys \cup {Nil}]
  /\ revoked \in [Slots -> Nat \cup {Nil}]
  /\ guard \in Commands \cup {Nil}
  /\ command \in [Commands -> CommandState]
  /\ \A c \in Commands :
       /\ command[c].pc # "idle" => command[c].slot \in Slots
       /\ command[c].pc \in AtWork => command[c].of \in Binding
  /\ verifier \in [Verifiers -> VerifierState]
  /\ \A v \in Verifiers : verifier[v].pc # "idle" =>
       verifier[v].slot \in Slots /\ verifier[v].by \in PublicKeys
  /\ day \in Nat

(* Past the look through the directories, the command of a delivery purpose holds
   the lock, and its key delivers under no other purpose. *)
Guarded ==
  \A c \in Commands :
    command[c].pc \in AtWork \ {"lock"} /\ command[c].slot[1] \in Delivery =>
      guard = c /\ Used(command[c].slot[1], command[c].of.key) = {}

(* Only a delivery purpose waits for the lock. *)
Waits == \A c \in Commands : command[c].pc = "lock" => command[c].slot[1] \in Delivery

(* A key is in its file only after the metadata that names it. *)
MetaFirst ==
  /\ \A s \in Slots : pem[s] # Nil => meta[s] # Nil /\ meta[s].key = pem[s]
  /\ \A c \in Commands : command[c].pc = "put key" => meta[command[c].slot] = command[c].of

(* What a verification has read so far was so, and stays so. *)
ReadSoFar ==
  \A v \in Verifiers :
    LET slot == verifier[v].slot
        place == verifier[v].pc
    IN /\ place # "idle" /\ verifier[v].was => revoked[slot] # Nil
       /\ place # "idle" => pem[slot] = verifier[v].by /\ verifier[v].began <= day
       /\ place \in {"meta", "accepted"} /\ verifier[v].was /\ ~verifier[v].ignore =>
            verifier[v].at # Nil /\ verifier[v].at < revoked[slot]
       /\ place = "accepted" => Timely(meta[slot], verifier[v].at, verifier[v].began, day)

TrustInv == TrustTyped /\ Guarded /\ Waits /\ MetaFirst /\ SeparatedKeys /\ ReadSoFar

(* Files appear and stay. *)
Grow ==
  \A s \in Slots : /\ meta[s] # Nil => meta'[s] = meta[s]
                   /\ pem[s] # Nil => pem'[s] = pem[s]
                   /\ revoked[s] # Nil => revoked'[s] = revoked[s]

-----------------------------------------------------------------------------
(* The empty store. *)
LEMMA TrustInitially == TrustInit => TrustInv
<1> SUFFICES ASSUME TrustInit PROVE TrustInv
  OBVIOUS
<1>1. TrustTyped
  BY TrustAssumption DEF TrustInit, TrustTyped, CommandState, VerifierState, AtEase, Unasked, AtWork
<1>2. Guarded /\ Waits /\ MetaFirst /\ SeparatedKeys /\ ReadSoFar
  BY DEF TrustInit, Guarded, Waits, MetaFirst, SeparatedKeys, ReadSoFar, AtEase, Unasked, AtWork
<1> QED
  BY <1>1, <1>2 DEF TrustInv

(* The command is over, and the others are as they were. *)
Ended(c) ==
  /\ command' \in [Commands -> CommandState]
  /\ guard' \in Commands \cup {Nil}
  /\ command'[c].pc = "idle"
  /\ \A d \in Commands \ {c} : command'[d] = command[d] /\ (guard = d => guard' = d)

(* The lock of its own goes with it. *)
LEMMA OverEnds ==
  ASSUME TrustTyped, NEW c \in Commands, Over(c)
  PROVE  Ended(c)
  BY TrustAssumption DEF Ended, TrustTyped, Over, AtEase, AtWork, CommandState

(* The command goes on with the key it is to trust. *)
Gone(c, place) ==
  /\ command' \in [Commands -> CommandState]
  /\ command'[c].pc = place /\ command'[c].slot = command[c].slot
  /\ command'[c].of = command[c].of
  /\ \A d \in Commands \ {c} : command'[d] = command[d]

(* Going on changes the program counter alone. *)
LEMMA GoOnGoes ==
  ASSUME TrustTyped, NEW c \in Commands, NEW place \in AtWork, GoOn(c, place)
  PROVE  Gone(c, place)
  BY DEF Gone, TrustTyped, GoOn, AtWork, CommandState

(* What a verification has read so far holds on, as files only appear. *)
LEMMA ReadingLasts ==
  ASSUME TrustTyped, MetaFirst, ReadSoFar, Grow, UNCHANGED <<verifier, day>>
  PROVE  ReadSoFar'
<1> SUFFICES ASSUME NEW v \in Verifiers, verifier[v].pc # "idle"
             PROVE  LET slot == verifier[v].slot
                        place == verifier[v].pc
                    IN /\ verifier[v].was => revoked'[slot] # Nil
                       /\ pem'[slot] = verifier[v].by /\ verifier[v].began <= day
                       /\ place \in {"meta", "accepted"} /\ verifier[v].was /\ ~verifier[v].ignore =>
                            verifier[v].at # Nil /\ verifier[v].at < revoked'[slot]
                       /\ place = "accepted" =>
                            Timely(meta'[slot], verifier[v].at, verifier[v].began, day)
  BY DEF ReadSoFar
<1> DEFINE slot == verifier[v].slot
           place == verifier[v].pc
<1>1. slot \in Slots /\ verifier[v].by \in PublicKeys
  BY DEF TrustTyped
<1>2. verifier[v].was => revoked'[slot] = revoked[slot] /\ revoked[slot] # Nil
  BY <1>1 DEF ReadSoFar, Grow
<1>3. /\ pem[slot] = verifier[v].by /\ pem'[slot] = pem[slot]
      /\ meta'[slot] = meta[slot] /\ verifier[v].began <= day
  <2>1. pem[slot] = verifier[v].by /\ pem[slot] # Nil /\ verifier[v].began <= day
    BY <1>1, TrustAssumption DEF ReadSoFar
  <2> QED
    BY <1>1, <2>1 DEF Grow, MetaFirst
<1> QED
  BY <1>2, <1>3, TrustAssumption DEF ReadSoFar

(* A key that is put under a delivery purpose was looked for under the others. *)
LEMMA KeysApart ==
  ASSUME TrustTyped, SeparatedKeys, NEW slot \in Slots, NEW key \in PublicKeys,
         slot[1] \in Delivery => Used(slot[1], key) = {},
         pem' = [pem EXCEPT ![slot] = key]
  PROVE  SeparatedKeys'
  BY TrustAssumption DEF TrustTyped, SeparatedKeys, Used, Slots

(* What the commands are to keep; what verifications need follows as files only appear. *)
Commanded == TrustTyped /\ Guarded /\ Waits /\ MetaFirst /\ SeparatedKeys

(* A command that is over, as it is refused or dies, changes no file. *)
LEMMA RefusedKeeps ==
  ASSUME TrustInv, NEW c \in Commands, Over(c), Files, Others
  PROVE  Commanded' /\ Grow
<1>1. Ended(c) /\ UNCHANGED <<meta, pem, revoked, verifier, day>>
  BY OverEnds DEF TrustInv, Files, Others
<1>2. TrustTyped'
  BY <1>1 DEF Ended, TrustInv, TrustTyped, AtWork
<1>3. Guarded'
  BY ZenonT(30), <1>1 DEF Ended, TrustInv, Guarded, Used, AtWork
<1>4. Waits' /\ MetaFirst' /\ SeparatedKeys' /\ Grow
  BY <1>1 DEF Ended, TrustInv, Waits, MetaFirst, SeparatedKeys, Grow
<1> QED
  BY <1>2, <1>3, <1>4 DEF Commanded

(* So does one that only looks, and what it found out is true while it holds. *)
LEMMA LookedKeeps ==
  ASSUME TrustInv, NEW c \in Commands, command[c].pc \in AtWork, NEW place \in AtWork \ {"lock"},
         GoOn(c, place), Files, Others,
         \/ guard' = guard /\ command[c].pc # "lock"
         \/ /\ guard = Nil /\ guard' = c
            /\ Used(command[c].slot[1], command[c].of.key) = {},
         place = "put key" => meta[command[c].slot] = command[c].of
  PROVE  Commanded' /\ Grow
<1>1. Gone(c, place) /\ UNCHANGED <<meta, pem, revoked, verifier, day>>
  BY GoOnGoes DEF TrustInv, Files, Others
<1>2. TrustTyped'
  BY <1>1 DEF Gone, TrustInv, TrustTyped, AtWork
<1>3. Guarded'
  <2> SUFFICES ASSUME NEW d \in Commands, command'[d].pc \in AtWork \ {"lock"},
                      command'[d].slot[1] \in Delivery
               PROVE  guard' = d /\ Used(command[d].slot[1], command[d].of.key)' = {}
    BY DEF Guarded
  <2>1. CASE d = c
    BY <1>1, <2>1 DEF Gone, TrustInv, Guarded, Used
  <2>2. CASE d # c
    <3>1. command'[d] = command[d]
      BY <1>1, <2>2 DEF Gone
    <3>2. guard = d /\ Used(command[d].slot[1], command[d].of.key) = {}
      BY <3>1 DEF TrustInv, Guarded
    <3>3. guard' = d
      BY <3>2, TrustAssumption
    <3> QED
      BY <1>1, <3>1, <3>2, <3>3 DEF Used
  <2> QED
    BY <2>1, <2>2
<1>4. Waits' /\ MetaFirst' /\ SeparatedKeys' /\ Grow
  BY <1>1 DEF Gone, TrustInv, Waits, MetaFirst, SeparatedKeys, Grow
<1> QED
  BY <1>2, <1>3, <1>4 DEF Commanded

(* Each step of a command. *)
LEMMA CommandKeeps ==
  ASSUME TrustInv, NEW c \in Commands,
         \/ \E slot \in Slots, of \in Binding : Trust(c, slot, of)
         \/ \E slot \in Slots : Revoke(c, slot)
         \/ Separate(c) \/ Look(c) \/ LookMeta(c) \/ PutMeta(c) \/ PutKey(c)
         \/ PutRevocation(c) \/ DieTrusting(c)
  PROVE  TrustInv'
<1>0. UNCHANGED <<verifier, day>>
  BY DEF Trust, Revoke, Separate, Look, LookMeta, PutMeta, PutKey, PutRevocation,
         DieTrusting, Others
<1>1. Commanded' /\ Grow
  <2>1. CASE \E slot \in Slots, of \in Binding : Trust(c, slot, of)
    <3>1. PICK slot \in Slots, of \in Binding : Trust(c, slot, of)
      BY <2>1
    <3>2. /\ command' \in [Commands -> CommandState]
          /\ command'[c].pc = (IF slot[1] \in Delivery THEN "lock" ELSE "look")
          /\ command'[c].slot = slot /\ command'[c].of = of
          /\ \A d \in Commands \ {c} : command'[d] = command[d]
      BY <3>1 DEF TrustInv, TrustTyped, Trust, AtWork, CommandState
    <3>3. UNCHANGED <<meta, pem, revoked, guard, verifier, day>> /\ Grow
      BY <3>1 DEF Trust, Files, Others, Grow
    <3>4. TrustTyped'
      BY <3>2, <3>3 DEF TrustInv, TrustTyped, AtWork
    <3>5. Guarded'
      BY ZenonT(30), <3>2, <3>3 DEF TrustInv, Guarded, Used, AtWork
    <3>6. Waits'
      BY <3>2, <3>3 DEF TrustInv, Waits
    <3>7. MetaFirst' /\ SeparatedKeys'
      BY <3>2, <3>3 DEF TrustInv, MetaFirst, SeparatedKeys
    <3> QED
      BY <3>3, <3>4, <3>5, <3>6, <3>7 DEF Commanded
  <2>2. CASE \E slot \in Slots : Revoke(c, slot)
    <3>1. PICK slot \in Slots : Revoke(c, slot)
      BY <2>2
    <3>2. /\ command' \in [Commands -> CommandState]
          /\ command'[c].pc = "revoke" /\ command'[c].slot = slot
          /\ \A d \in Commands \ {c} : command'[d] = command[d]
      BY <3>1 DEF TrustInv, TrustTyped, Revoke, AtWork, CommandState
    <3>3. UNCHANGED <<meta, pem, revoked, guard, verifier, day>> /\ Grow
      BY <3>1 DEF Revoke, Files, Others, Grow
    <3>4. TrustTyped'
      BY <3>2, <3>3 DEF TrustInv, TrustTyped, AtWork
    <3>5. Guarded'
      BY <3>2, <3>3 DEF TrustInv, Guarded, Used, AtWork
    <3>6. Waits' /\ MetaFirst' /\ SeparatedKeys'
      BY <3>2, <3>3 DEF TrustInv, Waits, MetaFirst, SeparatedKeys
    <3> QED
      BY <3>3, <3>4, <3>5, <3>6 DEF Commanded
  <2>3. CASE Separate(c)
    BY <2>3, RefusedKeeps, LookedKeeps DEF Separate, On, Enter, AtWork
  <2>4. CASE Look(c)
    BY <2>4, RefusedKeeps, LookedKeeps DEF Look, On, AtWork
  <2>5. CASE LookMeta(c)
    BY <2>5, RefusedKeeps, LookedKeeps DEF LookMeta, On, AtWork
  <2>6. CASE PutMeta(c)
    <3> DEFINE slot == command[c].slot
    <3>1. slot \in Slots /\ command[c].of \in Binding /\ command[c].pc = "put meta"
      BY <2>6 DEF PutMeta, On, TrustInv, TrustTyped, AtWork
    <3>2. CASE meta[slot] # Nil
      BY <2>6, <3>2, RefusedKeeps DEF PutMeta, Files
    <3>3. CASE meta[slot] = Nil
      <4>1. /\ meta' = [meta EXCEPT ![slot] = command[c].of] /\ GoOn(c, "put key")
            /\ UNCHANGED <<pem, revoked, guard, verifier, day>>
        BY <2>6, <3>3 DEF PutMeta, Others
      <4>0. Gone(c, "put key")
        BY <4>1, GoOnGoes DEF TrustInv, AtWork
      <4>2. Grow
        BY <3>1, <3>3, <4>1 DEF Grow, TrustInv, TrustTyped
      <4>3. TrustTyped'
        BY <3>1, <4>0, <4>1 DEF Gone, TrustInv, TrustTyped, AtWork
      <4>4. Guarded' /\ Waits' /\ SeparatedKeys'
        <5>1. Guarded'
          BY ZenonT(30), <3>1, <4>0, <4>1 DEF Gone, TrustInv, Guarded, Used, AtWork
        <5> QED
          BY <4>0, <4>1, <5>1 DEF Gone, TrustInv, Waits, SeparatedKeys
      <4>5. MetaFirst'
        <5>1. \A s \in Slots : pem'[s] # Nil => meta'[s] # Nil /\ meta'[s].key = pem'[s]
          BY <4>1, <4>2 DEF Grow, TrustInv, MetaFirst
        <5>2. ASSUME NEW d \in Commands, command'[d].pc = "put key"
              PROVE  meta'[command'[d].slot] = command'[d].of
          <6>1. CASE d = c
            BY <3>1, <4>0, <4>1, <6>1 DEF Gone, TrustInv, TrustTyped
          <6>2. CASE d # c
            <7>1. /\ command'[d] = command[d] /\ command[d].slot \in Slots
                  /\ command[d].of \in Binding
              BY <4>0, <5>2, <6>2 DEF Gone, TrustInv, TrustTyped, AtWork
            <7>2. meta[command[d].slot] = command[d].of /\ meta[command[d].slot] # Nil
              BY <5>2, <7>1, TrustAssumption DEF TrustInv, MetaFirst
            <7> QED
              BY <4>2, <7>1, <7>2 DEF Grow
          <6> QED
            BY <6>1, <6>2
        <5> QED
          BY <5>1, <5>2 DEF MetaFirst
      <4> QED
        BY <4>2, <4>3, <4>4, <4>5 DEF Commanded
    <3> QED
      BY <3>2, <3>3
  <2>7. CASE PutKey(c)
    <3> DEFINE slot == command[c].slot
               key == command[c].of.key
    <3>1. /\ slot \in Slots /\ command[c].of \in Binding /\ key \in PublicKeys
          /\ command[c].pc = "put key"
      BY <2>7, TrustAssumption DEF PutKey, On, TrustInv, TrustTyped, AtWork
    <3>2. CASE pem[slot] # Nil
      BY <2>7, <3>2, RefusedKeeps DEF PutKey, Files
    <3>3. CASE pem[slot] = Nil
      <4>1. /\ pem' = [pem EXCEPT ![slot] = key] /\ Over(c)
            /\ UNCHANGED <<meta, revoked, verifier, day>>
        BY <2>7, <3>3 DEF PutKey, Others
      <4>0. Ended(c)
        BY <4>1, OverEnds DEF TrustInv
      <4>2. Grow
        BY <3>1, <3>3, <4>1 DEF Grow, TrustInv, TrustTyped
      <4>3. TrustTyped'
        BY <3>1, <4>0, <4>1 DEF Ended, TrustInv, TrustTyped, AtWork
      <4>4. slot[1] \in Delivery => guard = c /\ Used(slot[1], key) = {}
        BY <3>1 DEF TrustInv, Guarded, AtWork
      <4>5. Waits'
        BY <4>0 DEF Ended, TrustInv, Waits
      <4>6. Guarded'
        <5> SUFFICES ASSUME NEW d \in Commands, command'[d].pc \in AtWork \ {"lock"},
                            command'[d].slot[1] \in Delivery
                     PROVE  guard' = d /\ Used(command[d].slot[1], command[d].of.key)' = {}
          BY DEF Guarded
        <5>1. d # c /\ command'[d] = command[d]
          BY <4>0 DEF Ended, AtWork
        <5>2. guard = d /\ guard' = d /\ Used(command[d].slot[1], command[d].of.key) = {}
          BY <4>0, <5>1 DEF Ended, TrustInv, Guarded
        <5>3. slot[1] \notin Delivery
          BY <4>4, <5>1, <5>2
        <5> QED
          BY <3>1, <4>1, <5>1, <5>2, <5>3 DEF Used, TrustInv, TrustTyped
      <4>7. MetaFirst'
        <5>1. meta[slot] = command[c].of
          BY <3>1 DEF TrustInv, MetaFirst
        <5>2. \A s \in Slots : pem'[s] # Nil => meta'[s] # Nil /\ meta'[s].key = pem'[s]
          BY <3>1, <4>1, <5>1, TrustAssumption DEF TrustInv, TrustTyped, MetaFirst
        <5>3. \A d \in Commands :
                command'[d].pc = "put key" => meta'[command'[d].slot] = command'[d].of
          BY <4>0, <4>1 DEF Ended, TrustInv, MetaFirst
        <5> QED
          BY <5>2, <5>3 DEF MetaFirst
      <4>8. SeparatedKeys'
        BY <3>1, <4>1, <4>4, KeysApart DEF TrustInv
      <4> QED
        BY <4>2, <4>3, <4>5, <4>6, <4>7, <4>8 DEF Commanded
    <3> QED
      BY <3>2, <3>3
  <2>8. CASE PutRevocation(c)
    <3> DEFINE slot == command[c].slot
    <3>1. /\ slot \in Slots /\ command[c].since \in Nat /\ Over(c)
          /\ UNCHANGED <<meta, pem, verifier, day>>
      BY <2>8 DEF PutRevocation, On, Others, TrustInv, TrustTyped, CommandState
    <3>0. Ended(c)
      BY <3>1, OverEnds DEF TrustInv
    <3>2. revoked' = IF revoked[slot] = Nil
                       THEN [revoked EXCEPT ![slot] = command[c].since] ELSE revoked
      BY <2>8 DEF PutRevocation
    <3>3. Grow
      BY <3>1, <3>2 DEF Grow, TrustInv, TrustTyped
    <3>4. TrustTyped'
      BY <3>0, <3>1, <3>2 DEF Ended, TrustInv, TrustTyped, AtWork
    <3>5. Guarded'
      BY ZenonT(30), <3>0, <3>1 DEF Ended, TrustInv, Guarded, Used, AtWork
    <3>6. Waits' /\ MetaFirst' /\ SeparatedKeys'
      BY <3>0, <3>1 DEF Ended, TrustInv, Waits, MetaFirst, SeparatedKeys
    <3> QED
      BY <3>3, <3>4, <3>5, <3>6 DEF Commanded
  <2>9. CASE DieTrusting(c)
    BY <2>9, RefusedKeeps DEF DieTrusting
  <2> QED
    BY <2>1, <2>2, <2>3, <2>4, <2>5, <2>6, <2>7, <2>8, <2>9
<1> QED
  BY <1>0, <1>1, ReadingLasts DEF TrustInv, Commanded

(* A verification reads one file after the other, and writes none. *)
LEMMA VerifierKeeps ==
  ASSUME TrustInv, NEW v \in Verifiers,
         \/ \E slot \in Slots, at \in {Nil} \cup 0 .. day - 1, ignore \in BOOLEAN :
              Verify(v, slot, at, ignore)
         \/ ReadRevocation(v) \/ ReadMeta(v) \/ Forget(v)
  PROVE  TrustInv'
<1>1. UNCHANGED <<meta, pem, revoked, guard, command, day>>
  BY DEF Verify, ReadRevocation, ReadMeta, Forget, KeptByAll, Files
<1>2. /\ verifier' \in [Verifiers -> VerifierState]
      /\ \A u \in Verifiers \ {v} : verifier'[u] = verifier[u]
      /\ verifier'[v].pc # "idle" =>
           verifier'[v].slot \in Slots /\ verifier'[v].by \in PublicKeys
  <2> USE DEF TrustInv, TrustTyped, VerifierState
  <2>1. CASE \E slot \in Slots, at \in {Nil} \cup 0 .. day - 1, ignore \in BOOLEAN :
               Verify(v, slot, at, ignore)
    BY <2>1 DEF Verify
  <2>3. CASE ReadRevocation(v)
    BY <2>3 DEF ReadRevocation, Passes, Unasked
  <2>4. CASE ReadMeta(v)
    BY <2>4 DEF ReadMeta, Passes, Unasked
  <2>5. CASE Forget(v)
    BY <2>5 DEF Forget, Unasked
  <2> QED
    BY <2>1, <2>3, <2>4, <2>5
<1>3. TrustTyped'
  BY <1>1, <1>2 DEF TrustInv, TrustTyped
<1>4. Guarded' /\ Waits' /\ MetaFirst' /\ SeparatedKeys'
  BY <1>1 DEF TrustInv, Guarded, Used, Waits, MetaFirst, SeparatedKeys
<1>5. ReadSoFar'
  <2> USE <1>1 DEF TrustInv
  <2>0. verifier \in [Verifiers -> VerifierState]
    BY DEF TrustTyped
  <2>1. CASE \E slot \in Slots, at \in {Nil} \cup 0 .. day - 1, ignore \in BOOLEAN :
               Verify(v, slot, at, ignore)
    <3>1. PICK slot \in Slots, at \in {Nil} \cup 0 .. day - 1, ignore \in BOOLEAN :
            Verify(v, slot, at, ignore)
      BY <2>1
    <3>2. /\ verifier'[v].pc = "revocation" /\ verifier'[v].slot = slot
          /\ verifier'[v].by = pem[slot] /\ verifier'[v].began = day /\ day \in Nat
          /\ verifier'[v].was <=> revoked[slot] # Nil
          /\ \A u \in Verifiers \ {v} : verifier'[u] = verifier[u]
      BY <2>0, <3>1 DEF Verify, TrustTyped
    <3> QED
      BY <3>2 DEF ReadSoFar
  <2>3. CASE ReadRevocation(v)
    BY <2>0, <2>3 DEF ReadRevocation, Passes, Unasked, ReadSoFar, VerifierState
  <2>4. CASE ReadMeta(v)
    <3>1. verifier[v].pc = "meta" /\ verifier[v].slot \in Slots /\ verifier[v].by \in PublicKeys
      BY <2>4 DEF ReadMeta, TrustTyped
    <3>2. pem[verifier[v].slot] # Nil
      BY <3>1, TrustAssumption DEF ReadSoFar
    <3>3. meta[verifier[v].slot] # Nil
      BY <3>1, <3>2 DEF MetaFirst
    <3>4. ASSUME verifier'[v].pc = "accepted"
          PROVE  Timely(meta[verifier[v].slot], verifier[v].at, verifier[v].began, day)
      <4>1. Within(meta[verifier[v].slot], IF verifier[v].at = Nil THEN day ELSE verifier[v].at)
        BY <2>0, <2>4, <3>3, <3>4 DEF ReadMeta, Passes, Unasked
      <4>2. verifier[v].began \in Nat /\ day \in Nat /\ verifier[v].began <= day
        BY <2>0, <3>1 DEF ReadSoFar, TrustTyped, VerifierState
      <4>3. day \in verifier[v].began .. day
        BY <4>2
      <4> QED
        BY <4>1, <4>3 DEF Timely
    <3> QED
      BY <2>0, <2>4, <3>1, <3>3, <3>4 DEF ReadMeta, Passes, Unasked, ReadSoFar, VerifierState
  <2>5. CASE Forget(v)
    BY <2>0, <2>5 DEF Forget, Unasked, ReadSoFar, VerifierState
  <2> QED
    BY <2>1, <2>3, <2>4, <2>5
<1> QED
  BY <1>3, <1>4, <1>5 DEF TrustInv

(* Days pass. *)
LEMMA DawnKeeps ==
  ASSUME TrustInv, Dawn
  PROVE  TrustInv'
<1>1. /\ UNCHANGED <<meta, pem, revoked, guard, command, verifier>>
      /\ day \in Nat /\ day' = day + 1
  BY DEF Dawn, Files, TrustInv, TrustTyped
<1>2. TrustTyped'
  BY <1>1 DEF TrustInv, TrustTyped
<1>3. Guarded' /\ Waits' /\ MetaFirst' /\ SeparatedKeys'
  BY <1>1 DEF TrustInv, Guarded, Used, Waits, MetaFirst, SeparatedKeys
<1>4. ASSUME NEW v \in Verifiers, verifier[v].pc # "idle"
      PROVE  /\ verifier[v].began <= day => verifier[v].began <= day'
             /\ \A what : Timely(what, verifier[v].at, verifier[v].began, day) =>
                            Timely(what, verifier[v].at, verifier[v].began, day')
  <2>1. verifier[v].began \in Nat
    BY DEF TrustInv, TrustTyped, VerifierState
  <2>2. verifier[v].began .. day \subseteq verifier[v].began .. day'
    BY <1>1, <2>1
  <2> QED
    BY <1>1, <2>1, <2>2 DEF Timely
<1>5. ReadSoFar'
  BY <1>1, <1>4 DEF TrustInv, ReadSoFar
<1> QED
  BY <1>2, <1>3, <1>5 DEF TrustInv

(* Every step keeps the invariant. *)
LEMMA TrustStays == TrustInv /\ [TrustNext]_trustVars => TrustInv'
<1> SUFFICES ASSUME TrustInv, [TrustNext]_trustVars PROVE TrustInv'
  OBVIOUS
<1>1. CASE UNCHANGED trustVars
  <2>1. TrustTyped'
    BY <1>1 DEF trustVars, TrustInv, TrustTyped
  <2>2. Guarded' /\ Waits' /\ MetaFirst' /\ SeparatedKeys' /\ ReadSoFar'
    BY <1>1 DEF trustVars, TrustInv, Guarded, Used, Waits, MetaFirst, SeparatedKeys, ReadSoFar
  <2> QED
    BY <2>1, <2>2 DEF TrustInv
<1> QED
  BY <1>1, CommandKeeps, VerifierKeeps, DawnKeeps DEF TrustNext

(* The key was read before the metadata, which were written before it. *)
LEMMA TrustSuffices == TrustInv => TrustHolds
<1> SUFFICES ASSUME TrustInv, NEW v \in Verifiers, verifier[v].pc = "accepted"
             PROVE  LET slot == verifier[v].slot
                    IN /\ meta[slot] # Nil /\ pem[slot] = verifier[v].by
                       /\ meta[slot].key = verifier[v].by
                       /\ Timely(meta[slot], verifier[v].at, verifier[v].began, day)
                       /\ verifier[v].was /\ ~verifier[v].ignore =>
                            verifier[v].at # Nil /\ verifier[v].at < revoked[slot]
  BY DEF TrustInv, TrustHolds, VerifiedIsTrusted
<1>1. verifier[v].slot \in Slots /\ verifier[v].by \in PublicKeys
  BY DEF TrustInv, TrustTyped
<1>2. pem[verifier[v].slot] = verifier[v].by /\ pem[verifier[v].slot] # Nil
  BY <1>1, TrustAssumption DEF TrustInv, ReadSoFar
<1>3. meta[verifier[v].slot] # Nil /\ meta[verifier[v].slot].key = verifier[v].by
  BY <1>1, <1>2 DEF TrustInv, MetaFirst
<1> QED
  BY <1>2, <1>3 DEF TrustInv, ReadSoFar

(* Whatever trusts, revocations, deaths and verifications interleave, no key delivers
   work under two purposes, and only what a key is trusted for is accepted: the lock
   covers the look through the directories and the write of the key, and metadata are
   written before the key and read after it. *)
THEOREM KeysTrusted == TrustSpec => []TrustHolds
<1>1. TrustSpec => []TrustInv
  BY TrustInitially, TrustStays, PTL DEF TrustSpec
<1> QED
  BY <1>1, TrustSuffices, PTL

-----------------------------------------------------------------------------
(* The evidence generations *)

WorkState == [pc : {"idle", "publish", "write", "point", "remove"},
              attempt : Attempts \cup {None}, record : Record \cup {None},
              files : SUBSET AllFiles, targets : SUBSET Attempts]
ReaderState == [pc : {"idle", "pointer", "part", "failed"}, from : Attempts \cup {None},
                moved : BOOLEAN, want : SUBSET Parts]
EvidenceTyped ==
  /\ generation = [a \in Attempts |-> generation[a]]
  /\ current \in Attempts \cup {None}
  /\ work \in WorkState
  /\ reader \in [Readers -> ReaderState]

(* A generation with every file its manifest lists, all the evidence among them. *)
Complete(a) == a \in Named /\ Whole(a) /\ Parts \subseteq generation[a].listed
CurrentComplete == current # None => Complete(current)

(* What is being published is not older than what is current, a directory of its
   name is of the same attempt, and what will be pointed at is complete. *)
Publishing ==
  work.pc \in {"publish", "write", "point"} =>
    /\ work.attempt \in Attempts /\ work.record \in Record
    /\ current # None => \/ work.record.number > generation[current].record.number
                         \/ work.attempt = current
    /\ work.attempt \in Named => generation[work.attempt].record = work.record
    /\ work.pc = "write" => work.attempt \notin Named
    /\ work.pc = "point" => Complete(work.attempt)

(* What is being removed is not current. *)
Removing == work.pc = "remove" => current \notin work.targets

(* Who reads a part was pointed to what is current, unless that has moved. *)
Reading ==
  \A r \in Readers :
    /\ reader[r].pc = "part" => /\ reader[r].from # None
                                /\ reader[r].from = current \/ reader[r].moved
    /\ reader[r].pc = "failed" => reader[r].moved

EvidenceInv == EvidenceTyped /\ CurrentComplete /\ Publishing /\ Removing /\ Reading

-----------------------------------------------------------------------------
(* No evidence yet. *)
LEMMA EvidenceInitially == EvidenceInit => EvidenceInv
<1> SUFFICES ASSUME EvidenceInit PROVE EvidenceInv
  OBVIOUS
<1>1. EvidenceTyped
  BY DEF EvidenceInit, EvidenceTyped, NoWork, Rested, WorkState, ReaderState
<1>2. CurrentComplete /\ Publishing /\ Removing /\ Reading
  BY DEF EvidenceInit, CurrentComplete, Publishing, Removing, Reading, NoWork, Rested
<1> QED
  BY <1>1, <1>2 DEF EvidenceInv

(* The command that holds the lock goes on while no directory changes. *)
LEMMA WorkKeeps ==
  ASSUME EvidenceInv, UNCHANGED <<generation, current, reader>>,
         work' \in WorkState,
         \/ work'.pc = "idle"
         \/ work'.pc = "publish" /\ Publishing'
         \/ /\ work.pc \in {"publish", "write"} /\ work'.pc \in {"write", "point"}
            /\ work'.attempt = work.attempt /\ work'.record = work.record
            /\ work'.pc = "write" => work.attempt \notin Named
            /\ work'.pc = "point" => Complete(work.attempt)
         \/ work'.pc = "remove" /\ current \notin work'.targets
  PROVE  EvidenceInv'
<1>1. EvidenceTyped' /\ CurrentComplete' /\ Removing' /\ Reading'
  BY DEF EvidenceInv, EvidenceTyped, CurrentComplete, Complete, Named, Whole, Removing, Reading
<1>2. Publishing'
  BY DEF EvidenceInv, EvidenceTyped, Publishing, Complete, Named, Whole
<1> QED
  BY <1>1, <1>2 DEF EvidenceInv

(* What an import checks under the lock is what publishing relies on. *)
LEMMA ImportKeeps ==
  ASSUME EvidenceInv, NEW a \in Attempts, NEW record \in Record, Import(a, record)
  PROVE  EvidenceInv'
<1>1. /\ work' \in WorkState /\ work'.pc = "publish" /\ work'.attempt = a
      /\ work'.record = record
  BY DEF Import, NoWork, WorkState
<1>2. UNCHANGED <<generation, current, reader>>
  BY DEF Import, Kept
<1>3. Publishing'
  BY <1>1, <1>2
  DEF Import, Publishing, Continuing, Fresh, Complete, Named, Whole, Record
<1> QED
  BY <1>1, <1>2, <1>3, WorkKeeps

(* The directory is renamed when it is whole, and pointed to after that. *)
LEMMA PublicationKeeps ==
  ASSUME EvidenceInv, Publish \/ WriteFile \/ Rename \/ Point \/ Fail \/ Die
  PROVE  EvidenceInv'
<1>0. work \in WorkState /\ NoWork \in WorkState
  BY DEF EvidenceInv, EvidenceTyped, NoWork, WorkState
<1>1. CASE Publish
  <2>1. /\ work.pc = "publish" /\ work \in WorkState /\ NoWork \in WorkState
        /\ UNCHANGED <<generation, current, reader>>
    BY <1>0, <1>1 DEF Publish, Kept
  <2>2. CASE work.attempt \notin Named
    <3>1. work' = [work EXCEPT !.pc = "write"]
      BY <1>1, <2>2 DEF Publish
    <3>2. /\ work' \in WorkState /\ work'.pc = "write"
          /\ work'.attempt = work.attempt /\ work'.record = work.record
      BY <2>1, <3>1 DEF WorkState
    <3> QED
      BY <2>1, <2>2, <3>2, WorkKeeps
  <2>3. CASE Complete(work.attempt) /\ work' = [work EXCEPT !.pc = "point"]
    <3>1. /\ work' \in WorkState /\ work'.pc = "point"
          /\ work'.attempt = work.attempt /\ work'.record = work.record
      BY <2>1, <2>3 DEF WorkState
    <3> QED
      BY <2>1, <2>3, <3>1, WorkKeeps
  <2>4. CASE work' = NoWork
    <3>1. work'.pc = "idle"
      BY <2>4 DEF NoWork
    <3> QED
      BY <2>1, <2>4, <3>1, WorkKeeps
  <2> QED
    BY <1>1, <2>2, <2>3, <2>4 DEF Publish, ToPublish, Complete
<1>2. CASE WriteFile
  <2>1. /\ work' \in WorkState /\ UNCHANGED <<generation, current, reader>>
        /\ work.pc = "write" /\ work'.pc = "write"
        /\ work'.attempt = work.attempt /\ work'.record = work.record
    BY <1>0, <1>2 DEF WriteFile, Kept, WorkState
  <2>2. work.attempt \notin Named
    BY <2>1 DEF EvidenceInv, Publishing
  <2> QED
    BY <2>1, <2>2, WorkKeeps
<1>3. CASE Rename
  <2> DEFINE a == work.attempt
             made1 == [record |-> work.record, listed |-> Listed, files |-> AllFiles]
  <2>1. /\ work.pc = "write" /\ UNCHANGED <<current, reader>>
        /\ work' = [work EXCEPT !.pc = "point"]
    BY <1>3 DEF Rename
  <2>2. a \in Attempts /\ a \notin Named /\ (current # None => a # current)
    BY <2>1 DEF EvidenceInv, Publishing, CurrentComplete, Complete
  <2>0. generation' = [generation EXCEPT ![a] = made1]
    BY <1>3, <2>2 DEF Rename, ToPublish
  <2>3. /\ work' \in WorkState /\ work'.attempt = a /\ work'.record = work.record
        /\ work'.pc = "point"
    BY <1>0, <2>1 DEF WorkState
  <2>4. /\ generation' = [b \in Attempts |-> generation'[b]]
        /\ generation'[a] = made1
        /\ \A b \in Attempts \ {a} : generation'[b] = generation[b]
    BY <2>0, <2>2 DEF EvidenceInv, EvidenceTyped
  <2>5. EvidenceTyped' /\ Removing' /\ Reading'
    BY <2>1, <2>3, <2>4 DEF EvidenceInv, EvidenceTyped, Removing, Reading
  <2>6. CurrentComplete'
    BY <2>1, <2>2, <2>4 DEF EvidenceInv, EvidenceTyped, CurrentComplete, Complete, Named, Whole
  <2>7. /\ made1 # None /\ made1.files = made1.listed \cup {"manifest"}
        /\ made1.record = work.record /\ Parts \subseteq made1.listed
    BY <2>1, EvidenceAssumption DEF EvidenceInv, Publishing, AllFiles, Listed
  <2>8. Publishing'
    BY <2>1, <2>2, <2>3, <2>4, <2>7 DEF EvidenceInv, EvidenceTyped, Publishing, Complete, Named, Whole
  <2> QED
    BY <2>5, <2>6, <2>8 DEF EvidenceInv
<1>4. CASE Point
  <2>1. /\ work.pc = "point" /\ work' = NoWork /\ current' = work.attempt
        /\ UNCHANGED generation
        /\ reader' = [r \in Readers |->
                       [reader[r] EXCEPT !.moved = @ \/ current # work.attempt]]
    BY <1>4 DEF Point
  <2>2. work.attempt \in Attempts /\ Complete(work.attempt)
    BY <2>1 DEF EvidenceInv, Publishing
  <2>3. /\ reader' \in [Readers -> ReaderState]
        /\ \A r \in Readers : /\ reader'[r].pc = reader[r].pc
                              /\ reader'[r].from = reader[r].from
                              /\ reader'[r].moved = (reader[r].moved \/ current # work.attempt)
    BY <2>1 DEF EvidenceInv, EvidenceTyped, ReaderState
  <2>4. EvidenceTyped' /\ CurrentComplete'
    BY <1>0, <2>1, <2>2, <2>3 DEF EvidenceInv, EvidenceTyped, CurrentComplete, Complete, Named, Whole
  <2>5. Publishing' /\ Removing'
    BY <2>1 DEF Publishing, Removing, NoWork
  <2>6. Reading'
    BY <2>1, <2>3 DEF EvidenceInv, Reading
  <2> QED
    BY <2>4, <2>5, <2>6 DEF EvidenceInv
<1>5. CASE Fail \/ Die
  <2>1. work' = NoWork /\ UNCHANGED <<generation, current, reader>>
    BY <1>5 DEF Fail, Die, Kept
  <2>2. work' \in WorkState /\ work'.pc = "idle"
    BY <1>0, <2>1 DEF NoWork
  <2> QED
    BY <2>1, <2>2, WorkKeeps
<1> QED
  BY <1>1, <1>2, <1>3, <1>4, <1>5

(* Pruning touches nothing but the targets, which are not current. *)
LEMMA PruningKeeps ==
  ASSUME EvidenceInv,
         \/ \E keep \in {0, 1}, old \in SUBSET Attempts : Prune(keep, old)
         \/ RemoveFile \/ RemoveDirectory \/ Pruned
  PROVE  EvidenceInv'
<1>0. work \in WorkState /\ NoWork \in WorkState
  BY DEF EvidenceInv, EvidenceTyped, NoWork, WorkState
<1>1. CASE \E keep \in {0, 1}, old \in SUBSET Attempts : Prune(keep, old)
  <2>1. PICK keep \in {0, 1}, old \in SUBSET Attempts : Prune(keep, old)
    BY <1>1
  <2>2. current \notin Targets(keep, old) /\ Targets(keep, old) \subseteq Attempts
    BY DEF Targets, History
  <2>3. /\ work' \in WorkState /\ work'.pc = "remove" /\ current \notin work'.targets
        /\ UNCHANGED <<generation, current, reader>>
    BY <2>1, <2>2 DEF Prune, NoWork, WorkState, Kept
  <2> QED
    BY <2>3, WorkKeeps
<1>2. ASSUME NEW a \in work.targets, work.pc = "remove", UNCHANGED <<current, reader>>,
             generation' = [b \in Attempts |-> generation'[b]],
             \A b \in Attempts \ {a} : generation'[b] = generation[b],
             work' \in WorkState, work'.pc = "remove", work'.targets \subseteq work.targets
      PROVE  EvidenceInv'
  <2>1. a \in Attempts /\ a # current
    BY <1>0, <1>2 DEF EvidenceInv, Removing, WorkState
  <2>2. EvidenceTyped' /\ Removing' /\ Reading'
    BY <1>2 DEF EvidenceInv, EvidenceTyped, Removing, Reading
  <2>3. CurrentComplete' /\ Publishing'
    BY <1>2, <2>1 DEF EvidenceInv, EvidenceTyped, CurrentComplete, Publishing, Complete, Named, Whole
  <2> QED
    BY <2>2, <2>3 DEF EvidenceInv
<1>3. CASE RemoveFile
  <2>1. PICK a \in work.targets, f \in AllFiles :
             generation' = [generation EXCEPT ![a].files = @ \ {f}]
    BY <1>3 DEF RemoveFile
  <2>2. /\ generation' = [b \in Attempts |-> generation'[b]]
        /\ \A b \in Attempts \ {a} : generation'[b] = generation[b]
    BY <2>1 DEF EvidenceInv, EvidenceTyped
  <2>3. work.pc = "remove" /\ UNCHANGED <<current, work, reader>>
    BY <1>3 DEF RemoveFile
  <2> QED
    BY <1>0, <1>2, <2>2, <2>3
<1>4. CASE RemoveDirectory
  <2>1. PICK a \in work.targets :
             /\ generation' = [generation EXCEPT ![a] = None]
             /\ work' = [work EXCEPT !.targets = @ \ {a}]
    BY <1>4 DEF RemoveDirectory
  <2>2. /\ generation' = [b \in Attempts |-> generation'[b]]
        /\ \A b \in Attempts \ {a} : generation'[b] = generation[b]
    BY <2>1 DEF EvidenceInv, EvidenceTyped
  <2>3. work.pc = "remove" /\ UNCHANGED <<current, reader>>
    BY <1>4 DEF RemoveDirectory
  <2>4. work' \in WorkState /\ work'.pc = "remove" /\ work'.targets \subseteq work.targets
    BY <1>0, <2>1, <2>3 DEF WorkState
  <2> QED
    BY <1>2, <2>2, <2>3, <2>4
<1>5. CASE Pruned
  <2>1. work' \in WorkState /\ work'.pc = "idle" /\ UNCHANGED <<generation, current, reader>>
    BY <1>0, <1>5 DEF Pruned, Kept, NoWork
  <2> QED
    BY <2>1, WorkKeeps
<1> QED
  BY <1>1, <1>3, <1>4, <1>5

(* A reader that is not overtaken finds the part. *)
LEMMA ReadersKeep ==
  ASSUME EvidenceInv, NEW r \in Readers,
         Ask(r) \/ ReadPointer(r) \/ ReadPart(r) \/ ReadAgain(r)
  PROVE  EvidenceInv'
<1>1. UNCHANGED <<generation, current, work>>
  BY DEF Ask, ReadPointer, ReadPart, ReadAgain, Kept
<1>2. reader \in [Readers -> ReaderState]
  BY DEF EvidenceInv, EvidenceTyped
<1>3. /\ reader' \in [Readers -> ReaderState]
      /\ \A q \in Readers \ {r} : reader'[q] = reader[q]
      /\ reader'[r].pc = "part" => reader'[r].from # None /\ reader'[r].from = current
      /\ reader'[r].pc = "failed" => reader'[r].moved
  <2>1. CASE Ask(r)
    BY <1>2, <2>1 DEF Ask, Rested, ReaderState
  <2>2. CASE ReadPointer(r)
    BY <1>2, <2>2 DEF ReadPointer, ReaderState, EvidenceInv, EvidenceTyped
  <2>3. CASE ReadPart(r)
    <3> DEFINE from == reader[r].from
    <3>1. PICK p \in reader[r].want :
            reader' = [reader EXCEPT ![r].pc =
               IF from \notin Named \/ ~({"manifest", p} \subseteq generation[from].files)
                 THEN "failed"
               ELSE IF reader[r].want = {p} THEN "idle" ELSE "pointer",
             ![r].want = @ \ {p}]
      BY <2>3 DEF ReadPart
    <3>2. reader[r].pc = "part" /\ p \in Parts
      BY <1>2, <2>3 DEF ReadPart, ReaderState
    <3>3. \/ reader[r].moved
          \/ from \in Named /\ {"manifest", p} \subseteq generation[from].files
      BY <3>2 DEF EvidenceInv, Reading, CurrentComplete, Complete, Whole
    <3> DEFINE place == IF from \notin Named \/ ~({"manifest", p} \subseteq generation[from].files)
                       THEN "failed"
                     ELSE IF reader[r].want = {p} THEN "idle" ELSE "pointer"
    <3>4. place \in {"failed", "idle", "pointer"} /\ (place = "failed" => reader[r].moved)
      BY <3>3
    <3>5. reader' = [reader EXCEPT ![r].pc = place, ![r].want = @ \ {p}]
      BY <3>1
    <3> HIDE DEF place
    <3> QED
      BY <1>2, <3>4, <3>5 DEF ReaderState
  <2>4. CASE ReadAgain(r)
    BY <1>2, <2>4 DEF ReadAgain, Rested, ReaderState
  <2> QED
    BY <2>1, <2>2, <2>3, <2>4
<1>4. EvidenceTyped' /\ Reading'
  BY <1>1, <1>3 DEF EvidenceInv, EvidenceTyped, Reading
<1>5. CurrentComplete' /\ Publishing' /\ Removing'
  BY <1>1 DEF EvidenceInv, CurrentComplete, Publishing, Removing, Complete, Named, Whole
<1> QED
  BY <1>4, <1>5 DEF EvidenceInv

(* Every step keeps the invariant. *)
LEMMA EvidenceStays == EvidenceInv /\ [EvidenceNext]_evidenceVars => EvidenceInv'
<1> SUFFICES ASSUME EvidenceInv, [EvidenceNext]_evidenceVars PROVE EvidenceInv'
  OBVIOUS
<1>1. CASE UNCHANGED evidenceVars
  BY <1>1 DEF evidenceVars, EvidenceInv, EvidenceTyped, CurrentComplete, Publishing,
              Removing, Reading, Complete, Named, Whole
<1> QED
  BY <1>1, ImportKeeps, PublicationKeeps, PruningKeeps, ReadersKeep DEF EvidenceNext

(* Whatever fails, dies or is pruned, the current evidence is whole, and a reader
   without a lock that misses a part was overtaken by another generation. *)
THEOREM EvidenceFound == EvidenceSpec => []EvidenceServed
<1>1. EvidenceSpec => []EvidenceInv
  BY EvidenceInitially, EvidenceStays, PTL DEF EvidenceSpec
<1>2. EvidenceInv => EvidenceServed
  BY DEF EvidenceInv, EvidenceServed, CurrentIsWhole, Served, Reading, CurrentComplete, Complete
<1> QED
  BY <1>1, <1>2, PTL

(* Only Point replaces the pointer. *)
LEMMA PointsForward ==
  ASSUME EvidenceInv, [EvidenceNext]_evidenceVars, current # None, current' # current
  PROVE  generation[current'].record.number > generation[current].record.number
<1>1. Point
  BY DEF EvidenceNext, evidenceVars, Import, Publish, WriteFile, Rename, Fail, Die, Prune,
         RemoveFile, RemoveDirectory, Pruned, Ask, ReadPointer, ReadPart, ReadAgain, Kept
<1>2. work.pc = "point" /\ current' = work.attempt
  BY <1>1 DEF Point
<1> QED
  BY <1>2 DEF EvidenceInv, Publishing, Complete

(* Evidence of an earlier attempt never becomes current again. *)
THEOREM EvidenceNeverBack == EvidenceSpec => NeverBack
<1>1. EvidenceSpec => []EvidenceInv
  BY EvidenceInitially, EvidenceStays, PTL DEF EvidenceSpec
<1>2. EvidenceInv /\ [EvidenceNext]_evidenceVars =>
        [current # None /\ current' # current
         => generation[current'].record.number > generation[current].record.number]_evidenceVars
  BY PointsForward
<1> QED
  BY <1>1, <1>2, PTL DEF EvidenceSpec, NeverBack

(* The channels of families and the event log *)
(* What the log and the processes are made of. *)
LogRows == [seq : Nat, kind : {"signal", "ack", "status"}, about : Lines \cup Tasks, n : Nat]
Messages == [from : Lines \cup {Operator}, to : Lines \cup {Operator, NoLine}, retracts : Nat]

Said(kind, about, n) ==
  \E i \in DOMAIN Log : Log[i].kind = kind /\ Log[i].about = about /\ Log[i].n = n

ChannelTyped ==
  /\ archives \in Seq(Seq(LogRows)) /\ newest \in Seq(LogRows)
  /\ torn \in BOOLEAN /\ gap \in BOOLEAN
  /\ channel \in [Lines -> Seq(Messages)] /\ half \subseteq Lines
  /\ acks \in [Lines -> SUBSET Nat]
  /\ artifacts \in [Lines -> SUBSET Artifacts] /\ bytes \in [Lines -> SUBSET Artifacts]
  /\ status \in [Tasks -> Nat] /\ untold \subseteq Tasks
  /\ DOMAIN proc = Procs

(* An archive is full, and the newest file is no longer than that. *)
FilesFit ==
  /\ \A k \in DOMAIN archives : Len(archives[k]) = RowsPerFile
  /\ Len(newest) <= RowsPerFile

(* The archives up to one of them are the beginning of all, and shorter unless it is
   the last. *)
ArchivesGrow ==
  \A k \in 0..Len(archives) :
    LET upTo == FlattenSeq(SubSeq(archives, 1, k))
    IN  /\ upTo \in Seq(LogRows) /\ IsPrefix(upTo, FlattenSeq(archives))
        /\ k < Len(archives) => Len(upTo) < Len(FlattenSeq(archives))

(* The rows are numbered, tell what is there, a message once, and of an acknowledgement
   only after its message. *)
LogTells ==
  /\ \A i \in DOMAIN Log : Log[i].seq = i
  /\ \A i \in DOMAIN Log : Log[i].kind \in {"signal", "ack"} =>
       Log[i].about \in Lines /\ Log[i].n \in DOMAIN channel[Log[i].about]
  /\ \A i, j \in DOMAIN Log :
       /\ Log[i].kind = "signal" /\ Log[j].kind = "signal"
       /\ Log[i].about = Log[j].about /\ Log[i].n = Log[j].n
       => i = j
  /\ \A i \in DOMAIN Log : Log[i].kind = "ack" => Said("signal", Log[i].about, Log[i].n)

(* A retraction names a message of its family, an acknowledgement one that was told,
   and a listed artifact has its bytes. *)
FilesTell ==
  \A f \in Lines :
    /\ \A n \in DOMAIN channel[f] : channel[f][n].retracts \in 0..Len(channel[f])
    /\ \A n \in acks[f] : n \in DOMAIN channel[f] /\ Said("ack", f, n)
    /\ artifacts[f] \subseteq bytes[f]

(* Rows to come of messages that were not told, each once. *)
Unsaid(f, todo) ==
  /\ todo \in Seq(LogRows)
  /\ \A i \in DOMAIN todo :
       /\ todo[i] = Row("signal", f, todo[i].n)
       /\ todo[i].n \in DOMAIN channel[f] /\ ~Said("signal", f, todo[i].n)
  /\ \A i, j \in DOMAIN todo : todo[i].n = todo[j].n => i = j

Doing(place, kind, about, item, todo) ==
  [pc |-> place, kind |-> kind, about |-> about, item |-> item, todo |-> todo]

(* What a process may be doing. *)
Posting(r) ==
  \E f \in Lines, item \in {<<>>} \cup {<<m>> : m \in Messages} :
    /\ r = Doing("append", "post", f, item, r.todo) /\ Unsaid(f, r.todo)
    /\ item = <<>> => r.todo # <<>>
Acking(r) ==
  \E f \in Lines : \E n \in DOMAIN channel[f] :
    \/ r = Doing("found", "ack", f, <<n>>, <<>>)
    \/ r = Doing("append", "ack", f, <<n>>, <<Row("ack", f, n)>>) /\ Said("signal", f, n)
    \/ r = Doing("append", "ack", f, <<n>>, <<>>) /\ Said("ack", f, n)
Planting(r) ==
  \E f \in Lines, a \in Artifacts :
    \/ r = Doing("append", "bytes", f, <<a>>, <<>>)
    \/ r = Doing("append", "plant", f, <<a>>, <<>>) /\ a \in bytes[f]
Changing(r) ==
  \E t \in Tasks :
    \/ r = Doing("tell", "status", t, <<>>, <<>>)
    \/ r = Doing("append", "status", t, <<>>, <<Row("status", t, status[t])>>)
    \/ r = Doing("missed", "status", t, <<>>, <<>>)
Job(r) == r = Idle \/ Posting(r) \/ Acking(r) \/ Planting(r) \/ Changing(r)
Working == \A p \in Procs : Job(proc[p])

(* One process holds the log, and one a task's change. *)
Alone ==
  \A p, q \in Procs : p # q =>
    /\ ~(proc[p].pc = "append" /\ proc[q].pc = "append")
    /\ ~(proc[p].kind = "status" /\ proc[q].kind = "status" /\ proc[p].about = proc[q].about)

(* Readers have what the log begins with. *)
ReadersHave ==
  /\ overlay \in [pc : {"idle", "listed", "read", "drawn"}, listed : Nat, rows : Seq(LogRows),
                  verdict : {Sound, Bad}]
  /\ pager \in [pc : {"idle", "page"}, given : Seq(LogRows)]
  /\ overlay.pc = "listed" => overlay.listed <= Len(archives)
  /\ PagesAreTheLog /\ IsPrefix(overlay.rows, Log)

ChannelInv ==
  /\ ChannelTyped /\ FilesFit /\ ArchivesGrow /\ LogTells /\ FilesTell
  /\ Working /\ Alone /\ StatusTold /\ ReadersHave

(* A set of natural numbers has a least one. *)
LEMMA LeastOne ==
  ASSUME NEW S \in SUBSET Nat, S # {}
  PROVE  \E n \in S : \A m \in S : n <= m
<1> DEFINE T == {0..n : n \in S}
<1>1. T \subseteq FiniteSubsetsOf(Nat)
  <2>1. \A n \in S : 0..n \subseteq Nat /\ IsFiniteSet(0..n)
    BY FS_Interval
  <2> QED
    BY <2>1 DEF FiniteSubsetsOf
<1>2. PICK x \in T : \A y \in T : ~ (<<y, x>> \in StrictSubsetOrdering(Nat))
  <2>1. IsWellFoundedOn(StrictSubsetOrdering(Nat), FiniteSubsetsOf(Nat))
    BY FS_StrictSubsetOrderingWellFounded
  <2>2. T # {}
    OBVIOUS
  <2> HIDE DEF T
  <2> QED
    BY <1>1, <2>1, <2>2, WFMin
<1>3. PICK n \in S : x = 0..n
  OBVIOUS
<1>4. ASSUME NEW m \in S, ~ (n <= m) PROVE FALSE
  <2>1. 0..m \in T /\ 0..m \subseteq 0..n /\ 0..m # 0..n /\ 0..n \subseteq Nat
    <3>1. n \in 0..n /\ n \notin 0..m
      BY <1>4
    <3> QED
      BY <1>4, <3>1
  <2>2. <<0..m, x>> \in StrictSubsetOrdering(Nat)
    BY <2>1, <1>3 DEF StrictSubsetOrdering
  <2> QED
    BY <2>1, <2>2, <1>2
<1> QED
  BY <1>4


(* hence what holds of 0 and of the next number holds of all. *)
LEMMA AllNumbers ==
  ASSUME NEW S, 0 \in S, \A n \in Nat : n \in S => n + 1 \in S
  PROVE  Nat \subseteq S
<1> SUFFICES ASSUME Nat \ S # {} PROVE FALSE
  OBVIOUS
<1>1. PICK n \in Nat \ S : \A m \in Nat \ S : n <= m
  BY LeastOne
<1>2. n # 0 /\ n - 1 \in Nat
  BY <1>1
<1>3. n - 1 \in S
  BY <1>1, <1>2
<1> QED
  BY <1>1, <1>2, <1>3

(* The concatenations of the first sequences of s. *)
IsFlat(g, s, n) ==
  g = [i \in 1..n |-> IF i = 1 THEN s[i] ELSE g[i - 1] \o s[i]]

(* They exist, *)
LEMMA FlatExists ==
  ASSUME NEW s, NEW n \in Nat
  PROVE  \E g : IsFlat(g, s, n)
<1> DEFINE Has == {k \in Nat : \E g : IsFlat(g, s, k)}
<1>1. 0 \in Has
  <2>1. IsFlat([i \in 1..0 |-> <<>>], s, 0)
    BY DEF IsFlat
  <2> QED
    BY <2>1
<1>2. ASSUME NEW k \in Nat, k \in Has PROVE k + 1 \in Has
  <2>1. PICK g : IsFlat(g, s, k)
    BY <1>2
  <2> DEFINE h == [i \in 1..(k + 1) |->
                     IF i <= k THEN g[i] ELSE IF i = 1 THEN s[i] ELSE g[i - 1] \o s[i]]
  <2>2. \A i \in 1..(k + 1) : h[i] = IF i = 1 THEN s[i] ELSE h[i - 1] \o s[i]
    <3> SUFFICES ASSUME NEW i \in 1..(k + 1) PROVE h[i] = IF i = 1 THEN s[i] ELSE h[i - 1] \o s[i]
      OBVIOUS
    <3>1. CASE i <= k
      <4>1. i \in 1..k /\ h[i] = g[i]
        BY <3>1
      <4>2. g[i] = IF i = 1 THEN s[i] ELSE g[i - 1] \o s[i]
        BY <2>1, <4>1 DEF IsFlat
      <4>3. i # 1 => h[i - 1] = g[i - 1]
        BY <3>1
      <4> HIDE DEF h
      <4> QED
        BY <4>1, <4>2, <4>3
    <3>2. CASE ~(i <= k)
      <4>1. i # 1 => h[i - 1] = g[i - 1]
        BY <3>2
      <4>2. h[i] = IF i = 1 THEN s[i] ELSE g[i - 1] \o s[i]
        BY <3>2
      <4> HIDE DEF h
      <4> QED
        BY <4>1, <4>2
    <3> QED
      BY <3>1, <3>2
  <2>3. IsFlat(h, s, k + 1)
    <3>1. h = [i \in 1..(k + 1) |-> h[i]]
      OBVIOUS
    <3> HIDE DEF h
    <3> QED
      BY <2>2, <3>1 DEF IsFlat
  <2> HIDE DEF h
  <2> QED
    BY <2>3
<1> HIDE DEF Has
<1>3. Nat \subseteq Has
  BY <1>1, <1>2, AllNumbers
<1> QED
  BY <1>3 DEF Has

(* are sequences, and those of a sequence that goes on are the same. *)
LEMMA FlatGoesOn ==
  ASSUME NEW S, NEW s, NEW t, NEW m \in Nat, NEW n \in Nat, m <= n,
         \A i \in 1..m : s[i] = t[i], \A i \in 1..n : t[i] \in Seq(S),
         NEW g, IsFlat(g, s, m), NEW h, IsFlat(h, t, n)
  PROVE  \A i \in 1..m : g[i] = h[i] /\ g[i] \in Seq(S)
<1> DEFINE Same == {k \in Nat : k \in 1..m => g[k] = h[k] /\ g[k] \in Seq(S)}
<1>1. 0 \in Same
  OBVIOUS
<1>2. ASSUME NEW k \in Nat, k \in Same PROVE k + 1 \in Same
  <2> SUFFICES ASSUME k + 1 \in 1..m PROVE g[k + 1] = h[k + 1] /\ g[k + 1] \in Seq(S)
    OBVIOUS
  <2>1. /\ g[k + 1] = IF k + 1 = 1 THEN s[k + 1] ELSE g[k] \o s[k + 1]
        /\ h[k + 1] = IF k + 1 = 1 THEN t[k + 1] ELSE h[k] \o t[k + 1]
    <3>1. k + 1 \in 1..n /\ (k + 1) - 1 = k
      OBVIOUS
    <3> QED
      BY <3>1 DEF IsFlat
  <2>2. s[k + 1] = t[k + 1] /\ t[k + 1] \in Seq(S)
    OBVIOUS
  <2>3. CASE k = 0
    BY <2>1, <2>2, <2>3
  <2>4. CASE k # 0
    <3>1. g[k] = h[k] /\ g[k] \in Seq(S)
      BY <1>2, <2>4
    <3> QED
      BY <2>1, <2>2, <2>4, <3>1
  <2> QED
    BY <2>3, <2>4
<1> HIDE DEF Same
<1>3. Nat \subseteq Same
  BY <1>1, <1>2, AllNumbers
<1> QED
  BY <1>3 DEF Same

(* So is the concatenation of all. *)
LEMMA FlatIs ==
  ASSUME NEW S, NEW s \in Seq(Seq(S))
  PROVE  /\ FlattenSeq(s) \in Seq(S)
         /\ s = <<>> => FlattenSeq(s) = <<>>
         /\ s # <<>> => \E g : IsFlat(g, s, Len(s)) /\ FlattenSeq(s) = g[Len(s)]
<1>1. CASE s = <<>>
  BY <1>1 DEF FlattenSeq
<1>2. CASE s # <<>>
  <2>1. Len(s) \in Nat /\ Len(s) # 0 /\ \A i \in 1..Len(s) : s[i] \in Seq(S)
    BY <1>2
  <2> DEFINE g == CHOOSE g : IsFlat(g, s, Len(s))
  <2>2. IsFlat(g, s, Len(s))
    BY <2>1, FlatExists
  <2>3. FlattenSeq(s) = g[Len(s)]
    BY <2>1 DEF FlattenSeq, IsFlat
  <2> HIDE DEF g
  <2>4. \A i \in 1..Len(s) : g[i] = g[i] /\ g[i] \in Seq(S)
    BY <2>1, <2>2, Len(s) <= Len(s), FlatGoesOn
  <2> QED
    BY <1>2, <2>2, <2>3, <2>4
<1> QED
  BY <1>1, <1>2

(* One sequence more is appended. *)
LEMMA FlatAppend ==
  ASSUME NEW S, NEW s \in Seq(Seq(S)), NEW x \in Seq(S)
  PROVE  FlattenSeq(Append(s, x)) = FlattenSeq(s) \o x
<1> DEFINE t == Append(s, x)
           n == Len(s)
<1>1. /\ t \in Seq(Seq(S)) /\ Len(t) = n + 1 /\ t # <<>> /\ n \in Nat
      /\ \A i \in 1..n : s[i] = t[i]
      /\ t[n + 1] = x
      /\ \A i \in 1..(n + 1) : t[i] \in Seq(S)
  <2>1. t \in Seq(Seq(S)) /\ Len(t) = n + 1 /\ n \in Nat /\ t[n + 1] = x
    OBVIOUS
  <2>2. \A i \in 1..n : s[i] = t[i]
    OBVIOUS
  <2> HIDE DEF t
  <2> QED
    BY <2>1, <2>2
<1>2. PICK h : IsFlat(h, t, n + 1) /\ FlattenSeq(t) = h[n + 1]
  BY <1>1, FlatIs
<1>3. h[n + 1] = IF n + 1 = 1 THEN x ELSE h[n] \o x
  <2>1. n + 1 \in 1..(n + 1) /\ (n + 1) - 1 = n /\ t[n + 1] = x
    BY <1>1
  <2> QED
    BY <1>2, <2>1 DEF IsFlat
<1>4. CASE n = 0
  <2>1. s = <<>>
    BY <1>4
  <2>2. FlattenSeq(s) = <<>>
    BY <2>1, FlatIs
  <2> QED
    BY <1>2, <1>3, <1>4, <2>2
<1>5. CASE n # 0
  <2>1. PICK g : IsFlat(g, s, n) /\ FlattenSeq(s) = g[n]
    BY <1>5, FlatIs
  <2>2. n <= n + 1 /\ n \in 1..n /\ n + 1 \in Nat /\ n + 1 # 1
    BY <1>1, <1>5
  <2> HIDE DEF t, n
  <2>3. \A i \in 1..n : g[i] = h[i] /\ g[i] \in Seq(S)
    BY <1>1, <1>2, <2>1, <2>2, FlatGoesOn
  <2>4. h[n] = FlattenSeq(s) /\ h[n + 1] = h[n] \o x
    BY <1>3, <2>1, <2>2, <2>3
  <2>5. FlattenSeq(t) = FlattenSeq(s) \o x
    BY <1>2, <2>4
  <2> QED
    BY <2>5 DEF t
<1> QED
  BY <1>4, <1>5

(* A prefix, place by place. *)
LEMMA PrefixIs ==
  ASSUME NEW S, NEW s \in Seq(S), NEW t \in Seq(S)
  PROVE  IsPrefix(s, t) <=> Len(s) <= Len(t) /\ \A i \in 1..Len(s) : s[i] = t[i]
<1>1. SubSeq(s, 1, Len(s)) = s
  OBVIOUS
<1>2. CASE Len(s) <= Len(t)
  <2>1. SubSeq(t, 1, Len(s)) \in Seq(S) /\ Len(SubSeq(t, 1, Len(s))) = Len(s)
        /\ \A i \in 1..Len(s) : SubSeq(t, 1, Len(s))[i] = t[i]
    BY <1>2
  <2>2. s = SubSeq(t, 1, Len(s)) <=> \A i \in 1..Len(s) : s[i] = SubSeq(t, 1, Len(s))[i]
    BY <2>1
  <2> QED
    BY <1>1, <1>2, <2>1, <2>2 DEF IsPrefix
<1>3. CASE ~(Len(s) <= Len(t))
  BY <1>3 DEF IsPrefix
<1> QED
  BY <1>2, <1>3

(* What begins a sequence begins it when it goes on, *)
LEMMA PrefixGoesOn ==
  ASSUME NEW S, NEW s \in Seq(S), NEW t \in Seq(S), NEW u \in Seq(S), IsPrefix(s, t)
  PROVE  IsPrefix(s, t \o u) /\ IsPrefix(s, s)
<1>1. /\ t \o u \in Seq(S) /\ Len(t \o u) = Len(t) + Len(u)
      /\ \A i \in 1..Len(t) : (t \o u)[i] = t[i]
  OBVIOUS
<1>2. Len(s) <= Len(t) /\ \A i \in 1..Len(s) : s[i] = t[i]
  BY PrefixIs
<1>3. Len(s) <= Len(t \o u) /\ \A i \in 1..Len(s) : s[i] = (t \o u)[i]
  BY <1>1, <1>2
<1>4. IsPrefix(s, t \o u)
  BY <1>1, <1>3, PrefixIs
<1> QED
  BY <1>4, PrefixIs

(* and a sequence begins itself. *)
LEMMA PrefixSelf ==
  ASSUME NEW S, NEW s \in Seq(S)
  PROVE  IsPrefix(s, s)
BY DEF IsPrefix

(* The log is a sequence of rows. *)
LEMMA LogIs ==
  ASSUME archives \in Seq(Seq(LogRows)), newest \in Seq(LogRows)
  PROVE  /\ Log \in Seq(LogRows) /\ FlattenSeq(archives) \in Seq(LogRows)
         /\ Len(Log) = Len(FlattenSeq(archives)) + Len(newest)
         /\ DOMAIN Log = 1..Len(Log)
<1>1. FlattenSeq(archives) \in Seq(LogRows)
  BY FlatIs
<1> QED
  BY <1>1 DEF Log

(* A rotation moves rows, *)
LEMMA RotateKeeps ==
  ASSUME ChannelTyped, FilesFit, ArchivesGrow, Rotate
  PROVE  /\ Log' = Log /\ FilesFit' /\ ArchivesGrow'
         /\ archives' \in Seq(Seq(LogRows)) /\ newest' \in Seq(LogRows)
         /\ Len(archives') = Len(archives) + 1
<1>1. /\ archives \in Seq(Seq(LogRows)) /\ newest \in Seq(LogRows)
      /\ archives' = Append(archives, newest) /\ newest' = <<>> /\ Len(newest) = RowsPerFile
  BY DEF ChannelTyped, Rotate, Full
<1>2. /\ archives' \in Seq(Seq(LogRows)) /\ newest' \in Seq(LogRows)
      /\ Len(archives') = Len(archives) + 1 /\ Len(archives) \in Nat
      /\ archives'[Len(archives) + 1] = newest
      /\ \A i \in 1..Len(archives) : archives'[i] = archives[i]
  BY <1>1
<1> DEFINE old == FlattenSeq(archives)
<1>3. /\ old \in Seq(LogRows) /\ FlattenSeq(archives') = old \o newest
      /\ FlattenSeq(archives') \in Seq(LogRows)
  BY <1>1, <1>2, FlatIs, FlatAppend
<1>4. Log' = Log
  BY <1>1, <1>3 DEF Log
<1>5. FilesFit'
  BY <1>1, <1>2, OverlayAssumption DEF FilesFit
<1>6. ArchivesGrow'
  <2> SUFFICES ASSUME NEW k \in 0..Len(archives')
               PROVE  LET upTo == FlattenSeq(SubSeq(archives', 1, k))
                      IN  /\ upTo \in Seq(LogRows) /\ IsPrefix(upTo, FlattenSeq(archives'))
                          /\ k < Len(archives') => Len(upTo) < Len(FlattenSeq(archives'))
    BY DEF ArchivesGrow
  <2> HIDE DEF old
  <2>1. CASE k = Len(archives')
    <3>1. SubSeq(archives', 1, k) = archives'
      BY <1>2, <2>1
    <3> QED
      <4>1. IsPrefix(FlattenSeq(archives'), FlattenSeq(archives'))
        BY <1>3, PrefixSelf
      <4>2. ~(k < Len(archives'))
        BY <1>2, <2>1
      <4> QED
        BY <1>3, <3>1, <4>1, <4>2
  <2>2. CASE k # Len(archives')
    <3>1. k \in 0..Len(archives) /\ k \in Nat
      BY <1>2, <2>2
    <3>2. SubSeq(archives', 1, k) = SubSeq(archives, 1, k)
      <4>1. archives' = Append(archives, newest)
        BY <1>1
      <4> QED
        BY <1>1, <3>1, <4>1
    <3> DEFINE upTo == FlattenSeq(SubSeq(archives, 1, k))
    <3>3. upTo \in Seq(LogRows) /\ IsPrefix(upTo, old) /\ Len(upTo) <= Len(old)
      BY <1>3, <3>1, PrefixIs DEF ArchivesGrow, old
    <3>4. Len(old \o newest) = Len(old) + Len(newest) /\ Len(newest) \in Nat \ {0}
      <4>1. Len(newest) \in Nat \ {0}
        BY <1>1, OverlayAssumption
      <4>2. old \in Seq(LogRows) /\ newest \in Seq(LogRows)
        BY <1>1, <1>3
      <4> QED
        BY <4>1, <4>2
    <3> HIDE DEF upTo
    <3>5. IsPrefix(upTo, old \o newest) /\ Len(upTo) < Len(old \o newest)
      BY <1>1, <1>3, <3>3, <3>4, PrefixGoesOn
    <3> QED
      BY <1>3, <3>2, <3>3, <3>5 DEF upTo
  <2> QED
    BY <2>1, <2>2
<1> QED
  BY <1>2, <1>4, <1>5, <1>6

(* and a row is appended. *)
LEMMA WriteKeeps ==
  ASSUME ChannelTyped, FilesFit, ArchivesGrow, NEW row \in LogRows, WriteRow(row)
  PROVE  /\ Log' = Append(Log, [row EXCEPT !.seq = Len(Log) + 1])
         /\ FilesFit' /\ ArchivesGrow' /\ archives' = archives
         /\ newest' \in Seq(LogRows)
<1>1. /\ archives \in Seq(Seq(LogRows)) /\ newest \in Seq(LogRows)
      /\ archives' = archives /\ newest' = Append(newest, [row EXCEPT !.seq = Len(Log) + 1])
      /\ Len(newest) # RowsPerFile
  BY DEF ChannelTyped, WriteRow, Full, NextSeq
<1>2. Log \in Seq(LogRows) /\ FlattenSeq(archives) \in Seq(LogRows)
  BY <1>1, LogIs
<1>3. [row EXCEPT !.seq = Len(Log) + 1] \in LogRows
  <2>1. Len(Log) + 1 \in Nat
    BY <1>2
  <2> QED
    BY <2>1 DEF LogRows
<1>4. newest' \in Seq(LogRows) /\ Len(newest') = Len(newest) + 1
  BY <1>1, <1>3
<1>5. Log' = Append(Log, [row EXCEPT !.seq = Len(Log) + 1])
  <2> DEFINE r == [row EXCEPT !.seq = Len(Log) + 1]
             a == FlattenSeq(archives)
  <2>1. a \in Seq(LogRows) /\ newest \in Seq(LogRows) /\ r \in LogRows
    BY <1>1, <1>2, <1>3
  <2>2. newest' = Append(newest, r) /\ archives' = archives
    BY <1>1
  <2>3. Log' = a \o newest' /\ Log = a \o newest
    BY <2>2 DEF Log
  <2> HIDE DEF r, a
  <2>4. a \o Append(newest, r) = Append(a \o newest, r)
    BY <2>1
  <2>5. Log' = Append(Log, r)
    BY <2>2, <2>3, <2>4
  <2> QED
    BY <2>5 DEF r
<1>6. FilesFit'
  BY <1>1, <1>4, OverlayAssumption DEF FilesFit
<1>7. ArchivesGrow'
  BY <1>1 DEF ArchivesGrow
<1> QED
  BY <1>1, <1>4, <1>5, <1>6, <1>7

(* What a reader stitched together, numbered from the first row on, begins the log. *)
LEMMA StitchIs ==
  ASSUME ChannelTyped, FilesFit, ArchivesGrow, LogTells, NEW k \in Nat, k <= Len(archives)
  PROVE  /\ Stitched(k) \in Seq(LogRows)
         /\ Numbered(Stitched(k)) => IsPrefix(Stitched(k), Log)
<1> DEFINE upTo == FlattenSeq(SubSeq(archives, 1, k))
           all == FlattenSeq(archives)
<1>1. /\ upTo \in Seq(LogRows) /\ IsPrefix(upTo, all)
      /\ k < Len(archives) => Len(upTo) < Len(all)
  <2>1. k \in 0..Len(archives)
    BY DEF ChannelTyped
  <2> QED
    BY <2>1 DEF ArchivesGrow
<1>2. /\ newest \in Seq(LogRows) /\ all \in Seq(LogRows)
      /\ Log \in Seq(LogRows) /\ DOMAIN Log = 1..Len(Log) /\ Len(Log) = Len(all) + Len(newest)
  BY LogIs DEF ChannelTyped
<1>3. Stitched(k) = upTo \o newest /\ Log = all \o newest
  BY DEF Stitched, Log
<1>4. k = Len(archives) => upTo = all
  <2>1. k = Len(archives) => SubSeq(archives, 1, k) = archives
    BY DEF ChannelTyped
  <2> QED
    BY <2>1
<1> HIDE DEF upTo, all
<1>5. CASE k = Len(archives)
  <2>1. Stitched(k) = Log
    BY <1>3, <1>4, <1>5
  <2> QED
    BY <1>2, <2>1, PrefixSelf
<1>6. CASE k < Len(archives) /\ newest = <<>>
  <2>1. Stitched(k) = upTo /\ Log = all
    BY <1>1, <1>2, <1>3, <1>6
  <2> QED
    BY <1>1, <2>1
<1>7. CASE k < Len(archives) /\ newest # <<>>
  <2>1. /\ Len(upTo) + 1 \in 1..Len(upTo \o newest) /\ (upTo \o newest)[Len(upTo) + 1] = newest[1]
        /\ Len(all) + 1 \in 1..Len(Log) /\ (all \o newest)[Len(all) + 1] = newest[1]
    <3>1. Len(newest) \in Nat \ {0} /\ Len(upTo) \in Nat /\ Len(all) \in Nat
      BY <1>1, <1>2, <1>7
    <3>2. Len(upTo \o newest) = Len(upTo) + Len(newest)
      BY <1>1, <1>2
    <3>3. (upTo \o newest)[Len(upTo) + 1] = newest[1] /\ (all \o newest)[Len(all) + 1] = newest[1]
      BY <1>1, <1>2, <3>1
    <3> QED
      BY <1>2, <3>1, <3>2, <3>3
  <2>2. newest[1].seq = Len(all) + 1
    BY <1>2, <1>3, <2>1 DEF LogTells
  <2>3. upTo \o newest \in Seq(LogRows)
    BY <1>1, <1>2
  <2>4. Len(upTo) # Len(all) /\ Len(upTo) \in Nat /\ Len(all) \in Nat
    BY <1>1, <1>2, <1>7
  <2>5. ~Numbered(Stitched(k))
    <3> SUFFICES ASSUME Numbered(upTo \o newest) PROVE FALSE
      BY <1>3
    <3>1. DOMAIN (upTo \o newest) = 1..Len(upTo \o newest)
      BY <2>3
    <3>2. (upTo \o newest)[Len(upTo) + 1].seq = Len(upTo) + 1
      BY <2>1, <3>1 DEF Numbered
    <3> QED
      BY <2>1, <2>2, <2>4, <3>2
  <2> QED
    BY <1>3, <2>3, <2>5
<1> QED
  BY <1>5, <1>6, <1>7 DEF ChannelTyped

(* The next page goes on where the pages end. *)
LEMMA PageIs ==
  ASSUME NEW S, NEW rows \in Seq(S), NEW given \in Seq(S), IsPrefix(given, rows)
  PROVE  /\ given \o Page(rows, Len(given)) \in Seq(S)
         /\ IsPrefix(given \o Page(rows, Len(given)), rows)
<1> DEFINE n == Len(given)
           last == Min({n + PageSize, Len(rows)})
<1>1. n \in Nat /\ n <= Len(rows) /\ Len(rows) \in Nat /\ \A i \in 1..n : given[i] = rows[i]
  BY PrefixIs
<1>2. last \in Nat /\ n <= last /\ last <= Len(rows)
  <2>1. n + PageSize \in Nat /\ Len(rows) \in Nat /\ n <= n + PageSize
    BY <1>1, OverlayAssumption
  <2>2. last \in {n + PageSize, Len(rows)} /\ last <= Len(rows)
    BY <2>1 DEF Min
  <2> HIDE DEF n, last
  <2> QED
    BY <1>1, <2>1, <2>2
<1>3. Page(rows, n) = SubSeq(rows, n + 1, last)
  BY DEF Page
<1> HIDE DEF n, last
<1>4. /\ SubSeq(rows, n + 1, last) \in Seq(S) /\ Len(SubSeq(rows, n + 1, last)) = last - n
      /\ \A i \in 1..(last - n) : SubSeq(rows, n + 1, last)[i] = rows[n + i]
  BY <1>1, <1>2
<1> DEFINE more == SubSeq(rows, n + 1, last)
<1>5. /\ given \o more \in Seq(S) /\ Len(given \o more) = last
      /\ \A i \in 1..last : (given \o more)[i] = rows[i]
  <2> HIDE DEF more
  <2>1. given \o more \in Seq(S) /\ Len(given \o more) = n + Len(more)
        /\ \A i \in 1..(n + Len(more)) :
             (given \o more)[i] = IF i <= n THEN given[i] ELSE more[i - n]
    BY <1>4 DEF n, more
  <2>2. Len(more) = last - n /\ \A i \in 1..(last - n) : more[i] = rows[n + i]
    BY <1>4 DEF more
  <2>3. ASSUME NEW i \in 1..last PROVE (given \o more)[i] = rows[i]
    <3>1. CASE i <= n
      BY <1>1, <1>2, <2>1, <2>2, <3>1
    <3>2. CASE ~(i <= n)
      <4>1. i - n \in 1..(last - n) /\ n + (i - n) = i
        BY <1>1, <1>2, <3>2
      <4>2. more[i - n] = rows[i]
        BY <2>2, <4>1
      <4> QED
        BY <1>1, <1>2, <2>1, <2>2, <3>2, <4>2
    <3> QED
      BY <3>1, <3>2
  <2> QED
    BY <1>1, <1>2, <2>1, <2>2, <2>3
<1> QED
  BY <1>2, <1>3, <1>5, PrefixIs DEF n

(* The numbers up to n that are not in told, in their order. *)
IsUntold(g, told, n) ==
  g = [i \in 0..n |-> IF i = 0 THEN <<>>
                      ELSE IF i \in told THEN g[i - 1] ELSE Append(g[i - 1], i)]

(* There is such a function. *)
LEMMA UntoldExists ==
  ASSUME NEW told, NEW n \in Nat
  PROVE  \E g : IsUntold(g, told, n)
<1> DEFINE Has == {k \in Nat : \E g : IsUntold(g, told, k)}
           Upto(i, s) == IF i \in told THEN s ELSE Append(s, i)
<1>1. 0 \in Has
  <2>1. IsUntold([i \in 0..0 |-> <<>>], told, 0)
    BY DEF IsUntold
  <2> QED
    BY <2>1
<1>2. ASSUME NEW k \in Nat, k \in Has PROVE k + 1 \in Has
  <2>1. PICK g : IsUntold(g, told, k)
    BY <1>2
  <2> DEFINE h == [i \in 0..(k + 1) |-> IF i <= k THEN g[i] ELSE Upto(i, g[i - 1])]
  <2>2. \A i \in 0..(k + 1) : h[i] = IF i = 0 THEN <<>> ELSE Upto(i, h[i - 1])
    <3> SUFFICES ASSUME NEW i \in 0..(k + 1) PROVE h[i] = IF i = 0 THEN <<>> ELSE Upto(i, h[i - 1])
      OBVIOUS
    <3> HIDE DEF Upto
    <3>1. CASE i <= k
      <4>1. i \in 0..k /\ h[i] = g[i]
        BY <3>1
      <4>2. g[i] = IF i = 0 THEN <<>> ELSE Upto(i, g[i - 1])
        BY <2>1, <4>1 DEF IsUntold, Upto
      <4>3. i # 0 => h[i - 1] = g[i - 1]
        BY <3>1
      <4> HIDE DEF h
      <4> QED
        BY <4>1, <4>2, <4>3
    <3>2. CASE ~(i <= k)
      <4>1. i # 0 /\ h[i - 1] = g[i - 1] /\ h[i] = Upto(i, g[i - 1])
        BY <3>2
      <4> HIDE DEF h
      <4> QED
        BY <4>1
    <3> QED
      BY <3>1, <3>2
  <2>3. IsUntold(h, told, k + 1)
    <3>1. h = [i \in 0..(k + 1) |-> h[i]]
      OBVIOUS
    <3> HIDE DEF h
    <3> QED
      BY <2>2, <3>1 DEF IsUntold
  <2> HIDE DEF h
  <2> QED
    BY <2>3
<1> HIDE DEF Has
<1>3. Nat \subseteq Has
  BY <1>1, <1>2, AllNumbers
<1> QED
  BY <1>3 DEF Has

(* What a sequence of numbers up to n is that leaves out those told. *)
Untold(s, told, n) ==
  /\ s \in Seq(Nat)
  /\ \A i \in DOMAIN s : s[i] \in 1..n /\ s[i] \notin told
  /\ \A i, j \in DOMAIN s : s[i] = s[j] => i = j
  /\ s = <<>> => 1..n \subseteq told

(* What it ends with leaves out what was told, and only that. *)
LEMMA UntoldIs ==
  ASSUME NEW told, NEW n \in Nat, NEW g, IsUntold(g, told, n)
  PROVE  Untold(g[n], told, n)
<1> DEFINE Good == {k \in Nat : k <= n => Untold(g[k], told, k)}
<1>1. 0 \in Good
  <2>1. g[0] = <<>>
    BY DEF IsUntold
  <2>2. Untold(<<>>, told, 0)
    <3>1. <<>> \in Seq(Nat) /\ DOMAIN <<>> = {} /\ 1..0 = {}
      OBVIOUS
    <3> QED
      BY <3>1 DEF Untold
  <2> QED
    BY <2>1, <2>2
<1>2. ASSUME NEW k \in Nat, k \in Good PROVE k + 1 \in Good
  <2> SUFFICES ASSUME k + 1 <= n PROVE Untold(g[k + 1], told, k + 1)
    OBVIOUS
  <2>1. Untold(g[k], told, k)
    BY <1>2
  <2>2. g[k + 1] = IF k + 1 \in told THEN g[k] ELSE Append(g[k], k + 1)
    <3>1. k + 1 \in 0..n /\ k + 1 # 0 /\ (k + 1) - 1 = k
      OBVIOUS
    <3> QED
      BY <3>1 DEF IsUntold
  <2>3. CASE k + 1 \in told
    <3>1. g[k + 1] = g[k] /\ 1..(k + 1) = 1..k \cup {k + 1}
      BY <2>2, <2>3
    <3>2. \A m \in 1..k : m \in 1..(k + 1)
      OBVIOUS
    <3>3. 1..k \subseteq told => 1..(k + 1) \subseteq told
      BY <2>3, <3>1
    <3> QED
      BY <2>1, <3>1, <3>2, <3>3 DEF Untold
  <2>4. CASE k + 1 \notin told
    <3> DEFINE s == g[k]
    <3>1. g[k + 1] = Append(s, k + 1) /\ s \in Seq(Nat) /\ Len(s) \in Nat
      BY <2>1, <2>2, <2>4 DEF Untold
    <3> HIDE DEF s
    <3>2. /\ Append(s, k + 1) \in Seq(Nat) /\ DOMAIN Append(s, k + 1) = 1..(Len(s) + 1)
          /\ Append(s, k + 1)[Len(s) + 1] = k + 1
          /\ \A i \in 1..Len(s) : Append(s, k + 1)[i] = s[i]
          /\ DOMAIN s = 1..Len(s)
      BY <3>1
    <3>3. \A i \in 1..Len(s) : s[i] \in 1..k /\ s[i] \notin told
      BY <2>1, <3>2 DEF Untold, s
    <3>4. \A i, j \in 1..Len(s) : s[i] = s[j] => i = j
      BY <2>1, <3>2 DEF Untold, s
    <3>5. \A i \in 1..Len(s) : s[i] # k + 1 /\ s[i] \in 1..(k + 1)
      BY <3>3
    <3> DEFINE t == Append(s, k + 1)
    <3>6. t \in Seq(Nat) /\ t # <<>> /\ DOMAIN t = 1..(Len(s) + 1)
      BY <3>1, <3>2
    <3>7. \A i \in 1..(Len(s) + 1) : i \in 1..Len(s) \/ i = Len(s) + 1
      BY <3>1
    <3>8. t[Len(s) + 1] = k + 1 /\ \A i \in 1..Len(s) : t[i] = s[i]
      BY <3>2
    <3> HIDE DEF t
    <3>9. \A i \in DOMAIN t : t[i] \in 1..(k + 1) /\ t[i] \notin told
      BY <2>4, <3>3, <3>5, <3>6, <3>7, <3>8
    <3>10. \A i, j \in DOMAIN t : t[i] = t[j] => i = j
      BY <3>4, <3>5, <3>6, <3>7, <3>8
    <3> QED
      BY <3>1, <3>6, <3>9, <3>10 DEF Untold, t
  <2> QED
    BY <2>3, <2>4
<1> HIDE DEF Good
<1>3. Nat \subseteq Good
  BY <1>1, <1>2, AllNumbers
<1> QED
  BY <1>3 DEF Good

(* The messages the log does not tell of. *)
LEMMA MissingIs ==
  ASSUME NEW f \in Lines, channel[f] \in Seq(Messages)
  PROVE  Untold(Missing(f), SignalIds(f), Len(channel[f]))
<1>1. Len(channel[f]) \in Nat
  OBVIOUS
<1> DEFINE g == CHOOSE g : IsUntold(g, SignalIds(f), Len(channel[f]))
<1>2. IsUntold(g, SignalIds(f), Len(channel[f]))
  BY <1>1, UntoldExists
<1>3. Missing(f) = g[Len(channel[f])]
  BY DEF Missing, IsUntold
<1> HIDE DEF g
<1> QED
  BY <1>1, <1>2, <1>3, UntoldIs

(* The messages that the log tells of. *)
LEMMA SignalIdsAre ==
  ASSUME NEW f, NEW n
  PROVE  n \in SignalIds(f) <=> Said("signal", f, n) \/ Said("ack", f, n)
BY DEF SignalIds, Said

(* The channels only grow. *)
ChannelsGrow == \A f \in Lines : DOMAIN channel[f] \subseteq DOMAIN channel'[f]

(* What a process is doing, by its place and kind. *)
LEMMA JobIs ==
  ASSUME NEW r, Job(r)
  PROVE  /\ r = Doing(r.pc, r.kind, r.about, r.item, r.todo)
         /\ r.pc \in {"idle", "append", "found", "tell", "missed"}
         /\ r.kind \in {"none", "post", "ack", "bytes", "plant", "status"}
         /\ r.pc = "idle" <=> r = Idle
         /\ r.kind = "none" <=> r = Idle
         /\ r.kind = "post" => Posting(r) /\ r.pc = "append"
         /\ r.kind = "ack" => Acking(r) /\ r.pc \in {"found", "append"}
         /\ r.kind \in {"bytes", "plant"} => Planting(r) /\ r.pc = "append"
         /\ r.kind = "status" => Changing(r) /\ r.pc \in {"tell", "append", "missed"}
<1>1. CASE r = Idle
  BY <1>1 DEF Idle, Doing
<1>2. CASE Posting(r)
  BY <1>2 DEF Posting, Doing, Idle
<1>3. CASE Acking(r)
  BY <1>3 DEF Acking, Doing, Idle
<1>4. CASE Planting(r)
  BY <1>4 DEF Planting, Doing, Idle
<1>5. CASE Changing(r)
  BY <1>5 DEF Changing, Doing, Idle
<1> QED
  BY <1>1, <1>2, <1>3, <1>4, <1>5 DEF Job

(* What one process does leaves the others at their work: it writes what they have in
   hand only when none of them holds the log, and not the status of their task. *)
LEMMA OthersGoOn ==
  ASSUME NEW r, Job(r), ChannelsGrow,
         r.pc = "append" => Log' = Log /\ channel' = channel /\ \A f \in Lines : bytes[f] \subseteq bytes'[f],
         r.kind = "status" => status'[r.about] = status[r.about]
  PROVE  Job(r)'
<1>1. CASE r = Idle
  BY <1>1 DEF Job
<1>2. CASE Posting(r)
  <2>1. r.pc = "append"
    BY <1>2 DEF Posting, Doing
  <2>2. Posting(r)'
    BY <1>2, <2>1 DEF Posting, Unsaid, Said
  <2> QED
    BY <2>2 DEF Job
<1>3. CASE Acking(r)
  <2>1. PICK f \in Lines : \E n \in DOMAIN channel[f] :
          \/ r = Doing("found", "ack", f, <<n>>, <<>>)
          \/ r = Doing("append", "ack", f, <<n>>, <<Row("ack", f, n)>>) /\ Said("signal", f, n)
          \/ r = Doing("append", "ack", f, <<n>>, <<>>) /\ Said("ack", f, n)
    BY <1>3 DEF Acking
  <2>5. PICK n \in DOMAIN channel[f] :
          \/ r = Doing("found", "ack", f, <<n>>, <<>>)
          \/ r = Doing("append", "ack", f, <<n>>, <<Row("ack", f, n)>>) /\ Said("signal", f, n)
          \/ r = Doing("append", "ack", f, <<n>>, <<>>) /\ Said("ack", f, n)
    BY <2>1
  <2>2. n \in DOMAIN channel'[f]
    BY DEF ChannelsGrow
  <2>3. r.pc = "append" => (Said("signal", f, n) => Said("signal", f, n)')
                           /\ (Said("ack", f, n) => Said("ack", f, n)')
    BY DEF Said
  <2>4. Acking(r)'
    BY <2>5, <2>2, <2>3 DEF Acking, Doing
  <2> QED
    BY <2>4 DEF Job
<1>4. CASE Planting(r)
  <2>1. r.pc = "append"
    BY <1>4 DEF Planting, Doing
  <2>2. Planting(r)'
    BY <1>4, <2>1 DEF Planting
  <2> QED
    BY <2>2 DEF Job
<1>5. CASE Changing(r)
  <2>1. PICK t \in Tasks :
          \/ r = Doing("tell", "status", t, <<>>, <<>>)
          \/ r = Doing("append", "status", t, <<>>, <<Row("status", t, status[t])>>)
          \/ r = Doing("missed", "status", t, <<>>, <<>>)
    BY <1>5 DEF Changing
  <2>2. r.kind = "status" /\ r.about = t
    BY <2>1 DEF Doing
  <2>3. Changing(r)'
    BY <2>1, <2>2 DEF Changing
  <2> QED
    BY <2>3 DEF Job
<1> QED
  BY <1>1, <1>2, <1>3, <1>4, <1>5 DEF Job

(* A process goes to work r. *)
LEMMA WorkGoesOn ==
  ASSUME ChannelInv, NEW p \in Procs, NEW r, Set(p, r), Job(r)', ChannelsGrow,
         r.pc = "append" => proc[p].pc = "append" \/ Free,
         r.kind = "status" =>
           (proc[p].kind = "status" /\ proc[p].about = r.about) \/ ~Held(r.about),
         \/ proc[p].pc = "append" \/ Free
         \/ Log' = Log /\ channel' = channel /\ \A f \in Lines : bytes[f] \subseteq bytes'[f],
         \A t \in Tasks : status'[t] = status[t] \/ ~Held(t)
  PROVE  /\ Working' /\ Alone' /\ DOMAIN proc' = Procs
         /\ proc'[p] = r /\ \A q \in Procs \ {p} : proc'[q] = proc[q]
<1>1. /\ DOMAIN proc' = Procs
      /\ proc'[p] = r /\ \A q \in Procs \ {p} : proc'[q] = proc[q]
  BY DEF Set, ChannelInv, ChannelTyped
<1>2. Alone'
  BY <1>1 DEF Alone, ChannelInv, Free, Held
<1>3. ASSUME NEW q \in Procs \ {p} PROVE Job(proc[q])'
  <2>1. PICK s : s = proc[q] /\ s = proc'[q] /\ Job(s)
    BY <1>1 DEF ChannelInv, Working
  <2>2. s.pc = "append" => Log' = Log /\ channel' = channel /\ \A f \in Lines : bytes[f] \subseteq bytes'[f]
    BY <2>1 DEF ChannelInv, Alone, Free
  <2>3. s.kind = "status" => Held(s.about) /\ s.about \in Tasks
    <3>1. s.kind = "status" => Changing(s)
      BY <2>1, JobIs
    <3>2. Changing(s) => s.about \in Tasks
      BY DEF Changing, Doing
    <3> QED
      BY <2>1, <3>1, <3>2 DEF Held
  <2>4. Job(s)'
    BY <2>1, <2>2, <2>3, OthersGoOn
  <2> QED
    BY <2>1, <2>4
<1>4. Working'
  <2> SUFFICES ASSUME NEW q \in Procs PROVE Job(proc[q])'
    BY DEF Working
  <2>1. CASE q = p
    BY <1>1, <2>1
  <2> QED
    BY <1>3, <2>1
<1> QED
  BY <1>1, <1>2, <1>4

(* The latest of a set of places, and the status that the log tells last of a task. *)
LastOf(S) == CHOOSE i \in S : \A j \in S : j <= i
ToldOf(rows, t) == {i \in DOMAIN rows : rows[i].kind = "status" /\ rows[i].about = t}
LastTold(rows, t) == IF ToldOf(rows, t) = {} THEN 0 ELSE rows[LastOf(ToldOf(rows, t))].n

(* A set of places has a latest one. *)
LEMMA LatestIs ==
  ASSUME NEW n \in Nat, NEW S \in SUBSET (1..n), S # {}
  PROVE  LastOf(S) \in S /\ \A j \in S : j <= LastOf(S)
<1> DEFINE T == {n - i : i \in S}
<1>1. T \in SUBSET Nat /\ T # {}
  <2>1. \A i \in S : n - i \in Nat
    OBVIOUS
  <2> QED
    BY <2>1
<1>2. PICK m \in T : \A k \in T : m <= k
  <2> HIDE DEF T
  <2> QED
    BY <1>1, LeastOne
<1>3. PICK i \in S : m = n - i
  BY <1>2
<1>4. \A j \in S : j <= i
  <2> TAKE j \in S
  <2>1. n - j \in T
    OBVIOUS
  <2>2. m <= n - j
    BY <1>2, <2>1
  <2> QED
    BY <1>3, <2>2
<1> QED
  BY <1>4 DEF LastOf

(* A row changes what was told last of its own task, when it tells of one. *)
LEMMA LastAppended ==
  ASSUME NEW rows \in Seq(LogRows), NEW row \in LogRows, NEW t
  PROVE  LastTold(Append(rows, row), t) =
           IF row.kind = "status" /\ row.about = t THEN row.n ELSE LastTold(rows, t)
<1> DEFINE more == Append(rows, row)
           n == Len(rows)
<1>1. /\ n \in Nat /\ DOMAIN rows = 1..n /\ DOMAIN more = 1..(n + 1) /\ more[n + 1] = row
      /\ \A i \in 1..n : more[i] = rows[i]
  OBVIOUS
<1> HIDE DEF more, n
<1>2. CASE row.kind = "status" /\ row.about = t
  <2>1. n + 1 \in ToldOf(more, t) /\ ToldOf(more, t) \in SUBSET (1..(n + 1))
    BY <1>1, <1>2 DEF ToldOf
  <2>2. LastOf(ToldOf(more, t)) = n + 1
    <3>1. PICK S : S = ToldOf(more, t) /\ S \in SUBSET (1..(n + 1)) /\ n + 1 \in S
      BY <2>1
    <3>2. LastOf(S) \in S /\ \A j \in S : j <= LastOf(S)
      <4>1. n + 1 \in Nat
        BY <1>1
      <4> QED
        BY <3>1, <4>1, LatestIs
    <3>3. LastOf(ToldOf(more, t)) \in 1..(n + 1) /\ n + 1 <= LastOf(ToldOf(more, t))
      BY <3>1, <3>2
    <3> QED
      BY <1>1, <3>3
  <2>3. LastTold(more, t) = row.n
    BY <1>1, <2>1, <2>2 DEF LastTold
  <2> QED
    BY <1>2, <2>3 DEF more
<1>3. CASE ~(row.kind = "status" /\ row.about = t)
  <2>1. ToldOf(more, t) = ToldOf(rows, t) /\ ToldOf(rows, t) \in SUBSET (1..n)
    BY <1>1, <1>3 DEF ToldOf
  <2>2. ToldOf(rows, t) # {} => LastOf(ToldOf(rows, t)) \in 1..n
    BY <1>1, <2>1, LatestIs
  <2>3. LastTold(more, t) = LastTold(rows, t)
    BY <1>1, <2>1, <2>2 DEF LastTold
  <2> QED
    BY <1>3, <2>3 DEF more
<1> QED
  BY <1>2, <1>3

(* StatusTold, in these words. *)
LEMMA StatusIs ==
  /\ StatusTold <=> \A t \in Tasks : Held(t) \/ t \in untold \/ gap \/ status[t] = LastTold(Log, t)
  /\ StatusTold' <=> \A t \in Tasks : Held(t)' \/ t \in untold' \/ gap' \/ status'[t] = LastTold(Log', t)
BY DEF StatusTold, LastTold, ToldOf, LastOf

(* A change that writes no row leaves the log as it was, *)
LEMMA LogStays ==
  ASSUME ChannelInv, UNCHANGED <<archives, newest>>, ChannelsGrow
  PROVE  Log' = Log /\ FilesFit' /\ ArchivesGrow' /\ LogTells'
<1>1. Log' = Log
  BY DEF Log
<1>2. FilesFit' /\ ArchivesGrow'
  BY DEF ChannelInv, FilesFit, ArchivesGrow
<1>3. LogTells'
  BY <1>1 DEF ChannelInv, LogTells, Said, ChannelsGrow
<1> QED
  BY <1>1, <1>2, <1>3

(* what readers were given, *)
LEMMA ReadingStays ==
  ASSUME ChannelInv, Log' = Log, UNCHANGED <<archives, overlay, pager>>
  PROVE  ReadersHave'
BY DEF ChannelInv, ReadersHave, PagesAreTheLog

(* the files, *)
LEMMA FilesStay ==
  ASSUME ChannelInv, Log' = Log, UNCHANGED <<channel, acks, artifacts, bytes>>
  PROVE  FilesTell'
BY DEF ChannelInv, FilesTell, Said

(* and what was told of a task, while its change is. *)
LEMMA StatusStays ==
  ASSUME ChannelInv, Log' = Log, untold \subseteq untold', gap => gap',
         \A t \in Tasks : Held(t) => Held(t)' \/ t \in untold' \/ gap',
         \A t \in Tasks : status'[t] = status[t] \/ Held(t)'
  PROVE  StatusTold'
<1>1. \A t \in Tasks : Held(t) \/ t \in untold \/ gap \/ status[t] = LastTold(Log, t)
  BY StatusIs DEF ChannelInv
<1>2. \A t \in Tasks : Held(t)' \/ t \in untold' \/ gap' \/ status'[t] = LastTold(Log', t)
  BY <1>1
<1> QED
  BY <1>2, StatusIs

(* The task of a process, before and after it goes to work r. *)
LEMMA HeldIs ==
  ASSUME NEW p \in Procs, NEW r, proc'[p] = r, \A q \in Procs \ {p} : proc'[q] = proc[q], NEW t
  PROVE  /\ Held(t) => Held(t)' \/ (proc[p].kind = "status" /\ proc[p].about = t
                                    /\ ~(r.kind = "status" /\ r.about = t))
         /\ r.kind = "status" => Held(r.about)'
BY DEF Held

(* A row goes to the log: of a message that is there, once, and of an acknowledgement
   after its message. *)
LEMMA RowWritten ==
  ASSUME ChannelInv, NEW row \in LogRows, WriteRow(row), channel' = channel,
         row.kind \in {"signal", "ack"} =>
           row.about \in Lines /\ row.n \in DOMAIN channel[row.about],
         row.kind = "signal" => ~Said("signal", row.about, row.n),
         row.kind = "ack" => Said("signal", row.about, row.n)
  PROVE  /\ LogTells' /\ FilesFit' /\ ArchivesGrow'
         /\ archives' = archives /\ newest' \in Seq(LogRows)
         /\ \A k, a, n : Said(k, a, n)' <=> Said(k, a, n) \/ (row.kind = k /\ row.about = a /\ row.n = n)
         /\ \A t : LastTold(Log', t) =
                     IF row.kind = "status" /\ row.about = t THEN row.n ELSE LastTold(Log, t)
<1> DEFINE new == [row EXCEPT !.seq = Len(Log) + 1]
           m == Len(Log) + 1
<1>1. /\ Log \in Seq(LogRows) /\ DOMAIN Log = 1..Len(Log)
      /\ Log' = Append(Log, new) /\ FilesFit' /\ ArchivesGrow' /\ archives' = archives
      /\ newest' \in Seq(LogRows)
  BY LogIs, WriteKeeps DEF ChannelInv, ChannelTyped
<1>2. /\ new \in LogRows /\ new.seq = m /\ new.kind = row.kind
      /\ new.about = row.about /\ new.n = row.n
  <2>1. Len(Log) + 1 \in Nat
    BY <1>1
  <2> QED
    BY <2>1 DEF LogRows
<1> HIDE DEF new
<1>3. /\ m \in Nat \ {0} /\ DOMAIN Log = 1..(m - 1) /\ DOMAIN Log' = 1..m /\ Log'[m] = new
      /\ \A i \in DOMAIN Log : i \in DOMAIN Log' /\ Log'[i] = Log[i]
      /\ \A i \in DOMAIN Log' : i \in DOMAIN Log \/ i = m
  BY <1>1, <1>2
<1> HIDE DEF m
<1>4. \A k, a, n : Said(k, a, n)' <=> Said(k, a, n) \/ (row.kind = k /\ row.about = a /\ row.n = n)
  <2> TAKE k, a, n
  <2>1. Said(k, a, n)' => Said(k, a, n) \/ (row.kind = k /\ row.about = a /\ row.n = n)
    BY <1>2, <1>3 DEF Said
  <2>2. Said(k, a, n) => Said(k, a, n)'
    BY <1>3 DEF Said
  <2>3. row.kind = k /\ row.about = a /\ row.n = n => Said(k, a, n)'
    <3>1. m \in DOMAIN Log'
      BY <1>3
    <3> QED
      BY <1>2, <1>3, <3>1 DEF Said
  <2> QED
    BY <2>1, <2>2, <2>3
<1>5. LogTells'
  <2>1. LogTells
    BY DEF ChannelInv
  <2>2. \A i \in DOMAIN Log' : Log'[i].seq = i
    BY <1>2, <1>3, <2>1 DEF LogTells
  <2>3. \A i \in DOMAIN Log' : Log'[i].kind \in {"signal", "ack"} =>
          Log'[i].about \in Lines /\ Log'[i].n \in DOMAIN channel'[Log'[i].about]
    BY <1>2, <1>3, <2>1 DEF LogTells
  <2>4. ASSUME NEW i \in DOMAIN Log', NEW j \in DOMAIN Log',
               Log'[i].kind = "signal", Log'[j].kind = "signal",
               Log'[i].about = Log'[j].about, Log'[i].n = Log'[j].n
        PROVE  i = j
    <3>1. CASE i \in DOMAIN Log /\ j \in DOMAIN Log
      BY <1>3, <2>1, <2>4, <3>1 DEF LogTells
    <3>2. CASE i \notin DOMAIN Log /\ j \in DOMAIN Log
      <4>1. Said("signal", row.about, row.n) /\ row.kind = "signal"
        BY <1>2, <1>3, <2>4, <3>2 DEF Said
      <4> QED
        BY <4>1
    <3>3. CASE i \in DOMAIN Log /\ j \notin DOMAIN Log
      <4>1. Said("signal", row.about, row.n) /\ row.kind = "signal"
        BY <1>2, <1>3, <2>4, <3>3 DEF Said
      <4> QED
        BY <4>1
    <3> QED
      BY <1>3, <3>1, <3>2, <3>3
  <2>5. ASSUME NEW i \in DOMAIN Log', Log'[i].kind = "ack"
        PROVE  Said("signal", Log[i].about, Log[i].n)'
    <3>1. CASE i \in DOMAIN Log
      BY <1>3, <1>4, <2>1, <2>5, <3>1 DEF LogTells
    <3>2. CASE i \notin DOMAIN Log
      BY <1>2, <1>3, <1>4, <2>5, <3>2
    <3> QED
      BY <3>1, <3>2
  <2> QED
    BY <2>2, <2>3, <2>4, <2>5 DEF LogTells
<1>6. \A t : LastTold(Log', t) =
               IF row.kind = "status" /\ row.about = t THEN row.n ELSE LastTold(Log, t)
  BY <1>1, <1>2, LastAppended
<1> QED
  BY <1>1, <1>4, <1>5, <1>6

(* Readers still have the beginning of the log when it goes on. *)
LEMMA ReadingGoesOn ==
  ASSUME ChannelInv, NEW row \in LogRows, WriteRow(row), UNCHANGED <<overlay, pager>>
  PROVE  ReadersHave'
<1>1. /\ Log \in Seq(LogRows) /\ Log' = Append(Log, [row EXCEPT !.seq = Len(Log) + 1])
      /\ archives' = archives
  BY LogIs, WriteKeeps DEF ChannelInv, ChannelTyped
<1>2. PICK new \in LogRows : Log' = Log \o <<new>>
  <2>1. PICK n \in Nat : n = Len(Log) + 1
    BY <1>1
  <2>2. [row EXCEPT !.seq = n] \in LogRows
    BY DEF LogRows
  <2>3. PICK new \in LogRows : Log' = Append(Log, new)
    BY <1>1, <2>1, <2>2
  <2>4. Append(Log, new) = Log \o <<new>>
    BY <1>1, <2>3
  <2> QED
    BY <2>3, <2>4
<1>3. pager.given \in Seq(LogRows) /\ overlay.rows \in Seq(LogRows) /\ <<new>> \in Seq(LogRows)
  BY DEF ChannelInv, ReadersHave
<1>4. \A s \in Seq(LogRows) : IsPrefix(s, Log) => IsPrefix(s, Log')
  <2> TAKE s \in Seq(LogRows)
  <2> QED
    BY <1>1, <1>2, <1>3, PrefixGoesOn
<1> QED
  BY <1>1, <1>3, <1>4 DEF ChannelInv, ReadersHave, PagesAreTheLog

(* A rotation changes nothing that anyone else sees. *)
LEMMA RotateStep ==
  ASSUME ChannelInv, NEW p \in Procs, AppendNext(p), Rotate, UNCHANGED proc
  PROVE  ChannelInv'
<1>1. UNCHANGED <<readerVars, familyVars, status, untold, torn, gap>>
  BY DEF AppendNext, Rotate
<1>2. /\ Log' = Log /\ FilesFit' /\ ArchivesGrow'
      /\ archives' \in Seq(Seq(LogRows)) /\ newest' \in Seq(LogRows)
      /\ Len(archives') = Len(archives) + 1
  BY RotateKeeps DEF ChannelInv
<1>3. ChannelTyped'
  BY <1>1, <1>2 DEF ChannelInv, ChannelTyped, familyVars
<1>4. LogTells'
  BY <1>1, <1>2 DEF ChannelInv, LogTells, Said, familyVars
<1>5. FilesTell'
  BY <1>1, <1>2, FilesStay DEF familyVars
<1>6. Working' /\ Alone'
  <2>1. ChannelsGrow
    BY <1>1 DEF ChannelsGrow, familyVars
  <2>2. ASSUME NEW q \in Procs PROVE Job(proc[q])'
    <3>1. PICK s : s = proc[q] /\ s = proc'[q] /\ Job(s)
      BY DEF ChannelInv, Working
    <3>2. Job(s)'
      BY <1>1, <1>2, <2>1, <3>1, OthersGoOn DEF familyVars
    <3> QED
      BY <3>1, <3>2
  <2> QED
    BY <2>2 DEF ChannelInv, Working, Alone
<1>7. StatusTold'
  BY <1>1, <1>2, StatusStays DEF Held
<1>8. ReadersHave'
  <2>1. Len(archives) \in Nat /\ Len(archives') \in Nat
    BY <1>2 DEF ChannelInv, ChannelTyped
  <2> QED
    BY <1>1, <1>2, <2>1 DEF ChannelInv, ReadersHave, PagesAreTheLog, readerVars
<1> QED
  BY <1>2, <1>3, <1>4, <1>5, <1>6, <1>7, <1>8 DEF ChannelInv

(* A process that has rows to append: what they are, and what it goes on with. *)
LEMMA RowsToCome ==
  ASSUME ChannelInv, NEW p \in Procs, proc[p].pc = "append", proc[p].todo # <<>>
  PROVE  \E r : \E row \in LogRows :
    /\ r = proc[p] /\ row = Head(r.todo)
    /\ \/ r.kind = "post" /\ Posting(r) /\ row.kind = "signal"
       \/ /\ r.kind = "ack" /\ row.kind = "ack" /\ Said("signal", row.about, row.n)
          /\ row.about \in Lines /\ row.n \in DOMAIN channel[row.about]
          /\ r = Doing("append", "ack", row.about, <<row.n>>, <<row>>)
       \/ /\ r.kind = "status" /\ row.kind = "status" /\ row.about \in Tasks
          /\ row.n = status[row.about]
          /\ r = Doing("append", "status", row.about, <<>>, <<row>>)
<1>1. PICK r : r = proc[p] /\ Job(r)
  BY DEF ChannelInv, Working
<1>2. CASE r.kind = "post"
  <2>1. Posting(r)
    BY <1>1, <1>2, JobIs
  <2>2. PICK f \in Lines : Unsaid(f, r.todo)
    BY <2>1 DEF Posting
  <2>3. r.todo \in Seq(LogRows) /\ 1 \in DOMAIN r.todo /\ Head(r.todo) = r.todo[1]
    BY <1>1, <2>2 DEF Unsaid
  <2>4. Head(r.todo) \in LogRows /\ Head(r.todo).kind = "signal"
    <3>1. PICK row \in LogRows : row = r.todo[1]
      BY <2>3
    <3>2. row = Row("signal", f, row.n)
      BY <2>2, <2>3, <3>1 DEF Unsaid
    <3> QED
      BY <2>3, <3>1, <3>2 DEF Row
  <2> QED
    BY <1>1, <1>2, <2>1, <2>4
<1>3. CASE r.kind = "ack"
  <2>1. PICK f \in Lines : \E n \in DOMAIN channel[f] :
          r = Doing("append", "ack", f, <<n>>, <<Row("ack", f, n)>>) /\ Said("signal", f, n)
    <3>1. Acking(r)
      BY <1>1, <1>3, JobIs
    <3> QED
      BY <1>1, <3>1 DEF Acking, Doing
  <2>2. PICK n \in DOMAIN channel[f] :
          r = Doing("append", "ack", f, <<n>>, <<Row("ack", f, n)>>) /\ Said("signal", f, n)
    BY <2>1
  <2>3. n \in Nat
    BY <2>1, <2>2 DEF ChannelInv, ChannelTyped
  <2>4. PICK row : row = Row("ack", f, n)
    OBVIOUS
  <2>5. row \in LogRows /\ row.kind = "ack" /\ row.about = f /\ row.n = n
    BY <2>1, <2>3, <2>4 DEF LogRows, Row
  <2>6. r.kind = "ack" /\ Head(r.todo) = row
    BY <2>2, <2>4 DEF Doing
  <2> QED
    BY <1>1, <2>2, <2>4, <2>5, <2>6
<1>4. CASE r.kind = "status"
  <2>1. PICK t \in Tasks : r = Doing("append", "status", t, <<>>, <<Row("status", t, status[t])>>)
    <3>1. Changing(r)
      BY <1>1, <1>4, JobIs
    <3> QED
      BY <1>1, <3>1 DEF Changing, Doing
  <2>2. status[t] \in Nat
    BY DEF ChannelInv, ChannelTyped
  <2>3. PICK row : row = Row("status", t, status[t])
    OBVIOUS
  <2>4. row \in LogRows /\ row.kind = "status" /\ row.about = t /\ row.n = status[t]
    BY <2>2, <2>3 DEF LogRows, Row
  <2>5. Head(r.todo) = row
    BY <2>1, <2>3 DEF Doing
  <2> QED
    BY <1>1, <1>4, <2>1, <2>3, <2>4, <2>5
<1>5. r.kind \in {"post", "ack", "status"}
  <2>1. r.kind \in {"bytes", "plant"} => r.todo = <<>>
    <3>1. r.kind \in {"bytes", "plant"} => Planting(r)
      BY <1>1, JobIs
    <3> QED
      BY <3>1 DEF Planting, Doing
  <2> QED
    BY <1>1, <2>1, JobIs DEF Idle
<1> QED
  BY <1>2, <1>3, <1>4, <1>5

(* The rest of what was unsaid, when its first row is written. *)
LEMMA UnsaidGoesOn ==
  ASSUME NEW f \in Lines, NEW todo, Unsaid(f, todo), todo # <<>>, channel' = channel,
         \A k, a, n : Said(k, a, n)' <=>
           Said(k, a, n) \/ (Head(todo).kind = k /\ Head(todo).about = a /\ Head(todo).n = n)
  PROVE  Unsaid(f, Tail(todo))'
<1>1. /\ todo \in Seq(LogRows) /\ Tail(todo) \in Seq(LogRows) /\ Head(todo) = todo[1]
      /\ 1 \in DOMAIN todo
      /\ \A i \in DOMAIN Tail(todo) : i + 1 \in DOMAIN todo /\ Tail(todo)[i] = todo[i + 1] /\ i + 1 # 1
  BY DEF Unsaid
<1>2. \A i \in DOMAIN todo : i # 1 => todo[i].n # todo[1].n
  BY <1>1 DEF Unsaid
<1>3. \A i \in DOMAIN Tail(todo) :
        /\ Tail(todo)[i] = Row("signal", f, Tail(todo)[i].n)
        /\ Tail(todo)[i].n \in DOMAIN channel'[f]
        /\ ~Said("signal", f, Tail(todo)[i].n)'
  <2> TAKE i \in DOMAIN Tail(todo)
  <2>1. PICK j \in DOMAIN todo : j = i + 1 /\ j # 1 /\ Tail(todo)[i] = todo[j]
    BY <1>1
  <2>2. /\ todo[j] = Row("signal", f, todo[j].n) /\ todo[j].n \in DOMAIN channel[f]
        /\ ~Said("signal", f, todo[j].n)
    BY DEF Unsaid
  <2>3. todo[j].n # Head(todo).n
    BY <1>1, <1>2, <2>1
  <2>4. ~Said("signal", f, todo[j].n)'
    BY <2>2, <2>3
  <2> QED
    BY <2>1, <2>2, <2>4
<1>4. \A i, j \in DOMAIN Tail(todo) : Tail(todo)[i].n = Tail(todo)[j].n => i = j
  <2>1. \A i, j \in DOMAIN todo : todo[i].n = todo[j].n => i = j
    BY DEF Unsaid
  <2>2. \A i \in DOMAIN Tail(todo) : i \in Nat
    BY <1>1
  <2>3. ASSUME NEW i \in DOMAIN Tail(todo), NEW j \in DOMAIN Tail(todo),
               Tail(todo)[i].n = Tail(todo)[j].n
        PROVE  i = j
    <3>1. i + 1 = j + 1
      BY <1>1, <2>1, <2>3
    <3> QED
      BY <2>2, <3>1
  <2> QED
    BY <2>3
<1> QED
  BY <1>1, <1>3, <1>4 DEF Unsaid

(* A process appends a row and goes on with the rest. *)
LEMMA WriteStep ==
  ASSUME ChannelInv, NEW p \in Procs, AppendNext(p), WriteRow(Head(proc[p].todo)),
         Set(p, IF Len(proc[p].todo) = 1 /\ proc[p].item = <<>>
                THEN Idle ELSE [proc[p] EXCEPT !.todo = Tail(@)])
  PROVE  ChannelInv'
<1>1. /\ UNCHANGED <<readerVars, familyVars, status, untold, torn, gap>>
      /\ proc[p].pc = "append" /\ proc[p].todo # <<>>
  BY DEF AppendNext, WriteRow
<1>2. PICK r : \E row \in LogRows :
    /\ r = proc[p] /\ row = Head(r.todo)
    /\ \/ r.kind = "post" /\ Posting(r) /\ row.kind = "signal"
       \/ /\ r.kind = "ack" /\ row.kind = "ack" /\ Said("signal", row.about, row.n)
          /\ row.about \in Lines /\ row.n \in DOMAIN channel[row.about]
          /\ r = Doing("append", "ack", row.about, <<row.n>>, <<row>>)
       \/ /\ r.kind = "status" /\ row.kind = "status" /\ row.about \in Tasks
          /\ row.n = status[row.about]
          /\ r = Doing("append", "status", row.about, <<>>, <<row>>)
  BY <1>1, RowsToCome
<1>3. PICK row \in LogRows :
    /\ r = proc[p] /\ row = Head(r.todo)
    /\ \/ r.kind = "post" /\ Posting(r) /\ row.kind = "signal"
       \/ /\ r.kind = "ack" /\ row.kind = "ack" /\ Said("signal", row.about, row.n)
          /\ row.about \in Lines /\ row.n \in DOMAIN channel[row.about]
          /\ r = Doing("append", "ack", row.about, <<row.n>>, <<row>>)
       \/ /\ r.kind = "status" /\ row.kind = "status" /\ row.about \in Tasks
          /\ row.n = status[row.about]
          /\ r = Doing("append", "status", row.about, <<>>, <<row>>)
  BY <1>2
<1>4. r.kind = "post" => /\ row.about \in Lines /\ row.n \in DOMAIN channel[row.about]
                         /\ ~Said("signal", row.about, row.n)
  <2> SUFFICES ASSUME r.kind = "post"
               PROVE  /\ row.about \in Lines /\ row.n \in DOMAIN channel[row.about]
                      /\ ~Said("signal", row.about, row.n)
    OBVIOUS
  <2>1. PICK f \in Lines : Unsaid(f, r.todo)
    BY <1>3 DEF Posting
  <2>2. r.todo \in Seq(LogRows) /\ 1 \in DOMAIN r.todo /\ row = r.todo[1]
    BY <1>1, <1>3, <2>1 DEF Unsaid
  <2>3. row = Row("signal", f, row.n) /\ row.n \in DOMAIN channel[f] /\ ~Said("signal", f, row.n)
    BY <2>1, <2>2 DEF Unsaid
  <2>4. row.about = f
    BY <2>3 DEF Row
  <2> QED
    BY <2>3, <2>4
<1>5. channel' = channel /\ WriteRow(row)
  BY <1>1, <1>3 DEF familyVars
<1>6. /\ LogTells' /\ FilesFit' /\ ArchivesGrow'
      /\ archives' = archives /\ newest' \in Seq(LogRows)
      /\ \A k, a, n : Said(k, a, n)' <=> Said(k, a, n) \/ (row.kind = k /\ row.about = a /\ row.n = n)
      /\ \A t : LastTold(Log', t) =
                  IF row.kind = "status" /\ row.about = t THEN row.n ELSE LastTold(Log, t)
  BY <1>3, <1>4, <1>5, RowWritten
<1>7. PICK s : /\ Set(p, s)
               /\ s = IF Len(r.todo) = 1 /\ r.item = <<>> THEN Idle ELSE [r EXCEPT !.todo = Tail(@)]
  BY <1>3
<1>8. Job(r) /\ r.pc = "append"
  BY <1>1, <1>3 DEF ChannelInv, Working
<1>9. ASSUME r.kind = "post" PROVE Job(s)' /\ s.kind # "status"
  <2>1. PICK f \in Lines : \E item \in {<<>>} \cup {<<m>> : m \in Messages} :
          r = Doing("append", "post", f, item, r.todo) /\ Unsaid(f, r.todo)
    BY <1>3, <1>9 DEF Posting
  <2>2. PICK item \in {<<>>} \cup {<<m>> : m \in Messages} :
          r = Doing("append", "post", f, item, r.todo) /\ Unsaid(f, r.todo)
    BY <2>1
  <2>3. r.item = item /\ r.todo # <<>> /\ r.todo \in Seq(LogRows)
    BY <1>1, <1>3, <2>2 DEF Doing, Unsaid
  <2>4. PICK todo : todo = r.todo /\ todo # <<>> /\ Unsaid(f, todo) /\ Head(todo) = row
    BY <1>3, <2>2, <2>3
  <2>5. Unsaid(f, Tail(todo))'
    BY <1>5, <1>6, <2>4, UnsaidGoesOn
  <2>8. s.kind # "status"
    BY <1>7, <1>9 DEF Idle
  <2>6. CASE s = Idle
    BY <2>6, <2>8 DEF Job, Idle
  <2>7. CASE s # Idle
    <3>1. s = [r EXCEPT !.todo = Tail(@)] /\ (r.item = <<>> => Len(r.todo) # 1)
      BY <1>7, <2>7
    <3>2. s = Doing("append", "post", f, item, Tail(todo))
      <4>1. r = Doing("append", "post", f, item, todo)
        BY <2>2, <2>4
      <4>2. r.todo = todo
        BY <2>4
      <4> QED
        BY <3>1, <4>1, <4>2 DEF Doing
    <3>3. s.todo = Tail(todo) /\ (item = <<>> => Tail(todo) # <<>>)
      <4>1. s.todo = Tail(todo)
        BY <3>2 DEF Doing
      <4>2. todo \in Seq(LogRows) /\ (Len(todo) # 1 => Tail(todo) # <<>>)
        <5>1. todo \in Seq(LogRows) /\ todo # <<>>
          BY <2>3, <2>4
        <5>2. Len(Tail(todo)) = Len(todo) - 1 /\ Len(todo) \in Nat
          BY <5>1
        <5>3. Len(<<>>) = 0
          OBVIOUS
        <5>4. ASSUME Tail(todo) = <<>> PROVE Len(todo) = 1
          <6>1. Len(Tail(todo)) = Len(<<>>)
            BY <5>4, Zenon
          <6> QED
            BY <5>2, <5>3, <6>1
        <5> QED
          BY <5>1, <5>4
      <4> QED
        BY <2>3, <2>4, <3>1, <4>1, <4>2
    <3>4. Posting(s)'
      BY <2>5, <3>2, <3>3 DEF Posting
    <3> QED
      BY <2>8, <3>4 DEF Job
  <2> QED
    BY <2>6, <2>7
<1>10. ASSUME r.kind = "ack" PROVE Job(s)' /\ s.kind # "status"
  <2>1. PICK f \in Lines : f = row.about
    BY <1>3, <1>10
  <2>2. PICK n \in DOMAIN channel[f] : n = row.n
    BY <1>3, <1>10, <2>1
  <2>3. r = Doing("append", "ack", f, <<n>>, <<row>>) /\ row.kind = "ack"
    BY <1>3, <1>10, <2>1, <2>2
  <2>4. s = Doing("append", "ack", f, <<n>>, <<>>)
    <3>1. Len(r.todo) = 1 /\ r.item # <<>> /\ Tail(r.todo) = <<>>
      BY <2>3 DEF Doing
    <3> QED
      BY <1>7, <2>3, <3>1 DEF Doing
  <2>5. Said("ack", f, n)'
    BY <1>6, <2>1, <2>2, <2>3
  <2>6. Acking(s)' /\ s.kind = "ack"
    BY <1>5, <2>4, <2>5 DEF Acking, Doing
  <2> QED
    BY <2>6 DEF Job
<1>11. ASSUME r.kind = "status"
       PROVE  /\ Job(s)' /\ s.kind # "status" /\ row.kind = "status" /\ row.about = r.about
              /\ row.n = status[row.about]
  <2>1. r = Doing("append", "status", row.about, <<>>, <<row>>) /\ row.n = status[row.about]
        /\ row.kind = "status"
    BY <1>3, <1>11
  <2>2. Len(r.todo) = 1 /\ r.item = <<>> /\ r.about = row.about
    BY <2>1 DEF Doing
  <2>3. s = Idle
    BY <1>7, <2>2
  <2> QED
    BY <2>1, <2>2, <2>3 DEF Job, Idle
<1>12. r.kind \in {"post", "ack", "status"} /\ (row.kind = "status" => r.kind = "status")
  BY <1>3
<1>13. ChannelsGrow
  BY <1>5 DEF ChannelsGrow
<1>14. /\ Working' /\ Alone' /\ DOMAIN proc' = Procs
       /\ proc'[p] = s /\ \A q \in Procs \ {p} : proc'[q] = proc[q]
  <2>1. Job(s)' /\ s.kind # "status"
    BY <1>9, <1>10, <1>11, <1>12
  <2> QED
    BY <1>1, <1>3, <1>7, <1>8, <1>13, <2>1, WorkGoesOn
<1>15. ChannelTyped'
  BY <1>1, <1>6, <1>14 DEF ChannelInv, ChannelTyped, familyVars
<1>16. FilesTell'
  BY <1>1, <1>6 DEF ChannelInv, FilesTell, familyVars
<1>17. StatusTold'
  <2> SUFFICES ASSUME NEW t \in Tasks
               PROVE  Held(t)' \/ t \in untold' \/ gap' \/ status'[t] = LastTold(Log', t)
    BY StatusIs
  <2>1. Held(t) \/ t \in untold \/ gap \/ status[t] = LastTold(Log, t)
    BY StatusIs DEF ChannelInv
  <2>2. CASE r.kind = "status" /\ r.about = t
    BY <1>1, <1>6, <1>11, <2>2
  <2>3. CASE ~(r.kind = "status" /\ r.about = t)
    <3>1. Held(t) => Held(t)'
      BY <1>3, <1>14, <2>3, HeldIs
    <3>2. LastTold(Log', t) = LastTold(Log, t)
      BY <1>6, <1>11, <1>12, <2>3
    <3> QED
      BY <1>1, <2>1, <3>1, <3>2
  <2> QED
    BY <2>2, <2>3
<1>18. ReadersHave'
  BY <1>1, <1>5, ReadingGoesOn DEF readerVars
<1> QED
  BY <1>6, <1>14, <1>15, <1>16, <1>17, <1>18 DEF ChannelInv

(* What an append does next. *)
LEMMA AppendStep ==
  ASSUME ChannelInv, NEW p \in Procs, AppendNext(p)
  PROVE  ChannelInv'
<1>1. \/ Rotate /\ UNCHANGED proc
      \/ /\ WriteRow(Head(proc[p].todo))
         /\ Set(p, IF Len(proc[p].todo) = 1 /\ proc[p].item = <<>>
                   THEN Idle ELSE [proc[p] EXCEPT !.todo = Tail(@)])
  BY DEF AppendNext
<1> QED
  BY <1>1, RotateStep, WriteStep

(* A step of one process that writes no row. *)
LEMMA QuietStep ==
  ASSUME ChannelInv, NEW p \in Procs, NEW r, Set(p, r), Job(r)',
         UNCHANGED <<archives, newest, overlay, pager>>,
         ChannelTyped', ChannelsGrow, FilesTell',
         r.pc = "append" => proc[p].pc = "append" \/ Free,
         r.kind = "status" =>
           (proc[p].kind = "status" /\ proc[p].about = r.about) \/ ~Held(r.about),
         \/ proc[p].pc = "append" \/ Free
         \/ channel' = channel /\ \A f \in Lines : bytes[f] \subseteq bytes'[f],
         \A t \in Tasks : status'[t] = status[t] \/ (~Held(t) /\ r.kind = "status" /\ r.about = t),
         untold \subseteq untold', gap => gap',
         proc[p].kind = "status" =>
           (r.kind = "status" /\ r.about = proc[p].about) \/ proc[p].about \in untold' \/ gap'
  PROVE  ChannelInv'
<1>1. Log' = Log /\ FilesFit' /\ ArchivesGrow' /\ LogTells'
  BY LogStays
<1>2. /\ Working' /\ Alone' /\ DOMAIN proc' = Procs
      /\ proc'[p] = r /\ \A q \in Procs \ {p} : proc'[q] = proc[q]
  BY <1>1, WorkGoesOn
<1>3. StatusTold'
  <2>1. \A t \in Tasks : Held(t) => Held(t)' \/ t \in untold' \/ gap'
    <3> TAKE t \in Tasks
    <3> QED
      BY <1>2, HeldIs
  <2>2. \A t \in Tasks : status'[t] = status[t] \/ Held(t)'
    <3> TAKE t \in Tasks
    <3> QED
      BY <1>2, HeldIs
  <2> QED
    BY <1>1, <2>1, <2>2, StatusStays
<1>4. ReadersHave'
  BY <1>1, ReadingStays
<1> QED
  BY <1>1, <1>2, <1>3, <1>4 DEF ChannelInv

(* A step that goes to work r and writes nothing else. *)
LEMMA TurnStep ==
  ASSUME ChannelInv, NEW p \in Procs, NEW r, Set(p, r), Job(r),
         UNCHANGED <<logVars, readerVars, familyVars, status, untold>>,
         r.pc = "append" => proc[p].pc = "append" \/ Free,
         r.kind = "status" => proc[p].kind = "status" /\ proc[p].about = r.about,
         proc[p].kind = "status" => r.kind = "status"
  PROVE  ChannelInv'
<1>1. UNCHANGED <<archives, newest, torn, gap, overlay, pager, channel, half, acks, artifacts,
                  bytes, status, untold>>
  BY DEF logVars, readerVars, familyVars
<1>2. Log' = Log
  BY <1>1 DEF Log
<1>3. ChannelsGrow
  BY <1>1 DEF ChannelsGrow
<1>4. FilesTell'
  BY <1>1, <1>2, FilesStay
<1>5. ChannelTyped'
  BY <1>1 DEF ChannelInv, ChannelTyped, Set
<1>6. Job(r)'
  BY <1>1, <1>2, <1>3, OthersGoOn
<1> QED
  BY <1>1, <1>3, <1>4, <1>5, <1>6, QuietStep

(* The family of a message is a line. *)
LEMMA FamilyIs ==
  ASSUME NEW from \in Lines \cup {Operator}, NEW to \in Lines \cup {Operator, NoLine},
         NEW named \in Lines \cup {NoLine}, FamilyOf(from, to, named) # NoLine
  PROVE  FamilyOf(from, to, named) \in Lines
<1>1. \A l \in Lines : Parent[l] \in Lines \cup {NoLine}
  BY ChannelAssumption
<1> QED
  BY <1>1 DEF FamilyOf, InferFamily

(* The rows that a post begins with. *)
LEMMA MissingIsUnsaid ==
  ASSUME ChannelInv, NEW f \in Lines
  PROVE  Unsaid(f, [i \in DOMAIN Missing(f) |-> Row("signal", f, Missing(f)[i])])
<1>1. PICK s : s = Missing(f) /\ Untold(s, SignalIds(f), Len(channel[f]))
  BY MissingIs DEF ChannelInv, ChannelTyped
<1> DEFINE todo == [i \in DOMAIN s |-> Row("signal", f, s[i])]
<1>2. /\ s \in Seq(Nat) /\ \A i \in DOMAIN s : s[i] \in DOMAIN channel[f] /\ s[i] \in Nat
      /\ \A i \in DOMAIN s : s[i] \notin SignalIds(f)
      /\ \A i, j \in DOMAIN s : s[i] = s[j] => i = j
  <2>1. DOMAIN channel[f] = 1..Len(channel[f])
    BY DEF ChannelInv, ChannelTyped
  <2> QED
    BY <1>1, <2>1 DEF Untold
<1>3. todo \in Seq(LogRows)
  <2>1. DOMAIN s = 1..Len(s) /\ Len(s) \in Nat
    BY <1>2
  <2>2. \A i \in DOMAIN s : Row("signal", f, s[i]) \in LogRows
    BY <1>2 DEF Row, LogRows
  <2> QED
    BY <2>1, <2>2
<1>4. DOMAIN todo = DOMAIN s /\ \A i \in DOMAIN s : todo[i] = Row("signal", f, s[i]) /\ todo[i].n = s[i]
  BY DEF Row
<1> HIDE DEF todo
<1>5. \A i \in DOMAIN s : ~Said("signal", f, s[i])
  BY <1>2, SignalIdsAre
<1>6. Unsaid(f, todo)
  BY <1>2, <1>3, <1>4, <1>5 DEF Unsaid
<1> QED
  BY <1>1, <1>6 DEF todo

(* A post takes the lock, with what the log missed to tell first. *)
LEMMA PostStep ==
  ASSUME ChannelInv, NEW p \in Procs,
         NEW from \in Lines \cup {Operator}, NEW to \in Lines \cup {Operator, NoLine},
         NEW named \in Lines \cup {NoLine}, NEW retracts \in Nat,
         PostBegin(p, from, to, named, retracts)
  PROVE  ChannelInv'
<1>1. PICK f \in Lines : f = FamilyOf(from, to, named)
  BY FamilyIs DEF PostBegin
<1> DEFINE m == [from |-> from, to |-> to, retracts |-> retracts]
           todo == [i \in DOMAIN Missing(f) |-> Row("signal", f, Missing(f)[i])]
<1>2. PICK r : r = Doing("append", "post", f, <<m>>, todo)
  OBVIOUS
<1>3. /\ proc[p].pc = "idle" /\ Free /\ Set(p, r)
      /\ UNCHANGED <<logVars, readerVars, familyVars, status, untold>>
  BY <1>1, <1>2 DEF PostBegin, Doing
<1>4. Unsaid(f, todo)
  BY MissingIsUnsaid
<1>5. m \in Messages
  BY DEF Messages
<1> HIDE DEF m, todo
<1>6. Posting(r) /\ r.pc = "append" /\ r.kind = "post"
  <2>1. r.todo = todo /\ <<m>> # <<>> /\ r.pc = "append" /\ r.kind = "post"
    BY <1>2 DEF Doing
  <2>2. <<m>> \in {<<>>} \cup {<<x>> : x \in Messages}
    BY <1>5
  <2> QED
    BY <1>2, <1>4, <2>1, <2>2 DEF Posting
<1>7. Job(r)
  BY <1>6 DEF Job
<1>8. proc[p].kind # "status"
  <2>1. Job(proc[p])
    BY DEF ChannelInv, Working
  <2> QED
    BY <1>3, <2>1, JobIs DEF Idle
<1> QED
  BY <1>3, <1>6, <1>7, <1>8, TurnStep

(* The record of a process when it goes on. *)
WithRows(r, item, todo) == [r EXCEPT !.item = item, !.todo = todo]
AtPlace(r, place, todo) == [r EXCEPT !.pc = place, !.todo = todo]

(* Both are records of a process. *)
LEMMA DoingTurns ==
  ASSUME NEW r, r = Doing(r.pc, r.kind, r.about, r.item, r.todo), NEW place, NEW item, NEW todo
  PROVE  /\ WithRows(r, item, todo) = Doing(r.pc, r.kind, r.about, item, todo)
         /\ AtPlace(r, place, todo) = Doing(place, r.kind, r.about, r.item, todo)
<1>1. PICK s, t : /\ s = Doing(r.pc, r.kind, r.about, item, r.todo)
                  /\ t = Doing(place, r.kind, r.about, r.item, r.todo)
  OBVIOUS
<1>2. [r EXCEPT !.item = item] = s /\ [r EXCEPT !.pc = place] = t
  BY <1>1 DEF Doing
<1>3. /\ [s EXCEPT !.todo = todo] = Doing(r.pc, r.kind, r.about, item, todo)
      /\ [t EXCEPT !.todo = todo] = Doing(place, r.kind, r.about, r.item, todo)
  BY <1>1 DEF Doing
<1>4. [r EXCEPT !.item = item, !.todo = todo] = [[r EXCEPT !.item = item] EXCEPT !.todo = todo]
  OBVIOUS
<1>5. [r EXCEPT !.pc = place, !.todo = todo] = [[r EXCEPT !.pc = place] EXCEPT !.todo = todo]
  OBVIOUS
<1> QED
  BY <1>2, <1>3, <1>4, <1>5, Zenon DEF WithRows, AtPlace

(* The record of an idle process that takes something up, *)
LEMMA IdleTurns ==
  ASSUME NEW place, NEW kind, NEW about
  PROVE  [Idle EXCEPT !.pc = place, !.kind = kind, !.about = about] = Doing(place, kind, about, <<>>, <<>>)
<1>1. PICK e : e = <<>>
  OBVIOUS
<1>2. PICK i : i = Doing("idle", "none", NoLine, e, e)
  OBVIOUS
<1>3. PICK s : s = Doing(place, "none", NoLine, e, e)
  OBVIOUS
<1>4. PICK t : t = Doing(place, kind, NoLine, e, e)
  OBVIOUS
<1>5. [i EXCEPT !.pc = place] = s
  BY <1>2, <1>3 DEF Doing
<1>6. [s EXCEPT !.kind = kind] = t
  BY <1>3, <1>4 DEF Doing
<1>7. [t EXCEPT !.about = about] = Doing(place, kind, about, e, e)
  BY <1>4 DEF Doing
<1>8. [i EXCEPT !.pc = place, !.kind = kind, !.about = about]
        = [[[i EXCEPT !.pc = place] EXCEPT !.kind = kind] EXCEPT !.about = about]
  OBVIOUS
<1>9. i = Idle
  BY <1>1, <1>2 DEF Idle, Doing
<1>10. [i EXCEPT !.pc = place, !.kind = kind, !.about = about] = Doing(place, kind, about, e, e)
  BY <1>5, <1>6, <1>7, <1>8, Zenon
<1> QED
  BY <1>1, <1>9, <1>10, Zenon

(* with a message or an artifact. *)
LEMMA IdleTakes ==
  ASSUME NEW place, NEW kind, NEW about, NEW item
  PROVE  [Idle EXCEPT !.pc = place, !.kind = kind, !.about = about, !.item = item]
           = Doing(place, kind, about, item, <<>>)
<1>1. PICK e : e = <<>>
  OBVIOUS
<1>2. PICK i : i = Idle
  OBVIOUS
<1>3. PICK s : s = Doing(place, kind, about, e, e)
  OBVIOUS
<1>4. [i EXCEPT !.pc = place, !.kind = kind, !.about = about] = s
  BY <1>1, <1>2, <1>3, IdleTurns
<1>5. [s EXCEPT !.item = item] = Doing(place, kind, about, item, e)
  BY <1>3 DEF Doing
<1>6. [i EXCEPT !.pc = place, !.kind = kind, !.about = about, !.item = item]
        = [[i EXCEPT !.pc = place, !.kind = kind, !.about = about] EXCEPT !.item = item]
  OBVIOUS
<1>7. [i EXCEPT !.pc = place, !.kind = kind, !.about = about, !.item = item]
        = Doing(place, kind, about, item, e)
  BY <1>4, <1>5, <1>6, Zenon
<1> QED
  BY <1>1, <1>2, <1>7, Zenon

(* What a process is at, seen from its record. *)
LEMMA ProcIs ==
  ASSUME ChannelInv, NEW p \in Procs
  PROVE  \E r : r = proc[p] /\ Job(r)
BY DEF ChannelInv, Working

(* The row of a channel is written, or refused for what it retracts. *)
LEMMA CommitRowStep ==
  ASSUME ChannelInv, NEW p \in Procs, CommitRow(p)
  PROVE  ChannelInv'
<1>1. PICK r : r = proc[p] /\ Job(r)
  BY ProcIs
<1>2. r.pc = "append" /\ r.kind = "post" /\ r.todo = <<>> /\ r.item # <<>>
  BY <1>1 DEF CommitRow
<1>3. PICK f \in Lines : \E m \in Messages : r = Doing("append", "post", f, <<m>>, <<>>)
  <2>1. PICK f \in Lines, item \in {<<>>} \cup {<<m>> : m \in Messages} :
          r = Doing("append", "post", f, item, r.todo)
    BY <1>1, <1>2, JobIs DEF Posting
  <2>2. item # <<>>
    BY <1>2, <2>1 DEF Doing
  <2> QED
    BY <1>2, <2>1, <2>2
<1>4. PICK m \in Messages : r = Doing("append", "post", f, <<m>>, <<>>)
  BY <1>3
<1>5. r.about = f /\ r.item = <<m>> /\ r.item[1] = m
  BY <1>4 DEF Doing
<1>6. UNCHANGED <<logVars, readerVars, half, acks, artifacts, bytes, status, untold>>
  BY DEF CommitRow
<1>10. PICK n : n = Len(channel[f]) + 1
  OBVIOUS
<1>7. /\ channel[f] \in Seq(Messages) /\ DOMAIN channel[f] = 1..Len(channel[f]) /\ n \in Nat
      /\ n \notin DOMAIN channel[f]
  BY <1>10 DEF ChannelInv, ChannelTyped
<1>8. CASE ~HasTarget(f, m)
  <2>1. Set(p, Idle) /\ channel' = channel
    BY <1>1, <1>5, <1>8 DEF CommitRow
  <2>2. PICK s : s = Idle
    OBVIOUS
  <2>3. Job(s) /\ s.pc # "append" /\ s.kind # "status"
    BY <2>2 DEF Job, Idle
  <2> QED
    BY <1>1, <1>2, <1>6, <2>1, <2>2, <2>3, TurnStep DEF familyVars
<1>9. CASE HasTarget(f, m)
  <2>1. PICK s : s = Doing("append", "post", f, <<>>, <<Row("signal", f, n)>>)
    OBVIOUS
  <2>2. Set(p, s)
    <3>1. Set(p, [r EXCEPT !.item = <<>>, !.todo = <<Row("signal", r.about, Len(channel[r.about]) + 1)>>])
      BY <1>1, <1>5, <1>9 DEF CommitRow, Set
    <3>2. [r EXCEPT !.item = <<>>, !.todo = <<Row("signal", r.about, Len(channel[r.about]) + 1)>>] = s
      <4>1. PICK todo : todo = <<Row("signal", f, n)>>
        OBVIOUS
      <4>2. <<Row("signal", r.about, Len(channel[r.about]) + 1)>> = todo
        BY <1>5, <1>10, <4>1
      <4>3. [r EXCEPT !.item = <<>>, !.todo = todo] = Doing("append", "post", f, <<>>, todo)
        <5>1. r.pc = "append" /\ r.kind = "post" /\ r.about = f
              /\ r = Doing(r.pc, r.kind, r.about, r.item, r.todo)
          BY <1>4 DEF Doing
        <5>2. \A e : WithRows(r, e, todo) = Doing(r.pc, r.kind, r.about, e, todo)
          BY <5>1, DoingTurns
        <5> QED
          BY <5>1, <5>2, Zenon DEF WithRows
      <4> QED
        BY <2>1, <4>1, <4>2, <4>3
    <3> QED
      BY <3>1, <3>2
  <2>3. channel' = [channel EXCEPT ![f] = @ \o <<m>>]
    BY <1>1, <1>5, <1>9 DEF CommitRow
  <2>4. /\ channel' \in [Lines -> Seq(Messages)]
        /\ channel'[f] = channel[f] \o <<m>>
        /\ \A g \in Lines \ {f} : channel'[g] = channel[g]
    BY <1>7, <2>3 DEF ChannelInv, ChannelTyped
  <2>5. /\ DOMAIN channel'[f] = 1..n /\ Len(channel'[f]) = n /\ channel'[f][n] = m
        /\ \A i \in DOMAIN channel[f] : i \in DOMAIN channel'[f] /\ channel'[f][i] = channel[f][i]
        /\ \A i \in DOMAIN channel'[f] : i \in DOMAIN channel[f] \/ i = n
        /\ n = Len(channel[f]) + 1 /\ n \in DOMAIN channel'[f]
    BY <1>7, <1>10, <2>4
  <2>6. ChannelsGrow
    BY <2>4, <2>5 DEF ChannelsGrow
  <2>7. Log' = Log
    BY <1>6 DEF logVars, Log
  <2>8. FilesTell'
    <3>1. m.retracts \in 0..Len(channel[f])
      BY <1>9 DEF HasTarget
    <3>2. ASSUME NEW g \in Lines, NEW i \in DOMAIN channel'[g]
          PROVE  channel'[g][i].retracts \in 0..Len(channel'[g])
      <4>1. CASE g = f /\ i = n
        BY <1>7, <2>5, <3>1, <4>1
      <4>2. CASE g = f /\ i # n
        <5>1. i \in DOMAIN channel[f] /\ channel'[f][i] = channel[f][i]
          BY <2>5, <3>2, <4>2
        <5>2. channel[f][i].retracts \in 0..Len(channel[f])
          BY <5>1 DEF ChannelInv, FilesTell
        <5> QED
          BY <1>7, <2>5, <4>2, <5>1, <5>2
      <4>3. CASE g # f
        BY <2>4, <3>2, <4>3 DEF ChannelInv, FilesTell
      <4> QED
        BY <4>1, <4>2, <4>3
    <3>3. ASSUME NEW g \in Lines, NEW i \in acks'[g]
          PROVE  i \in DOMAIN channel'[g] /\ Said("ack", g, i)'
      BY <1>6, <2>6, <2>7, <3>3 DEF ChannelInv, FilesTell, ChannelsGrow, Said
    <3>4. \A g \in Lines : artifacts'[g] \subseteq bytes'[g]
      BY <1>6 DEF ChannelInv, FilesTell
    <3> QED
      BY <3>2, <3>3, <3>4 DEF FilesTell
  <2>9. ~Said("signal", f, n)'
    <3>1. ASSUME Said("signal", f, n) PROVE FALSE
      <4>1. PICK i \in DOMAIN Log : Log[i].kind = "signal" /\ Log[i].about = f /\ Log[i].n = n
        BY <3>1 DEF Said
      <4>2. n \in DOMAIN channel[f]
        BY <4>1 DEF ChannelInv, LogTells
      <4> QED
        BY <1>7, <4>2
    <3> QED
      BY <2>7, <3>1 DEF Said
  <2>10. Job(s)' /\ s.pc = "append" /\ s.kind = "post"
    <3>1. PICK todo : todo = <<Row("signal", f, n)>>
      OBVIOUS
    <3>2. Row("signal", f, n) \in LogRows /\ Row("signal", f, n).n = n
      BY <1>7 DEF Row, LogRows
    <3>3. /\ todo \in Seq(LogRows) /\ todo # <<>> /\ DOMAIN todo = {1}
          /\ todo[1] = Row("signal", f, n) /\ todo[1].n = n
      <4>1. PICK x \in LogRows : x = Row("signal", f, n) /\ x.n = n
        BY <3>2
      <4>2. <<x>> \in Seq(LogRows) /\ <<x>> # <<>> /\ DOMAIN <<x>> = {1} /\ <<x>>[1] = x
        OBVIOUS
      <4> QED
        BY <3>1, <4>1, <4>2
    <3>4. Unsaid(f, todo)'
      <4>1. \A i \in DOMAIN todo : /\ todo[i] = Row("signal", f, todo[i].n)
                                   /\ todo[i].n \in DOMAIN channel'[f] /\ ~Said("signal", f, todo[i].n)'
        BY <2>5, <2>9, <3>3
      <4>2. \A i, j \in DOMAIN todo : i = j
        BY <3>3
      <4> QED
        BY <3>3, <4>1, <4>2 DEF Unsaid
    <3>5. s = Doing("append", "post", f, <<>>, todo) /\ s.todo = todo
      BY <2>1, <3>1 DEF Doing
    <3>6. Posting(s)'
      BY <3>3, <3>4, <3>5 DEF Posting
    <3> QED
      BY <3>5, <3>6 DEF Job, Doing
  <2>11. ChannelTyped'
    BY <1>6, <2>2, <2>4 DEF ChannelInv, ChannelTyped, logVars, Set
  <2> QED
    BY <1>1, <1>2, <1>6, <2>2, <2>6, <2>8, <2>10, <2>11, QuietStep DEF logVars, readerVars
<1> QED
  BY <1>8, <1>9

(* A message to acknowledge is found, *)
LEMMA FindStep ==
  ASSUME ChannelInv, NEW p \in Procs, NEW named \in Lines \cup {NoLine}, NEW n,
         FindMessage(p, named, n)
  PROVE  ChannelInv'
<1>1. PICK f \in Lines : /\ n \in DOMAIN channel[f]
                         /\ Set(p, [Idle EXCEPT !.pc = "found", !.kind = "ack", !.about = f, !.item = <<n>>])
  <2>1. PICK f \in IF named = NoLine THEN Lines \ half ELSE {named} :
          /\ n \in DOMAIN channel[f]
          /\ Set(p, [Idle EXCEPT !.pc = "found", !.kind = "ack", !.about = f, !.item = <<n>>])
    BY DEF FindMessage
  <2> QED
    BY <2>1
<1>2. PICK r : r = Doing("found", "ack", f, <<n>>, <<>>)
  OBVIOUS
<1>3. Set(p, r)
  <2>1. [Idle EXCEPT !.pc = "found", !.kind = "ack", !.about = f, !.item = <<n>>] = r
    BY <1>2, IdleTakes
  <2> QED
    BY <1>1, <2>1
<1>4. Job(r) /\ r.pc = "found" /\ r.kind = "ack"
  <2>1. Acking(r)
    BY <1>1, <1>2 DEF Acking
  <2> QED
    BY <1>2, <2>1 DEF Job, Doing
<1>5. proc[p].kind # "status"
  <2>1. Job(proc[p]) /\ proc[p].pc = "idle"
    BY ProcIs DEF FindMessage
  <2> QED
    BY <2>1, JobIs DEF Idle
<1> QED
  BY <1>3, <1>4, <1>5, TurnStep DEF FindMessage

(* its acknowledgement begins if its family is paired, *)
LEMMA AckStep ==
  ASSUME ChannelInv, NEW p \in Procs, AckBegin(p)
  PROVE  ChannelInv'
<1>1. PICK r : r = proc[p] /\ Job(r)
  BY ProcIs
<1>2. r.pc = "found" /\ Free /\ UNCHANGED <<logVars, readerVars, familyVars, status, untold>>
  BY <1>1 DEF AckBegin
<1>3. r.kind = "ack" /\ Acking(r)
  <2>1. r.kind \notin {"none", "post", "bytes", "plant", "status"}
    BY <1>1, <1>2, JobIs DEF Idle
  <2> QED
    BY <1>1, <2>1, JobIs
<1>4. PICK f \in Lines : \E n \in DOMAIN channel[f] : r = Doing("found", "ack", f, <<n>>, <<>>)
  BY <1>2, <1>3 DEF Acking, Doing
<1>5. PICK n \in DOMAIN channel[f] : r = Doing("found", "ack", f, <<n>>, <<>>)
  BY <1>4
<1>6. r.about = f /\ r.item[1] = n
  BY <1>5 DEF Doing
<1>7. CASE ~Ackable(f)
  <2>1. Set(p, Idle)
    BY <1>1, <1>6, <1>7 DEF AckBegin
  <2>2. PICK s : s = Idle
    OBVIOUS
  <2>3. Job(s) /\ s.pc # "append" /\ s.kind # "status"
    BY <2>2 DEF Job, Idle
  <2> QED
    BY <1>1, <1>2, <1>3, <2>1, <2>2, <2>3, TurnStep
<1>8. CASE Ackable(f)
  <2>1. PICK s : s = Doing("append", "ack", f, <<n>>, <<Row("ack", f, n)>>)
    OBVIOUS
  <2>2. Set(p, s)
    <3>1. Set(p, [r EXCEPT !.pc = "append", !.todo = <<Row("ack", r.about, r.item[1])>>])
      BY <1>1, <1>6, <1>8 DEF AckBegin, Set
    <3>2. [r EXCEPT !.pc = "append", !.todo = <<Row("ack", r.about, r.item[1])>>] = s
      <4>1. PICK todo : todo = <<Row("ack", f, n)>>
        OBVIOUS
      <4>2. <<Row("ack", r.about, r.item[1])>> = todo
        BY <1>6, <4>1
      <4>3. [r EXCEPT !.pc = "append", !.todo = todo] = Doing("append", "ack", f, <<n>>, todo)
        <5>1. r.kind = "ack" /\ r.about = f /\ r.item = <<n>>
              /\ r = Doing(r.pc, r.kind, r.about, r.item, r.todo)
          BY <1>5 DEF Doing
        <5>2. AtPlace(r, "append", todo) = Doing("append", r.kind, r.about, r.item, todo)
          BY <5>1, DoingTurns
        <5> QED
          BY <5>1, <5>2, Zenon DEF AtPlace
      <4> QED
        BY <2>1, <4>1, <4>2, <4>3
    <3> QED
      BY <3>1, <3>2
  <2>3. Said("signal", f, n)
    <3>1. Untold(Missing(f), SignalIds(f), Len(channel[f])) /\ Missing(f) = <<>>
      BY <1>8, MissingIs DEF ChannelInv, ChannelTyped, Ackable, Paired
    <3>2. DOMAIN channel[f] = 1..Len(channel[f])
      BY DEF ChannelInv, ChannelTyped
    <3>3. n \in SignalIds(f)
      BY <3>1, <3>2 DEF Untold
    <3>4. Said("ack", f, n) => Said("signal", f, n)
      BY DEF ChannelInv, LogTells, Said
    <3> QED
      BY <3>3, <3>4, SignalIdsAre
  <2>4. Acking(s) /\ s.kind = "ack"
    BY <2>1, <2>3 DEF Acking, Doing
  <2>5. Job(s)
    BY <2>4 DEF Job
  <2> QED
    BY <1>1, <1>2, <1>3, <2>2, <2>4, <2>5, TurnStep
<1> QED
  BY <1>7, <1>8

(* and it is written after its row. *)
LEMMA CommitAcksStep ==
  ASSUME ChannelInv, NEW p \in Procs, CommitAcks(p)
  PROVE  ChannelInv'
<1>1. PICK r : r = proc[p] /\ Job(r)
  BY ProcIs
<1>2. /\ r.pc = "append" /\ r.kind = "ack" /\ r.todo = <<>> /\ Set(p, Idle)
      /\ acks' = [acks EXCEPT ![r.about] = @ \cup {r.item[1]}]
      /\ UNCHANGED <<logVars, readerVars, channel, half, artifacts, bytes, status, untold>>
  BY <1>1 DEF CommitAcks
<1>3. Acking(r)
  BY <1>1, <1>2, JobIs
<1>4. PICK f \in Lines : \E n \in DOMAIN channel[f] :
        r = Doing("append", "ack", f, <<n>>, <<>>) /\ Said("ack", f, n)
  BY <1>2, <1>3 DEF Acking, Doing
<1>5. PICK n \in DOMAIN channel[f] :
        r = Doing("append", "ack", f, <<n>>, <<>>) /\ Said("ack", f, n)
  BY <1>4
<1>6. r.about = f /\ r.item[1] = n
  BY <1>5 DEF Doing
<1>7. n \in Nat
  BY DEF ChannelInv, ChannelTyped
<1>8. /\ acks' \in [Lines -> SUBSET Nat] /\ acks'[f] = acks[f] \cup {n}
      /\ \A g \in Lines \ {f} : acks'[g] = acks[g]
  BY <1>2, <1>6, <1>7 DEF ChannelInv, ChannelTyped
<1>9. Log' = Log /\ ChannelsGrow
  BY <1>2 DEF logVars, Log, ChannelsGrow
<1>10. FilesTell'
  <2>1. \A g \in Lines, k \in Nat : Said("ack", g, k)' <=> Said("ack", g, k)
    BY <1>9 DEF Said
  <2>2. \A g \in Lines : \A k \in acks'[g] : k \in DOMAIN channel[g] /\ Said("ack", g, k)
    BY <1>5, <1>8 DEF ChannelInv, FilesTell
  <2>3. \A g \in Lines : \A k \in acks'[g] : k \in Nat
    BY <1>8
  <2> QED
    BY <1>2, <2>1, <2>2, <2>3 DEF ChannelInv, FilesTell
<1>11. ChannelTyped'
  BY <1>2, <1>8 DEF ChannelInv, ChannelTyped, logVars, Set
<1>12. PICK s : s = Idle
  OBVIOUS
<1>13. Job(s)' /\ s.pc # "append" /\ s.kind # "status"
  BY <1>12 DEF Job, Idle
<1> QED
  BY <1>1, <1>2, <1>9, <1>10, <1>11, <1>12, <1>13, QuietStep DEF logVars, readerVars

(* An artifact is planted: the bytes, *)
LEMMA PlantStep ==
  ASSUME ChannelInv, NEW p \in Procs, NEW f \in Lines, NEW a \in Artifacts, PlantBegin(p, f, a)
  PROVE  ChannelInv'
<1>1. PICK r : r = Doing("append", "bytes", f, <<a>>, <<>>)
  OBVIOUS
<1>2. /\ Set(p, r) /\ proc[p].pc = "idle" /\ Free /\ a \notin artifacts[f]
      /\ bytes' = [bytes EXCEPT ![f] = @ \ {a}]
      /\ UNCHANGED <<logVars, readerVars, channel, half, acks, artifacts, status, untold>>
  <2>1. [Idle EXCEPT !.pc = "append", !.kind = "bytes", !.about = f, !.item = <<a>>] = r
    BY <1>1, IdleTakes
  <2>2. Set(p, [Idle EXCEPT !.pc = "append", !.kind = "bytes", !.about = f, !.item = <<a>>])
    BY DEF PlantBegin
  <2> QED
    BY <2>1, <2>2 DEF PlantBegin, Plantable
<1>3. /\ bytes' \in [Lines -> SUBSET Artifacts] /\ bytes'[f] = bytes[f] \ {a}
      /\ \A g \in Lines \ {f} : bytes'[g] = bytes[g]
  BY <1>2 DEF ChannelInv, ChannelTyped
<1>4. Log' = Log /\ ChannelsGrow
  BY <1>2 DEF logVars, Log, ChannelsGrow
<1>5. FilesTell'
  <2>1. \A g \in Lines : artifacts[g] \subseteq bytes'[g]
    BY <1>2, <1>3 DEF ChannelInv, FilesTell
  <2> QED
    BY <1>2, <1>4, <2>1 DEF ChannelInv, FilesTell, Said
<1>6. ChannelTyped'
  BY <1>2, <1>3 DEF ChannelInv, ChannelTyped, logVars, Set
<1>7. Job(r)' /\ r.kind = "bytes"
  BY <1>1 DEF Job, Planting, Doing
<1>8. proc[p].kind # "status"
  <2>1. Job(proc[p])
    BY ProcIs
  <2> QED
    BY <1>2, <2>1, JobIs DEF Idle
<1> QED
  BY <1>2, <1>4, <1>5, <1>6, <1>7, <1>8, QuietStep DEF logVars, readerVars

(* whole before its row, *)
LEMMA WriteBytesStep ==
  ASSUME ChannelInv, NEW p \in Procs, WriteBytes(p)
  PROVE  ChannelInv'
<1>1. PICK r : r = proc[p] /\ Job(r)
  BY ProcIs
<1>2. /\ r.pc = "append" /\ r.kind = "bytes" /\ Set(p, [r EXCEPT !.kind = "plant"])
      /\ bytes' = [bytes EXCEPT ![r.about] = @ \cup {r.item[1]}]
      /\ UNCHANGED <<logVars, readerVars, channel, half, acks, artifacts, status, untold>>
  BY <1>1 DEF WriteBytes, Set
<1>3. Planting(r)
  BY <1>1, <1>2, JobIs
<1>4. PICK f \in Lines, a \in Artifacts : r = Doing("append", "bytes", f, <<a>>, <<>>)
  BY <1>2, <1>3 DEF Planting, Doing
<1>5. r.about = f /\ r.item[1] = a
  BY <1>4 DEF Doing
<1>6. PICK s : s = Doing("append", "plant", f, <<a>>, <<>>)
  OBVIOUS
<1>7. Set(p, s)
  <2>1. [r EXCEPT !.kind = "plant"] = s
    BY <1>4, <1>6 DEF Doing
  <2> QED
    BY <1>2, <2>1
<1>8. /\ bytes' \in [Lines -> SUBSET Artifacts] /\ bytes'[f] = bytes[f] \cup {a}
      /\ \A g \in Lines \ {f} : bytes'[g] = bytes[g]
  BY <1>2, <1>5 DEF ChannelInv, ChannelTyped
<1>9. Log' = Log /\ ChannelsGrow
  BY <1>2 DEF logVars, Log, ChannelsGrow
<1>10. FilesTell'
  <2>1. \A g \in Lines : artifacts[g] \subseteq bytes'[g]
    BY <1>8 DEF ChannelInv, FilesTell
  <2> QED
    BY <1>2, <1>9, <2>1 DEF ChannelInv, FilesTell, Said
<1>11. ChannelTyped'
  BY <1>2, <1>8 DEF ChannelInv, ChannelTyped, logVars, Set
<1>12. Job(s)' /\ s.kind = "plant"
  <2>1. a \in bytes'[f]
    BY <1>8
  <2> QED
    BY <1>6, <2>1 DEF Job, Planting, Doing
<1> QED
  BY <1>1, <1>2, <1>7, <1>9, <1>10, <1>11, <1>12, QuietStep DEF logVars, readerVars

(* and the row. *)
LEMMA ArtifactStep ==
  ASSUME ChannelInv, NEW p \in Procs, CommitArtifact(p)
  PROVE  ChannelInv'
<1>1. PICK r : r = proc[p] /\ Job(r)
  BY ProcIs
<1>2. /\ r.pc = "append" /\ r.kind = "plant" /\ Set(p, Idle)
      /\ artifacts' = [artifacts EXCEPT ![r.about] = @ \cup {r.item[1]}]
      /\ UNCHANGED <<logVars, readerVars, channel, half, acks, bytes, status, untold>>
  BY <1>1 DEF CommitArtifact
<1>3. Planting(r)
  BY <1>1, <1>2, JobIs
<1>4. PICK f \in Lines, a \in Artifacts : r = Doing("append", "plant", f, <<a>>, <<>>) /\ a \in bytes[f]
  BY <1>2, <1>3 DEF Planting, Doing
<1>5. r.about = f /\ r.item[1] = a
  BY <1>4 DEF Doing
<1>6. /\ artifacts' \in [Lines -> SUBSET Artifacts] /\ artifacts'[f] = artifacts[f] \cup {a}
      /\ \A g \in Lines \ {f} : artifacts'[g] = artifacts[g]
  BY <1>2, <1>5 DEF ChannelInv, ChannelTyped
<1>7. Log' = Log /\ ChannelsGrow
  BY <1>2 DEF logVars, Log, ChannelsGrow
<1>8. FilesTell'
  <2>1. \A g \in Lines : artifacts'[g] \subseteq bytes[g]
    BY <1>4, <1>6 DEF ChannelInv, FilesTell
  <2> QED
    BY <1>2, <1>7, <2>1 DEF ChannelInv, FilesTell, Said
<1>9. ChannelTyped'
  BY <1>2, <1>6 DEF ChannelInv, ChannelTyped, logVars, Set
<1>10. PICK s : s = Idle
  OBVIOUS
<1>11. Job(s)' /\ s.pc # "append" /\ s.kind # "status"
  BY <1>10 DEF Job, Idle
<1> QED
  BY <1>1, <1>2, <1>7, <1>8, <1>9, <1>10, <1>11, QuietStep DEF logVars, readerVars

(* A status changes under its task's lock, *)
LEMMA ChangeStep ==
  ASSUME ChannelInv, NEW p \in Procs, NEW t \in Tasks, ChangeStatus(p, t)
  PROVE  ChannelInv'
<1>1. PICK r : r = Doing("tell", "status", t, <<>>, <<>>)
  OBVIOUS
<1>2. /\ Set(p, r) /\ proc[p].pc = "idle" /\ ~Held(t)
      /\ status' = [status EXCEPT ![t] = @ + 1]
      /\ UNCHANGED <<logVars, readerVars, familyVars, untold>>
  <2>1. [Idle EXCEPT !.pc = "tell", !.kind = "status", !.about = t] = r
    BY <1>1, IdleTurns
  <2>2. Set(p, [Idle EXCEPT !.pc = "tell", !.kind = "status", !.about = t])
    BY DEF ChangeStatus
  <2> QED
    BY <2>1, <2>2 DEF ChangeStatus
<1>3. /\ status' \in [Tasks -> Nat]
      /\ \A u \in Tasks \ {t} : status'[u] = status[u]
  BY <1>2 DEF ChannelInv, ChannelTyped
<1>4. UNCHANGED <<archives, newest, torn, gap, overlay, pager, channel, half, acks, artifacts,
                  bytes, untold>>
  BY <1>2 DEF logVars, readerVars, familyVars
<1>5. Log' = Log /\ ChannelsGrow
  BY <1>4 DEF Log, ChannelsGrow
<1>6. FilesTell'
  BY <1>4, <1>5, FilesStay
<1>7. ChannelTyped'
  BY <1>2, <1>3, <1>4 DEF ChannelInv, ChannelTyped, Set
<1>8. Job(r)' /\ r.kind = "status" /\ r.about = t /\ r.pc = "tell"
  BY <1>1 DEF Job, Changing, Doing
<1>9. proc[p].kind # "status"
  <2>1. Job(proc[p])
    BY ProcIs
  <2> QED
    BY <1>2, <2>1, JobIs DEF Idle
<1> QED
  BY <1>2, <1>3, <1>4, <1>5, <1>6, <1>7, <1>8, <1>9, QuietStep

(* its row follows, if the log can be read, *)
LEMMA TellStep ==
  ASSUME ChannelInv, NEW p \in Procs, TellStatus(p)
  PROVE  ChannelInv'
<1>1. PICK r : r = proc[p] /\ Job(r)
  BY ProcIs
<1>2. r.pc = "tell" /\ Free /\ UNCHANGED <<logVars, readerVars, familyVars, status, untold>>
  BY <1>1 DEF TellStatus
<1>3. r.kind = "status" /\ Changing(r)
  <2>1. r.kind \notin {"none", "post", "bytes", "plant", "ack"}
    BY <1>1, <1>2, JobIs DEF Idle
  <2> QED
    BY <1>1, <2>1, JobIs
<1>4. PICK t \in Tasks : r = Doing("tell", "status", t, <<>>, <<>>)
  BY <1>2, <1>3 DEF Changing, Doing
<1>5. r.about = t /\ r = Doing(r.pc, r.kind, r.about, r.item, r.todo) /\ r.item = <<>> /\ r.todo = <<>>
  BY <1>4 DEF Doing
<1>6. CASE LogReadable
  <2>1. PICK todo, n : todo = <<Row("status", t, n)>> /\ n = status[t]
    OBVIOUS
  <2>2. PICK s : s = Doing("append", "status", t, <<>>, todo)
    OBVIOUS
  <2>3. Set(p, s)
    <3>1. Set(p, [r EXCEPT !.pc = "append", !.todo = <<Row("status", r.about, status[r.about])>>])
      BY <1>1, <1>6 DEF TellStatus, Set
    <3>2. AtPlace(r, "append", todo) = s
      BY <1>3, <1>5, <2>2, DoingTurns
    <3>3. <<Row("status", r.about, status[r.about])>> = todo
      BY <1>5, <2>1
    <3> QED
      BY <3>1, <3>2, <3>3, Zenon DEF AtPlace
  <2>4. Changing(s) /\ s.kind = "status" /\ s.about = t
    BY <2>1, <2>2 DEF Changing, Doing
  <2>5. Job(s)
    BY <2>4 DEF Job
  <2> QED
    BY <1>1, <1>2, <1>3, <1>5, <2>3, <2>4, <2>5, TurnStep
<1>7. CASE ~LogReadable
  <2>1. PICK s : s = Doing("missed", "status", t, <<>>, <<>>)
    OBVIOUS
  <2>2. Set(p, s)
    <3>1. Set(p, [r EXCEPT !.pc = "missed"])
      BY <1>1, <1>7 DEF TellStatus, Set
    <3>2. [r EXCEPT !.pc = "missed"] = s
      BY <1>4, <2>1 DEF Doing
    <3> QED
      BY <3>1, <3>2
  <2>3. Changing(s) /\ s.kind = "status" /\ s.about = t
    BY <2>1 DEF Changing, Doing
  <2>4. Job(s)
    BY <2>3 DEF Job
  <2> QED
    BY <1>1, <1>2, <1>3, <1>5, <2>2, <2>3, <2>4, TurnStep
<1> QED
  BY <1>6, <1>7

(* or the mark is set. *)
LEMMA GapStep ==
  ASSUME ChannelInv, NEW p \in Procs, RecordGap(p)
  PROVE  ChannelInv'
<1>1. PICK s : s = Idle
  OBVIOUS
<1>2. /\ Set(p, s) /\ gap' = TRUE /\ proc[p].pc = "missed"
      /\ UNCHANGED <<archives, newest, torn, overlay, pager, channel, half, acks, artifacts, bytes,
                     status, untold>>
  BY <1>1 DEF RecordGap, readerVars, familyVars
<1>3. Log' = Log /\ ChannelsGrow
  BY <1>2 DEF Log, ChannelsGrow
<1>4. FilesTell'
  BY <1>2, <1>3, FilesStay
<1>5. ChannelTyped'
  BY <1>2 DEF ChannelInv, ChannelTyped, Set
<1>6. Job(s)' /\ s.pc # "append" /\ s.kind # "status"
  BY <1>1 DEF Job, Idle
<1> QED
  BY <1>2, <1>3, <1>4, <1>5, <1>6, QuietStep

(* A process that dies leaves half a row, in the log or in a channel, or nothing, *)
LEMMA DieStep ==
  ASSUME ChannelInv, NEW p \in Procs, ProcessDies(p)
  PROVE  ChannelInv'
<1>1. PICK s, r : s = Idle /\ r = proc[p] /\ Job(r)
  BY ProcIs
<1>2. /\ Set(p, s) /\ untold' = untold \cup Lost(p)
      /\ UNCHANGED <<archives, newest, gap, overlay, pager, channel, acks, artifacts, bytes, status>>
      /\ \/ torn' = torn /\ half' = half
         \/ torn' = TRUE /\ half' = half
         \/ torn' = torn /\ half' = half \cup {r.about} /\ r.kind = "post"
  BY <1>1 DEF ProcessDies, TearRow, logVars, readerVars, familyVars
<1>3. r.kind = "post" => r.about \in Lines
  <2>1. r.kind = "post" => Posting(r)
    BY <1>1, JobIs
  <2> QED
    BY <2>1 DEF Posting, Doing
<1>4. r.kind = "status" => r.about \in Tasks /\ r.about \in untold'
  <2>1. r.kind = "status" => Changing(r)
    BY <1>1, JobIs
  <2>2. r.kind = "status" => r.about \in Tasks
    BY <2>1 DEF Changing, Doing
  <2>3. r.kind = "status" => Lost(p) = {r.about}
    BY <1>1 DEF Lost
  <2> QED
    BY <1>2, <2>2, <2>3
<1>5. Log' = Log /\ ChannelsGrow
  BY <1>2 DEF Log, ChannelsGrow
<1>6. FilesTell'
  BY <1>2, <1>5, FilesStay
<1>7. ChannelTyped'
  <2>1. half' \subseteq Lines /\ torn' \in BOOLEAN
    BY <1>2, <1>3 DEF ChannelInv, ChannelTyped
  <2>2. untold' \subseteq Tasks
    BY <1>1, <1>2, <1>4 DEF ChannelInv, ChannelTyped, Lost
  <2> QED
    BY <1>2, <2>1, <2>2 DEF ChannelInv, ChannelTyped, Set
<1>8. Job(s)' /\ s.pc # "append" /\ s.kind # "status"
  BY <1>1 DEF Job, Idle
<1> QED
  BY <1>1, <1>2, <1>4, <1>5, <1>6, <1>7, <1>8, QuietStep

(* and one whose write fails gives up, or has a status change to mark. *)
LEMMA FailStep ==
  ASSUME ChannelInv, NEW p \in Procs, FailAppend(p)
  PROVE  ChannelInv'
<1>1. PICK r : r = proc[p] /\ Job(r)
  BY ProcIs
<1>2. /\ r.pc = "append" /\ r.todo # <<>>
      /\ UNCHANGED <<archives, newest, gap, overlay, pager, channel, half, acks, artifacts, bytes,
                     status, untold>>
      /\ torn' \in {torn, TRUE}
  BY <1>1 DEF FailAppend, TearRow, logVars, readerVars, familyVars
<1>3. Log' = Log /\ ChannelsGrow
  BY <1>2 DEF Log, ChannelsGrow
<1>4. FilesTell'
  BY <1>2, <1>3, FilesStay
<1>5. ASSUME r.kind # "status" PROVE ChannelInv'
  <2>1. PICK s : s = Idle
    OBVIOUS
  <2>2. Set(p, s)
    BY <1>1, <1>5, <2>1 DEF FailAppend, Missed
  <2>3. Job(s)' /\ s.pc # "append" /\ s.kind # "status"
    BY <2>1 DEF Job, Idle
  <2>4. ChannelTyped'
    BY <1>2, <2>2 DEF ChannelInv, ChannelTyped, Set
  <2> QED
    BY <1>1, <1>2, <1>3, <1>4, <1>5, <2>2, <2>3, <2>4, QuietStep
<1>6. ASSUME r.kind = "status" PROVE ChannelInv'
  <2>1. PICK t \in Tasks : r = Doing("append", "status", t, <<>>, <<Row("status", t, status[t])>>)
    <3>1. Changing(r)
      BY <1>1, <1>6, JobIs
    <3> QED
      BY <1>2, <3>1 DEF Changing, Doing
  <2>2. r.about = t /\ r = Doing(r.pc, r.kind, r.about, r.item, r.todo) /\ r.item = <<>>
    BY <2>1 DEF Doing
  <2>3. PICK s : s = Doing("missed", "status", t, <<>>, <<>>)
    OBVIOUS
  <2>4. Set(p, s)
    <3>1. Set(p, [r EXCEPT !.pc = "missed", !.todo = <<>>])
      BY <1>1, <1>6 DEF FailAppend, Missed
    <3>2. AtPlace(r, "missed", <<>>) = s
      BY <1>6, <2>2, <2>3, DoingTurns
    <3> QED
      BY <3>1, <3>2, Zenon DEF AtPlace
  <2>5. Job(s)' /\ s.pc = "missed" /\ s.kind = "status" /\ s.about = t
    BY <2>3 DEF Job, Changing, Doing
  <2>6. ChannelTyped'
    BY <1>2, <2>4 DEF ChannelInv, ChannelTyped, Set
  <2> QED
    BY <1>1, <1>2, <1>3, <1>4, <1>6, <2>2, <2>4, <2>5, <2>6, QuietStep
<1> QED
  BY <1>5, <1>6

(* Nothing begins every sequence. *)
LEMMA NothingIsPrefix ==
  ASSUME NEW S, NEW t \in Seq(S)
  PROVE  <<>> \in Seq(S) /\ IsPrefix(<<>>, t)
<1>1. PICK e : e = <<>>
  OBVIOUS
<1>2. e \in Seq(S) /\ Len(e) = 0
  BY <1>1
<1>3. Len(e) <= Len(t) /\ \A i \in 1..Len(e) : e[i] = t[i]
  BY <1>2
<1>4. IsPrefix(e, t)
  BY <1>2, <1>3, PrefixIs
<1> QED
  BY <1>1, <1>2, <1>4

(* The readers: the one without the lock, *)
LEMMA OverlayStep ==
  ASSUME ChannelInv, ListArchives \/ ReadFiles(Writing) \/ LookForGap \/ ForgetView
  PROVE  ReadersHave' /\ UNCHANGED <<logVars, pager>>
<1>1. /\ overlay \in [pc : {"idle", "listed", "read", "drawn"}, listed : Nat, rows : Seq(LogRows),
                      verdict : {Sound, Bad}]
      /\ pager \in [pc : {"idle", "page"}, given : Seq(LogRows)]
      /\ overlay.pc = "listed" => overlay.listed <= Len(archives)
      /\ PagesAreTheLog /\ IsPrefix(overlay.rows, Log)
  BY DEF ChannelInv, ReadersHave
<1>2. UNCHANGED <<logVars, pager>>
  BY DEF ListArchives, ReadFiles, LookForGap, ForgetView
<1>3. Log' = Log /\ archives' = archives /\ Log \in Seq(LogRows) /\ Len(archives) \in Nat
  BY <1>2, LogIs DEF logVars, Log, ChannelInv, ChannelTyped
<1>4. IsPrefix(<<>>, Log) /\ <<>> \in Seq(LogRows)
  BY <1>3, NothingIsPrefix
<1>5. /\ overlay' \in [pc : {"idle", "listed", "read", "drawn"}, listed : Nat, rows : Seq(LogRows),
                       verdict : {Sound, Bad}]
      /\ overlay'.pc = "listed" => overlay'.listed <= Len(archives)
      /\ IsPrefix(overlay'.rows, Log)
  <2>1. CASE ListArchives
    <3>1. overlay'.rows = overlay.rows /\ overlay'.listed = Len(archives)
      BY <1>1, <2>1 DEF ListArchives
    <3>2. overlay' \in [pc : {"idle", "listed", "read", "drawn"}, listed : Nat, rows : Seq(LogRows),
                        verdict : {Sound, Bad}]
      BY <1>1, <1>3, <2>1 DEF ListArchives
    <3> QED
      BY <1>1, <1>3, <3>1, <3>2
  <2>2. CASE ReadFiles(Writing)
    <3>1. overlay.pc = "listed" /\ overlay.listed \in Nat /\ overlay.listed <= Len(archives)
      BY <1>1, <2>2 DEF ReadFiles
    <3>2. PICK rows : rows = Stitched(overlay.listed)
      OBVIOUS
    <3>3. rows \in Seq(LogRows) /\ (Numbered(rows) => IsPrefix(rows, Log))
      BY <3>1, <3>2, StitchIs DEF ChannelInv
    <3>4. \/ overlay' = [overlay EXCEPT !.pc = "read", !.rows = <<>>, !.verdict = Bad]
          \/ overlay' = [overlay EXCEPT !.pc = "read", !.rows = rows, !.verdict = Sound] /\ Numbered(rows)
      BY <2>2, <3>2 DEF ReadFiles
    <3>5. CASE overlay' = [overlay EXCEPT !.pc = "read", !.rows = <<>>, !.verdict = Bad]
      <4>1. overlay'.rows = <<>> /\ overlay'.pc = "read"
        BY <1>1, <3>5
      <4>2. overlay' \in [pc : {"idle", "listed", "read", "drawn"}, listed : Nat, rows : Seq(LogRows),
                          verdict : {Sound, Bad}]
        BY <1>1, <1>4, <3>5
      <4> QED
        BY <1>4, <4>1, <4>2
    <3>6. CASE /\ overlay' = [overlay EXCEPT !.pc = "read", !.rows = rows, !.verdict = Sound]
               /\ Numbered(rows)
      <4>1. overlay'.rows = rows /\ overlay'.pc = "read"
        BY <1>1, <3>6
      <4>2. overlay' \in [pc : {"idle", "listed", "read", "drawn"}, listed : Nat, rows : Seq(LogRows),
                          verdict : {Sound, Bad}]
        BY <1>1, <3>3, <3>6
      <4> QED
        BY <3>3, <3>6, <4>1, <4>2
    <3> QED
      BY <3>4, <3>5, <3>6
  <2>3. CASE LookForGap
    <3>1. overlay'.rows = overlay.rows /\ overlay'.pc = "drawn"
      BY <1>1, <2>3 DEF LookForGap
    <3>2. overlay' \in [pc : {"idle", "listed", "read", "drawn"}, listed : Nat, rows : Seq(LogRows),
                        verdict : {Sound, Bad}]
      BY <1>1, <2>3 DEF LookForGap
    <3> QED
      BY <1>1, <3>1, <3>2
  <2>4. CASE ForgetView
    BY <1>4, <2>4 DEF ForgetView, NoView
  <2> QED
    BY <2>1, <2>2, <2>3, <2>4
<1> QED
  BY <1>1, <1>2, <1>3, <1>5 DEF ReadersHave, PagesAreTheLog

(* and the one of pages. *)
LEMMA PagerStep ==
  ASSUME ChannelInv, PageCheck \/ ReadPage
  PROVE  ReadersHave' /\ UNCHANGED <<logVars, overlay>>
<1>1. /\ overlay \in [pc : {"idle", "listed", "read", "drawn"}, listed : Nat, rows : Seq(LogRows),
                      verdict : {Sound, Bad}]
      /\ pager \in [pc : {"idle", "page"}, given : Seq(LogRows)]
      /\ overlay.pc = "listed" => overlay.listed <= Len(archives)
      /\ IsPrefix(pager.given, Log) /\ IsPrefix(overlay.rows, Log)
  BY DEF ChannelInv, ReadersHave, PagesAreTheLog
<1>2. UNCHANGED <<logVars, overlay>>
  BY DEF PageCheck, ReadPage
<1>3. Log' = Log /\ archives' = archives /\ Log \in Seq(LogRows)
  BY <1>2, LogIs DEF logVars, Log, ChannelInv, ChannelTyped
<1>4. pager' \in [pc : {"idle", "page"}, given : Seq(LogRows)] /\ IsPrefix(pager'.given, Log)
  <2>1. CASE PageCheck
    BY <1>1, <2>1 DEF PageCheck
  <2>2. CASE ReadPage
    <3>1. PICK given : given = IF LogReadable THEN pager.given \o PageRows(Len(pager.given)) ELSE pager.given
      OBVIOUS
    <3>2. given \in Seq(LogRows) /\ IsPrefix(given, Log)
      <4>1. /\ pager.given \o Page(Log, Len(pager.given)) \in Seq(LogRows)
            /\ IsPrefix(pager.given \o Page(Log, Len(pager.given)), Log)
        BY <1>1, <1>3, PageIs
      <4> QED
        BY <1>1, <3>1, <4>1 DEF PageRows
    <3>3. pager' = [pager EXCEPT !.pc = "idle", !.given = given]
      BY <2>2, <3>1 DEF ReadPage
    <3>4. pager'.given = given
      BY <1>1, <3>3
    <3>5. pager' \in [pc : {"idle", "page"}, given : Seq(LogRows)]
      BY <1>1, <3>2, <3>3
    <3> QED
      BY <3>2, <3>4, <3>5
  <2> QED
    BY <2>1, <2>2
<1> QED
  BY <1>1, <1>2, <1>3, <1>4 DEF ReadersHave, PagesAreTheLog

(* Readers change nothing that others see. *)
LEMMA ReaderStep ==
  ASSUME ChannelInv, ReadersHave', UNCHANGED <<logVars, familyVars, status, untold, proc>>
  PROVE  ChannelInv'
<1>1. UNCHANGED <<archives, newest, torn, gap, channel, half, acks, artifacts, bytes, status, untold, proc>>
  BY DEF logVars, familyVars
<1>2. Log' = Log /\ FilesFit' /\ ArchivesGrow' /\ LogTells'
  BY <1>1, LogStays DEF ChannelsGrow
<1>3. ChannelTyped'
  BY <1>1 DEF ChannelInv, ChannelTyped
<1>4. FilesTell'
  BY <1>1, <1>2, FilesStay
<1>5. StatusTold'
  BY <1>1, <1>2, StatusStays DEF Held
<1>6. Working' /\ Alone'
  <2>1. ASSUME NEW q \in Procs PROVE Job(proc[q])'
    <3>1. PICK s : s = proc[q] /\ s = proc'[q] /\ Job(s)
      BY <1>1, ProcIs
    <3>2. ChannelsGrow
      BY <1>1 DEF ChannelsGrow
    <3>3. Job(s)'
      BY <1>1, <1>2, <3>1, <3>2, OthersGoOn
    <3> QED
      BY <3>1, <3>3
  <2> QED
    BY <1>1, <2>1 DEF ChannelInv, Working, Alone
<1> QED
  BY <1>2, <1>3, <1>4, <1>5, <1>6 DEF ChannelInv

(* The invariant holds of the empty channels, *)
LEMMA ChannelBegins == ChannelInit => ChannelInv
<1> SUFFICES ASSUME ChannelInit PROVE ChannelInv
  OBVIOUS
<1>1. /\ archives = <<>> /\ newest = <<>> /\ torn = FALSE /\ gap = FALSE /\ overlay = NoView
      /\ pager = [pc |-> "idle", given |-> <<>>]
      /\ channel = [f \in Lines |-> <<>>] /\ half = {}
      /\ acks = [f \in Lines |-> {}] /\ artifacts = [f \in Lines |-> {}] /\ bytes = [f \in Lines |-> {}]
      /\ status = [t \in Tasks |-> 0] /\ untold = {} /\ proc = [p \in Procs |-> Idle]
  BY DEF ChannelInit, LogInit
<1>2. archives \in Seq(Seq(LogRows)) /\ newest \in Seq(LogRows) /\ Len(newest) = 0 /\ Len(archives) = 0
  BY <1>1
<1>3. FlattenSeq(archives) = <<>> /\ Log = <<>>
  <2>1. FlattenSeq(archives) = <<>>
    BY <1>1, <1>2, FlatIs
  <2> QED
    BY <1>1, <2>1 DEF Log
<1>4. ChannelTyped
  <2>1. /\ channel \in [Lines -> Seq(Messages)] /\ acks \in [Lines -> SUBSET Nat]
        /\ artifacts \in [Lines -> SUBSET Artifacts] /\ bytes \in [Lines -> SUBSET Artifacts]
    BY <1>1
  <2>2. /\ torn \in BOOLEAN /\ gap \in BOOLEAN /\ half \subseteq Lines
        /\ status \in [Tasks -> Nat] /\ untold \subseteq Tasks /\ DOMAIN proc = Procs
    BY <1>1
  <2> QED
    BY <1>2, <2>1, <2>2 DEF ChannelTyped
<1>13. <<>> \in Seq(LogRows) /\ IsPrefix(<<>>, <<>>)
  <2>1. <<>> \in Seq(LogRows)
    BY <1>1, <1>2
  <2> QED
    BY <2>1, NothingIsPrefix
<1>5. FilesFit
  BY <1>1, <1>2, OverlayAssumption DEF FilesFit
<1>6. ArchivesGrow
  <2>1. SubSeq(archives, 1, 0) = <<>>
    BY <1>1
  <2>2. FlattenSeq(SubSeq(archives, 1, 0)) = <<>>
    BY <1>1, <1>3, <2>1
  <2>3. \A k \in 0..Len(archives) : k = 0 /\ ~(k < Len(archives))
    BY <1>2
  <2> QED
    BY <1>3, <1>13, <2>2, <2>3 DEF ArchivesGrow
<1>7. DOMAIN Log = {}
  BY <1>3
<1>8. LogTells
  BY <1>7 DEF LogTells
<1>9. FilesTell
  BY <1>1 DEF FilesTell
<1>10. Working /\ Alone
  BY <1>1 DEF Working, Alone, Job, Idle
<1>11. StatusTold
  BY <1>1, <1>7 DEF StatusTold
<1>12. ReadersHave
  BY <1>1, <1>3, <1>13 DEF ReadersHave, NoView, PagesAreTheLog
<1> QED
  BY <1>4, <1>5, <1>6, <1>8, <1>9, <1>10, <1>11, <1>12 DEF ChannelInv

(* and every step keeps it, whichever process dies or fails in between. *)
LEMMA ChannelKeeps == ChannelInv /\ [ChannelNext]_channelVars => ChannelInv'
<1> SUFFICES ASSUME ChannelInv, [ChannelNext]_channelVars PROVE ChannelInv'
  OBVIOUS
<1>1. CASE UNCHANGED channelVars
  <2>1. ReadersHave' /\ UNCHANGED <<logVars, familyVars, status, untold, proc>>
    <3>1. UNCHANGED <<logVars, readerVars, familyVars, status, untold, proc>>
      BY <1>1 DEF channelVars
    <3>2. Log' = Log /\ UNCHANGED <<archives, overlay, pager>>
      BY <3>1 DEF logVars, readerVars, Log
    <3> QED
      BY <3>1, <3>2, ReadingStays
  <2> QED
    BY <2>1, ReaderStep
<1>2. ASSUME NEW p \in Procs,
             \/ AppendNext(p) \/ CommitRow(p) \/ CommitAcks(p) \/ AckBegin(p)
             \/ WriteBytes(p) \/ CommitArtifact(p) \/ TellStatus(p) \/ RecordGap(p)
             \/ ProcessDies(p) \/ FailAppend(p)
      PROVE  ChannelInv'
  BY <1>2, AppendStep, CommitRowStep, CommitAcksStep, AckStep, WriteBytesStep, ArtifactStep,
     TellStep, GapStep, DieStep, FailStep
<1>3. ASSUME NEW p \in Procs, NEW from \in Senders, NEW to \in Recipients,
             NEW named \in Lines \cup {NoLine}, NEW retracts \in Retractable,
             PostBegin(p, from, to, named, retracts)
      PROVE  ChannelInv'
  <2>1. from \in Lines \cup {Operator} /\ to \in Lines \cup {Operator, NoLine} /\ retracts \in Nat
    BY ChannelAssumption
  <2> QED
    BY <1>3, <2>1, PostStep
<1>4. ASSUME NEW p \in Procs, NEW to \in Recipients, NEW f \in Lines, HumanPost(p, to, f)
      PROVE  ChannelInv'
  <2>1. Operator \in Lines \cup {Operator} /\ to \in Lines \cup {Operator, NoLine} /\ 0 \in Nat
        /\ f \in Lines \cup {NoLine}
    BY ChannelAssumption
  <2> QED
    BY <1>4, <2>1, PostStep DEF HumanPost
<1>5. ASSUME NEW p \in Procs, NEW named \in Lines \cup {NoLine}, NEW n \in 1..MaxRows,
             FindMessage(p, named, n)
      PROVE  ChannelInv'
  BY <1>5, FindStep
<1>6. ASSUME NEW p \in Procs, NEW f \in Lines, NEW a \in Artifacts, PlantBegin(p, f, a)
      PROVE  ChannelInv'
  BY <1>6, PlantStep
<1>7. ASSUME NEW p \in Procs, NEW t \in Tasks, ChangeStatus(p, t) PROVE ChannelInv'
  BY <1>7, ChangeStep
<1>8. ASSUME ListArchives \/ ReadFiles(Writing) \/ LookForGap \/ ForgetView \/ PageCheck \/ ReadPage,
             UNCHANGED <<familyVars, status, untold, proc, faults>>
      PROVE  ChannelInv'
  <2>1. ReadersHave' /\ UNCHANGED logVars
    BY <1>8, OverlayStep, PagerStep
  <2> QED
    BY <1>8, <2>1, ReaderStep
<1> QED
  BY <1>1, <1>2, <1>3, <1>4, <1>5, <1>6, <1>7, <1>8 DEF ChannelNext

(* What is shown is told once, and every reference finds what it names. *)
LEMMA ChannelShows ==
  ASSUME ChannelInv
  PROVE  ChangesTold /\ ReadingsHold
<1>1. ASSUME NEW f \in Lines, NEW n \in Shown(Operator, f) PROVE Cardinality(OwnSignals(f, n)) = 1
  <2>1. n \in DOMAIN channel[f] /\ Paired(f)
    BY <1>1 DEF Shown
  <2>2. DOMAIN channel[f] = 1..Len(channel[f]) /\ channel[f] \in Seq(Messages)
    BY DEF ChannelInv, ChannelTyped
  <2>3. n \in SignalIds(f)
    BY <2>1, <2>2, MissingIs DEF Paired, Untold
  <2>4. Said("signal", f, n)
    <3>1. Said("ack", f, n) => Said("signal", f, n)
      BY DEF ChannelInv, LogTells, Said
    <3> QED
      BY <2>3, <3>1, SignalIdsAre
  <2>5. PICK i \in DOMAIN Log : Log[i].kind = "signal" /\ Log[i].about = f /\ Log[i].n = n
    BY <2>4 DEF Said
  <2>6. OwnSignals(f, n) = {i}
    BY <2>5 DEF OwnSignals, ChannelInv, LogTells
  <2> QED
    BY <2>6, FS_Singleton
<1>2. ASSUME NEW f \in Lines PROVE Retracted(f) \subseteq DOMAIN channel[f]
  <2>1. DOMAIN channel[f] = 1..Len(channel[f]) /\ Len(channel[f]) \in Nat
    BY DEF ChannelInv, ChannelTyped
  <2>2. \A n \in DOMAIN channel[f] : channel[f][n].retracts \in 0..Len(channel[f])
    BY DEF ChannelInv, FilesTell
  <2>3. Shown(Operator, f) \subseteq DOMAIN channel[f]
    BY DEF Shown
  <2> QED
    BY <2>1, <2>2, <2>3 DEF Retracted
<1>3. ReferencesHold
  <2> SUFFICES ASSUME NEW f \in Lines
               PROVE  /\ artifacts[f] \subseteq bytes[f]
                      /\ acks[f] \subseteq DOMAIN channel[f]
                      /\ \A n \in acks[f] :
                           \E i \in DOMAIN Log : Log[i] = [Row("ack", f, n) EXCEPT !.seq = i]
    BY <1>2 DEF ReferencesHold
  <2>1. artifacts[f] \subseteq bytes[f] /\ acks[f] \subseteq DOMAIN channel[f]
    BY DEF ChannelInv, FilesTell
  <2>2. ASSUME NEW n \in acks[f]
        PROVE  \E i \in DOMAIN Log : Log[i] = [Row("ack", f, n) EXCEPT !.seq = i]
    <3>1. PICK i \in DOMAIN Log : Log[i].kind = "ack" /\ Log[i].about = f /\ Log[i].n = n
      BY <2>2 DEF ChannelInv, FilesTell, Said
    <3>2. PICK row \in LogRows : row = Log[i]
      BY LogIs DEF ChannelInv, ChannelTyped
    <3>3. row.seq = i
      BY <3>2 DEF ChannelInv, LogTells
    <3>4. row = [Row("ack", f, n) EXCEPT !.seq = i]
      BY <3>1, <3>2, <3>3 DEF LogRows, Row
    <3> QED
      BY <3>2, <3>4
  <2> QED
    BY <2>1, <2>2
<1> QED
  BY <1>1, <1>3 DEF ChannelInv, ReadersHave, ChangesTold, ShownIsToldOnce, ReadingsHold, OverlayIsPrefix

(* ChangesTold, for every family of lines and every number of processes, rows and
   faults: a message that anyone is shown has exactly one signal of its own in the
   log, although post_channel_message may die between the channel and the log and
   the next post tells what is missing; and the last row of a task names its status
   unless its change is being told, its process died, or the mark is set. *)
THEOREM TheLogTells == ChannelSpec => []ChangesTold
<1>1. ChannelInv => ChangesTold
  BY ChannelShows
<1> QED
  BY <1>1, ChannelBegins, ChannelKeeps, PTL DEF ChannelSpec

(* ReadingsHold: an acknowledged or retracted message, and the bytes of a listed
   artifact, are there; the pages of the console give the log from its first row on;
   and what read_overlay_events takes for whole, reading without the lock while the
   log is appended to and rotated, is a beginning of the log. *)
THEOREM ReadersAreServed == ChannelSpec => []ReadingsHold
<1>1. ChannelInv => ReadingsHold
  BY ChannelShows
<1> QED
  BY <1>1, ChannelBegins, ChannelKeeps, PTL DEF ChannelSpec

-----------------------------------------------------------------------------
(* The overview.  What one sample gives is one card of every workspace, in    *)
(* one order; a cursor is good only for the cards it was given out for: so    *)
(* the pages together are the beginning of the list that each was cut from.   *)
Pages == [items : Seq(Cards), last : Nat, more : BOOLEAN, of : Seq(Cards),
          names : SUBSET Spaces]

OverviewType ==
  /\ registry \in SUBSET Spaces
  /\ content \in [Spaces -> Shows]
  /\ epoch \in Nat
  /\ sampler \in [at : {"idle", "sampling"}, names : SUBSET Spaces,
                  pending : SUBSET Spaces, reading : SUBSET Spaces,
                  cards : SUBSET Cards]
  /\ caller \in [cursor : {NoPage} \cup Cursors, pages : Seq(Pages), all : BOOLEAN]

OneEach(cards) == \A c, d \in cards : c.alias = d.alias => c = d
AliasesIn(cards) == {c.alias : c \in cards}

(* Who was asked for is waiting, being read, or has its one card. *)
SampleInv ==
  sampler.at = "sampling" =>
    /\ ~caller.all
    /\ sampler.pending \cap sampler.reading = {}
    /\ sampler.pending \cup sampler.reading \subseteq sampler.names
    /\ OneEach(sampler.cards)
    /\ AliasesIn(sampler.cards) = sampler.names \ (sampler.pending \cup sampler.reading)

Items(pages) == [i \in DOMAIN pages |-> pages[i].items]

(* A list shows every one of these names, once. *)
Lists(list, names) ==
  Len(list) = Cardinality(names) /\ {list[k].alias : k \in DOMAIN list} = names

(* What a client was shown so far is the beginning of one list, from which every
   page was cut; and its cursor goes on from there. *)
ClientInv ==
  IF caller.pages = <<>> THEN caller.cursor = NoPage /\ ~caller.all
  ELSE LET page == caller.pages[Len(caller.pages)]
       IN /\ \A i \in DOMAIN caller.pages :
               caller.pages[i].of = page.of /\ Lists(page.of, caller.pages[i].names)
          /\ page.last \in 0..Len(page.of)
          /\ FlattenSeq(Items(caller.pages)) = SubSeq(page.of, 1, page.last)
          /\ IF caller.all THEN page.last = Len(page.of)
             ELSE /\ caller.cursor \in Cursors
                  /\ caller.cursor.offset = page.last /\ caller.cursor.of = page.of

OverviewInv == OverviewType /\ SampleInv /\ ClientInv

(* The assumption on the overview, part by part. *)
LEMMA ConstantsOfOverview ==
  /\ IsFiniteSet(Spaces) /\ Spaces \subseteq Nat
  /\ Limit \in Nat /\ Limit # 0
  /\ NoPage \notin Cursors
BY OverviewAssumption

(* Cards of different workspaces come one before the other, *)
LEMMA OneBefore ==
  ASSUME NEW c \in Cards, NEW d \in Cards, NEW e \in Cards
  PROVE  /\ ~Before(c, c)
         /\ c.alias # d.alias => Before(c, d) \/ Before(d, c)
         /\ Before(c, d) /\ Before(d, e) => Before(c, e)
<1>1. Rank(c) \in Int /\ Rank(d) \in Int /\ Rank(e) \in Int
  BY DEF Cards, Shows, Rank
<1>2. c.alias \in Int /\ d.alias \in Int /\ e.alias \in Int
  <2>1. \A w \in Spaces : w \in Int
    BY ConstantsOfOverview
  <2> QED
    BY <2>1 DEF Cards
<1> QED
  BY <1>1, <1>2 DEF Before

(* so the number of cards before it gives every card a place of its own, *)
LEMMA PlacesOf ==
  ASSUME NEW cards \in SUBSET Cards, OneEach(cards), IsFiniteSet(cards)
  PROVE  LET n == Cardinality(cards)
             place == [c \in cards |-> Cardinality({d \in cards : Before(d, c)}) + 1]
         IN  /\ n \in Nat /\ place \in [cards -> 1..n]
             /\ \A c, d \in cards : Before(d, c) => place[d] < place[c]
             /\ \A c, d \in cards : place[d] < place[c] => Before(d, c)
             /\ \A c, d \in cards : place[c] = place[d] => c = d
<1> DEFINE n == Cardinality(cards)
           first(c) == {d \in cards : Before(d, c)}
           place == [c \in cards |-> Cardinality(first(c)) + 1]
<1>1. n \in Nat
  BY FS_CardinalityType
<1>2. ASSUME NEW c \in cards
      PROVE  /\ IsFiniteSet(first(c)) /\ Cardinality(first(c)) \in Nat
             /\ Cardinality(first(c)) < n
  <2>1. first(c) \in SUBSET cards /\ c \notin first(c)
    BY OneBefore
  <2>2. /\ IsFiniteSet(first(c)) /\ Cardinality(first(c)) <= n
        /\ n = Cardinality(first(c)) => cards = first(c)
    BY <2>1, FS_Subset, Zenon
  <2>3. Cardinality(first(c)) \in Nat
    BY <2>2, FS_CardinalityType
  <2>4. n # Cardinality(first(c))
    BY <2>1, <2>2
  <2> QED
    BY <1>1, <2>2, <2>3, <2>4
<1>3. ASSUME NEW c \in cards, NEW d \in cards, Before(d, c)
      PROVE  Cardinality(first(d)) < Cardinality(first(c))
  <2>1. first(d) \in SUBSET first(c)
    BY <1>3, OneBefore
  <2>2. d \in first(c) /\ d \notin first(d)
    BY <1>3, OneBefore
  <2>3. /\ Cardinality(first(d)) <= Cardinality(first(c))
        /\ Cardinality(first(c)) = Cardinality(first(d)) => first(c) = first(d)
    BY <1>2, <2>1, FS_Subset, Zenon
  <2>4. Cardinality(first(c)) # Cardinality(first(d))
    BY <2>2, <2>3
  <2> HIDE DEF first, n
  <2> QED
    BY <1>2, <2>3, <2>4
<1>4. \A c \in cards : place[c] = Cardinality(first(c)) + 1
  OBVIOUS
<1>5. place \in [cards -> 1..n]
  <2> HIDE DEF first, n
  <2>1. \A c \in cards : Cardinality(first(c)) + 1 \in 1..n
    BY <1>1, <1>2
  <2> QED
    BY <2>1
<1> HIDE DEF place, first, n
<1>6. \A c, d \in cards : Before(d, c) => place[d] < place[c]
  BY <1>2, <1>3, <1>4
<1>7. \A c, d \in cards : c # d => Before(c, d) \/ Before(d, c)
  BY OneBefore DEF OneEach
<1>8. \A c \in cards : place[c] \in Int
  BY <1>2, <1>4
<1>9. \A c, d \in cards : place[c] = place[d] => c = d
  BY <1>6, <1>7, <1>8
<1>10. \A c, d \in cards : place[d] < place[c] => Before(d, c)
  BY <1>6, <1>7, <1>8
<1> QED
  BY <1>1, <1>5, <1>6, <1>9, <1>10 DEF place, first, n

(* and the order of the page exists: it has every card, once. *)
LEMMA OrderedIs ==
  ASSUME NEW cards \in SUBSET Cards, OneEach(cards), IsFiniteSet(cards)
  PROVE  LET s == Ordered(cards)
             n == Cardinality(cards)
         IN  /\ n \in Nat /\ s \in [1..n -> cards] /\ s \in Seq(Cards) /\ Len(s) = n
             /\ \A i, j \in 1..n : i # j => s[i] # s[j]
             /\ \A c \in cards : \E i \in 1..n : s[i] = c
<1> DEFINE n == Cardinality(cards)
           place == [c \in cards |-> Cardinality({d \in cards : Before(d, c)}) + 1]
<1>1. /\ n \in Nat /\ place \in [cards -> 1..n]
      /\ \A c, d \in cards : Before(d, c) => place[d] < place[c]
      /\ \A c, d \in cards : place[d] < place[c] => Before(d, c)
      /\ \A c, d \in cards : place[c] = place[d] => c = d
  BY PlacesOf
<1>2. IsFiniteSet(1..n) /\ Cardinality(1..n) = n
  BY <1>1, FS_Interval
<1> HIDE DEF place
<1>3. \A i \in 1..n : \E c \in cards : place[c] = i
  <2>1. place \in Injection(cards, 1..n)
    BY <1>1 DEF Injection, IsInjective
  <2>2. place \in Surjection(cards, 1..n)
    BY <1>2, <2>1, FS_Injection
  <2> QED
    BY <2>2 DEF Surjection
<1> DEFINE at == [i \in 1..n |-> CHOOSE c \in cards : place[c] = i]
<1>4. \A i \in 1..n : at[i] \in cards /\ place[at[i]] = i
  BY <1>3
<1>5. at \in [1..n -> cards]
  BY <1>4
<1> HIDE DEF at
<1>6. at \in SetToSeqs(cards)
  <2>1. \A i, j \in 1..n : i # j => at[i] # at[j]
    BY <1>4
  <2> QED
    BY <1>5, <2>1 DEF SetToSeqs
<1>7. \A i, j \in DOMAIN at : i < j => Before(at[i], at[j])
  BY <1>1, <1>4, <1>5
<1> DEFINE s == Ordered(cards)
<1>8. s \in SetToSeqs(cards)
  BY <1>6, <1>7 DEF Ordered
<1> HIDE DEF s
<1>9. s \in [1..n -> cards] /\ \A i, j \in 1..n : i # j => s[i] # s[j]
  BY <1>8 DEF SetToSeqs
<1>10. s \in Seq(Cards) /\ Len(s) = n
  BY <1>1, <1>9
<1>11. \A c \in cards : \E i \in 1..n : s[i] = c
  <2>1. s \in Injection(1..n, cards)
    BY <1>9 DEF Injection, IsInjective
  <2>2. s \in Surjection(1..n, cards)
    BY <1>2, <2>1, FS_Injection
  <2> QED
    BY <2>2 DEF Surjection
<1> QED
  BY <1>1, <1>9, <1>10, <1>11 DEF s

(* A list with one card of every workspace shows all of them once. *)
LEMMA ListedOnce ==
  ASSUME NEW cards \in SUBSET Cards, OneEach(cards), IsFiniteSet(AliasesIn(cards))
  PROVE  /\ IsFiniteSet(cards) /\ Cardinality(cards) = Cardinality(AliasesIn(cards))
         /\ Lists(Ordered(cards), AliasesIn(cards))
<1> DEFINE f == [c \in cards |-> c.alias]
<1>1. f \in Injection(cards, AliasesIn(cards)) /\ f \in Surjection(cards, AliasesIn(cards))
  <2>1. f \in [cards -> AliasesIn(cards)] /\ IsInjective(f)
    BY DEF AliasesIn, OneEach, IsInjective
  <2>2. \A w \in AliasesIn(cards) : \E c \in cards : f[c] = w
    BY DEF AliasesIn
  <2> QED
    BY <2>1, <2>2 DEF Injection, Surjection
<1> HIDE DEF f
<1>2. IsFiniteSet(cards) /\ Cardinality(cards) = Cardinality(AliasesIn(cards))
  BY <1>1, FS_Injection
<1> DEFINE s == Ordered(cards)
           n == Cardinality(cards)
<1>3. /\ n \in Nat /\ s \in [1..n -> cards] /\ Len(s) = n
      /\ \A c \in cards : \E i \in 1..n : s[i] = c
  BY <1>2, OrderedIs
<1> HIDE DEF s
<1>4. {s[k].alias : k \in DOMAIN s} = AliasesIn(cards)
  BY <1>3 DEF AliasesIn
<1> QED
  BY <1>2, <1>3, <1>4 DEF Lists, s

(* The sample: whoever is heard, or is not heard in time, has its card then. *)
LEMMA SampleKeeps ==
  ASSUME OverviewType, SampleInv,
         AskPage \/ StartChild \/ TotalDeadline \/ WorkerFails \/ Restart
         \/ \E w \in Spaces : ChildEnds(w) \/ Change(w)
  PROVE  OverviewType' /\ SampleInv' /\ caller' = caller
<1> USE DEF OverviewType, SampleInv
<1>1. CASE AskPage
  <2>1. /\ sampler' = [at |-> "sampling", names |-> registry, pending |-> registry,
                       reading |-> {}, cards |-> {}]
        /\ ~caller.all /\ UNCHANGED caller /\ Unchanged
    BY <1>1 DEF AskPage, Resting
  <2>2. OverviewType'
    BY <2>1 DEF Unchanged
  <2>3. SampleInv'
    BY <2>1 DEF Unchanged, OneEach, AliasesIn
  <2> QED
    BY <2>1, <2>2, <2>3
<1>2. CASE StartChild
  <2> DEFINE w == CHOOSE p \in sampler.pending : \A q \in sampler.pending : p <= q
  <2>1. w \in sampler.pending
    <3>1. sampler.pending \in SUBSET Nat /\ sampler.pending # {}
      BY <1>2, ConstantsOfOverview DEF StartChild
    <3>2. \E p \in sampler.pending : \A q \in sampler.pending : p <= q
      BY <3>1, LeastOne
    <3> QED
      BY <3>2
  <2>2. /\ sampler.at = "sampling" /\ UNCHANGED caller /\ Unchanged
        /\ sampler' = [sampler EXCEPT !.pending = @ \ {w}, !.reading = @ \cup {w}]
    BY <1>2 DEF StartChild
  <2> HIDE DEF w
  <2> QED
    BY <2>1, <2>2 DEF Unchanged
<1>3. CASE TotalDeadline
  <2> DEFINE unheard == sampler.pending \cup sampler.reading
             late == {Late(w) : w \in unheard}
  <2>1. /\ sampler.at = "sampling" /\ UNCHANGED caller /\ Unchanged
        /\ sampler' = [sampler EXCEPT !.pending = {}, !.reading = {}, !.cards = @ \cup late]
    BY <1>3 DEF TotalDeadline
  <2>2. late \in SUBSET Cards /\ AliasesIn(late) = unheard /\ OneEach(late)
    <3>1. unheard \in SUBSET Spaces
      OBVIOUS
    <3> HIDE DEF unheard
    <3>2. \A w \in unheard : Late(w) \in Cards /\ Late(w).alias = w
      BY <3>1 DEF Late, Card, Cards, Shows
    <3>3. AliasesIn(late) = unheard
      BY <3>2 DEF AliasesIn
    <3> QED
      BY <3>2, <3>3 DEF OneEach
  <2> HIDE DEF late
  <2>3. /\ AliasesIn(sampler.cards \cup late) = AliasesIn(sampler.cards) \cup AliasesIn(late)
        /\ OneEach(sampler.cards \cup late)
    <3>1. \A c \in sampler.cards, d \in late : c.alias # d.alias
      <4>1. AliasesIn(sampler.cards) \cap AliasesIn(late) = {}
        BY <2>1, <2>2
      <4>2. /\ \A c \in sampler.cards : c.alias \in AliasesIn(sampler.cards)
            /\ \A d \in late : d.alias \in AliasesIn(late)
        BY DEF AliasesIn
      <4> QED
        BY <4>1, <4>2, Zenon
    <3> QED
      BY <2>1, <2>2, <3>1 DEF AliasesIn, OneEach
  <2> QED
    BY <2>1, <2>2, <2>3 DEF Unchanged
<1>4. CASE WorkerFails \/ Restart
  BY <1>4 DEF WorkerFails, Restart, Unchanged, Resting
<1>5. ASSUME NEW w \in Spaces, ChildEnds(w)
      PROVE  OverviewType' /\ SampleInv' /\ caller' = caller
  <2>1. PICK card \in {Card(w, shows) : shows \in Sampled(w)} \cup {Late(w)} :
          sampler' = [sampler EXCEPT !.reading = @ \ {w}, !.cards = @ \cup {card}]
    BY <1>5 DEF ChildEnds
  <2>2. sampler.at = "sampling" /\ w \in sampler.reading /\ UNCHANGED caller /\ Unchanged
    BY <1>5 DEF ChildEnds
  <2>3. card \in Cards /\ card.alias = w
    BY DEF Late, Card, Cards, Shows, Sampled
  <2>4. /\ AliasesIn(sampler.cards \cup {card}) = AliasesIn(sampler.cards) \cup {w}
        /\ OneEach(sampler.cards \cup {card})
    <3>1. \A c \in sampler.cards : c.alias # w
      BY <2>2 DEF AliasesIn
    <3> QED
      BY <2>2, <2>3, <3>1 DEF AliasesIn, OneEach
  <2>5. OverviewType'
    BY <2>1, <2>2, <2>3 DEF Unchanged
  <2>6. SampleInv'
    <3>1. /\ sampler'.pending = sampler.pending /\ sampler'.reading = sampler.reading \ {w}
          /\ sampler'.cards = sampler.cards \cup {card} /\ sampler'.names = sampler.names
      BY <2>1
    <3>2. AliasesIn(sampler'.cards) = AliasesIn(sampler.cards) \cup {w} /\ OneEach(sampler'.cards)
      BY <2>4, <3>1
    <3>3. SampleInv /\ caller'.all = caller.all
      BY <2>2
    <3> QED
      BY <2>2, <3>1, <3>2, <3>3 DEF AliasesIn, OneEach
  <2> QED
    BY <2>2, <2>5, <2>6
<1>6. ASSUME NEW w \in Spaces, Change(w)
      PROVE  OverviewType' /\ SampleInv' /\ caller' = caller
  <2>1. /\ epoch' = epoch /\ sampler' = sampler /\ caller' = caller
        /\ registry' \in SUBSET Spaces
    BY <1>6 DEF Change
  <2>2. content' \in [Spaces -> Shows]
    BY <1>6 DEF Change, Shows
  <2> QED
    BY <2>1, <2>2
<1> QED
  BY <1>1, <1>2, <1>3, <1>4, <1>5, <1>6

(* A sample is finite. *)
LEMMA SampleFinite ==
  ASSUME OverviewType, SampleInv, sampler.at = "sampling"
  PROVE  IsFiniteSet(sampler.cards)
<1>1. /\ OneEach(sampler.cards) /\ sampler.cards \in SUBSET Cards
      /\ AliasesIn(sampler.cards) \in SUBSET Spaces
  BY DEF SampleInv, OverviewType
<1>2. IsFiniteSet(AliasesIn(sampler.cards))
  BY <1>1, ConstantsOfOverview, FS_Subset
<1> QED
  BY <1>1, <1>2, ListedOnce

(* What a page is cut from, and where from. *)
LEMMA OverviewPageIs ==
  ASSUME OverviewType, SampleInv, sampler.at = "sampling",
         sampler.pending \cup sampler.reading = {},
         Offset \in Nat, Offset <= Cardinality(sampler.cards)
  PROVE  LET of == Ordered(sampler.cards)
         IN  /\ of \in Seq(Cards) /\ Lists(of, sampler.names)
             /\ OverviewPage \in Pages /\ OverviewPage.of = of /\ OverviewPage.names = sampler.names
             /\ OverviewPage.last \in Offset..Len(of)
             /\ OverviewPage.more <=> OverviewPage.last < Len(of)
             /\ OverviewPage.items = SubSeq(of, Offset + 1, OverviewPage.last)
<1> DEFINE of == Ordered(sampler.cards)
           m == Min({Offset + Limit, Len(of)})
<1>1. /\ OneEach(sampler.cards) /\ AliasesIn(sampler.cards) = sampler.names
      /\ sampler.cards \in SUBSET Cards /\ sampler.names \in SUBSET Spaces
  BY DEF SampleInv, OverviewType
<1>2. IsFiniteSet(sampler.names)
  BY <1>1, ConstantsOfOverview, FS_Subset
<1>3. /\ IsFiniteSet(sampler.cards) /\ Lists(of, sampler.names)
      /\ Cardinality(sampler.cards) = Cardinality(sampler.names)
  BY <1>1, <1>2, ListedOnce
<1>4. of \in Seq(Cards) /\ Len(of) = Cardinality(sampler.cards)
  BY <1>1, <1>3, OrderedIs
<1> HIDE DEF of
<1>5. m \in Offset..Len(of)
  <2>1. \E x \in {Offset + Limit, Len(of)} : \A y \in {Offset + Limit, Len(of)} : x <= y
    BY <1>4, ConstantsOfOverview
  <2>2. m \in {Offset + Limit, Len(of)} /\ m <= Len(of)
    BY <2>1 DEF Min
  <2> QED
    BY <1>4, <2>2, ConstantsOfOverview
<1> HIDE DEF m
<1>6. OverviewPage = [items |-> SubSeq(of, Offset + 1, m), last |-> m, more |-> m < Len(of),
              of |-> of, names |-> sampler.names]
  BY DEF OverviewPage, of, m
<1>7. SubSeq(of, Offset + 1, m) \in Seq(Cards)
  BY <1>4, <1>5
<1>8. OverviewPage \in Pages
  BY <1>1, <1>4, <1>5, <1>6, <1>7 DEF Pages
<1>9. /\ OverviewPage.of = of /\ OverviewPage.names = sampler.names
      /\ OverviewPage.last = m /\ OverviewPage.more = (m < Len(of))
      /\ OverviewPage.items = SubSeq(of, Offset + 1, m)
  BY <1>6
<1> QED
  BY <1>3, <1>4, <1>5, <1>8, <1>9 DEF of

(* Two pieces of a list that meet are one. *)
LEMMA PiecesMeet ==
  ASSUME NEW S, NEW s \in Seq(S), NEW m \in Nat, NEW n \in m..Len(s)
  PROVE  SubSeq(s, 1, m) \o SubSeq(s, m + 1, n) = SubSeq(s, 1, n)
<1> DEFINE a == SubSeq(s, 1, m)
           b == SubSeq(s, m + 1, n)
           c == SubSeq(s, 1, n)
<1>1. a \in Seq(S) /\ Len(a) = m /\ \A i \in 1..m : a[i] = s[i]
  OBVIOUS
<1>2. b \in Seq(S) /\ Len(b) = n - m /\ \A i \in 1..(n - m) : b[i] = s[m + i]
  OBVIOUS
<1>3. c \in Seq(S) /\ Len(c) = n /\ \A i \in 1..n : c[i] = s[i]
  OBVIOUS
<1> HIDE DEF a, b, c
<1>4. /\ a \o b \in Seq(S) /\ Len(a \o b) = n
      /\ \A i \in 1..n : (a \o b)[i] = IF i <= m THEN a[i] ELSE b[i - m]
  <2>1. n \in Nat /\ m <= n /\ m + (n - m) = n
    OBVIOUS
  <2>2. /\ a \o b \in Seq(S) /\ Len(a \o b) = Len(a) + Len(b)
        /\ \A i \in 1..(Len(a) + Len(b)) :
             (a \o b)[i] = IF i <= Len(a) THEN a[i] ELSE b[i - Len(a)]
    BY <1>1, <1>2, ConcatProperties
  <2>3. Len(a) + Len(b) = n
    BY <1>1, <1>2, <2>1
  <2> QED
    BY <1>1, <2>2, <2>3
<1>5. \A i \in 1..n : (a \o b)[i] = c[i]
  <2> SUFFICES ASSUME NEW i \in 1..n PROVE (a \o b)[i] = c[i]
    OBVIOUS
  <2>1. CASE i <= m
    BY <1>1, <1>3, <1>4, <2>1
  <2>2. CASE ~(i <= m)
    <3>1. i - m \in 1..(n - m) /\ m + (i - m) = i
      BY <2>2
    <3> QED
      BY <1>2, <1>3, <1>4, <2>2, <3>1
  <2> QED
    BY <2>1, <2>2
<1> QED
  <2>1. n \in Nat
    OBVIOUS
  <2>2. a \o b = c
    BY <1>3, <1>4, <1>5, <2>1
  <2> QED
    BY <2>2 DEF a, b, c

(* The items of the pages, with one page more. *)
LEMMA ItemsAppend ==
  ASSUME NEW pages \in Seq(Pages), NEW page \in Pages
  PROVE  /\ Items(pages) \in Seq(Seq(Cards))
         /\ FlattenSeq(Items(Append(pages, page))) = FlattenSeq(Items(pages)) \o page.items
<1> DEFINE more == Append(pages, page)
           n == Len(pages)
<1>1. /\ more \in Seq(Pages) /\ Len(more) = n + 1 /\ n \in Nat /\ more[n + 1] = page
      /\ \A i \in 1..n : more[i] = pages[i]
      /\ DOMAIN more = 1..(n + 1) /\ DOMAIN pages = 1..n
  OBVIOUS
<1>2. page.items \in Seq(Cards) /\ \A i \in 1..n : pages[i].items \in Seq(Cards)
  <2>1. \A p \in Pages : p.items \in Seq(Cards)
    BY DEF Pages
  <2>2. \A i \in 1..n : pages[i] \in Pages
    OBVIOUS
  <2> QED
    BY <2>1, <2>2
<1> HIDE DEF more, n
<1>3. Items(pages) \in Seq(Seq(Cards)) /\ Len(Items(pages)) = n
      /\ \A i \in 1..n : Items(pages)[i] = pages[i].items
  BY <1>1, <1>2 DEF Items
<1>4. Items(more) = Append(Items(pages), page.items)
  <2>1. Items(more) = [i \in 1..(n + 1) |-> more[i].items]
    BY <1>1 DEF Items
  <2>2. /\ Append(Items(pages), page.items) \in Seq(Seq(Cards))
        /\ Len(Append(Items(pages), page.items)) = n + 1
        /\ \A i \in 1..n : Append(Items(pages), page.items)[i] = pages[i].items
        /\ Append(Items(pages), page.items)[n + 1] = page.items
    BY <1>1, <1>2, <1>3
  <2>3. \A i \in 1..(n + 1) : i \in 1..n \/ i = n + 1
    BY <1>1
  <2>4. \A i \in 1..(n + 1) : more[i].items = Append(Items(pages), page.items)[i]
    BY <1>1, <2>2, <2>3
  <2>5. Items(more) \in Seq(Seq(Cards)) /\ Len(Items(more)) = n + 1
    BY <1>1, <1>2, <2>1, <2>3
  <2> QED
    BY <2>1, <2>2, <2>4, <2>5
<1> QED
  BY <1>2, <1>3, <1>4, FlatAppend DEF more

(* Answers.  A page that is given out goes on where the last one ended. *)
LEMMA AnswerKeeps ==
  ASSUME OverviewInv, AnswerPage
  PROVE  OverviewInv'
<1>1. /\ sampler.at = "sampling" /\ sampler.pending \cup sampler.reading = {}
      /\ sampler' = Resting /\ Unchanged /\ ~caller.all
  BY DEF AnswerPage, OverviewInv, SampleInv
<1>2. SampleInv'
  BY <1>1 DEF SampleInv, Resting
<1>3. ASSUME caller' \in [cursor : {NoPage} \cup Cursors, pages : Seq(Pages), all : BOOLEAN]
      PROVE  OverviewType'
  BY <1>1, <1>3 DEF OverviewInv, OverviewType, Unchanged, Resting
<1>4. CASE caller' = NewClient
  <2>1. ClientInv'
    BY <1>4 DEF ClientInv, NewClient
  <2>2. caller' \in [cursor : {NoPage} \cup Cursors, pages : Seq(Pages), all : BOOLEAN]
    BY <1>4 DEF NewClient
  <2> QED
    BY <1>2, <1>3, <2>1, <2>2 DEF OverviewInv
<1>5. CASE caller' # NewClient
  <2> DEFINE of == Ordered(sampler.cards)
             page == OverviewPage
             n == Len(caller.pages)
             q == caller.pages[n]
  <2>0. Offset \in Nat
    BY ConstantsOfOverview DEF OverviewInv, OverviewType, Offset, Cursors
  <2>1. /\ caller.cursor = NoPage \/ Accepted(caller.cursor, of)
        /\ Offset <= Cardinality(sampler.cards)
        /\ caller' = [cursor |-> IF page.more THEN Cursor(page.last, page.of) ELSE NoPage,
                      pages |-> Append(caller.pages, page), all |-> ~page.more]
    <3>1. Offset > Cardinality(sampler.cards) <=> ~(Offset <= Cardinality(sampler.cards))
      <4>1. IsFiniteSet(sampler.cards)
        BY <1>1, SampleFinite DEF OverviewInv
      <4> QED
        BY <4>1, <2>0, FS_CardinalityType
    <3> QED
      BY <1>5, <3>1 DEF AnswerPage
  <2>2. /\ caller.cursor \in {NoPage} \cup Cursors /\ caller.pages \in Seq(Pages)
        /\ n \in Nat /\ NoPage \notin Cursors /\ epoch \in Nat
    BY ConstantsOfOverview DEF OverviewInv, OverviewType
  <2>4. /\ of \in Seq(Cards) /\ Lists(of, sampler.names)
        /\ page \in Pages /\ page.of = of /\ page.names = sampler.names
        /\ page.last \in Offset..Len(of)
        /\ page.more <=> page.last < Len(of)
        /\ page.items = SubSeq(of, Offset + 1, page.last)
    BY <1>1, <2>1, <2>0, OverviewPageIs DEF OverviewInv
  <2> HIDE DEF of, page
  <2>5. /\ FlattenSeq(Items(caller.pages)) = SubSeq(of, 1, Offset)
        /\ \A i \in 1..n : caller.pages[i].of = of /\ Lists(of, caller.pages[i].names)
    <3>1. CASE caller.pages = <<>>
      <4>1. Offset = 0 /\ n = 0
        BY <3>1 DEF OverviewInv, ClientInv, Offset
      <4>2. Items(caller.pages) = <<>>
        BY <3>1 DEF Items
      <4>3. FlattenSeq(Items(caller.pages)) = <<>> /\ SubSeq(of, 1, 0) = <<>>
        <5>1. <<>> \in Seq(Seq(Cards))
          OBVIOUS
        <5>2. FlattenSeq(<<>>) = <<>>
          BY <5>1, FlatIs
        <5> QED
          BY <2>4, <4>2, <5>2
      <4> QED
        BY <4>1, <4>3
    <3>2. CASE caller.pages # <<>>
      <4>1. /\ \A i \in DOMAIN caller.pages :
                 caller.pages[i].of = q.of /\ Lists(q.of, caller.pages[i].names)
            /\ FlattenSeq(Items(caller.pages)) = SubSeq(q.of, 1, q.last)
            /\ caller.cursor \in Cursors
            /\ caller.cursor.offset = q.last /\ caller.cursor.of = q.of
        BY <1>1, <3>2 DEF OverviewInv, ClientInv
      <4>2. caller.cursor.of = of /\ Offset = caller.cursor.offset
        BY <2>1, <2>2, <4>1 DEF Accepted, Offset
      <4>3. DOMAIN caller.pages = 1..n
        BY <2>2
      <4> HIDE DEF n, q
      <4> QED
        BY <4>1, <4>2, <4>3
    <3> QED
      BY <3>1, <3>2
  <2> DEFINE more == Append(caller.pages, page)
  <2>6. /\ more \in Seq(Pages) /\ Len(more) = n + 1 /\ more[n + 1] = page /\ more # <<>>
        /\ DOMAIN more = 1..(n + 1) /\ \A i \in 1..n : more[i] = caller.pages[i]
    BY <2>2, <2>4
  <2>7. FlattenSeq(Items(more)) = SubSeq(of, 1, page.last)
    <3>1. FlattenSeq(Items(more)) = SubSeq(of, 1, Offset) \o SubSeq(of, Offset + 1, page.last)
      BY <2>2, <2>4, <2>5, ItemsAppend
    <3> QED
      BY <2>0, <2>4, <3>1, PiecesMeet
  <2> HIDE DEF more, n, q
  <2>8. \A i \in 1..(n + 1) : more[i].of = of /\ Lists(of, more[i].names)
    <3>1. \A i \in 1..(n + 1) : i \in 1..n \/ i = n + 1
      BY <2>2
    <3> QED
      BY <2>4, <2>5, <2>6, <3>1
  <2>9. page.last \in Nat /\ page.last \in 0..Len(of) /\ Len(of) \in Nat
        /\ (~page.more => page.last = Len(of)) /\ page.more \in BOOLEAN
    BY <2>0, <2>4 DEF Pages
  <2>10. page.more => /\ Cursor(page.last, page.of) \in Cursors
                      /\ Cursor(page.last, page.of).offset = page.last
                      /\ Cursor(page.last, page.of).of = of
    BY <2>2, <2>4, <2>9 DEF Cursor, Cursors
  <2>11. caller' \in [cursor : {NoPage} \cup Cursors, pages : Seq(Pages), all : BOOLEAN]
    BY <2>1, <2>6, <2>9, <2>10 DEF more
  <2>12. caller'.pages = more /\ caller'.all = ~page.more
         /\ caller'.cursor = IF page.more THEN Cursor(page.last, page.of) ELSE NoPage
    BY <2>1 DEF more
  <2>13. ClientInv'
    <3>1. caller'.pages[Len(caller'.pages)] = page /\ caller'.pages # <<>>
      BY <2>6, <2>12
    <3> QED
      BY <2>4, <2>6, <2>7, <2>8, <2>9, <2>10, <2>12, <3>1 DEF ClientInv
  <2> QED
    BY <1>2, <1>3, <2>11, <2>13 DEF OverviewInv
<1> QED
  BY <1>4, <1>5

(* No step of the sampler, the workspaces or the client breaks it. *)
LEMMA OverviewKeeps ==
  ASSUME OverviewInv, [OverviewNext]_overviewVars
  PROVE  OverviewInv'
<1>1. CASE AnswerPage
  BY <1>1, AnswerKeeps
<1>2. CASE UNCHANGED overviewVars
  BY <1>2 DEF OverviewInv, OverviewType, SampleInv, ClientInv, overviewVars
<1>3. CASE OverviewNext /\ ~AnswerPage
  <2>1. OverviewType' /\ SampleInv' /\ caller' = caller
    BY <1>3, SampleKeeps DEF OverviewNext, OverviewInv
  <2> QED
    BY <2>1 DEF OverviewInv, ClientInv
<1> QED
  BY <1>1, <1>2, <1>3

(* A client that has all pages was shown one list with every workspace in it, once,
   whatever changed while it asked for them (overview.py:390-433). *)
THEOREM PagesAreOfOne == OverviewSpec => []PagesAreOne
<1>1. OverviewInit => OverviewInv
  BY DEF OverviewInit, OverviewInv, OverviewType, SampleInv, ClientInv, Resting, NewClient, Shows
<1>2. OverviewInv /\ [OverviewNext]_overviewVars => OverviewInv'
  BY OverviewKeeps
<1>3. OverviewInv => PagesAreOne
  <2> SUFFICES ASSUME OverviewInv, caller.all PROVE PagesAreOne
    BY DEF PagesAreOne
  <2> DEFINE q == caller.pages[Len(caller.pages)]
  <2>1. /\ \A i \in DOMAIN caller.pages :
             caller.pages[i].of = q.of /\ Lists(q.of, caller.pages[i].names)
        /\ FlattenSeq(Items(caller.pages)) = SubSeq(q.of, 1, Len(q.of))
        /\ caller.pages # <<>>
    BY DEF OverviewInv, ClientInv
  <2>2. q \in Pages
    <3>1. caller.pages \in Seq(Pages)
      BY DEF OverviewInv, OverviewType
    <3> QED
      BY <2>1, <3>1
  <2>3. SubSeq(q.of, 1, Len(q.of)) = q.of
    BY <2>2 DEF Pages
  <2>4. FlattenSeq([i \in DOMAIN caller.pages |-> caller.pages[i].items]) = q.of
    BY <2>1, <2>3 DEF Items
  <2> HIDE DEF q
  <2> QED
    BY <2>1, <2>4 DEF PagesAreOne, Lists
<1> QED
  BY <1>1, <1>2, <1>3, PTL DEF OverviewSpec
=============================================================================
