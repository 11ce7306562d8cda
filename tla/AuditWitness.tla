----------------------------- MODULE AuditWitness -----------------------------
(***************************************************************************)
(* Remote anchoring of the trust audit log: `dyro key audit-sync` of one   *)
(* or more copies of a workspace (audit_remote.py) against one witness     *)
(* (witness.py).                                                           *)
(*                                                                         *)
(* The head of the hash chain over a log stands for the log: a head is the *)
(* sequence of the events it was computed from, and a batch from one head  *)
(* to another carries the events between them.  Batches that repeat the    *)
(* same events still differ in their random request id.  Signatures bind   *)
(* what they sign; the export key, endpoint and workspace id never change. *)
(* The clocks and the revocation of keys are left out: a receipt is never  *)
(* refused for its time.                                                   *)
(***************************************************************************)
EXTENDS Naturals, SequencesExt

CONSTANTS
  Clients,      \* copies of the workspace: clones, or backups that are restored
  Events,       \* events of the trust audit log
  Keys,         \* receipt keys
  Recovery,     \* recovery keys
  NoKey, NoBatch, NoJob, Nobody,
  Configs,      \* key configurations a witness may be restarted with
  FirstConfig,  \* the one it is started with
  MaxLog,       \* bound: events in a log
  MaxRequests,  \* bound: batches ever built
  MaxRotations, \* bound: restarts of the witness with another configuration
  MaxRestores   \* bound: copies made and logs cut

ASSUME KeysAssumption ==
  /\ Keys \cap Recovery = {} /\ NoKey \notin Keys \cup Recovery
  /\ Configs \subseteq [key : Keys, by : Keys \cup Recovery \cup {NoKey}]
  /\ FirstConfig \in Configs
  /\ MaxLog \in Nat /\ MaxRequests \in Nat /\ MaxRotations \in Nat /\ MaxRestores \in Nat

Heads == UNION {[1..n -> Events] : n \in 0..MaxLog}
Batch == [id : 1..MaxRequests, prev : Heads, head : Heads, key : Keys,
          epoch : Nat, recovery : Recovery \cup {NoKey}]
ASSUME NullAssumption ==
  NoBatch \notin Batch /\ NoJob \notin Batch /\ Nobody \notin Clients

VARIABLES
  log,         \* [Clients -> Heads]: the trust audit log of each copy
  state,       \* [Clients -> the state file for this witness]
  pc,          \* [Clients -> {"idle", "wait", "answered"}]: an audit-sync under its lock
  wire,        \* batches posted: the witness may read any of them, at any time, again
  records,     \* the records written by the witness: receipts with their batches
  checkpoint,  \* the checkpoint of the witness
  job,         \* the batch whose record is written and whose checkpoint is not
  config,      \* the keys the witness was started with
  live,        \* the copies in use
  requests, rotations, restores

client == <<log, state, pc, wire, live, requests, restores>>
witness == <<records, checkpoint, job, config, rotations>>
vars == <<client, witness>>

(* key = NoKey: there is no state file.  confirmed: a receipt is on file. *)
Blank == [head |-> <<>>, key |-> NoKey, epoch |-> 1, recovery |-> NoKey,
          confirmed |-> FALSE, pending |-> NoBatch]

Init ==
  /\ live = {CHOOSE c \in Clients : TRUE}
  /\ log = [c \in Clients |-> <<>>]
  /\ state = [c \in Clients |-> Blank]
  /\ pc = [c \in Clients |-> "idle"]
  /\ wire = {} /\ records = {} /\ job = NoJob
  /\ checkpoint = [head |-> <<>>, key |-> NoKey, epoch |-> 1, recovery |-> NoKey]
  /\ config = FirstConfig
  /\ requests = 0 /\ rotations = 0 /\ restores = 0

-----------------------------------------------------------------------------
(* The client *)

(* An epoch is one configured receipt key of the witness. *)
NextEpoch(at, k) ==
  IF at.key # NoKey /\ at.key # k THEN at.epoch + 1 ELSE at.epoch

(* A trust operation appends its event; it does not take the audit lock. *)
AppendEvent(c, e) ==
  /\ c \in live /\ Len(log[c]) < MaxLog
  /\ log' = [log EXCEPT ![c] = Append(@, e)]
  /\ UNCHANGED <<state, pc, wire, live, requests, restores, witness>>

(* The log still begins with what the head was computed from. *)
LocalHistory(c, head) == IsPrefix(head, log[c])

BuildBatch(c, k, r) ==
  [id |-> requests + 1, prev |-> state[c].head, head |-> log[c], key |-> k,
   epoch |-> NextEpoch(state[c], k), recovery |-> r]

(* A pending batch is posted again only if it is what would be asked for now. *)
PendingValid(c, k, r) ==
  LET s == state[c]  b == state[c].pending
  IN  /\ b.key = k /\ b.recovery = r /\ b.epoch = NextEpoch(s, k)
      /\ b.prev = s.head /\ LocalHistory(c, b.head)

(* audit-sync for receipt key k and recovery key r (NoKey: none given), up to
   the post.  A batch on the wire need never arrive, so a death between the
   write of the state file and the post is no case of its own.  A refusal leaves
   everything as it was and is no step. *)
Sync(c, k, r) ==
  LET s == state[c]
      asked == IF r = NoKey THEN s.recovery ELSE r
  IN  /\ c \in live /\ pc[c] = "idle"
      /\ s.key # NoKey => s.recovery = asked
      /\ LocalHistory(c, s.head)
      /\ \/ /\ s.pending # NoBatch /\ PendingValid(c, k, asked)
            /\ UNCHANGED <<state, requests>>
         \/ /\ s.pending = NoBatch /\ requests < MaxRequests
            /\ state' = [state EXCEPT ![c].pending = BuildBatch(c, k, asked),
                                      ![c].key = IF s.key = NoKey THEN k ELSE @,
                                      ![c].recovery = asked]
            /\ requests' = requests + 1
      /\ wire' = wire \cup {state'[c].pending}
      /\ pc' = [pc EXCEPT ![c] = "wait"]
      /\ UNCHANGED <<log, live, restores, witness>>

(* A transition is signed by the last key or by the recovery key. *)
TransitionValid(s, g) ==
  g.prev = s.key /\ g.by \in {s.key} \cup ({s.recovery} \ {NoKey})

(* A receipt of another key than the last one needs a transition. *)
ReceiptValid(s, g) ==
  g.batch = s.pending /\ (s.key # g.batch.key => TransitionValid(s, g))

Recorded(b) == {g \in records : g.batch = b}

(* The response is the receipt that the witness recorded for the batch. *)
Receive(c) ==
  LET b == state[c].pending
  IN  /\ pc[c] = "answered"
      /\ \E g \in Recorded(b) : ReceiptValid(state[c], g)
      /\ state' = [state EXCEPT ![c] =
            [head |-> b.head, key |-> b.key, epoch |-> b.epoch,
             recovery |-> b.recovery, confirmed |-> TRUE, pending |-> NoBatch]]
      /\ pc' = [pc EXCEPT ![c] = "idle"]
      /\ UNCHANGED <<log, wire, live, requests, restores, witness>>

(* The connection fails or times out, the witness refuses, the receipt is not
   valid, or the process dies: the pending batch stays. *)
GiveUp(c) ==
  /\ pc[c] # "idle"
  /\ pc' = [pc EXCEPT ![c] = "idle"]
  /\ UNCHANGED <<log, state, wire, live, requests, restores, witness>>

(* c is replaced by a copy of d: a clone, or a backup restored, or, when d was
   never used, a new workspace that takes the old one's place. *)
Copy(c, d) ==
  /\ c # d /\ pc[c] = "idle" /\ restores < MaxRestores
  /\ log' = [log EXCEPT ![c] = log[d]]
  /\ state' = [state EXCEPT ![c] = state[d]]
  /\ live' = live \cup {c}
  /\ restores' = restores + 1
  /\ UNCHANGED <<pc, wire, requests, witness>>

(* The log is cut, by hand or by a restored file; later events make it a fork. *)
Rollback(c, n) ==
  /\ n < Len(log[c]) /\ restores < MaxRestores
  /\ log' = [log EXCEPT ![c] = SubSeq(@, 1, n)]
  /\ restores' = restores + 1
  /\ UNCHANGED <<state, pc, wire, live, requests, witness>>

-----------------------------------------------------------------------------
(* The witness.  Its lock is held from the look at the records to the write of
   the checkpoint: no other request is handled while job is set. *)

(* Without a checkpoint the key is the configured one. *)
Checkpoint ==
  IF checkpoint.key = NoKey THEN [checkpoint EXCEPT !.key = config.key] ELSE checkpoint

Rotating(b) == b.key # Checkpoint.key

(* The batch starts where the checkpoint ends; anything else is a fork. *)
Continues(b) == b.prev = Checkpoint.head

(* _next_state accepts the keys of the batch. *)
KeysFit(b) ==
  /\ b.key = config.key
  /\ b.epoch = NextEpoch(Checkpoint, b.key)
  /\ Checkpoint.recovery # NoKey => b.recovery = Checkpoint.recovery
  /\ Rotating(b) =>
       \/ config.by \in Keys /\ config.by = Checkpoint.key
       \/ config.by \in Recovery /\ config.by = Checkpoint.recovery

Receipt(b) ==
  [batch |-> b,
   prev |-> IF Rotating(b) THEN Checkpoint.key ELSE NoKey,
   by |-> IF Rotating(b) THEN config.by ELSE NoKey]

After(b) == [head |-> b.head, key |-> b.key, epoch |-> b.epoch, recovery |-> b.recovery]

(* mutant: any stored receipt is handed out *)
ReceiptMatchesAny(g) == g \in records

(* A stored receipt may be handed out again while it is the durable checkpoint. *)
ReceiptMatches(g) == After(g.batch) = Checkpoint

(* What is stored is what would be signed now. *)
StoredMatches(g) == Rotating(g.batch) => g.by = config.by

(* Who waits for the answer to b; Nobody if the request is late or a duplicate. *)
Waiting(b) ==
  {c \in Clients : pc[c] = "wait" /\ state[c].pending = b} \cup {Nobody}
Respond(b, to) ==
  /\ to \in Waiting(b)
  /\ pc' = IF to = Nobody THEN pc ELSE [pc EXCEPT ![to] = "answered"]

AcceptCached(b, to) ==
  /\ job = NoJob
  /\ \E g \in Recorded(b) : ReceiptMatches(g)
  /\ Respond(b, to)
  /\ UNCHANGED <<log, state, wire, live, requests, restores, witness>>

AcceptRecord(b) ==
  /\ job = NoJob
  /\ Recorded(b) = {} /\ Continues(b) /\ KeysFit(b)
  /\ records' = records \cup {Receipt(b)}
  /\ job' = b
  /\ UNCHANGED <<client, checkpoint, config, rotations>>

AcceptCheckpoint(to) ==
  /\ job # NoJob
  /\ checkpoint' = After(job)
  /\ Respond(job, to)
  /\ job' = NoJob
  /\ UNCHANGED <<log, state, wire, live, requests, restores, records, config, rotations>>

(* The witness died after it wrote the record: the same batch again completes it. *)
AcceptRecover(b, to) ==
  /\ job = NoJob
  /\ \E g \in Recorded(b) :
       ~ReceiptMatches(g) /\ Continues(b) /\ KeysFit(b) /\ StoredMatches(g)
  /\ checkpoint' = After(b)
  /\ Respond(b, to)
  /\ UNCHANGED <<log, state, wire, live, requests, restores, records, job, config, rotations>>

WitnessCrash ==
  /\ job # NoJob
  /\ job' = NoJob
  /\ UNCHANGED <<client, records, checkpoint, config, rotations>>

Configure(cfg) ==
  /\ job = NoJob /\ cfg # config /\ rotations < MaxRotations
  /\ config' = cfg
  /\ rotations' = rotations + 1
  /\ UNCHANGED <<client, records, checkpoint, job>>

-----------------------------------------------------------------------------
Next ==
  \/ \E c \in Clients :
       \/ \E e \in Events : AppendEvent(c, e)
       \/ \E k \in Keys, r \in Recovery \cup {NoKey} : Sync(c, k, r)
       \/ Receive(c) \/ GiveUp(c)
       \/ \E d \in Clients : Copy(c, d)
       \/ \E n \in 0..MaxLog : Rollback(c, n)
  \/ \E b \in wire :
       \/ AcceptRecord(b)
       \/ \E to \in Waiting(b) : AcceptCached(b, to) \/ AcceptRecover(b, to)
  \/ \E to \in Clients \cup {Nobody} : AcceptCheckpoint(to)
  \/ WitnessCrash
  \/ \E cfg \in Configs : Configure(cfg)

Spec == Init /\ [][Next]_vars

-----------------------------------------------------------------------------
(* What a client holds confirmed, or is about to, the durable checkpoint of the
   witness contains: across lost and late requests, retries, clones, restored
   backups, cut logs and a witness that dies between record and checkpoint, no
   two copies ever hold receipts for two branches of the log. *)
ConfirmedIsWitnessed ==
  /\ \A c \in Clients : IsPrefix(state[c].head, checkpoint.head)
  /\ \A c \in Clients : pc[c] = "answered" => IsPrefix(state[c].pending.head, checkpoint.head)

(* Types. *)
TypeOK ==
  /\ log \in [Clients -> Heads]
  /\ state \in [Clients ->
       [head : Heads, key : Keys \cup {NoKey}, epoch : Nat,
        recovery : Recovery \cup {NoKey}, confirmed : BOOLEAN,
        pending : Batch \cup {NoBatch}]]
  /\ pc \in [Clients -> {"idle", "wait", "answered"}]
  /\ records \subseteq [batch : Batch, prev : Keys \cup {NoKey},
                        by : Keys \cup Recovery \cup {NoKey}]
  /\ wire \subseteq Batch /\ live \subseteq Clients
  /\ checkpoint \in [head : Heads, key : Keys \cup {NoKey}, epoch : Nat,
                     recovery : Recovery \cup {NoKey}]
  /\ job # NoJob => job \in wire /\ Recorded(job) # {}
  /\ config \in Configs
  /\ requests \in 0..MaxRequests /\ rotations \in 0..MaxRotations
  /\ restores \in 0..MaxRestores
=============================================================================
