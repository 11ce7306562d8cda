----------------------------- MODULE TrustStore -----------------------------
(***************************************************************************)
(* The trust store (src/dyro/signing.py): per purpose a directory that     *)
(* binds key ids to public keys.  A binding is two files, the metadata     *)
(* (whose key, from when, until when) and the key itself; a third one      *)
(* revokes it; all are created and never changed or removed.  Keys of the  *)
(* purposes that deliver work must not be shared among them, so trusting   *)
(* one takes a lock; trusting others, revoking and verifying takes none.   *)
(* A command may die between two files.                                    *)
(***************************************************************************)
EXTENDS Integers, FiniteSets

CONSTANTS
  Purposes, Delivery,  \* TRUST_PURPOSES, DELIVERY_TRUST_PURPOSES
  Ids,          \* key ids
  PublicKeys,   \* keys
  Nil,          \* no file, nobody
  Commands, Verifiers,  \* processes
  Binding,      \* what an id may be bound to: a key, for the days of a term
  LastDay       \* bound: the clock stops here

ASSUME TrustAssumption ==
  /\ Delivery \subseteq Purposes
  /\ Nil \notin PublicKeys \cup Commands
  /\ Nil \notin Binding \cup Nat
  /\ Binding \subseteq [key : PublicKeys, from : Nat, until : Nat]
  /\ LastDay \in Nat

VARIABLES
  meta,      \* [Slots -> Nil or what the key is trusted for]
  pem,       \* [Slots -> Nil or the public key]
  revoked,   \* [Slots -> Nil or the time of the revocation]
  guard,     \* delivery.lock
  command,   \* the commands that trust and revoke
  verifier,  \* the commands that verify a signature
  day        \* the clock

trustVars == <<meta, pem, revoked, guard, command, verifier, day>>

Slots == Purposes \X Ids
AtEase == [pc |-> "idle", slot |-> Nil, of |-> Nil, since |-> 0]
Unasked == [pc |-> "idle", slot |-> Nil, by |-> Nil, at |-> Nil, ignore |-> FALSE,
            was |-> FALSE, began |-> 0]

TrustInit ==
  /\ meta = [s \in Slots |-> Nil] /\ pem = meta /\ revoked = meta
  /\ guard = Nil
  /\ command = [c \in Commands |-> AtEase]
  /\ verifier = [v \in Verifiers |-> Unasked]
  /\ day = 0

On(c, pc) == command[c].pc = pc
GoOn(c, pc) == command' = [command EXCEPT ![c].pc = pc]
\* The command is over, done or refused.
Over(c) ==
  /\ command' = [command EXCEPT ![c] = AtEase]
  /\ guard' = IF guard = c THEN Nil ELSE guard
Files == UNCHANGED <<meta, pem, revoked>>
Others == UNCHANGED <<verifier, day>>

-----------------------------------------------------------------------------
(* trust_public_key *)

Trust(c, slot, of) ==
  /\ On(c, "idle")
  /\ command' = [command EXCEPT ![c] =
       [pc |-> IF slot[1] \in Delivery THEN "lock" ELSE "look", slot |-> slot, of |-> of,
        since |-> 0]]
  /\ Files /\ UNCHANGED guard /\ Others

\* MUTANT for SeparatedKeys: the directories are looked through without the lock.
EnterUnlocked(c) == guard' = guard

Enter(c) == guard = Nil /\ guard' = c

\* The delivery purposes, other than the one, that the key is trusted for.
Used(purpose, key) ==
  {s \in Slots : s[1] \in Delivery \ {purpose} /\ pem[s] = key}

\* Under the lock: the key must not deliver work under another purpose.
Separate(c) ==
  /\ On(c, "lock")
  /\ IF Used(command[c].slot[1], command[c].of.key) = {}
       THEN Enter(c) /\ GoOn(c, "look")
       ELSE guard = Nil /\ Over(c)
  /\ Files /\ Others

\* A revoked id is never bound again; one that is bound stays as it is, whether
\* or not the audit log was told.
Look(c) ==
  /\ On(c, "look")
  /\ IF revoked[command[c].slot] = Nil /\ pem[command[c].slot] = Nil
       THEN GoOn(c, "meta") /\ UNCHANGED guard
       ELSE Over(c)
  /\ Files /\ Others

\* Metadata that is there must say the same.
LookMeta(c) ==
  LET slot == command[c].slot
  IN /\ On(c, "meta")
     /\ CASE meta[slot] = Nil            -> GoOn(c, "put meta") /\ UNCHANGED guard
          [] meta[slot] = command[c].of  -> GoOn(c, "put key") /\ UNCHANGED guard
          [] OTHER                       -> Over(c)
     /\ Files /\ Others

\* Creating a file fails where one has appeared.
PutMeta(c) ==
  LET slot == command[c].slot
  IN /\ On(c, "put meta")
     /\ IF meta[slot] = Nil
          THEN /\ meta' = [meta EXCEPT ![slot] = command[c].of]
               /\ GoOn(c, "put key") /\ UNCHANGED guard
          ELSE Over(c) /\ UNCHANGED meta
     /\ UNCHANGED <<pem, revoked>> /\ Others

PutKey(c) ==
  LET slot == command[c].slot
  IN /\ On(c, "put key")
     /\ pem' = IF pem[slot] = Nil THEN [pem EXCEPT ![slot] = command[c].of.key] ELSE pem
     /\ Over(c)
     /\ UNCHANGED <<meta, revoked>> /\ Others

-----------------------------------------------------------------------------
(* revoke_public_key; it holds no lock.  The time it writes is the time it  *)
(* began.                                                                   *)

Revoke(c, slot) ==
  /\ On(c, "idle") /\ pem[slot] # Nil
  /\ command' = [command EXCEPT ![c] =
       [pc |-> "revoke", slot |-> slot, of |-> Nil, since |-> day]]
  /\ Files /\ UNCHANGED guard /\ Others

PutRevocation(c) ==
  LET slot == command[c].slot
  IN /\ On(c, "revoke")
     /\ IF revoked[slot] = Nil
          THEN revoked' = [revoked EXCEPT ![slot] = command[c].since]
          ELSE UNCHANGED revoked
     /\ Over(c)
     /\ UNCHANGED <<meta, pem>> /\ Others

DieTrusting(c) ==
  /\ command[c].pc # "idle" /\ Over(c)
  /\ Files /\ Others

-----------------------------------------------------------------------------
(* verify_record: the key, then the revocation, then the metadata.          *)

KeptByAll == Files /\ UNCHANGED <<guard, command, day>>

\* The key, with which the signature is checked, for now or for a past day that the
\* record names; witnessed records may ask in spite of a revocation.
Verify(v, slot, at, ignore) ==
  /\ verifier[v].pc = "idle" /\ (ignore => at # Nil)
  /\ pem[slot] # Nil
  /\ verifier' = [verifier EXCEPT ![v] =
       [pc |-> "revocation", slot |-> slot, by |-> pem[slot], at |-> at, ignore |-> ignore,
        was |-> revoked[slot] # Nil, began |-> day]]
  /\ KeptByAll

Passes(v, pc, test) ==
  verifier' = [verifier EXCEPT ![v] = IF test THEN [@ EXCEPT !.pc = pc] ELSE Unasked]

\* A record of a past day outlives a later revocation.
ReadRevocation(v) ==
  LET since == revoked[verifier[v].slot]
      at == verifier[v].at
  IN /\ verifier[v].pc = "revocation"
     /\ Passes(v, "meta", since = Nil \/ verifier[v].ignore
                           \/ IF at = Nil THEN FALSE ELSE at < since)
     /\ KeptByAll

\* not_before and not_after
Within(what, when) == what.from <= when /\ when <= what.until

\* Without metadata (stores of earlier versions have none) nothing limits the key.
ReadMeta(v) ==
  LET what == meta[verifier[v].slot]
      when == IF verifier[v].at = Nil THEN day ELSE verifier[v].at
  IN /\ verifier[v].pc = "meta"
     /\ Passes(v, "accepted", what # Nil => Within(what, when) /\ what.key = verifier[v].by)
     /\ KeptByAll

Forget(v) ==
  /\ verifier[v].pc = "accepted"
  /\ verifier' = [verifier EXCEPT ![v] = Unasked]
  /\ KeptByAll

Dawn ==
  /\ day < LastDay /\ day' = day + 1
  /\ Files /\ UNCHANGED <<guard, command, verifier>>

TrustNext ==
  \/ \E c \in Commands :
       \/ \E slot \in Slots, of \in Binding : Trust(c, slot, of)
       \/ \E slot \in Slots : Revoke(c, slot)
       \/ Separate(c) \/ Look(c) \/ LookMeta(c) \/ PutMeta(c) \/ PutKey(c)
       \/ PutRevocation(c) \/ DieTrusting(c)
  \/ \E v \in Verifiers :
       \/ \E slot \in Slots, at \in {Nil} \cup 0 .. day - 1, ignore \in BOOLEAN :
            Verify(v, slot, at, ignore)
       \/ ReadRevocation(v) \/ ReadMeta(v) \/ Forget(v)
  \/ Dawn

TrustSpec == TrustInit /\ [][TrustNext]_trustVars
-----------------------------------------------------------------------------
(***************************************************************************)
(* However trusts, revocations and deaths interleave, no key delivers work *)
(* under two purposes, so that nobody approves with one key what it        *)
(* executed (signing.py:440-458, 633-647).                                 *)
(***************************************************************************)
SeparatedKeys ==
  \A s, r \in Slots : pem[s] # Nil /\ pem[s] = pem[r] /\ {s[1], r[1]} \subseteq Delivery
                      => s[1] = r[1]

\* Trusted on the day a record names, or on one of the days of a verification.
Timely(what, at, began, now) ==
  IF at = Nil THEN \E when \in began .. now : Within(what, when) ELSE Within(what, at)

(***************************************************************************)
(* A signature is accepted only from the key that its id was bound to,     *)
(* within the term it was trusted for - the day that the record names, or  *)
(* a day of the verification when it asks for now -, and, asked for now,   *)
(* never after a revocation that was written when the verification began;  *)
(* although the three files are read one after the other while others      *)
(* write them and days pass (signing.py:179-227, 345-402).                 *)
(***************************************************************************)
VerifiedIsTrusted ==
  \A v \in Verifiers : verifier[v].pc = "accepted" =>
    LET slot == verifier[v].slot
    IN /\ meta[slot] # Nil /\ pem[slot] = verifier[v].by
       /\ meta[slot].key = verifier[v].by
       /\ Timely(meta[slot], verifier[v].at, verifier[v].began, day)
       /\ verifier[v].was /\ ~verifier[v].ignore =>
            verifier[v].at # Nil /\ verifier[v].at < revoked[slot]

\* Keys stay separated, and only what they are trusted for verifies.
TrustHolds == SeparatedKeys /\ VerifiedIsTrusted

=============================================================================
