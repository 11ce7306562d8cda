------------------------------ MODULE MCRecords ------------------------------
(***************************************************************************)
(* The records that others are to believe: the audit batches a witness     *)
(* signs, the keys that signatures are checked with, and the evidence of   *)
(* external runs.  They share no file and no lock, so a behaviour          *)
(* exercises one of them and the states of the parts add up.               *)
(***************************************************************************)
EXTENDS AuditWitness, TrustStore, EvidenceStore, TLC

CONSTANTS k1, k2, r1, k, l

\* A key for the first day and one for the second.
MCBinding == {[key |-> k, from |-> 0, until |-> 0], [key |-> l, from |-> 1, until |-> 1]}

VARIABLE part  \* what the behaviour exercises

MCFirst == [key |-> k1, by |-> NoKey]
\* The second key signed in by the first, or by the recovery key.
MCConfigs == {MCFirst, [key |-> k2, by |-> k1], [key |-> k2, by |-> r1]}

RecordsInit ==
  /\ part \in {"audit", "trust", "evidence"}
  /\ Init /\ TrustInit /\ EvidenceInit

RecordsNext ==
  \/ part = "audit" /\ Next /\ UNCHANGED <<trustVars, evidenceVars, part>>
  \/ part = "trust" /\ TrustNext /\ UNCHANGED <<vars, evidenceVars, part>>
  \/ part = "evidence" /\ EvidenceNext /\ UNCHANGED <<vars, trustVars, part>>

RecordsSpec ==
  RecordsInit /\ [][RecordsNext]_<<vars, trustVars, evidenceVars, part>>

\* Nothing orders the commands.
Symmetric == Permutations(Commands)
=============================================================================
