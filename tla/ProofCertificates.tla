-------------------------- MODULE ProofCertificates --------------------------
(***************************************************************************)
(* Proofs (src/dyro/proof): certificates rebuilt from a task's files and   *)
(* judged against what the workspace shows now, and the portable bundle    *)
(* that is judged elsewhere, against the heads its reader supplies.        *)
(*                                                                         *)
(* The module has no state.  A head is the set of edits it contains, so a  *)
(* commit is an ancestor of another when its set is a subset.              *)
(***************************************************************************)

EXTENDS Repositories   \* None: no recorded heads, no worktree, no review, no heads supplied

-----------------------------------------------------------------------------
(* Deriving: the proofs there are now                                       *)

\* A proof pins heads, or none; one that is not whole names what it misses.
Proof(kind, heads, whole) == [kind |-> kind, pinned |-> heads, whole |-> whole]

\* One as soon as there is a review or a receipt (a receipt is recorded with the heads).
ReviewProof(review, heads) ==
    {p \in {Proof("review", heads, review # None /\ heads # None)} :
        review # None \/ heads # None}

IntegrationProof(heads) == {p \in {Proof("integration", heads, TRUE)} : heads # None}

\* derive_task_proofs, for the two kinds that guard a merge.
Derived(review, heads) == ReviewProof(review, heads) \cup IntegrationProof(heads)

-----------------------------------------------------------------------------
(* Judging in the workspace                                                 *)

\* _from_predicate: what one predicate of the workspace decides.
FromPredicate(verdict) ==
    CASE verdict = "yes"     -> "live"
      [] verdict = "no"      -> "decayed"
      [] verdict = "unknown" -> "inconclusive"

\* _review_files_present: without them there is nothing to judge.
ReviewFiles(review, heads) == review # None /\ heads # None

\* _review_ok over _valid_review_acceptance: an accepted review of the last attempt,
\* and worktrees that are there, clean and at the recorded heads.  A worktree that
\* is gone makes the acceptance invalid, not unknown.
ReviewVerdict(proof, review, heads, tree, branch) ==
    IF ~proof.whole \/ ~ReviewFiles(review, heads) THEN "unknown"
    ELSE IF review = "PASS" /\ \A r \in Repos : tree[r] = {} /\ branch[r] = heads[r]
         THEN "yes" ELSE "no"

\* _integration_ok over _assert_dependency_integrated.
IntegrationVerdict(heads, line) ==
    IF heads = None THEN "unknown"
    ELSE IF \A r \in Repos : heads[r] \subseteq line[r] THEN "yes" ELSE "no"

\* decay: the kind says which predicate decides.
Decay(proof, reviewOk, integrationOk) ==
    FromPredicate(IF proof.kind = "review" THEN reviewOk ELSE integrationOk)

\* evaluate_proof: the predicates as the workspace answers them now.
Evaluated(proof, review, heads, tree, branch, line) ==
    Decay(proof, ReviewVerdict(proof, review, heads, tree, branch),
          IntegrationVerdict(heads, line))

-----------------------------------------------------------------------------
(* Judging elsewhere                                                        *)

\* export_bundle: what a proof that leaves the workspace keeps; not its verdict, nor
\* what it misses.
Exported(proof) == [kind |-> proof.kind, pinned |-> proof.pinned]

\* Mutant: the first repository that agrees decides.
BoundToAny(kind, pinned, current) ==
    \E r \in Repos : IF kind = "integration" THEN pinned[r] \subseteq current[r]
                     ELSE pinned[r] = current[r]

\* The loop of _decay_against_current_heads: an ancestor for integration, the very
\* head for every other kind.
BoundTo(kind, pinned, current) ==
    \A r \in Repos : IF kind = "integration" THEN pinned[r] \subseteq current[r]
                     ELSE pinned[r] = current[r]

\* _integrity_of: a bundled proof that pins no commit is inconclusive; without heads
\* to compare it with it is live (the reader's clone has every commit).
Integrity(proof, current) ==
    IF proof.pinned = None THEN "inconclusive"
    ELSE IF current = None \/ BoundTo(proof.kind, proof.pinned, current) THEN "live"
    ELSE "decayed"

\* verify_bundle: the verdicts on the proofs of a kind; a bundle without proofs has one
\* verdict of its own.
Verdicts(kind, proofs, current) ==
    IF proofs = {} THEN {"inconclusive"}
    ELSE {Integrity(Exported(p), current) : p \in {q \in proofs : q.kind = kind}}
=============================================================================
