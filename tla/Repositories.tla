---------------------------- MODULE Repositories ----------------------------
(***************************************************************************)
(* What the modules about lines, merges and task worktrees share: the      *)
(* repositories dyro.toml configures (of a line, and of its tasks, which   *)
(* use all of them), their order in the manifests, and the value that      *)
(* stands for what is missing.                                             *)
(***************************************************************************)
EXTENDS Sequences

CONSTANTS
    Repos,
    Order,         \* the repositories in the order of the manifests
    None

\* dyro.toml names at least one repository, and each once (the keys of a table; a
\* task that repeats one is refused).
ASSUME OrderAssumption ==
    /\ Order \in Seq(Repos) \ {<<>>} /\ {Order[k] : k \in DOMAIN Order} = Repos
    /\ \A j, k \in DOMAIN Order : Order[j] = Order[k] => j = k
=============================================================================
