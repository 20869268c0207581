---------------------------- MODULE MCCollector ----------------------------
(* Collector on a heap of three blocks: MCCollector.cfg checks the invariants  *)
(* Collector_proofs proves, MCCollectorLive.cfg that garbage is collected.     *)
EXTENDS Collector, TLC

CONSTANT MaxRef      \* counts grow without bound: a swept block leaves those it points to
Bound == \A b \in Block : ref[b] <= MaxRef
Symmetry == Permutations(Root)

=============================================================================
