--------------------------- MODULE MCSystemTask ---------------------------
(* Instances of SystemTask for TLC. *)
EXTENDS SystemTask, TLC

\* Runner incarnations are interchangeable.
RunnerSymmetry == Permutations(Runners)
=============================================================================
