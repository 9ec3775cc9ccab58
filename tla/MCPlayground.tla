---------------------------- MODULE MCPlayground ----------------------------
(* Instances of Playground for TLC. *)
EXTENDS Playground

\* A stream sends "aab": its first two letters are alike.
FirstTwoAlike == [p \in Pieces |-> IF p = 2 THEN 1 ELSE p]
=============================================================================
