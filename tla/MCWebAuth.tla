----------------------------- MODULE MCWebAuth -----------------------------
(* Instances of WebAuth for TLC. *)
EXTENDS WebAuth, TLC

\* Tabs are interchangeable.
TabSymmetry == Permutations(Tabs)
=============================================================================
