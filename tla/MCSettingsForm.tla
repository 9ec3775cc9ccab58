--------------------------- MODULE MCSettingsForm ---------------------------
(* Instances of SettingsForm for TLC. *)
EXTENDS SettingsForm, TLC

\* Options, and values, are interchangeable.
FormSymmetry == Permutations(Keys) \cup Permutations(Values)
=============================================================================
