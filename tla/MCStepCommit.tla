---------------------------- MODULE MCStepCommit ----------------------------
(* Small instances of StepCommit: paths, types and readers are model values *)
(* that the specification only compares, so permuting them is a symmetry.   *)
EXTENDS StepCommit, TLC

Symmetric == Permutations(Paths) \cup Permutations(Types) \cup Permutations(Readers)

\* Values a .cfg cannot spell.
NoBounds   == {}
KeepFew    == {<<1, 0>>, <<2, 1>>}
=============================================================================
