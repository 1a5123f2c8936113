----------------------------- MODULE MCLauncher -----------------------------
(* Launcher with interchangeable instances, for the safety run.              *)
EXTENDS Launcher, TLC

Symmetry == Permutations(Instances)
=============================================================================
