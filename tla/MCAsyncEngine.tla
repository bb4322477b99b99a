---------------------------- MODULE MCAsyncEngine ----------------------------
(* Instances of AsyncEngine for TLC. *)
EXTENDS AsyncEngine, TLC

MCSizes == {2}
Symmetry == Permutations(Stream)
=============================================================================
