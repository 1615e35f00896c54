----------------------------- MODULE MCHostCos -----------------------------
(* Model-checking instances of CifxHostCos. *)
EXTENDS CifxHostCos, TLC

(* Threads are interchangeable. *)
ThreadSymmetry == Permutations(Thread)
=============================================================================
