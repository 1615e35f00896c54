----------------------------- MODULE MCMailbox -----------------------------
(* Model-checking instances of CifxMailbox. *)
EXTENDS CifxMailbox, TLC

(* Threads are interchangeable in the safety runs. *)
ThreadSymmetry == Permutations(Thread)
=============================================================================
