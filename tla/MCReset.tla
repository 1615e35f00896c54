------------------------------ MODULE MCReset ------------------------------
(* Model-checking instances of CifxReset. *)
EXTENDS CifxReset, TLC

(* Callers are interchangeable. *)
CallerSymmetry == Permutations(Caller)
=============================================================================
