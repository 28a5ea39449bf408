----------------------------- MODULE MCOtpCodes -----------------------------
(***************************************************************************)
(* Finite instances of OtpCodes for TLC: requests, emails and uuid4 values *)
(* are each interchangeable.                                               *)
(***************************************************************************)
EXTENDS OtpRefinement, TLC

Symmetry == Permutations(Proc) \cup Permutations(Email) \cup Permutations(Id)
=============================================================================
