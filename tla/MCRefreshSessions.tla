------------------------- MODULE MCRefreshSessions -------------------------
(***************************************************************************)
(* Finite instances of RefreshSessions for TLC. Requests and users are     *)
(* interchangeable, and so are the values a uuid4 may take; requests that  *)
(* may reset a password are not interchangeable with the others.           *)
(***************************************************************************)
EXTENDS RefreshRefinement, TLC

Symmetry == Permutations(Jti) \cup Permutations(ResetProc)
              \cup Permutations(Proc \ ResetProc)
=============================================================================
