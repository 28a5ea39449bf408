---------------------------- MODULE MCRateLimit ----------------------------
(***************************************************************************)
(* Finite instances of RateLimit for TLC: requests, IPs and emails are     *)
(* each interchangeable.                                                   *)
(***************************************************************************)
EXTENDS RateLimit, TLC

Symmetry == Permutations(Proc) \cup Permutations(Ip) \cup Permutations(Email)
=============================================================================
