---------------------------- MODULE MCMigrations ----------------------------
(***************************************************************************)
(* Finite instances of Migrations for TLC.                                 *)
(***************************************************************************)
EXTENDS Migrations, TLC

Symmetry == Permutations(App) \cup Permutations(Hit)
=============================================================================
