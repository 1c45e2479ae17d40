-------------------------- MODULE MCDatabaseActions --------------------------
(* Instance of DatabaseActions for TLC: handlers are alike. *)
EXTENDS DatabaseActions, TLC

Symmetry == Permutations(Handlers)
=============================================================================
