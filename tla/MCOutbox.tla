------------------------------ MODULE MCOutbox ------------------------------
(* Small instances of Outbox: see the .cfg files for the bounds. *)
EXTENDS Outbox, TLC

Symmetry == Permutations(Rows) \cup Permutations(Pollers)
=============================================================================
