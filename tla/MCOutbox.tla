------------------------------- MODULE MCOutbox -------------------------------
(* Outbox on small instances. *)
EXTENDS Outbox, TLC

Interchangeable == Permutations(Passes) \union Permutations(Items)
=============================================================================
