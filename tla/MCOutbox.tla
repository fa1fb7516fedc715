------------------------------ MODULE MCOutbox ------------------------------
(***************************************************************************)
(* Outbox for TLC: relays and consumers are interchangeable.               *)
(***************************************************************************)
EXTENDS Outbox, TLC

Symmetry == Permutations(Relays) \cup Permutations(Consumers)
=============================================================================
