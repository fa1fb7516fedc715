---------------------------- MODULE MCRateLimit ----------------------------
(***************************************************************************)
(* RateLimit for TLC: requests are interchangeable.                        *)
(***************************************************************************)
EXTENDS RateLimit, TLC

Symmetry == Permutations(Clients)
=============================================================================
