------------------------------ MODULE MCTenant ------------------------------
(***************************************************************************)
(* TenantRegistry for TLC: requests and tenants are interchangeable.       *)
(***************************************************************************)
EXTENDS TenantRegistry, TLC

Symmetry == Permutations(Requests) \cup Permutations(Tenants)
=============================================================================
