----------------------- MODULE MCTenantProvisioning -----------------------
(***************************************************************************)
(* A small instance of TenantProvisioning for TLC.                         *)
(***************************************************************************)
EXTENDS TenantProvisioning, TLC

CONSTANTS r1, r2, t1, t2, t3, n1

\* Requests and identifiers of tenants are interchangeable.
Symmetry == Permutations(Requests) \cup Permutations(Tenants)

=============================================================================
