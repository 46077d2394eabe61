-------------------------- MODULE MCSubscriptions --------------------------
(***************************************************************************)
(* Small instances of Subscriptions for TLC.                               *)
(***************************************************************************)
EXTENDS Subscriptions, TLC

\* Tenants are not interchangeable with the host, requests and identifiers
\* are with one another.
Interchangeable == Permutations(Requests) \cup Permutations(SubIds)

=============================================================================
