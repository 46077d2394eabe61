--------------------------- MODULE MCProductPage ---------------------------
(***************************************************************************)
(* A small instance of ProductPage for TLC: the liveness properties rule   *)
(* out symmetry.                                                           *)
(***************************************************************************)
EXTENDS ProductPage

CONSTANTS p1, a, b  \* a page, products

MCStock == [id \in {a, b} |-> IF id = a THEN 1 ELSE None]

=============================================================================
