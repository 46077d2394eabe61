----------------------------- MODULE MCInvoices -----------------------------
(***************************************************************************)
(* Small instances of Invoices for TLC.                                    *)
(***************************************************************************)
EXTENDS Invoices, TLC

\* Requests are interchangeable, and so are identifiers and tenants.
Interchangeable ==
  Permutations(Requests) \cup Permutations(InvoiceIds) \cup Permutations(Tenants)

=============================================================================
