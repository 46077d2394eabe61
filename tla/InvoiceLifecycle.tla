-------------------------- MODULE InvoiceLifecycle --------------------------
(***************************************************************************)
(* What the SaaS service promises about an invoice, whoever works on it:   *)
(*   - it is issued once, with a due date a customer can rely on;          *)
(*   - it is settled once, by a payment or by a cancellation, for good;    *)
(*   - only a pending invoice is cancelled, an overdue one can only be     *)
(*     paid;                                                               *)
(*   - it becomes overdue only after its due date, and while unsettled.    *)
(***************************************************************************)
EXTENDS Integers

CONSTANTS InvoiceIds, \* identifiers of invoices
          DueDays,    \* days a customer has for paying
          Absent      \* the value of an identifier no invoice has

VARIABLES bills,      \* for each identifier, Absent or its bill
          day         \* today

Bills == [status: {"Pending", "Paid", "Overdue", "Cancelled"}, due: Nat]

Init ==
  /\ bills = [id \in InvoiceIds |-> Absent]
  /\ day \in Nat

Turn(id, status) ==
  /\ bills' = [bills EXCEPT ![id] = [status |-> status, due |-> bills[id].due]]
  /\ UNCHANGED day

Issue(id) ==
  /\ bills[id] = Absent
  /\ \E due \in 0..(day + DueDays) :
       bills' = [bills EXCEPT ![id] = [status |-> "Pending", due |-> due]]
  /\ UNCHANGED day

Pay(id) ==
  /\ bills[id] # Absent
  /\ bills[id].status \in {"Pending", "Overdue"}
  /\ Turn(id, "Paid")

Cancel(id) ==
  /\ bills[id] # Absent
  /\ bills[id].status = "Pending"
  /\ Turn(id, "Cancelled")

\* One batch marks any number of late invoices.
MarkOverdue(ids) ==
  /\ \A id \in ids : /\ bills[id] # Absent
                     /\ bills[id].status = "Pending"
                     /\ bills[id].due < day
  /\ bills' = [id \in InvoiceIds |->
                 IF id \in ids
                   THEN [status |-> "Overdue", due |-> bills[id].due]
                   ELSE bills[id]]
  /\ UNCHANGED day

Pass == day' = day + 1 /\ UNCHANGED bills

Next ==
  \/ \E id \in InvoiceIds : Issue(id) \/ Pay(id) \/ Cancel(id)
  \/ \E ids \in SUBSET InvoiceIds : MarkOverdue(ids)
  \/ Pass

Spec == Init /\ [][Next]_<<bills, day>>

=============================================================================
