------------------------------ MODULE Invoices ------------------------------
(***************************************************************************)
(* The invoices of the SaaS service: InvoiceAppService, the InvoiceManager *)
(* it delegates to, the Invoice aggregate, and the invoice that            *)
(* provisioning a tenant issues, the only one the service ever issues.     *)
(*                                                                         *)
(* As in Subscriptions, a call is a request with a unit of work: it reads  *)
(* rows, changes them in memory, and its save succeeds for all of them or  *)
(* for none, exactly when no other save touched one of them since the      *)
(* read (ConcurrencyStamp).                                                *)
(***************************************************************************)
EXTENDS Integers

CONSTANTS
  Tenants,           \* tenant identifiers
  Host,              \* the caller with no tenant
  Callers,           \* who calls: a subset of Tenants \cup {Host}
  InvoiceIds,        \* the GUIDs that new invoices get
  Requests,          \* requests that may be in flight together
  None,              \* C#'s null
  DueDays,           \* days until an invoice is due
  MaxDay,            \* bound of the clock
  DtoMapsDeclared    \* does the AutoMapper profile declare the DTO maps?

ASSUME CallersAssumption == Callers \subseteq Tenants \cup {Host}
ASSUME HostAssumption == Host \notin Tenants
ASSUME DaysAssumption == DueDays \in Nat /\ MaxDay \in Nat
ASSUME MapsAssumption == DtoMapsDeclared \in BOOLEAN
ASSUME NoneAssumption == None \notin Int

VARIABLES
  invoices,  \* the invoice table: for each identifier, its row or None
  uow,       \* for each request, its unit of work
  paid,      \* how many InvoicePaidEvents were published: 0, 1, 2+
  today      \* DateTime.UtcNow, and Clock.Now on a server that runs on UTC

vars == <<invoices, uow, paid, today>>

-----------------------------------------------------------------------------
(* The data *)

InvoiceStatuses == {"Pending", "Paid", "Overdue", "Cancelled"}

InvoiceRows ==
  [tenant: Tenants, due: Nat, status: InvoiceStatuses, paidOn: Nat \cup {None}]

ASSUME NoRowAssumption == None \notin InvoiceRows

Table == [InvoiceIds -> InvoiceRows \cup {None}]

\* A unit of work is idle, or holds the rows it changed in memory and, of
\* those that were stored before, the rows as read.
Idle == [phase |-> "idle"]

Works ==
  [phase: {"ready"},
   op: {"Provision", "MarkAsPaid", "Cancel", "ProcessOverdue"},
   base: Table, rows: Table, stale: BOOLEAN]

TypeOK ==
  /\ invoices \in Table
  /\ uow \in [Requests -> {Idle} \cup Works]
  /\ paid \in [InvoiceIds -> 0..2]
  /\ today \in 0..MaxDay

-----------------------------------------------------------------------------
(* The aggregate: Invoice.cs *)

\* The constructor, as GenerateSubscriptionInvoiceAsync calls it.
DueBackwards(tenant) ==
  [tenant |-> tenant, due |-> today - DueDays, status |-> "Pending",
   paidOn |-> None]

NewInvoice(tenant) ==
  [tenant |-> tenant, due |-> today + DueDays, status |-> "Pending",
   paidOn |-> None]

MarkAsPaid(row) == [row EXCEPT !.status = "Paid", !.paidOn = today]

\* Pending, and the due date has passed: what OverdueInvoicesSpecification
\* selects and what MarkAsOverdue checks again.
PastDue(row) == row.status = "Pending" /\ row.due < today

MarkAsOverdue(row) == IF PastDue(row) THEN [row EXCEPT !.status = "Overdue"] ELSE row

Cancelled(row) == [row EXCEPT !.status = "Cancelled"]

-----------------------------------------------------------------------------
(* The framework *)

\* The tenant filter of every query.
Visible(caller) ==
  {id \in InvoiceIds : invoices[id] # None /\ invoices[id].tenant = caller}

Touched(work) == {id \in InvoiceIds : work.rows[id] # None}

\* The part of a table that a unit of work holds.
Only(ids, table) == [id \in InvoiceIds |-> IF id \in ids THEN table[id] ELSE None]

Start(r, op, ids, rows) ==
  /\ uow[r] = Idle
  /\ uow' = [uow EXCEPT ![r] =
               [phase |-> "ready", op |-> op, base |-> Only(ids, invoices),
                rows |-> rows, stale |-> FALSE]]
  /\ UNCHANGED <<invoices, paid, today>>

-----------------------------------------------------------------------------
(* The requests *)

\* ProvisionTenantAsync without a trial: the first invoice of a new tenant,
\* whose identifier no other row and no other request has.
ProvisionTenantAsync(r) ==
  \E id \in InvoiceIds, tenant \in Tenants :
    /\ invoices[id] = None
    /\ \A i \in InvoiceIds : invoices[i] # None => invoices[i].tenant # tenant
    /\ \A q \in Requests : uow[q] # Idle =>
         /\ id \notin Touched(uow[q])
         /\ \A i \in Touched(uow[q]) : uow[q].rows[i].tenant # tenant
    /\ Start(r, "Provision", {},
             [i \in InvoiceIds |-> IF i = id THEN NewInvoice(tenant) ELSE None])

\* MarkAsPaidAsync, whose checks are those of ProcessPayment and MarkAsPaid.
MarkAsPaidAsync(r) ==
  \E caller \in Callers : \E id \in Visible(caller) :
    /\ invoices[id].status \in {"Pending", "Overdue"}
    /\ Start(r, "MarkAsPaid", {id},
             [i \in InvoiceIds |-> IF i = id THEN MarkAsPaid(invoices[i]) ELSE None])

CanCancelUnlessPaid(row) == row.status \notin {"Paid", "Cancelled"}

CanCancelInvoice(row) == row.status = "Pending"

\* Invoice.Cancel would also accept an overdue invoice.
CancelAsync(r) ==
  \E caller \in Callers : \E id \in Visible(caller) :
    /\ CanCancelInvoice(invoices[id])
    /\ Start(r, "Cancel", {id},
             [i \in InvoiceIds |-> IF i = id THEN Cancelled(invoices[i]) ELSE None])

\* One batch over the late invoices the caller sees: none for the host.  (An
\* empty batch changes nothing.)
ProcessOverdueInvoicesAsync(r) ==
  \E caller \in Callers :
    LET late == {id \in Visible(caller) : PastDue(invoices[id])}
    IN /\ late # {}
       /\ Start(r, "ProcessOverdue", late,
                [i \in InvoiceIds |->
                   IF i \in late THEN MarkAsOverdue(invoices[i]) ELSE None])

-----------------------------------------------------------------------------
(* The end of a request *)

Settled(r, ids) ==
  [q \in Requests |->
     IF q = r THEN Idle
     ELSE IF uow[q] # Idle /\ Touched(uow[q]) \cap ids # {}
            THEN [uow[q] EXCEPT !.stale = TRUE]
     ELSE uow[q]]

\* The events of MarkAsPaid, counted up to 2.
PublishedInTime(work) ==
  [id \in InvoiceIds |->
     IF /\ work.op = "MarkAsPaid" /\ work.rows[id] # None
        /\ work.base[id].status = "Pending" /\ paid[id] < 2
       THEN paid[id] + 1 ELSE paid[id]]

Published(work) ==
  [id \in InvoiceIds |->
     IF work.op = "MarkAsPaid" /\ work.rows[id] # None /\ paid[id] < 2
       THEN paid[id] + 1 ELSE paid[id]]

\* MarkAsPaidAsync answers with the invoice as a DTO, inside its transaction.
Answerable(work) == work.op = "MarkAsPaid" => DtoMapsDeclared

Stored(work) ==
  [id \in InvoiceIds |->
     IF work.rows[id] # None THEN work.rows[id] ELSE invoices[id]]

SaveWithoutStamp(r) ==
  /\ uow[r] # Idle
  /\ Answerable(uow[r])
  /\ invoices' = Stored(uow[r])
  /\ paid' = Published(uow[r])
  /\ uow' = Settled(r, Touched(uow[r]))
  /\ UNCHANGED today

SaveChanges(r) ==
  /\ uow[r] # Idle
  /\ ~uow[r].stale
  /\ Answerable(uow[r])
  /\ invoices' = Stored(uow[r])
  /\ paid' = Published(uow[r])
  /\ uow' = Settled(r, Touched(uow[r]))
  /\ UNCHANGED today

\* The event is published when the unit of work completes, just before the
\* transaction commits: the process may stop, or the commit fail, in between.
CommitFails(r) ==
  /\ uow[r] # Idle
  /\ ~uow[r].stale
  /\ uow[r].op = "MarkAsPaid"
  /\ Answerable(uow[r])
  /\ paid' = Published(uow[r])
  /\ uow' = [uow EXCEPT ![r] = Idle]
  /\ UNCHANGED <<invoices, today>>

\* An exception or a stop of the process: nothing of the request remains.
Rollback(r) ==
  /\ uow[r] # Idle
  /\ uow' = [uow EXCEPT ![r] = Idle]
  /\ UNCHANGED <<invoices, paid, today>>

-----------------------------------------------------------------------------

Tick ==
  /\ today < MaxDay
  /\ today' = today + 1
  /\ UNCHANGED <<invoices, uow, paid>>

Init ==
  /\ invoices = [id \in InvoiceIds |-> None]
  /\ uow = [r \in Requests |-> Idle]
  /\ paid = [id \in InvoiceIds |-> 0]
  /\ today = 0

Step(r) ==
  \/ ProvisionTenantAsync(r) \/ MarkAsPaidAsync(r) \/ CancelAsync(r)
  \/ ProcessOverdueInvoicesAsync(r)
  \/ SaveChanges(r) \/ CommitFails(r) \/ Rollback(r)

Next == (\E r \in Requests : Step(r)) \/ Tick

Spec == Init /\ [][Next]_vars

-----------------------------------------------------------------------------
(* Properties *)

\* No payment goes unannounced: when an invoice is stored as paid its event
\* has been published.  (Not the converse: the transaction may still fail.)
PaidAnnounced ==
  \A id \in InvoiceIds : invoices[id] # None =>
    (invoices[id].status = "Paid" => paid[id] > 0)

\* A settled invoice stays as it was settled: of a payment, a second payment,
\* a cancellation and an overdue batch that all found the invoice pending,
\* one takes effect and keeps it, and the others fail.
SettledIsFinal ==
  [][\A id \in InvoiceIds :
       (invoices[id] # None /\ invoices[id].status \in {"Paid", "Cancelled"})
         => invoices'[id] = invoices[id]]_vars

\* What a change in memory always is, given the row it was computed from.
LegalChange(op, old, new) ==
  IF old = None
    THEN /\ op = "Provision"
         /\ new.status = "Pending"
         /\ new.due <= today + DueDays
    ELSE /\ new.due = old.due
         /\ \/ /\ op = "MarkAsPaid"
               /\ old.status \in {"Pending", "Overdue"}
               /\ new.status = "Paid"
            \/ /\ op = "Cancel"
               /\ old.status = "Pending"
               /\ new.status = "Cancelled"
            \/ /\ op = "ProcessOverdue"
               /\ old.status = "Pending"
               /\ old.due < today
               /\ new.status = "Overdue"

\* A request in flight holds legal changes of the rows it read, a single row
\* unless it is a batch, and these rows are the stored ones while its stamps
\* are good.
WorkOK(work) ==
  LET ids == Touched(work)
  IN /\ work.op # "ProcessOverdue" => \E id \in InvoiceIds : ids = {id}
     /\ \A id \in ids :
          /\ LegalChange(work.op, work.base[id], work.rows[id])
          /\ ~work.stale => invoices[id] = work.base[id]

\* The inductive invariant.
IInv ==
  /\ TypeOK
  /\ PaidAnnounced
  /\ \A r \in Requests : uow[r] # Idle => WorkOK(uow[r])

\* The table, seen through what the service promises of each invoice.
View(row) == IF row = None THEN None ELSE [status |-> row.status, due |-> row.due]

Seen == [id \in InvoiceIds |-> View(invoices[id])]

Lifecycle == INSTANCE InvoiceLifecycle WITH Absent <- None, bills <- Seen, day <- today

ASSUME NoBillAssumption == None \notin Lifecycle!Bills

\* Every step of the service is one legal step of the invoice it touches, or
\* of the late invoices of a batch: requests that run together never settle
\* an invoice twice, cancel an overdue one, or mark one overdue that is
\* settled or not late.
ImplementsLifecycle == Lifecycle!Spec

=============================================================================
