--------------------------- MODULE InvoicesProofs ---------------------------
(***************************************************************************)
(* Theorems about Invoices, for every value of its constants.              *)
(*                                                                         *)
(* IInv says that a request in flight holds legal changes of the rows it   *)
(* read, and that these are the stored rows while its stamps are good.  A  *)
(* save is then one legal step from the stored rows, which is what the     *)
(* properties need.                                                        *)
(***************************************************************************)
EXTENDS Invoices, TLAPS

USE CallersAssumption, HostAssumption, DaysAssumption, MapsAssumption,
    NoneAssumption, NoRowAssumption

-----------------------------------------------------------------------------
(* The operators *)

\* The changes of the aggregate keep a row a row.
LEMMA RowChanges ==
  ASSUME NEW row \in InvoiceRows, today \in Nat
  PROVE  /\ MarkAsPaid(row) \in InvoiceRows
         /\ MarkAsPaid(row).status = "Paid"
         /\ MarkAsPaid(row).due = row.due
         /\ Cancelled(row) \in InvoiceRows
         /\ Cancelled(row).status = "Cancelled"
         /\ Cancelled(row).due = row.due
         /\ PastDue(row) => /\ MarkAsOverdue(row) \in InvoiceRows
                            /\ MarkAsOverdue(row).status = "Overdue"
                            /\ MarkAsOverdue(row).due = row.due
  BY DEF InvoiceRows, MarkAsPaid, Cancelled, MarkAsOverdue, InvoiceStatuses

\* A new invoice is a pending row due in DueDays.
LEMMA NewInvoiceRow ==
  ASSUME NEW tenant \in Tenants, today \in Nat
  PROVE  /\ NewInvoice(tenant) \in InvoiceRows
         /\ NewInvoice(tenant).status = "Pending"
         /\ NewInvoice(tenant).due = today + DueDays
  BY DEF NewInvoice, InvoiceRows, InvoiceStatuses

\* What a request finds in the table are rows.
LEMMA VisibleRows ==
  ASSUME TypeOK, NEW caller, NEW id \in Visible(caller)
  PROVE  id \in InvoiceIds /\ invoices[id] \in InvoiceRows
  BY DEF TypeOK, Table, Visible

\* A unit of work that becomes one of a single row touches this row only.
LEMMA OneRow ==
  ASSUME NEW id \in InvoiceIds, NEW row \in InvoiceRows, NEW op,
         NEW base, NEW work,
         work = [phase |-> "ready", op |-> op, base |-> base,
                 rows |-> [i \in InvoiceIds |-> IF i = id THEN row ELSE None],
                 stale |-> FALSE]
  PROVE  /\ Touched(work) = {id}
         /\ work.rows \in Table
         /\ work.rows[id] = row
  BY DEF Touched, Table

\* A unit of work whose one row is a legal change is in order.
LEMMA OneRowWork ==
  ASSUME TypeOK, NEW id \in InvoiceIds, NEW row \in InvoiceRows,
         NEW op \in {"Provision", "MarkAsPaid", "Cancel"},
         NEW ids \in SUBSET InvoiceIds,
         invoices[id] = Only(ids, invoices)[id],
         LegalChange(op, invoices[id], row),
         NEW work,
         work = [phase |-> "ready", op |-> op, base |-> Only(ids, invoices),
                 rows |-> [i \in InvoiceIds |-> IF i = id THEN row ELSE None],
                 stale |-> FALSE]
  PROVE  work \in Works /\ WorkOK(work)
  <1>1. /\ Touched(work) = {id}
        /\ work.rows \in Table
        /\ work.rows[id] = row
    BY OneRow
  <1>2. Only(ids, invoices) \in Table
    BY DEF Only, TypeOK, Table
  <1>3. work \in Works
    BY <1>1, <1>2 DEF Works
  <1>4. WorkOK(work)
    BY <1>1 DEF WorkOK
  <1>5. QED
    BY <1>3, <1>4

-----------------------------------------------------------------------------
(* The inductive invariant *)

\* A request that starts with a unit of work in order.
LEMMA StartStep ==
  ASSUME IInv, NEW r \in Requests, NEW work \in Works, WorkOK(work),
         uow' = [uow EXCEPT ![r] = work],
         UNCHANGED <<invoices, paid, today>>
  PROVE  IInv'
  <1>1. TypeOK'
    BY DEF IInv, TypeOK
  <1>2. PaidAnnounced'
    BY DEF IInv, PaidAnnounced
  <1>3. ASSUME NEW q \in Requests, uow'[q] # Idle
        PROVE  WorkOK(uow[q])' 
    <2>1. CASE q = r
      <3>1. uow'[q] = work
        BY <2>1 DEF IInv, TypeOK
      <3>2. QED
        BY <3>1 DEF WorkOK, LegalChange, Touched
    <2>2. CASE q # r
      <3>1. uow'[q] = uow[q]
        BY <2>2 DEF IInv, TypeOK
      <3>2. WorkOK(uow[q])
        BY <1>3, <3>1 DEF IInv
      <3>3. QED
        BY <3>1, <3>2 DEF WorkOK, LegalChange, Touched
    <2>3. QED
      BY <2>1, <2>2
  <1>4. QED
    BY <1>1, <1>2, <1>3 DEF IInv

\* Each request starts with a unit of work in order.
LEMMA RequestStep ==
  ASSUME IInv, NEW r \in Requests,
         \/ ProvisionTenantAsync(r) \/ MarkAsPaidAsync(r) \/ CancelAsync(r)
         \/ ProcessOverdueInvoicesAsync(r)
  PROVE  IInv'
  <1>1. TypeOK /\ today \in Nat
    BY DEF IInv, TypeOK
  <1>2. CASE ProvisionTenantAsync(r)
    <2>1. PICK id \in InvoiceIds, tenant \in Tenants :
            /\ invoices[id] = None
            /\ Start(r, "Provision", {},
                 [i \in InvoiceIds |-> IF i = id THEN NewInvoice(tenant) ELSE None])
      BY <1>2 DEF ProvisionTenantAsync
    <2> DEFINE work == [phase |-> "ready", op |-> "Provision",
                        base |-> Only({}, invoices),
                        rows |-> [i \in InvoiceIds |->
                                    IF i = id THEN NewInvoice(tenant) ELSE None],
                        stale |-> FALSE]
    <2>2. NewInvoice(tenant) \in InvoiceRows
      BY <1>1, NewInvoiceRow
    <2>3. LegalChange("Provision", invoices[id], NewInvoice(tenant))
      BY <1>1, <2>1, NewInvoiceRow DEF LegalChange
    <2>4. invoices[id] = Only({}, invoices)[id]
      BY <2>1 DEF Only
    <2>5. work \in Works /\ WorkOK(work)
      BY <1>1, <2>2, <2>3, <2>4, OneRowWork
    <2>6. QED
      BY <2>1, <2>5, StartStep DEF Start
  <1>3. CASE MarkAsPaidAsync(r)
    <2>. PICK caller \in Callers :
           \E id \in Visible(caller) :
             /\ invoices[id].status \in {"Pending", "Overdue"}
             /\ Start(r, "MarkAsPaid", {id},
                  [i \in InvoiceIds |->
                     IF i = id THEN MarkAsPaid(invoices[i]) ELSE None])
      BY <1>3 DEF MarkAsPaidAsync
    <2>1. PICK id \in Visible(caller) :
            /\ invoices[id].status \in {"Pending", "Overdue"}
            /\ Start(r, "MarkAsPaid", {id},
                 [i \in InvoiceIds |->
                    IF i = id THEN MarkAsPaid(invoices[i]) ELSE None])
      OBVIOUS
    <2> DEFINE work == [phase |-> "ready", op |-> "MarkAsPaid",
                        base |-> Only({id}, invoices),
                        rows |-> [i \in InvoiceIds |->
                                    IF i = id THEN MarkAsPaid(invoices[id]) ELSE None],
                        stale |-> FALSE]
    <2>2. id \in InvoiceIds /\ invoices[id] \in InvoiceRows
      BY <1>1, VisibleRows
    <2>3. LegalChange("MarkAsPaid", invoices[id], MarkAsPaid(invoices[id]))
      BY <1>1, <2>1, <2>2, RowChanges DEF LegalChange
    <2>4. invoices[id] = Only({id}, invoices)[id]
      BY <2>2 DEF Only
    <2>5. work \in Works /\ WorkOK(work)
      BY <1>1, <2>2, <2>3, <2>4, RowChanges, OneRowWork
    <2>6. [i \in InvoiceIds |-> IF i = id THEN MarkAsPaid(invoices[i]) ELSE None]
            = work.rows
      OBVIOUS
    <2>7. QED
      BY <2>1, <2>5, <2>6, StartStep DEF Start
  <1>4. CASE CancelAsync(r)
    <2>. PICK caller \in Callers :
           \E id \in Visible(caller) :
             /\ invoices[id].status = "Pending"
             /\ Start(r, "Cancel", {id},
                  [i \in InvoiceIds |->
                     IF i = id THEN Cancelled(invoices[i]) ELSE None])
      BY <1>4 DEF CancelAsync, CanCancelInvoice
    <2>1. PICK id \in Visible(caller) :
            /\ invoices[id].status = "Pending"
            /\ Start(r, "Cancel", {id},
                 [i \in InvoiceIds |->
                    IF i = id THEN Cancelled(invoices[i]) ELSE None])
      OBVIOUS
    <2> DEFINE work == [phase |-> "ready", op |-> "Cancel",
                        base |-> Only({id}, invoices),
                        rows |-> [i \in InvoiceIds |->
                                    IF i = id THEN Cancelled(invoices[id]) ELSE None],
                        stale |-> FALSE]
    <2>2. id \in InvoiceIds /\ invoices[id] \in InvoiceRows
      BY <1>1, VisibleRows
    <2>3. LegalChange("Cancel", invoices[id], Cancelled(invoices[id]))
      BY <1>1, <2>1, <2>2, RowChanges DEF LegalChange
    <2>4. invoices[id] = Only({id}, invoices)[id]
      BY <2>2 DEF Only
    <2>5. work \in Works /\ WorkOK(work)
      BY <1>1, <2>2, <2>3, <2>4, RowChanges, OneRowWork
    <2>6. [i \in InvoiceIds |-> IF i = id THEN Cancelled(invoices[i]) ELSE None]
            = work.rows
      OBVIOUS
    <2>7. QED
      BY <2>1, <2>5, <2>6, StartStep DEF Start
  <1>5. CASE ProcessOverdueInvoicesAsync(r)
    <2>1. PICK caller \in Callers :
            LET late == {id \in Visible(caller) : PastDue(invoices[id])}
            IN Start(r, "ProcessOverdue", late,
                 [i \in InvoiceIds |->
                    IF i \in late THEN MarkAsOverdue(invoices[i]) ELSE None])
      BY <1>5 DEF ProcessOverdueInvoicesAsync
    <2> DEFINE late == {id \in Visible(caller) : PastDue(invoices[id])}
               work == [phase |-> "ready", op |-> "ProcessOverdue",
                        base |-> Only(late, invoices),
                        rows |-> [i \in InvoiceIds |->
                                    IF i \in late THEN MarkAsOverdue(invoices[i]) ELSE None],
                        stale |-> FALSE]
    <2>2. ASSUME NEW id \in late
          PROVE  /\ id \in InvoiceIds
                 /\ invoices[id] \in InvoiceRows
                 /\ MarkAsOverdue(invoices[id]) \in InvoiceRows
                 /\ LegalChange("ProcessOverdue", invoices[id],
                                MarkAsOverdue(invoices[id]))
      <3>1. id \in InvoiceIds /\ invoices[id] \in InvoiceRows /\ PastDue(invoices[id])
        BY <1>1, VisibleRows
      <3>2. QED
        BY <1>1, <3>1, RowChanges DEF LegalChange, PastDue
    <2>3. /\ work.rows \in Table
          /\ Only(late, invoices) \in Table
      BY <1>1, <2>2 DEF Table, Only, TypeOK
    <2>4. work \in Works
      BY <2>3 DEF Works
    <2>5. Touched(work) = late
      BY <2>2 DEF Touched
    <2>6. \A id \in late : /\ work.rows[id] = MarkAsOverdue(invoices[id])
                           /\ work.base[id] = invoices[id]
      BY <2>2 DEF Only
    <2>7. WorkOK(work)
      BY <2>2, <2>5, <2>6 DEF WorkOK
    <2>8. QED
      BY <2>1, <2>4, <2>7, StartStep DEF Start
  <1>6. QED
    BY <1>2, <1>3, <1>4, <1>5

\* A save makes each touched row the result of one legal change of the
\* stored row, and leaves the others alone.
LEMMA SaveChangesRows ==
  ASSUME IInv, NEW r \in Requests, SaveChanges(r)
  PROVE  LET work == uow[r]
         IN /\ work \in Works
            /\ \A id \in Touched(work) :
                 /\ id \in InvoiceIds
                 /\ work.rows[id] \in InvoiceRows
                 /\ work.base[id] = invoices[id]
                 /\ LegalChange(work.op, invoices[id], work.rows[id])
                 /\ invoices'[id] = work.rows[id]
            /\ \A id \in InvoiceIds \ Touched(work) : invoices'[id] = invoices[id]
  <1>1. uow[r] \in Works
    BY DEF IInv, TypeOK, SaveChanges
  <1>2. WorkOK(uow[r]) /\ ~uow[r].stale
    BY DEF IInv, SaveChanges
  <1>3. /\ uow[r].rows \in Table
        /\ invoices' = Stored(uow[r])
    BY <1>1 DEF Works, SaveChanges
  <1>4. QED
    BY <1>1, <1>2, <1>3 DEF WorkOK, Touched, Stored, Table

\* Publishing counts every payment, and forgets none.
LEMMA PublishedCounts ==
  ASSUME TypeOK, NEW work \in Works
  PROVE  /\ Published(work) \in [InvoiceIds -> 0..2]
         /\ \A id \in InvoiceIds :
              /\ Published(work)[id] >= paid[id]
              /\ (work.op = "MarkAsPaid" /\ id \in Touched(work))
                   => Published(work)[id] > 0
  BY DEF TypeOK, Published, Touched

\* A unit of work stays in order while its changes stay the same, and also
\* the stored rows it read, unless it is stale.
LEMMA StaysInOrder ==
  ASSUME NEW q \in Requests, WorkOK(uow[q]), today' = today,
         uow'[q].op = uow[q].op,
         uow'[q].base = uow[q].base,
         uow'[q].rows = uow[q].rows,
         \/ uow'[q].stale
         \/ /\ uow'[q].stale = uow[q].stale
            /\ \A id \in Touched(uow[q]) : invoices'[id] = invoices[id]
  PROVE  WorkOK(uow[q])'
  <1>1. Touched(uow[q])' = Touched(uow[q])
    BY DEF Touched
  <1>2. ASSUME NEW id \in Touched(uow[q])
        PROVE  LegalChange(uow[q].op, uow[q].base[id], uow[q].rows[id])'
    <2>1. LegalChange(uow[q].op, uow[q].base[id], uow[q].rows[id])
      BY DEF WorkOK
    <2>2. QED
      BY <2>1 DEF LegalChange
  <1>3. uow[q].op # "ProcessOverdue" => \E id \in InvoiceIds : Touched(uow[q]) = {id}
    BY DEF WorkOK
  <1>4. \A id \in Touched(uow[q]) : ~uow'[q].stale => invoices'[id] = uow[q].base[id]
    BY DEF WorkOK
  <1>5. QED
    BY <1>1, <1>2, <1>3, <1>4 DEF WorkOK

LEMMA SaveStep ==
  ASSUME IInv, NEW r \in Requests, SaveChanges(r)
  PROVE  IInv'
  <1> DEFINE work == uow[r]
             ids == Touched(work)
  <1>1. /\ work \in Works
        /\ \A id \in ids :
             /\ id \in InvoiceIds
             /\ work.rows[id] \in InvoiceRows
             /\ LegalChange(work.op, invoices[id], work.rows[id])
             /\ invoices'[id] = work.rows[id]
        /\ \A id \in InvoiceIds \ ids : invoices'[id] = invoices[id]
    BY SaveChangesRows
  <1>2. /\ invoices' = Stored(work)
        /\ paid' = Published(work)
        /\ uow' = Settled(r, ids)
        /\ today' = today
    BY DEF SaveChanges
  <1>3. TypeOK'
    <2>1. invoices' \in Table
      BY <1>1, <1>2 DEF Stored, Table, IInv, TypeOK, Works
    <2>2. uow' \in [Requests -> {Idle} \cup Works]
      <3>1. ASSUME NEW q \in Requests
            PROVE  Settled(r, ids)[q] \in {Idle} \cup Works
        <4>1. uow[q] \in {Idle} \cup Works
          BY DEF IInv, TypeOK
        <4>2. uow[q] \in Works => [uow[q] EXCEPT !.stale = TRUE] \in Works
          BY DEF Works
        <4>3. QED
          BY <4>1, <4>2 DEF Settled
      <3>2. QED
        BY <1>2, <3>1 DEF Settled
    <2>3. paid' \in [InvoiceIds -> 0..2]
      BY <1>1, <1>2, PublishedCounts DEF IInv
    <2>4. QED
      BY <1>2, <2>1, <2>2, <2>3 DEF IInv, TypeOK
  <1>4. PaidAnnounced'
    <2>1. ASSUME NEW id \in InvoiceIds, invoices'[id] # None,
                 invoices'[id].status = "Paid"
          PROVE  paid'[id] > 0
      <3>1. CASE id \in ids
        <4>1. work.op = "MarkAsPaid"
          BY <1>1, <2>1, <3>1 DEF LegalChange
        <4>2. QED
          BY <1>1, <1>2, <3>1, <4>1, PublishedCounts DEF IInv
      <3>2. CASE id \notin ids
        <4>1. paid[id] > 0
          BY <1>1, <2>1, <3>2 DEF IInv, PaidAnnounced
        <4>2. Published(work)[id] >= paid[id] /\ Published(work)[id] \in 0..2
          BY <1>1, PublishedCounts DEF IInv
        <4>3. paid[id] \in 0..2
          BY DEF IInv, TypeOK
        <4>4. QED
          BY <1>2, <4>1, <4>2, <4>3
      <3>3. QED
        BY <3>1, <3>2
    <2>2. QED
      BY <2>1 DEF PaidAnnounced
  <1>5. ASSUME NEW q \in Requests, uow'[q] # Idle
        PROVE  WorkOK(uow[q])'
    <2>1. q # r /\ uow[q] # Idle /\ uow[q] \in Works
      BY <1>2, <1>5 DEF Settled, IInv, TypeOK
    <2>2. WorkOK(uow[q])
      BY <2>1 DEF IInv
    <2>3. CASE Touched(uow[q]) \cap ids # {}
      <3>1. uow'[q] = [uow[q] EXCEPT !.stale = TRUE]
        BY <1>2, <2>1, <2>3 DEF Settled
      <3>2. /\ uow'[q].op = uow[q].op
            /\ uow'[q].base = uow[q].base
            /\ uow'[q].rows = uow[q].rows
            /\ uow'[q].stale = TRUE
        BY <2>1, <3>1 DEF Works
      <3>3. QED
        BY <1>2, <2>2, <3>2, StaysInOrder
    <2>4. CASE Touched(uow[q]) \cap ids = {}
      <3>1. uow'[q] = uow[q]
        BY <1>2, <2>1, <2>4 DEF Settled
      <3>2. \A id \in Touched(uow[q]) : invoices'[id] = invoices[id]
        BY <1>1, <2>4 DEF Touched
      <3>3. QED
        BY <1>2, <2>2, <3>1, <3>2, StaysInOrder
    <2>5. QED
      BY <2>3, <2>4
  <1>6. QED
    BY <1>3, <1>4, <1>5 DEF IInv

\* A request that ends without a save, having published its event or not.
LEMMA EndStep ==
  ASSUME IInv, NEW r \in Requests, CommitFails(r) \/ Rollback(r)
  PROVE  IInv'
  <1>1. /\ uow[r] \in Works
        /\ uow' = [uow EXCEPT ![r] = Idle]
        /\ UNCHANGED <<invoices, today>>
        /\ paid' = paid \/ paid' = Published(uow[r])
    BY DEF CommitFails, Rollback, IInv, TypeOK
  <1>2. /\ paid' \in [InvoiceIds -> 0..2]
        /\ \A id \in InvoiceIds : paid'[id] >= paid[id]
    BY <1>1, PublishedCounts DEF IInv, TypeOK
  <1>3. TypeOK'
    BY <1>1, <1>2 DEF IInv, TypeOK
  <1>4. PaidAnnounced'
    <2>1. \A id \in InvoiceIds : paid[id] \in 0..2 /\ paid'[id] \in 0..2
      BY <1>2 DEF IInv, TypeOK
    <2>2. QED
      BY <1>1, <1>2, <2>1 DEF IInv, PaidAnnounced
  <1>5. ASSUME NEW q \in Requests, uow'[q] # Idle
        PROVE  WorkOK(uow[q])'
    <2>1. uow'[q] = uow[q] /\ WorkOK(uow[q])
      BY <1>1, <1>5 DEF IInv, TypeOK
    <2>2. QED
      BY <1>1, <2>1, StaysInOrder
  <1>6. QED
    BY <1>3, <1>4, <1>5 DEF IInv

\* As time passes a late invoice stays late, and a due date stays within
\* reach.
LEMMA TickStep ==
  ASSUME IInv, Tick
  PROVE  IInv'
  <1>1. TypeOK'
    BY DEF IInv, TypeOK, Tick
  <1>2. PaidAnnounced'
    BY DEF IInv, PaidAnnounced, Tick
  <1>3. ASSUME NEW q \in Requests, uow'[q] # Idle
        PROVE  WorkOK(uow[q])'
    <2>1. WorkOK(uow[q]) /\ uow[q] \in Works
      BY <1>3 DEF IInv, TypeOK, Tick
    <2>2. ASSUME NEW id \in Touched(uow[q])
          PROVE  LegalChange(uow[q].op, uow[q].base[id], uow[q].rows[id])'
      <3>1. LegalChange(uow[q].op, uow[q].base[id], uow[q].rows[id])
        BY <2>1 DEF WorkOK
      <3>2. /\ uow[q].rows[id] \in InvoiceRows
            /\ uow[q].base[id] # None => uow[q].base[id] \in InvoiceRows
        BY <2>1 DEF Touched, Works, Table
      <3>3. today \in Nat /\ today' = today + 1 /\ uow' = uow
        BY DEF IInv, TypeOK, Tick
      <3>4. QED
        BY <3>1, <3>2, <3>3 DEF LegalChange, InvoiceRows
    <2>3. QED
      BY <2>1, <2>2 DEF WorkOK, Touched, Tick
  <1>4. QED
    BY <1>1, <1>2, <1>3 DEF IInv

LEMMA InitInv == Init => IInv
  BY DEF Init, IInv, TypeOK, Table, PaidAnnounced

LEMMA NextInv == IInv /\ [Next]_vars => IInv'
  <1> SUFFICES ASSUME IInv, [Next]_vars
               PROVE  IInv'
    OBVIOUS
  <1>1. ASSUME NEW r \in Requests, Step(r)
        PROVE  IInv'
    BY <1>1, RequestStep, SaveStep, EndStep DEF Step
  <1>2. CASE Tick
    BY <1>2, TickStep
  <1>3. CASE UNCHANGED vars
    BY <1>3 DEF vars, IInv, TypeOK, PaidAnnounced, WorkOK, LegalChange, Touched
  <1>4. QED
    BY <1>1, <1>2, <1>3 DEF Next

\* The inductive invariant holds in every reachable state.
THEOREM Invariant == Spec => []IInv
  BY InitInv, NextInv, PTL DEF Spec

\* Every variable keeps its type.
THEOREM TypeCorrect == Spec => []TypeOK
  <1>1. IInv => TypeOK
    BY DEF IInv
  <1>2. QED
    BY <1>1, Invariant, PTL

\* No invoice is stored as paid before its InvoicePaidEvent was published.
THEOREM PaymentsAreAnnounced == Spec => []PaidAnnounced
  <1>1. IInv => PaidAnnounced
    BY DEF IInv
  <1>2. QED
    BY <1>1, Invariant, PTL

-----------------------------------------------------------------------------
(* What a step may never do *)

\* Of any number of requests that want to settle an invoice one succeeds.
THEOREM SettledOnce == Spec => SettledIsFinal
  <1>1. IInv /\ [Next]_vars =>
          [\A id \in InvoiceIds :
             (invoices[id] # None /\ invoices[id].status \in {"Paid", "Cancelled"})
               => invoices'[id] = invoices[id]]_vars
    <2> SUFFICES ASSUME IInv, [Next]_vars,
                        NEW id \in InvoiceIds, invoices[id] # None,
                        invoices[id].status \in {"Paid", "Cancelled"}
                 PROVE  invoices'[id] = invoices[id]
      OBVIOUS
    <2>1. ASSUME NEW r \in Requests, SaveChanges(r)
          PROVE  invoices'[id] = invoices[id]
      <3>1. id \notin Touched(uow[r])
        BY <2>1, SaveChangesRows DEF LegalChange
      <3>2. QED
        BY <2>1, <3>1, SaveChangesRows
    <2>2. CASE UNCHANGED invoices
      BY <2>2
    <2>3. QED
      BY <2>1, <2>2
         DEF vars, Next, Step, ProvisionTenantAsync, MarkAsPaidAsync, CancelAsync,
             ProcessOverdueInvoicesAsync, Start, CommitFails, Rollback, Tick
  <1>2. QED
    BY <1>1, Invariant, PTL DEF Spec, SettledIsFinal

-----------------------------------------------------------------------------
(* The service implements the life cycle of an invoice *)

\* What the life cycle sees of the saved table.
LEMMA SaveSeen ==
  ASSUME IInv, NEW r \in Requests, SaveChanges(r)
  PROVE  /\ \A id \in Touched(uow[r]) :
              Seen'[id] = [status |-> uow[r].rows[id].status,
                           due |-> uow[r].rows[id].due]
         /\ \A id \in InvoiceIds \ Touched(uow[r]) : Seen'[id] = Seen[id]
  <1>1. ASSUME NEW id \in Touched(uow[r])
        PROVE  Seen'[id] = [status |-> uow[r].rows[id].status,
                            due |-> uow[r].rows[id].due]
    <2>1. /\ id \in InvoiceIds
          /\ invoices'[id] = uow[r].rows[id]
          /\ uow[r].rows[id] # None
      BY SaveChangesRows DEF Touched
    <2>2. QED
      BY <2>1 DEF Seen, View
  <1>2. ASSUME NEW id \in InvoiceIds \ Touched(uow[r])
        PROVE  Seen'[id] = Seen[id]
    <2>1. invoices'[id] = invoices[id]
      BY SaveChangesRows
    <2>2. QED
      BY <2>1 DEF Seen, View
  <1>3. QED
    BY <1>1, <1>2

\* What the life cycle sees of an invoice.
LEMMA SeenRow ==
  ASSUME IInv, NEW id \in InvoiceIds
  PROVE  /\ invoices[id] = None => Seen[id] = None
         /\ invoices[id] # None =>
              /\ Seen[id] # None
              /\ Seen[id].status = invoices[id].status
              /\ Seen[id].due = invoices[id].due
  <1>1. Seen[id] = View(invoices[id])
    BY DEF Seen
  <1>2. ASSUME invoices[id] \in InvoiceRows
        PROVE  View(invoices[id]) \in Lifecycle!Bills
    BY <1>2, NoRowAssumption DEF View, InvoiceRows, InvoiceStatuses, Lifecycle!Bills
  <1>3. invoices[id] \in InvoiceRows \cup {None}
    BY DEF IInv, TypeOK, Table
  <1>4. QED
    BY <1>1, <1>2, <1>3, NoBillAssumption DEF View

\* A save is one step of the life cycle.
LEMMA SaveRefines ==
  ASSUME IInv, NEW r \in Requests, SaveChanges(r)
  PROVE  Lifecycle!Next
  <1> DEFINE work == uow[r]
             ids == Touched(work)
  <1>1. /\ work \in Works
        /\ \A id \in ids :
             /\ id \in InvoiceIds
             /\ work.rows[id] \in InvoiceRows
             /\ LegalChange(work.op, invoices[id], work.rows[id])
    BY SaveChangesRows
  <1>2. /\ \A id \in ids : Seen'[id] = [status |-> work.rows[id].status,
                                       due |-> work.rows[id].due]
        /\ \A id \in InvoiceIds \ ids : Seen'[id] = Seen[id]
    BY SaveSeen
  <1>3. today' = today /\ today \in Nat
    BY DEF SaveChanges, IInv, TypeOK
  <1>4. Seen = [id \in InvoiceIds |-> Seen[id]] /\ Seen' = [id \in InvoiceIds |-> Seen'[id]]
    BY DEF Seen
  <1>5. CASE work.op = "ProcessOverdue"
    <2>1. ASSUME NEW id \in ids
          PROVE  /\ id \in InvoiceIds
                 /\ Seen[id] # None
                 /\ Seen[id].status = "Pending"
                 /\ Seen[id].due < today
                 /\ Seen'[id] = [status |-> "Overdue", due |-> Seen[id].due]
      BY <1>1, <1>2, <1>5, SeenRow DEF LegalChange
    <2>2. Seen' = [id \in InvoiceIds |->
                     IF id \in ids THEN [status |-> "Overdue", due |-> Seen[id].due]
                     ELSE Seen[id]]
      BY <1>2, <1>4, <2>1
    <2>3. Lifecycle!MarkOverdue(ids)
      BY <1>3, <2>1, <2>2 DEF Lifecycle!MarkOverdue
    <2>4. QED
      BY <1>1, <2>3 DEF Lifecycle!Next
  <1>6. CASE work.op # "ProcessOverdue"
    <2>1. PICK id \in InvoiceIds : ids = {id}
      BY <1>6 DEF SaveChanges, IInv, WorkOK
    <2> DEFINE old == invoices[id]
               new == work.rows[id]
               bill == [status |-> new.status, due |-> new.due]
    <2>2. LegalChange(work.op, old, new) /\ new \in InvoiceRows
      BY <1>1, <2>1
    <2>3. Seen' = [Seen EXCEPT ![id] = bill]
      BY <1>2, <1>4, <2>1
    <2>4. CASE old = None
      <3>1. /\ Seen[id] = None
            /\ bill = [status |-> "Pending", due |-> new.due]
            /\ new.due \in 0..(today + DueDays)
        BY <1>3, <2>2, <2>4, SeenRow DEF LegalChange, InvoiceRows
      <3>2. Lifecycle!Issue(id)
        BY <1>3, <2>3, <3>1 DEF Lifecycle!Issue
      <3>3. QED
        BY <3>2 DEF Lifecycle!Next
    <2>5. CASE old # None /\ work.op = "MarkAsPaid"
      <3>1. /\ Seen[id] # None
            /\ Seen[id].status \in {"Pending", "Overdue"}
            /\ bill = [status |-> "Paid", due |-> Seen[id].due]
        BY <2>2, <2>5, SeenRow DEF LegalChange
      <3>2. Lifecycle!Pay(id)
        BY <1>3, <2>3, <3>1 DEF Lifecycle!Pay, Lifecycle!Turn
      <3>3. QED
        BY <3>2 DEF Lifecycle!Next
    <2>6. CASE old # None /\ work.op = "Cancel"
      <3>1. /\ Seen[id] # None
            /\ Seen[id].status = "Pending"
            /\ bill = [status |-> "Cancelled", due |-> Seen[id].due]
        BY <2>2, <2>6, SeenRow DEF LegalChange
      <3>2. Lifecycle!Cancel(id)
        BY <1>3, <2>3, <3>1 DEF Lifecycle!Cancel, Lifecycle!Turn
      <3>3. QED
        BY <3>2 DEF Lifecycle!Next
    <2>7. QED
      BY <1>6, <2>2, <2>4, <2>5, <2>6 DEF LegalChange
  <1>7. QED
    BY <1>5, <1>6

\* The service implements InvoiceLifecycle: each invoice is issued once and
\* settled once, whatever requests work on it together.
THEOREM LifecycleImplemented == Spec => ImplementsLifecycle
  <1>1. Init => Lifecycle!Init
    BY DEF Init, Lifecycle!Init, Seen, View
  <1>2. IInv /\ [Next]_vars => [Lifecycle!Next]_<<Seen, today>>
    <2> SUFFICES ASSUME IInv, [Next]_vars
                 PROVE  Lifecycle!Next \/ UNCHANGED <<Seen, today>>
      OBVIOUS
    <2>1. ASSUME NEW r \in Requests, SaveChanges(r)
          PROVE  Lifecycle!Next
      BY <2>1, SaveRefines
    <2>2. CASE Tick
      BY <2>2 DEF Tick, Seen, Lifecycle!Next, Lifecycle!Pass
    <2>3. CASE UNCHANGED <<invoices, today>>
      BY <2>3 DEF Seen
    <2>4. QED
      BY <2>1, <2>2, <2>3
         DEF vars, Next, Step, ProvisionTenantAsync, MarkAsPaidAsync, CancelAsync,
             ProcessOverdueInvoicesAsync, Start, CommitFails, Rollback
  <1>3. QED
    BY <1>1, <1>2, Invariant, PTL DEF Spec, ImplementsLifecycle, Lifecycle!Spec

=============================================================================
