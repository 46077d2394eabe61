------------------------ MODULE SubscriptionsProofs ------------------------
(***************************************************************************)
(* Theorems about Subscriptions, for every value of its constants.         *)
(*                                                                         *)
(* The inductive invariant IInv says of the table what the properties say, *)
(* and of the changes still in memory that each is one legal step from the *)
(* row it read, and that this row is the stored one while its stamp is     *)
(* good.  A save then turns a stored row into the result of one legal step *)
(* from it, which is what every property needs.                            *)
(***************************************************************************)
EXTENDS Subscriptions, TLAPS

USE CallersAssumption, HostAssumption, PricesAssumption, PeriodsAssumption,
    TrialAssumption, CalendarAssumption, BoundsAssumption, MapsAssumption,
    NoneAssumption, NoRowAssumption

-----------------------------------------------------------------------------
(* The operators of the aggregate *)

\* A period is at least a day long.
LEMMA PeriodLengthType ==
  ASSUME NEW billing
  PROVE  PeriodLength(billing) \in Nat \ {0}
  BY DEF PeriodLength

\* Computing the next billing date changes nothing else of a row, and makes
\* the row consistent unless it is cancelled and still renewing.
LEMMA RebilledRow ==
  ASSUME NEW row \in SubscriptionRows
  PROVE  /\ Rebilled(row) \in SubscriptionRows
         /\ Rebilled(row) = [row EXCEPT !.nextBilling = Rebilled(row).nextBilling]
         /\ (row.status = "Cancelled" => ~row.autoRenew) => RowConsistent(Rebilled(row))
  BY DEF Rebilled, NextBillingDate, SubscriptionRows, RowConsistent

\* The constructor makes a consistent row, on trial or active.
LEMMA NewSubscriptionRow ==
  ASSUME NEW tenant \in Tenants, NEW edition \in Editions,
         NEW billing \in Periods, NEW start \in Nat, NEW price \in Nat,
         NEW autoRenew \in BOOLEAN, NEW trial \in TrialDays
  PROVE  LET row == NewSubscription(tenant, edition, billing, start, price,
                                    autoRenew, trial)
         IN /\ row \in SubscriptionRows
            /\ RowConsistent(row)
            /\ row.status \in {"Trial", "Active"}
            /\ ~row.deleted
  <1> DEFINE plain ==
        [tenant |-> tenant, edition |-> edition, billing |-> billing,
         start |-> start,
         end |-> IF trial > 0 THEN start + trial ELSE start + PeriodLength(billing),
         nextBilling |-> None, autoRenew |-> autoRenew, price |-> price,
         status |-> IF trial > 0 THEN "Trial" ELSE "Active",
         trialEnd |-> IF trial > 0 THEN start + trial ELSE None,
         deleted |-> FALSE]
  <1>1. plain \in SubscriptionRows
    BY PeriodLengthType DEF SubscriptionRows, BillingPeriods, Statuses
  <1>2. NewSubscription(tenant, edition, billing, start, price, autoRenew, trial)
          = Rebilled(plain)
    BY DEF NewSubscription
  <1>3. /\ plain.status \in {"Trial", "Active"}
        /\ ~plain.deleted
    OBVIOUS
  <1> HIDE DEF plain
  <1>4. /\ Rebilled(plain).status = plain.status
        /\ Rebilled(plain).deleted = plain.deleted
    BY <1>1 DEF Rebilled, SubscriptionRows
  <1>5. QED
    BY <1>1, <1>2, <1>3, <1>4, RebilledRow

\* Renewing an active or expired subscription keeps its owner, its status and
\* its renewal flag.
LEMMA RenewedRow ==
  ASSUME NEW row \in SubscriptionRows, NEW newPrice \in Nat,
         row.status \in {"Active", "Expired"}
  PROVE  /\ Renewed(row, newPrice) \in SubscriptionRows
         /\ RowConsistent(Renewed(row, newPrice))
         /\ Renewed(row, newPrice).tenant = row.tenant
         /\ Renewed(row, newPrice).status = row.status
         /\ Renewed(row, newPrice).autoRenew = row.autoRenew
         /\ Renewed(row, newPrice).deleted = row.deleted
  <1> DEFINE plain == [row EXCEPT !.status = row.status, !.start = row.end + 1,
                                  !.end = row.end + PeriodLength(row.billing),
                                  !.price = newPrice]
  <1>1. Renewed(row, newPrice) = Rebilled(plain)
    BY DEF Renewed
  <1>2. /\ plain \in SubscriptionRows
        /\ plain.tenant = row.tenant /\ plain.status = row.status
        /\ plain.autoRenew = row.autoRenew /\ plain.deleted = row.deleted
    <2>1. /\ row.end + 1 \in Nat
          /\ row.end + PeriodLength(row.billing) \in Nat
      BY PeriodLengthType DEF SubscriptionRows
    <2>2. QED
      BY <2>1 DEF SubscriptionRows
  <1> HIDE DEF plain
  <1>3. /\ Rebilled(plain).tenant = plain.tenant
        /\ Rebilled(plain).status = plain.status
        /\ Rebilled(plain).autoRenew = plain.autoRenew
        /\ Rebilled(plain).deleted = plain.deleted
    BY <1>2 DEF Rebilled, SubscriptionRows
  <1>4. QED
    BY <1>1, <1>2, <1>3, RebilledRow

\* A change of plan keeps the owner and the status.
LEMMA ReplannedRow ==
  ASSUME NEW row \in SubscriptionRows, NEW billing \in Periods,
         NEW price \in Nat, NEW autoRenew \in BOOLEAN,
         autoRenew => row.status # "Cancelled"
  PROVE  LET new == Replanned(row, billing, price, autoRenew)
         IN /\ new \in SubscriptionRows
            /\ RowConsistent(new)
            /\ new.tenant = row.tenant
            /\ new.status = row.status
            /\ new.deleted = row.deleted
  <1> DEFINE plain == [row EXCEPT !.billing = billing, !.price = price,
                                  !.autoRenew = autoRenew,
                                  !.end = row.start + PeriodLength(billing)]
  <1>1. Replanned(row, billing, price, autoRenew) = Rebilled(plain)
    BY DEF Replanned
  <1>2. /\ plain \in SubscriptionRows
        /\ plain.tenant = row.tenant /\ plain.status = row.status
        /\ plain.autoRenew = autoRenew /\ plain.deleted = row.deleted
    <2>1. row.start + PeriodLength(billing) \in Nat
      BY PeriodLengthType DEF SubscriptionRows
    <2>2. QED
      BY <2>1 DEF SubscriptionRows, BillingPeriods
  <1> HIDE DEF plain
  <1>3. /\ Rebilled(plain).tenant = plain.tenant
        /\ Rebilled(plain).status = plain.status
        /\ Rebilled(plain).deleted = plain.deleted
    BY <1>2 DEF Rebilled, SubscriptionRows
  <1>4. QED
    BY <1>1, <1>2, <1>3, RebilledRow

-----------------------------------------------------------------------------
(* Steps that only change the unit of work of one request *)

\* The phase of a unit of work tells which of the three kinds it is.
LEMMA PhaseTells ==
  ASSUME TypeOK, NEW r \in Requests
  PROVE  /\ uow[r] \in {Idle} \cup Quoted \cup Changes
         /\ InChange(r) <=> uow[r] \in Changes
         /\ uow[r].phase = "quoted" <=> uow[r] \in Quoted
         /\ uow[r].phase = "idle" <=> uow[r] = Idle
  BY DEF TypeOK, InChange, Idle, Quoted, Changes

\* A unit of work the invariant allows.
WorkOK(work) ==
  \/ work = Idle
  \/ work \in Quoted
  \/ /\ work \in Changes
     /\ LegalChange(work)
     /\ ~work.stale => subs[work.id] = work.base

\* Replacing one unit of work by an allowed one keeps the invariant.
LEMMA WorkStep ==
  ASSUME IInv, NEW r \in Requests, NEW work, WorkOK(work),
         uow' = [uow EXCEPT ![r] = work],
         UNCHANGED <<subs, catalog, tenants, cancelled, today>>
  PROVE  IInv'
  <1>1. TypeOK'
    BY DEF IInv, TypeOK, WorkOK
  <1>2. BillingConsistent' /\ CancellationAnnounced'
    BY DEF IInv, BillingConsistent, CancellationAnnounced
  <1>3. ASSUME NEW q \in Requests, InChange(q)'
        PROVE  /\ LegalChange(uow'[q])
               /\ ~uow'[q].stale => subs[uow'[q].id] = uow'[q].base
    <2>1. CASE q = r
      <3>1. uow'[q] = work
        BY <2>1 DEF IInv, TypeOK
      <3>2. work \notin {Idle} \cup Quoted
        BY <3>1, <1>3 DEF InChange, Idle, Quoted
      <3>3. QED
        BY <3>1, <3>2 DEF WorkOK
    <2>2. CASE q # r
      <3>1. uow'[q] = uow[q]
        BY <2>2 DEF IInv, TypeOK
      <3>2. QED
        BY <3>1, <1>3 DEF IInv, StampsTell, InChange
    <2>3. QED
      BY <2>1, <2>2
  <1>4. StampsTell'
    BY <1>3 DEF StampsTell
  <1>5. QED
    BY <1>1, <1>2, <1>3, <1>4 DEF IInv

\* What a caller may change is stored, consistent and not deleted.
LEMMA AccessibleRow ==
  ASSUME IInv, NEW id \in Accessible
  PROVE  /\ id \in SubIds
         /\ subs[id] \in SubscriptionRows
         /\ subs[id] # None
         /\ RowConsistent(subs[id])
         /\ ~subs[id].deleted
  BY DEF IInv, TypeOK, Accessible, Visible, BillingConsistent

\* A call that turns the row it read into a legal successor.
LEMMA UpdateStep ==
  ASSUME IInv, NEW r \in Requests, NEW id \in Accessible,
         NEW op \in Updates, NEW phase \in {"loaded", "ready"},
         NEW row \in SubscriptionRows, RowConsistent(row),
         row.tenant = subs[id].tenant,
         row.deleted => row = [subs[id] EXCEPT !.deleted = TRUE],
         CanTransition(subs[id].status, row.status),
         row.status # subs[id].status =>
            IF row.status = "Cancelled" THEN op = "Cancel"
            ELSE row.autoRenew = subs[id].autoRenew,
         phase = "loaded" =>
            row = subs[id] /\ subs[id].status \in {"Active", "Expired"},
         Start(r, Change(op, phase, id, row))
  PROVE  IInv'
  <1> DEFINE work == Change(op, phase, id, row)
  <1>1. /\ work \in Changes
        /\ work.base = subs[id] /\ work.row = row /\ work.op = op
        /\ work.id = id /\ work.phase = phase
    BY AccessibleRow DEF Change, Changes
  <1>2. LegalChange(work)
    BY <1>1, AccessibleRow DEF LegalChange
  <1>3. WorkOK(work)
    BY <1>1, <1>2 DEF WorkOK
  <1>4. /\ uow' = [uow EXCEPT ![r] = work]
        /\ UNCHANGED <<subs, catalog, tenants, cancelled, today>>
    BY DEF Start
  <1> HIDE DEF work
  <1>5. QED
    BY <1>3, <1>4, WorkStep

\* Reading an edition for a creation.
LEMMA ReadEditionStep ==
  ASSUME IInv, NEW r \in Requests, NEW op \in Inserts,
         NEW caller \in ActiveCallers, NEW tenant \in Tenants,
         ReadEdition(r, op, caller, tenant)
  PROVE  IInv'
  <1> PICK e \in Editions :
        Start(r, [phase |-> "quoted", op |-> op, caller |-> caller,
                  tenant |-> tenant, edition |-> e,
                  monthly |-> catalog[e].monthly, yearly |-> catalog[e].yearly])
    BY DEF ReadEdition
  <1> DEFINE work == [phase |-> "quoted", op |-> op, caller |-> caller,
                      tenant |-> tenant, edition |-> e,
                      monthly |-> catalog[e].monthly, yearly |-> catalog[e].yearly]
  <1>1. catalog[e].monthly \in Prices /\ catalog[e].yearly \in Prices
    BY DEF IInv, TypeOK, EditionRows
  <1>2. WorkOK(work)
    BY <1>1 DEF WorkOK, Quoted, ActiveCallers
  <1>3. /\ uow' = [uow EXCEPT ![r] = work]
        /\ UNCHANGED <<subs, catalog, tenants, cancelled, today>>
    BY DEF Start
  <1> HIDE DEF work
  <1>4. QED
    BY <1>2, <1>3, WorkStep

\* Building the row of a new subscription.
LEMMA CreateSubscriptionStep ==
  ASSUME IInv, NEW r \in Requests, CreateSubscriptionAsync(r)
  PROVE  IInv'
  <1>1. uow[r] \in Quoted
    BY PhaseTells DEF IInv, CreateSubscriptionAsync
  <1>2. PICK id \in SubIds, billing \in Periods, trial \in TrialDays :
          \E terms \in Terms(uow[r], billing) :
            /\ Fresh(id)
            /\ Continue(r, Change(uow[r].op, "ready", id,
                 NewSubscription(uow[r].tenant, uow[r].edition, billing,
                   terms.start, terms.price, terms.autoRenew, trial)))
    BY DEF CreateSubscriptionAsync
  <1>3. PICK terms \in Terms(uow[r], billing) :
            /\ Fresh(id)
            /\ Continue(r, Change(uow[r].op, "ready", id,
                 NewSubscription(uow[r].tenant, uow[r].edition, billing,
                   terms.start, terms.price, terms.autoRenew, trial)))
    BY <1>2
  <1>4. /\ terms.start \in Nat
        /\ terms.price \in Nat
        /\ terms.autoRenew \in BOOLEAN
    <2>1. PriceForPeriod(uow[r], billing) \in Nat
      BY <1>1 DEF PriceForPeriod, Quoted
    <2>2. today \in Nat
      BY DEF IInv, TypeOK
    <2>3. CASE uow[r].op = "Provision"
      <3>1. terms = [price |-> PriceForPeriod(uow[r], billing),
                     autoRenew |-> TRUE, start |-> today]
        BY <2>3, Zenon DEF Terms
      <3>2. QED
        BY <3>1, <2>1, <2>2
    <2>4. CASE uow[r].op # "Provision"
      <3>1. terms \in [price: (Prices \ {0}) \cup {PriceForPeriod(uow[r], billing)},
                       autoRenew: BOOLEAN, start: today..(today + StartWindow)]
        BY <2>4, Zenon DEF Terms
      <3>2. /\ terms.price \in (Prices \ {0}) \cup {PriceForPeriod(uow[r], billing)}
            /\ terms.autoRenew \in BOOLEAN
            /\ terms.start \in today..(today + StartWindow)
        BY <3>1, Zenon
      <3>3. terms.price \in Nat
        BY <3>2, <2>1
      <3>4. terms.start \in Nat
        BY <3>2, <2>2
      <3>5. QED
        BY <3>2, <3>3, <3>4
    <2>5. QED
      BY <2>3, <2>4
  <1> DEFINE row == NewSubscription(uow[r].tenant, uow[r].edition, billing,
                      terms.start, terms.price, terms.autoRenew, trial)
             work == Change(uow[r].op, "ready", id, row)
  <1>5. /\ row \in SubscriptionRows
        /\ RowConsistent(row)
        /\ row.status \in {"Trial", "Active"}
        /\ ~row.deleted
    <2>1. uow[r].tenant \in Tenants /\ uow[r].edition \in Editions
      BY <1>1 DEF Quoted
    <2>2. QED
      BY <2>1, <1>4, NewSubscriptionRow
  <1>6. subs[id] = None
    BY <1>3 DEF Fresh
  <1>7. /\ uow' = [uow EXCEPT ![r] = work]
        /\ UNCHANGED <<subs, catalog, tenants, cancelled, today>>
    BY <1>3 DEF Continue
  <1>8. uow[r].op \in Inserts
    BY <1>1 DEF Quoted
  <1> HIDE DEF row
  <1>9. /\ work \in Changes
        /\ work.base = None /\ work.row = row /\ work.id = id
        /\ work.phase = "ready"
    BY <1>5, <1>6, <1>8 DEF Change, Changes
  <1>10. WorkOK(work)
    BY <1>5, <1>6, <1>9 DEF WorkOK, LegalChange
  <1> HIDE DEF work
  <1>11. QED
    BY <1>7, <1>10, WorkStep

\* The manager's part of a renewal: the edition's price enters the row read.
LEMMA RenewSubscriptionStep ==
  ASSUME IInv, NEW r \in Requests, RenewSubscriptionAsync(r)
  PROVE  IInv'
  <1> DEFINE price == PriceForPeriod(catalog[uow[r].row.edition], uow[r].row.billing)
             row == Renewed(uow[r].row, price)
             work == [uow[r] EXCEPT !.phase = "ready", !.row = row]
  <1>1. /\ uow[r] \in Changes
        /\ uow[r].phase = "loaded"
        /\ LegalChange(uow[r])
        /\ ~uow[r].stale => subs[uow[r].id] = uow[r].base
    BY PhaseTells DEF IInv, RenewSubscriptionAsync, InChange, StampsTell
  <1>2. /\ uow[r].row = uow[r].base
        /\ uow[r].base # None
        /\ uow[r].base \in SubscriptionRows
        /\ uow[r].base.status \in {"Active", "Expired"}
        /\ ~uow[r].base.deleted
        /\ RowConsistent(uow[r].base)
    BY <1>1 DEF LegalChange, Changes
  <1>3. price \in Nat
    <2>1. catalog[uow[r].row.edition] \in EditionRows
      BY <1>2 DEF IInv, TypeOK, SubscriptionRows
    <2>2. QED
      BY <2>1 DEF PriceForPeriod, EditionRows
  <1>4. /\ row \in SubscriptionRows
        /\ RowConsistent(row)
        /\ row.tenant = uow[r].base.tenant
        /\ row.status = uow[r].base.status
        /\ row.autoRenew = uow[r].base.autoRenew
        /\ row.deleted = uow[r].base.deleted
    BY <1>2, <1>3, RenewedRow
  <1>5. /\ uow' = [uow EXCEPT ![r] = work]
        /\ UNCHANGED <<subs, catalog, tenants, cancelled, today>>
    BY DEF RenewSubscriptionAsync, Continue
  <1> HIDE DEF row
  <1>6. /\ work \in Changes
        /\ work.base = uow[r].base /\ work.row = row /\ work.id = uow[r].id
        /\ work.phase = "ready" /\ work.stale = uow[r].stale
    BY <1>1, <1>4 DEF Changes
  <1>7. LegalChange(work)
    BY <1>2, <1>4, <1>6 DEF LegalChange, CanTransition
  <1>8. WorkOK(work)
    BY <1>1, <1>6, <1>7 DEF WorkOK
  <1> HIDE DEF work
  <1>9. QED
    BY <1>5, <1>8, WorkStep

-----------------------------------------------------------------------------
(* The end of a request *)

\* What a save finds: a legal change computed from the stored row.
LEMMA SaveFinds ==
  ASSUME IInv, NEW r \in Requests, SaveChanges(r)
  PROVE  /\ uow[r] \in Changes
         /\ LegalChange(uow[r])
         /\ uow[r].phase = "ready"
         /\ subs[uow[r].id] = uow[r].base
         /\ uow[r].row # None
  BY PhaseTells DEF IInv, SaveChanges, InChange, StampsTell, Changes

\* Publishing never takes an event back, and counts a cancellation's.
LEMMA PublishedCounts ==
  ASSUME IInv, NEW work \in Changes
  PROVE  /\ Published(work) \in [SubIds -> 0..2]
         /\ \A id \in SubIds : cancelled[id] > 0 => Published(work)[id] > 0
         /\ work.op = "Cancel" => Published(work)[work.id] > 0
  <1>1. cancelled \in [SubIds -> 0..2] /\ work.id \in SubIds
    BY DEF IInv, TypeOK, Changes
  <1>2. CASE work.op = "Cancel"
    <2> DEFINE n == IF cancelled[work.id] = 2 THEN 2 ELSE cancelled[work.id] + 1
    <2>1. Published(work) = [cancelled EXCEPT ![work.id] = n]
      BY <1>2 DEF Published
    <2>2. n \in 1..2
      BY <1>1
    <2> HIDE DEF n
    <2>3. QED
      BY <1>1, <2>1, <2>2
  <1>3. CASE work.op # "Cancel"
    BY <1>1, <1>3 DEF Published
  <1>4. QED
    BY <1>2, <1>3

LEMMA SaveStep ==
  ASSUME IInv, NEW r \in Requests, SaveChanges(r)
  PROVE  IInv'
  <1> DEFINE id == uow[r].id
             row == uow[r].row
  <1>1. /\ uow[r] \in Changes
        /\ LegalChange(uow[r])
        /\ subs[id] = uow[r].base
        /\ id \in SubIds
        /\ row \in SubscriptionRows
        /\ RowConsistent(row)
    BY SaveFinds DEF Changes, LegalChange
  <1>2. /\ subs' = [subs EXCEPT ![id] = row]
        /\ cancelled' = Published(uow[r])
        /\ uow' = Settled(r, id)
        /\ UNCHANGED <<catalog, today>>
    BY DEF SaveChanges
  <1>3. tenants' \subseteq Tenants
    BY <1>1 DEF SaveChanges, IInv, TypeOK, SubscriptionRows
  <1>4. ASSUME NEW q \in Requests
        PROVE  /\ uow'[q] \in {Idle} \cup Quoted \cup Changes
               /\ InChange(q)' => /\ q # r
                                  /\ InChange(q)
                                  /\ LegalChange(uow'[q])
                                  /\ uow'[q].id = uow[q].id
                                  /\ uow'[q].base = uow[q].base
                                  /\ ~uow'[q].stale => uow[q].id # id /\ ~uow[q].stale
    <2>1. CASE q = r
      <3>1. uow'[q] = Idle
        BY <1>2, <2>1 DEF Settled
      <3>2. QED
        BY <3>1 DEF InChange, Idle
    <2>2. CASE q # r /\ InChange(q) /\ uow[q].id = id
      <3>1. uow'[q] = [uow[q] EXCEPT !.stale = TRUE]
        BY <1>2, <2>2 DEF Settled
      <3>2. uow[q] \in Changes /\ LegalChange(uow[q])
        BY <2>2, PhaseTells DEF IInv
      <3>3. /\ uow'[q] \in Changes
            /\ uow'[q].stale
            /\ uow'[q].id = uow[q].id /\ uow'[q].base = uow[q].base
            /\ uow'[q].row = uow[q].row /\ uow'[q].op = uow[q].op
            /\ uow'[q].phase = uow[q].phase
        BY <3>1, <3>2 DEF Changes
      <3>4. LegalChange(uow'[q])
        BY <3>2, <3>3 DEF LegalChange
      <3>5. QED
        BY <2>2, <3>3, <3>4
    <2>3. CASE q # r /\ ~(InChange(q) /\ uow[q].id = id)
      <3>1. uow'[q] = uow[q]
        BY <1>2, <2>3 DEF Settled
      <3>2. QED
        BY <3>1, <2>3 DEF IInv, TypeOK, InChange
    <2>4. QED
      BY <2>1, <2>2, <2>3
  <1>5. uow' \in [Requests -> {Idle} \cup Quoted \cup Changes]
    <2>1. uow' = [q \in Requests |-> uow'[q]]
      BY <1>2 DEF Settled
    <2>2. QED
      BY <2>1, <1>4
  <1> HIDE DEF id, row
  <1>6. subs' \in [SubIds -> SubscriptionRows \cup {None}]
    BY <1>1, <1>2 DEF IInv, TypeOK
  <1>7. \A i \in SubIds : subs'[i] = IF i = id THEN row ELSE subs[i]
    BY <1>1, <1>2 DEF IInv, TypeOK
  <1>8. TypeOK'
    BY <1>1, <1>2, <1>3, <1>5, <1>6, PublishedCounts DEF IInv, TypeOK
  <1>9. BillingConsistent'
    BY <1>1, <1>7 DEF IInv, BillingConsistent
  <1>10. CancellationAnnounced'
    <2> SUFFICES ASSUME NEW i \in SubIds, subs'[i] # None,
                        subs'[i].status = "Cancelled"
                 PROVE  cancelled'[i] > 0
      BY DEF CancellationAnnounced
    <2>1. CASE i # id
      <3>1. cancelled[i] > 0
        BY <1>7, <2>1 DEF IInv, CancellationAnnounced
      <3>2. QED
        BY <3>1, <1>1, <1>2, PublishedCounts
    <2>2. CASE i = id
      <3>1. row.status = "Cancelled"
        BY <2>2, <1>7
      <3>2. uow[r].op = "Cancel" \/ (subs[id] # None /\ subs[id].status = "Cancelled")
        BY <3>1, <1>1 DEF LegalChange, row
      <3>3. CASE uow[r].op = "Cancel"
        BY <3>3, <2>2, <1>1, <1>2, PublishedCounts DEF id
      <3>4. CASE subs[id] # None /\ subs[id].status = "Cancelled"
        <4>1. cancelled[i] > 0
          BY <3>4, <2>2 DEF IInv, CancellationAnnounced
        <4>2. QED
          BY <4>1, <1>1, <1>2, PublishedCounts
      <3>5. QED
        BY <3>2, <3>3, <3>4
    <2>3. QED
      BY <2>1, <2>2
  <1>11. StampsTell'
    <2> SUFFICES ASSUME NEW q \in Requests, InChange(q)', ~uow'[q].stale
                 PROVE  subs'[uow'[q].id] = uow'[q].base
      BY DEF StampsTell
    <2>1. /\ uow[q].id \in SubIds
          /\ subs[uow[q].id] = uow[q].base
      BY <1>4, PhaseTells DEF IInv, StampsTell, Changes
    <2>2. QED
      BY <2>1, <1>4, <1>7
  <1>12. QED
    BY <1>4, <1>8, <1>9, <1>10, <1>11 DEF IInv

\* An event goes out, and nothing is stored with it.
LEMMA PublishStep ==
  ASSUME IInv, NEW r \in Requests, CommitFails(r) \/ SaveNothing(r)
  PROVE  IInv'
  <1>1. uow[r] \in Changes
    BY PhaseTells DEF IInv, CommitFails, SaveNothing, InChange
  <1>2. /\ cancelled' = Published(uow[r])
        /\ uow' = [uow EXCEPT ![r] = Idle]
        /\ UNCHANGED <<subs, catalog, tenants, today>>
    BY DEF CommitFails, SaveNothing
  <1>3. TypeOK'
    BY <1>1, <1>2, PublishedCounts DEF IInv, TypeOK
  <1>4. BillingConsistent' /\ CancellationAnnounced'
    BY <1>1, <1>2, PublishedCounts
       DEF IInv, BillingConsistent, CancellationAnnounced
  <1>5. ASSUME NEW q \in Requests, InChange(q)'
        PROVE  uow'[q] = uow[q]
    BY <1>2, <1>5 DEF IInv, TypeOK, InChange, Idle
  <1>6. QED
    BY <1>2, <1>3, <1>4, <1>5 DEF IInv, StampsTell, InChange

-----------------------------------------------------------------------------
(* The invariant *)

LEMMA InitInv == Init => IInv
  <1> SUFFICES ASSUME Init PROVE IInv
    OBVIOUS
  <1>1. TypeOK
    BY DEF Init, TypeOK
  <1>2. \A id \in SubIds : subs[id] = None
    BY DEF Init
  <1>3. \A r \in Requests : ~InChange(r)
    BY DEF Init, InChange, Idle
  <1>4. QED
    BY <1>1, <1>2, <1>3
       DEF IInv, BillingConsistent, CancellationAnnounced, StampsTell

\* Each step of a request keeps the invariant: one case per action.
LEMMA RequestStep ==
  ASSUME IInv, NEW r \in Requests, Step(r)
  PROVE  IInv'
  <1>1. CASE CreateAsync(r)
    BY <1>1, ReadEditionStep DEF CreateAsync, Inserts, IInv, TypeOK
  <1>2. CASE ProvisionTenantAsync(r)
    BY <1>2, ReadEditionStep DEF ProvisionTenantAsync, Inserts
  <1>3. CASE CreateSubscriptionAsync(r)
    BY <1>3, CreateSubscriptionStep
  <1>4. CASE UpdateAsync(r)
    <2>1. PICK id \in Accessible, billing \in Periods, price \in Prices,
               autoRenew \in BOOLEAN :
            /\ autoRenew => subs[id].status # "Cancelled"
            /\ Start(r, Change("Update", "ready", id,
                               Replanned(subs[id], billing, price, autoRenew)))
      BY <1>4 DEF UpdateAsync
    <2> DEFINE row == Replanned(subs[id], billing, price, autoRenew)
    <2>2. /\ row \in SubscriptionRows
          /\ RowConsistent(row)
          /\ row.tenant = subs[id].tenant
          /\ row.status = subs[id].status
          /\ ~row.deleted
      <3>1. price \in Nat
        OBVIOUS
      <3>2. subs[id] \in SubscriptionRows /\ ~subs[id].deleted
        BY AccessibleRow
      <3> HIDE DEF row
      <3>3. row = Replanned(subs[id], billing, price, autoRenew)
        BY DEF row
      <3>4. QED
        BY <2>1, <3>1, <3>2, <3>3, ReplannedRow
    <2>3. Start(r, Change("Update", "ready", id, row))
      BY <2>1
    <2> HIDE DEF row
    <2>4. QED
      BY <2>2, <2>3, UpdateStep DEF CanTransition, Updates
  <1>5. CASE CancelAsync(r)
    <2>1. PICK id \in Accessible :
            /\ CanTransition(subs[id].status, "Cancelled")
            /\ Start(r, Change("Cancel", "ready", id, Cancelled(subs[id])))
      BY <1>5 DEF CancelAsync
    <2> DEFINE row == Cancelled(subs[id])
    <2>2. /\ row \in SubscriptionRows
          /\ RowConsistent(row)
          /\ row.tenant = subs[id].tenant
          /\ row.status = "Cancelled"
          /\ ~row.deleted
      BY AccessibleRow DEF Cancelled, SubscriptionRows, RowConsistent, Statuses
    <2>3. Start(r, Change("Cancel", "ready", id, row))
      BY <2>1
    <2> HIDE DEF row
    <2>4. QED
      BY <2>1, <2>2, <2>3, UpdateStep DEF Updates
  <1>6. CASE SuspendAsync(r)
    <2>1. PICK id \in Accessible :
            /\ subs[id].status = "Active"
            /\ CanTransition(subs[id].status, "Suspended")
            /\ Start(r, Change("Suspend", "ready", id,
                               WithStatus(subs[id], "Suspended")))
      BY <1>6 DEF SuspendAsync
    <2> DEFINE row == WithStatus(subs[id], "Suspended")
    <2>2. /\ row \in SubscriptionRows
          /\ RowConsistent(row)
          /\ row.tenant = subs[id].tenant
          /\ row.status = "Suspended"
          /\ row.autoRenew = subs[id].autoRenew
          /\ ~row.deleted
      BY AccessibleRow DEF WithStatus, SubscriptionRows, RowConsistent, Statuses
    <2>3. Start(r, Change("Suspend", "ready", id, row))
      BY <2>1
    <2> HIDE DEF row
    <2>4. QED
      BY <2>1, <2>2, <2>3, UpdateStep DEF Updates
  <1>7. CASE ActivateAsync(r)
    <2>1. PICK id \in Accessible :
            /\ CanTransition(subs[id].status, "Active")
            /\ Start(r, Change("Activate", "ready", id,
                               WithStatus(subs[id], "Active")))
      BY <1>7 DEF ActivateAsync
    <2> DEFINE row == WithStatus(subs[id], "Active")
    <2>2. /\ row \in SubscriptionRows
          /\ RowConsistent(row)
          /\ row.tenant = subs[id].tenant
          /\ row.status = "Active"
          /\ row.autoRenew = subs[id].autoRenew
          /\ ~row.deleted
      BY AccessibleRow DEF WithStatus, SubscriptionRows, RowConsistent, Statuses
    <2>3. Start(r, Change("Activate", "ready", id, row))
      BY <2>1
    <2> HIDE DEF row
    <2>4. QED
      BY <2>1, <2>2, <2>3, UpdateStep DEF Updates
  <1>8. CASE DeleteAsync(r)
    <2>1. PICK id \in Accessible :
            Start(r, Change("Delete", "ready", id,
                            [subs[id] EXCEPT !.deleted = TRUE]))
      BY <1>8 DEF DeleteAsync
    <2> DEFINE row == [subs[id] EXCEPT !.deleted = TRUE]
    <2>2. /\ row \in SubscriptionRows
          /\ RowConsistent(row)
          /\ row.tenant = subs[id].tenant
          /\ row.status = subs[id].status
      BY AccessibleRow DEF SubscriptionRows, RowConsistent
    <2>3. Start(r, Change("Delete", "ready", id, row))
      BY <2>1
    <2>4. row.deleted => row = [subs[id] EXCEPT !.deleted = TRUE]
      OBVIOUS
    <2> HIDE DEF row
    <2>5. QED
      BY <2>2, <2>3, <2>4, UpdateStep DEF CanTransition, Updates
  <1>9. CASE RenewAsync(r)
    <2>1. PICK id \in Accessible :
            /\ subs[id].status \in {"Active", "Expired"}
            /\ Start(r, Change("Renew", "loaded", id, subs[id]))
      BY <1>9 DEF RenewAsync
    <2>2. QED
      BY <2>1, AccessibleRow, UpdateStep DEF CanTransition, Updates
  <1>10. CASE RenewSubscriptionAsync(r)
    BY <1>10, RenewSubscriptionStep
  <1>11. CASE SaveChanges(r)
    BY <1>11, SaveStep
  <1>12. CASE CommitFails(r) \/ SaveNothing(r)
    BY <1>12, PublishStep
  <1>13. CASE Rollback(r)
    <2>1. WorkOK(Idle)
      BY DEF WorkOK
    <2>2. QED
      BY <1>13, <2>1, WorkStep DEF Rollback
  <1>14. QED
    BY <1>1, <1>2, <1>3, <1>4, <1>5, <1>6, <1>7, <1>8, <1>9, <1>10, <1>11,
       <1>12, <1>13 DEF Step

\* Steps that touch neither subscriptions nor units of work.
LEMMA CatalogStep ==
  ASSUME IInv, TypeOK', UNCHANGED <<subs, uow, cancelled>>
  PROVE  IInv'
  BY DEF IInv, BillingConsistent, CancellationAnnounced, StampsTell, InChange

LEMMA NextInv == IInv /\ [Next]_vars => IInv'
  <1> SUFFICES ASSUME IInv, [Next]_vars PROVE IInv'
    OBVIOUS
  <1>1. ASSUME NEW r \in Requests, Step(r) PROVE IInv'
    BY <1>1, RequestStep
  <1>2. ASSUME NEW e \in Editions, SetEdition(e) PROVE IInv'
    <2>1. UNCHANGED <<subs, tenants, uow, cancelled, today>>
      BY <1>2 DEF SetEdition
    <2>2. catalog' \in [Editions -> EditionRows]
      BY <1>2 DEF SetEdition, IInv, TypeOK, EditionRows
    <2>3. TypeOK'
      BY <2>1, <2>2 DEF IInv, TypeOK
    <2>4. QED
      BY <2>1, <2>3, CatalogStep
  <1>3. ASSUME NEW e \in Editions, DeleteEdition(e) PROVE IInv'
    <2>1. UNCHANGED <<subs, tenants, uow, cancelled, today>>
      BY <1>3 DEF DeleteEdition
    <2>2. catalog' \in [Editions -> EditionRows]
      BY <1>3 DEF DeleteEdition, IInv, TypeOK, EditionRows
    <2>3. TypeOK'
      BY <2>1, <2>2 DEF IInv, TypeOK
    <2>4. QED
      BY <2>1, <2>3, CatalogStep
  <1>4. CASE Tick
    <2>1. TypeOK'
      BY <1>4 DEF Tick, IInv, TypeOK
    <2>2. QED
      BY <1>4, <2>1, CatalogStep DEF Tick
  <1>5. CASE UNCHANGED vars
    BY <1>5, CatalogStep DEF vars, IInv, TypeOK
  <1>6. QED
    BY <1>1, <1>2, <1>3, <1>4, <1>5 DEF Next, CreateEdition, UpdateEdition

\* The invariant on which everything else rests.
THEOREM Invariant == Spec => []IInv
  BY InitInv, NextInv, PTL DEF Spec

-----------------------------------------------------------------------------
(* What follows from it *)

\* Every table and every unit of work keeps its shape.
THEOREM TypeCorrect == Spec => []TypeOK
  <1>1. IInv => TypeOK
    BY DEF IInv
  <1>2. QED
    BY <1>1, Invariant, PTL

\* The stored next billing date always is the one the row calls for, and a
\* cancelled subscription is never billed.
THEOREM BillingStaysConsistent == Spec => []BillingConsistent
  <1>1. IInv => BillingConsistent
    BY DEF IInv
  <1>2. QED
    BY <1>1, Invariant, PTL

\* Every stored cancellation was announced, wherever a process stops.
THEOREM CancellationsAreAnnounced == Spec => []CancellationAnnounced
  <1>1. IInv => CancellationAnnounced
    BY DEF IInv
  <1>2. QED
    BY <1>1, Invariant, PTL

\* No update is lost, whatever the requests that run together.
THEOREM UpdatesAreNotLost == Spec => NoLostUpdate
  <1>1. IInv /\ [Next]_vars =>
          [\A r \in Requests :
             (InChange(r) /\ uow'[r] = Idle /\ subs'[uow[r].id] # subs[uow[r].id])
               => subs[uow[r].id] = uow[r].base]_vars
    <2> SUFFICES ASSUME IInv, Next,
                        NEW r \in Requests, InChange(r), uow'[r] = Idle,
                        subs'[uow[r].id] # subs[uow[r].id]
                 PROVE  subs[uow[r].id] = uow[r].base
      BY DEF vars
    <2>1. PICK q \in Requests : SaveChanges(q)
      BY DEF Next, Step, CreateAsync, ProvisionTenantAsync, ReadEdition, Start,
             CreateSubscriptionAsync, Continue, UpdateAsync, CancelAsync,
             SuspendAsync, ActivateAsync, DeleteAsync, RenewAsync,
             RenewSubscriptionAsync, SaveNothing, CommitFails, Rollback, CreateEdition,
             UpdateEdition, SetEdition, DeleteEdition, Tick
    <2>2. q = r
      <3> SUFFICES ASSUME q # r PROVE FALSE
        OBVIOUS
      <3>1. \/ uow'[r] = uow[r]
            \/ uow'[r] = [uow[r] EXCEPT !.stale = TRUE]
        BY <2>1 DEF SaveChanges, Settled
      <3>2. uow[r] \in Changes
        BY PhaseTells DEF IInv
      <3>3. uow'[r] \in Changes
        BY <3>1, <3>2 DEF Changes
      <3>4. QED
        BY <3>3 DEF Changes, Idle
    <2>3. QED
      BY <2>1, <2>2, SaveFinds
  <1>2. QED
    BY <1>1, Invariant, PTL DEF Spec, NoLostUpdate

-----------------------------------------------------------------------------
(* Subscriptions implements SubscriptionLedger *)

\* A consistent row is billed exactly when it renews.
LEMMA BilledIsRenewing ==
  ASSUME NEW row \in SubscriptionRows, RowConsistent(row)
  PROVE  /\ View(row) = [owner |-> row.tenant, status |-> row.status,
                         billed |-> row.autoRenew, removed |-> row.deleted]
         /\ View(row) # None
  <1>1. View(row) = [owner |-> row.tenant, status |-> row.status,
                     billed |-> row.autoRenew, removed |-> row.deleted]
    BY DEF View, RowConsistent, SubscriptionRows
  <1>2. View(row) \in Ledger!Rows
    BY <1>1 DEF Ledger!Rows, SubscriptionRows, Statuses, Ledger!Statuses
  <1>3. QED
    BY <1>1, <1>2, NoLedgerRowAssumption
\* A save is a step of the ledger, or none.
LEMMA SaveRefines ==
  ASSUME IInv, NEW r \in Requests, SaveChanges(r)
  PROVE  Ledger!Next \/ UNCHANGED Seen
  <1> DEFINE id == uow[r].id
             old == subs[id]
             new == uow[r].row
  <1>1. /\ id \in SubIds
        /\ new \in SubscriptionRows /\ RowConsistent(new)
        /\ old \in SubscriptionRows \cup {None}
        /\ uow[r].base = old
        /\ LegalChange(uow[r])
    BY SaveFinds DEF Changes, LegalChange, IInv, TypeOK
  <1>2. /\ Seen' = [Seen EXCEPT ![id] = View(new)]
        /\ Seen[id] = View(old)
    BY <1>1 DEF SaveChanges, Seen, IInv, TypeOK
  <1>3. View(new) = [owner |-> new.tenant, status |-> new.status,
                     billed |-> new.autoRenew, removed |-> new.deleted]
    BY <1>1, BilledIsRenewing
  <1>4. CASE old = None
    <2>1. Seen[id] = None
      BY <1>2, <1>4 DEF View
    <2>2. /\ new.tenant \in Tenants
          /\ new.status \in {"Trial", "Active"}
          /\ new.autoRenew \in BOOLEAN
          /\ new.deleted = FALSE
      BY <1>1, <1>4 DEF LegalChange, SubscriptionRows
    <2>3. Ledger!Open(id)
      BY <1>2, <1>3, <2>1, <2>2 DEF Ledger!Open, Ledger!Store
    <2>4. QED
      BY <1>1, <2>3 DEF Ledger!Next
  <1>5. CASE old # None
    <2>1. /\ old \in SubscriptionRows
          /\ RowConsistent(old)
          /\ old.deleted = FALSE
          /\ new.tenant = old.tenant
          /\ new.deleted => new = [old EXCEPT !.deleted = TRUE]
          /\ CanTransition(old.status, new.status)
          /\ (new.status # old.status /\ new.status # "Cancelled")
               => new.autoRenew = old.autoRenew
      BY <1>1, <1>5 DEF LegalChange, SubscriptionRows
    <2>2. /\ Seen[id] = [owner |-> old.tenant, status |-> old.status,
                         billed |-> old.autoRenew, removed |-> FALSE]
          /\ Seen[id] # None
      BY <1>2, <2>1, BilledIsRenewing
    <2>3. Ledger!Live(id)
      BY <2>2 DEF Ledger!Live
    <2> HIDE DEF id, old, new
    <2>4. CASE new.deleted
      <3>1. /\ new.status = old.status
            /\ new.autoRenew = old.autoRenew
            /\ new.deleted = TRUE
        BY <2>1, <2>4 DEF SubscriptionRows
      <3>2. View(new) = [owner |-> old.tenant, status |-> old.status,
                         billed |-> old.autoRenew, removed |-> TRUE]
        BY <1>3, <2>1, <3>1
      <3>3. Ledger!Remove(id)
        BY <1>2, <2>2, <2>3, <3>2 DEF Ledger!Remove, Ledger!Store
      <3>4. QED
        BY <1>1, <3>3 DEF Ledger!Next
    <2>5. CASE ~new.deleted /\ new.status # old.status
      <3>1. new.status \in Ledger!ValidTransitions(old.status)
        BY <1>1, <2>1, <2>5
           DEF CanTransition, ValidTransitions, Ledger!ValidTransitions,
               SubscriptionRows, Statuses
      <3>2. new.autoRenew = (old.autoRenew /\ new.status # "Cancelled")
        BY <1>1, <2>1, <2>5 DEF RowConsistent, SubscriptionRows
      <3>3. View(new) = [owner |-> old.tenant, status |-> new.status,
                         billed |-> (old.autoRenew /\ new.status # "Cancelled"),
                         removed |-> FALSE]
        <4>1. new.deleted = FALSE
          BY <1>1, <2>5 DEF SubscriptionRows
        <4>2. QED
          BY <1>3, <2>1, <3>2, <4>1
      <3>4. Ledger!Move(id)
        <4>1. /\ Seen[id].owner = old.tenant
              /\ Seen[id].status = old.status
              /\ Seen[id].billed = old.autoRenew
          BY <2>2
        <4>2. Ledger!Store(id, Seen[id].owner, new.status,
                           Seen[id].billed /\ new.status # "Cancelled", FALSE)
          BY <1>2, <3>3, <4>1 DEF Ledger!Store
        <4>3. QED
          BY <2>3, <3>1, <4>1, <4>2 DEF Ledger!Move
      <3>5. QED
        BY <1>1, <3>4 DEF Ledger!Next
    <2>6. CASE ~new.deleted /\ new.status = old.status /\ old.status # "Cancelled"
      <3>1. View(new) = [owner |-> old.tenant, status |-> old.status,
                         billed |-> new.autoRenew, removed |-> FALSE]
        <4>1. new.deleted = FALSE
          BY <1>1, <2>6 DEF SubscriptionRows
        <4>2. QED
          BY <1>3, <2>1, <2>6, <4>1
      <3>2. new.autoRenew \in BOOLEAN
        BY <1>1 DEF SubscriptionRows
      <3>3. Ledger!Rebill(id)
        <4>1. /\ Seen[id].owner = old.tenant
              /\ Seen[id].status = old.status
          BY <2>2
        <4>2. Ledger!Store(id, Seen[id].owner, Seen[id].status,
                           new.autoRenew, FALSE)
          BY <1>2, <3>1, <4>1 DEF Ledger!Store
        <4>3. QED
          BY <2>3, <2>6, <3>2, <4>1, <4>2 DEF Ledger!Rebill
      <3>4. QED
        BY <1>1, <3>3 DEF Ledger!Next
    <2>7. CASE ~new.deleted /\ new.status = old.status /\ old.status = "Cancelled"
      <3>1. View(new) = Seen[id]
        BY <1>1, <1>3, <2>1, <2>2, <2>7 DEF RowConsistent, SubscriptionRows
      <3>2. Seen' = Seen
        BY <1>1, <1>2, <3>1 DEF Seen
      <3>3. QED
        BY <3>2
    <2>8. QED
      BY <2>4, <2>5, <2>6, <2>7
  <1>6. QED
    BY <1>4, <1>5

\* The service implements the ledger: whatever runs together, each stored
\* row changes by one legal step at a time.
THEOREM LedgerImplemented == Spec => ImplementsLedger
  <1>1. Init => Ledger!Init
    BY DEF Init, Ledger!Init, Seen, View
  <1>2. IInv /\ [Next]_vars => [Ledger!Next]_Seen
    <2> SUFFICES ASSUME IInv, [Next]_vars
                 PROVE  Ledger!Next \/ UNCHANGED Seen
      OBVIOUS
    <2>1. CASE \E r \in Requests : SaveChanges(r)
      BY <2>1, SaveRefines
    <2>2. CASE UNCHANGED subs
      BY <2>2 DEF Seen
    <2>3. QED
      BY <2>1, <2>2
         DEF vars, Next, Step, CreateAsync, ProvisionTenantAsync, ReadEdition,
             Start, CreateSubscriptionAsync, Continue, UpdateAsync, CancelAsync,
             SuspendAsync, ActivateAsync, DeleteAsync, RenewAsync,
             RenewSubscriptionAsync, SaveNothing, CommitFails, Rollback, CreateEdition,
             UpdateEdition, SetEdition, DeleteEdition, Tick
  <1>3. QED
    BY <1>1, <1>2, Invariant, PTL DEF Spec, ImplementsLedger, Ledger!Spec

-----------------------------------------------------------------------------
(* One active subscription, while only provisioning can insert *)

Provisions(r) == uow[r].phase \in {"quoted", "loaded", "ready"} /\ uow[r].op = "Provision"

\* The tenant a unit of work is about.
Owner(r) == IF uow[r].phase = "quoted" THEN uow[r].tenant ELSE uow[r].row.tenant

\* A tenant has one row at most: provisioning is about tenants that are not
\* there yet, each about another one, and nothing else inserts.
OneRowEach ==
  /\ \A id \in SubIds : subs[id] # None => subs[id].tenant \in tenants
  /\ \A i, j \in SubIds :
       (subs[i] # None /\ subs[j] # None /\ subs[i].tenant = subs[j].tenant) => i = j
  /\ \A r \in Requests : Provisions(r) => Owner(r) \notin tenants
  /\ \A q, r \in Requests :
       (Provisions(q) /\ Provisions(r) /\ Owner(q) = Owner(r)) => q = r
  /\ \A r \in Requests : InChange(r) =>
       (uow[r].base = None <=> uow[r].op \in Inserts)

\* Another unit of work for one request, which stores nothing.
LEMMA OneRowWork ==
  ASSUME TypeOK, OneRowEach, NEW r \in Requests,
         \A q \in Requests \ {r} : uow'[q] = uow[q],
         UNCHANGED <<subs, tenants>>,
         Provisions(r)' =>
           /\ Owner(r)' \notin tenants
           /\ \A q \in Requests \ {r} : Provisions(q) => Owner(q) # Owner(r)',
         InChange(r)' => (uow'[r].base = None <=> uow'[r].op \in Inserts)
  PROVE  OneRowEach'
  <1>1. \A q \in Requests \ {r} :
          /\ Provisions(q)' = Provisions(q)
          /\ Owner(q)' = Owner(q)
          /\ InChange(q)' = InChange(q)
    BY DEF Provisions, Owner, InChange
  <1>2. \A q \in Requests : Provisions(q)' => Owner(q)' \notin tenants
    BY <1>1 DEF OneRowEach
  <1>3. \A p, q \in Requests :
          (Provisions(p)' /\ Provisions(q)' /\ Owner(p)' = Owner(q)') => p = q
    BY <1>1 DEF OneRowEach
  <1>4. \A q \in Requests : InChange(q)' =>
          (uow'[q].base = None <=> uow'[q].op \in Inserts)
    BY <1>1 DEF OneRowEach
  <1>5. QED
    BY <1>2, <1>3, <1>4 DEF OneRowEach

\* A call that changes the row it read.
LEMMA OneRowUpdate ==
  ASSUME IInv, OneRowEach, NEW r \in Requests, NEW id \in Accessible,
         NEW op \in Updates, NEW phase \in {"loaded", "ready"}, NEW row,
         Start(r, Change(op, phase, id, row))
  PROVE  OneRowEach'
  <1>1. /\ uow'[r] = Change(op, phase, id, row)
        /\ \A q \in Requests \ {r} : uow'[q] = uow[q]
        /\ UNCHANGED <<subs, tenants>>
    BY DEF Start, IInv, TypeOK
  <1>2. uow'[r].op = op /\ uow'[r].base = subs[id]
    BY <1>1 DEF Change
  <1>3. op \notin Inserts /\ op # "Provision" /\ subs[id] # None
    BY AccessibleRow DEF Updates, Inserts
  <1>4. ~Provisions(r)'
    BY <1>2, <1>3 DEF Provisions
  <1>5. QED
    BY <1>1, <1>2, <1>3, <1>4, OneRowWork DEF IInv

\* A request that ends without storing anything.
LEMMA OneRowEnd ==
  ASSUME TypeOK, OneRowEach, NEW r \in Requests, uow' = [uow EXCEPT ![r] = Idle],
         UNCHANGED <<subs, tenants>>
  PROVE  OneRowEach'
  <1>1. uow'[r] = Idle /\ \A q \in Requests \ {r} : uow'[q] = uow[q]
    BY DEF TypeOK
  <1>2. ~Provisions(r)' /\ ~InChange(r)'
    BY <1>1 DEF Provisions, InChange, Idle
  <1>3. QED
    BY <1>1, <1>2, OneRowWork

\* A creation reads its edition: that of an unknown tenant is provisioning.
LEMMA OneRowRead ==
  ASSUME IInv, OneRowEach, NEW r \in Requests,
         CreateAsync(r) \/ ProvisionTenantAsync(r)
  PROVE  OneRowEach'
  <1>1. CASE CreateAsync(r)
    <2>1. PICK caller \in ActiveCallers, tenant \in tenants :
            ReadEdition(r, "Create", caller, tenant)
      BY <1>1 DEF CreateAsync
    <2>2. /\ uow'[r].phase = "quoted" /\ uow'[r].op = "Create"
          /\ \A q \in Requests \ {r} : uow'[q] = uow[q]
          /\ UNCHANGED <<subs, tenants>>
      BY <2>1 DEF ReadEdition, Start, IInv, TypeOK
    <2>3. ~Provisions(r)' /\ ~InChange(r)'
      BY <2>2 DEF Provisions, InChange
    <2>4. QED
      BY <2>2, <2>3, OneRowWork DEF IInv
  <1>2. CASE ProvisionTenantAsync(r)
    <2>1. PICK caller \in ActiveCallers, tenant \in Tenants \ tenants :
            /\ \A q \in Requests :
                 /\ uow[q].phase = "quoted" => uow[q].tenant # tenant
                 /\ InChange(q) => uow[q].row.tenant # tenant
            /\ ReadEdition(r, "Provision", caller, tenant)
      BY <1>2 DEF ProvisionTenantAsync
    <2>2. /\ uow'[r].phase = "quoted" /\ uow'[r].tenant = tenant
          /\ \A q \in Requests \ {r} : uow'[q] = uow[q]
          /\ UNCHANGED <<subs, tenants>>
      BY <2>1 DEF ReadEdition, Start, IInv, TypeOK
    <2>3. \A q \in Requests : Provisions(q) => Owner(q) # tenant
      BY <2>1 DEF Provisions, Owner, InChange
    <2>4. Owner(r)' = tenant /\ ~InChange(r)'
      BY <2>2 DEF Owner, InChange
    <2>5. QED
      BY <2>1, <2>2, <2>3, <2>4, OneRowWork DEF IInv
  <1>3. QED
    BY <1>1, <1>2

LEMMA OneRowCreate ==
  ASSUME IInv, OneRowEach, NEW r \in Requests, CreateSubscriptionAsync(r)
  PROVE  OneRowEach'
  <1>1. uow[r] \in Quoted /\ uow[r].phase = "quoted"
    BY PhaseTells DEF IInv, CreateSubscriptionAsync
  <1>2. PICK id \in SubIds, billing \in Periods, trial \in TrialDays :
          \E terms \in Terms(uow[r], billing) :
            /\ Fresh(id)
            /\ Continue(r, Change(uow[r].op, "ready", id,
                 NewSubscription(uow[r].tenant, uow[r].edition, billing,
                   terms.start, terms.price, terms.autoRenew, trial)))
    BY DEF CreateSubscriptionAsync
  <1>3. PICK row :
          /\ row.tenant = uow[r].tenant
          /\ Fresh(id)
          /\ Continue(r, Change(uow[r].op, "ready", id, row))
    <2>1. PICK terms \in Terms(uow[r], billing) :
            /\ Fresh(id)
            /\ Continue(r, Change(uow[r].op, "ready", id,
                 NewSubscription(uow[r].tenant, uow[r].edition, billing,
                   terms.start, terms.price, terms.autoRenew, trial)))
      BY <1>2
    <2>2. NewSubscription(uow[r].tenant, uow[r].edition, billing,
            terms.start, terms.price, terms.autoRenew, trial).tenant = uow[r].tenant
      BY DEF NewSubscription, Rebilled
    <2>3. QED
      BY <2>1, <2>2
  <1>4. /\ uow'[r] = Change(uow[r].op, "ready", id, row)
        /\ \A q \in Requests \ {r} : uow'[q] = uow[q]
        /\ UNCHANGED <<subs, tenants>>
    BY <1>3 DEF Continue, IInv, TypeOK
  <1>5. /\ uow'[r].phase = "ready" /\ uow'[r].op = uow[r].op
        /\ uow'[r].base = None /\ uow'[r].row = row
    BY <1>3, <1>4 DEF Change, Fresh
  <1>6. uow[r].op \in Inserts
    BY <1>1 DEF Quoted
  <1>7. Provisions(r)' = Provisions(r) /\ Owner(r)' = Owner(r)
    BY <1>1, <1>3, <1>5 DEF Provisions, Owner
  <1>8. QED
    BY <1>4, <1>5, <1>6, <1>7, OneRowWork DEF IInv, OneRowEach

LEMMA OneRowRenew ==
  ASSUME IInv, OneRowEach, NEW r \in Requests, RenewSubscriptionAsync(r)
  PROVE  OneRowEach'
  <1>1. uow[r] \in Changes /\ LegalChange(uow[r]) /\ uow[r].phase = "loaded"
    BY PhaseTells DEF IInv, RenewSubscriptionAsync, InChange
  <1>2. PICK row : uow' = [uow EXCEPT ![r] = [uow[r] EXCEPT !.phase = "ready", !.row = row]]
    BY DEF RenewSubscriptionAsync, Continue
  <1>3. /\ uow'[r].phase = "ready" /\ uow'[r].op = uow[r].op
        /\ uow'[r].base = uow[r].base
        /\ \A q \in Requests \ {r} : uow'[q] = uow[q]
    BY <1>1, <1>2 DEF IInv, TypeOK, Changes
  <1>4. uow[r].base # None
    BY <1>1 DEF LegalChange
  <1>5. uow[r].op \notin Inserts
    BY <1>1, <1>4 DEF OneRowEach, InChange
  <1>6. ~Provisions(r)'
    BY <1>3, <1>5 DEF Provisions, Inserts
  <1>7. UNCHANGED <<subs, tenants>>
    BY DEF RenewSubscriptionAsync, Continue
  <1>8. QED
    BY <1>3, <1>4, <1>5, <1>6, <1>7, OneRowWork DEF IInv

\* What is stored is a new tenant's only row, or replaces a row of its tenant.
LEMMA OneRowSave ==
  ASSUME IInv, OneRowEach, ~DtoMapsDeclared, NEW r \in Requests, SaveChanges(r)
  PROVE  OneRowEach'
  <1>1. PICK id \in SubIds, row \in SubscriptionRows :
          /\ id = uow[r].id /\ row = uow[r].row
          /\ subs[id] = uow[r].base
          /\ uow[r] \in Changes /\ LegalChange(uow[r]) /\ InChange(r)
    BY SaveFinds, PhaseTells DEF Changes, IInv
  <1>2. /\ subs' = [subs EXCEPT ![id] = row]
        /\ uow' = Settled(r, id)
        /\ tenants' = IF uow[r].op = "Provision" THEN tenants \cup {row.tenant} ELSE tenants
    BY <1>1 DEF SaveChanges
  <1>3. \A i \in SubIds : subs'[i] = IF i = id THEN row ELSE subs[i]
    BY <1>2 DEF IInv, TypeOK
  <1>4. ASSUME NEW q \in Requests
        PROVE  /\ Provisions(q)' => q # r /\ Provisions(q) /\ Owner(q)' = Owner(q)
               /\ InChange(q)' =>
                    (uow'[q].base = None <=> uow'[q].op \in Inserts)
    <2>1. CASE q = r
      <3>1. uow'[q] = Idle
        BY <1>2, <2>1 DEF Settled
      <3>2. QED
        BY <3>1 DEF Provisions, InChange, Idle
    <2>2. CASE q # r /\ InChange(q) /\ uow[q].id = id
      <3>1. uow'[q] = [uow[q] EXCEPT !.stale = TRUE] /\ uow[q] \in Changes
        BY <1>2, <2>2, PhaseTells DEF Settled, IInv
      <3>2. /\ uow'[q].op = uow[q].op /\ uow'[q].phase = uow[q].phase
            /\ uow'[q].row = uow[q].row /\ uow'[q].base = uow[q].base
        BY <3>1 DEF Changes
      <3>3. QED
        BY <2>2, <3>2 DEF Provisions, Owner, InChange, OneRowEach
    <2>3. CASE q # r /\ ~(InChange(q) /\ uow[q].id = id)
      <3>1. uow'[q] = uow[q]
        BY <1>2, <2>3 DEF Settled
      <3>2. QED
        BY <2>3, <3>1 DEF Provisions, Owner, InChange, OneRowEach
    <2>4. QED
      BY <2>1, <2>2, <2>3
  <1>5. CASE uow[r].op = "Provision"
    <2>1. Provisions(r) /\ Owner(r) = row.tenant
      BY <1>1, <1>5 DEF Provisions, Owner, InChange
    <2>2. row.tenant \notin tenants
      BY <2>1 DEF OneRowEach
    <2>3. \A i \in SubIds \ {id} : subs'[i] # None => subs'[i].tenant \in tenants
      BY <1>3 DEF OneRowEach
    <2>4. \A i, j \in SubIds :
            (subs'[i] # None /\ subs'[j] # None /\ subs'[i].tenant = subs'[j].tenant)
              => i = j
      BY <1>3, <2>2, <2>3 DEF OneRowEach
    <2>5. \A q \in Requests : Provisions(q)' => Owner(q)' \notin tenants'
      BY <1>2, <1>4, <1>5, <2>1 DEF OneRowEach
    <2>6. QED
      BY <1>2, <1>3, <1>4, <1>5, <2>3, <2>4, <2>5 DEF OneRowEach
  <1>6. CASE uow[r].op # "Provision"
    <2>1. uow[r].op \notin Inserts
      BY <1>6 DEF SaveChanges, Answerable, Inserts
    <2>2. subs[id] # None /\ row.tenant = subs[id].tenant /\ tenants' = tenants
      BY <1>1, <1>2, <1>6, <2>1 DEF OneRowEach, LegalChange
    <2>3. QED
      BY <1>3, <1>4, <2>2 DEF OneRowEach
  <1>7. QED
    BY <1>5, <1>6

LEMMA OneRowNext ==
  ~DtoMapsDeclared /\ IInv /\ OneRowEach /\ [Next]_vars => OneRowEach'
  <1> SUFFICES ASSUME ~DtoMapsDeclared, IInv, OneRowEach, [Next]_vars
               PROVE  OneRowEach'
    OBVIOUS
  <1>1. CASE UNCHANGED <<subs, tenants, uow>>
    BY <1>1 DEF OneRowEach, Provisions, Owner, InChange
  <1>2. ASSUME NEW r \in Requests, Step(r)
        PROVE  OneRowEach'
    <2>1. CASE CreateAsync(r) \/ ProvisionTenantAsync(r)
      BY <2>1, OneRowRead
    <2>2. CASE CreateSubscriptionAsync(r)
      BY <2>2, OneRowCreate
    <2>3. CASE UpdateAsync(r)
      BY <2>3, OneRowUpdate DEF UpdateAsync, Updates
    <2>4. CASE CancelAsync(r)
      BY <2>4, OneRowUpdate DEF CancelAsync, Updates
    <2>5. CASE SuspendAsync(r)
      BY <2>5, OneRowUpdate DEF SuspendAsync, Updates
    <2>6. CASE ActivateAsync(r)
      BY <2>6, OneRowUpdate DEF ActivateAsync, Updates
    <2>7. CASE DeleteAsync(r)
      BY <2>7, OneRowUpdate DEF DeleteAsync, Updates
    <2>8. CASE RenewAsync(r)
      BY <2>8, OneRowUpdate DEF RenewAsync, Updates
    <2>9. CASE RenewSubscriptionAsync(r)
      BY <2>9, OneRowRenew
    <2>10. CASE SaveChanges(r)
      BY <2>10, OneRowSave
    <2>11. CASE SaveNothing(r) \/ CommitFails(r) \/ Rollback(r)
      BY <2>11, OneRowEnd DEF SaveNothing, CommitFails, Rollback, IInv
    <2>12. QED
      BY <1>2, <2>1, <2>2, <2>3, <2>4, <2>5, <2>6, <2>7, <2>8, <2>9, <2>10, <2>11
         DEF Step
  <1>3. QED
    BY <1>1, <1>2
       DEF Next, vars, CreateEdition, UpdateEdition, SetEdition, DeleteEdition, Tick

\* Without DTO maps, a tenant has one active subscription at most, however many
\* requests run together: only provisioning can insert a row.
THEOREM OneActiveWithoutMaps == ~DtoMapsDeclared /\ Spec => []OneActivePerTenant
  <1>1. Init => OneRowEach
    BY DEF Init, OneRowEach, Provisions, InChange, Idle
  <1>2. OneRowEach => OneActivePerTenant
    BY DEF OneRowEach, OneActivePerTenant
  <1>3. ~DtoMapsDeclared => (~DtoMapsDeclared)'
    OBVIOUS
  <1>4. QED
    BY <1>1, <1>2, <1>3, OneRowNext, Invariant, PTL DEF Spec

=============================================================================
