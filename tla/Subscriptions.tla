--------------------------- MODULE Subscriptions ---------------------------
(***************************************************************************)
(* The subscriptions of the SaaS service: SubscriptionAppService, the      *)
(* SubscriptionManager it delegates to, the Subscription aggregate, the    *)
(* edition catalogue they read, and the subscription half of provisioning  *)
(* a tenant.                                                               *)
(*                                                                         *)
(* Every call is an HTTP request with a unit of work of its own: it reads  *)
(* rows, validates and changes them in memory, and its changes reach the   *)
(* table when the unit of work is saved.  Between the two any other        *)
(* request may run.  The framework guards an UPDATE with the row's         *)
(* ConcurrencyStamp (a new GUID at each save): it succeeds exactly when no *)
(* other save touched the row since the read, which "stale" records.  It   *)
(* guards an INSERT with nothing, and hides from a query the soft deleted  *)
(* rows and those of other tenants than the caller's.                      *)
(*                                                                         *)
(* Dates are day numbers; a calendar month and a year have the fixed       *)
(* lengths Month and Year.                                                 *)
(***************************************************************************)
EXTENDS Integers, SubscriptionStates

CONSTANTS
  Tenants,           \* tenant identifiers
  Host,              \* the caller with no tenant
  Callers,           \* who calls: a subset of Tenants \cup {Host}
  Editions,          \* edition identifiers
  SubIds,            \* the GUIDs that new subscriptions get
  Requests,          \* requests that may be in flight together
  None,              \* C#'s null
  Prices,            \* amounts of money, 0 included
  Periods,           \* billing periods that requests ask for
  TrialDays,         \* trial lengths a request may ask for; 0 is no trial
  Month, Year,       \* days AddMonths(1) and AddYears(1) add to a date
  StartWindow,       \* how far ahead a requested start date may lie
  MaxDay,            \* bound of the clock
  MaxDate,           \* bound of the period ends renewals may reach
  DtoMapsDeclared    \* does the AutoMapper profile declare the DTO maps?

ASSUME CallersAssumption == Callers \subseteq Tenants \cup {Host}
ASSUME HostAssumption == Host \notin Tenants
ASSUME PricesAssumption == Prices \subseteq Nat
ASSUME PeriodsAssumption == Periods \subseteq {"Monthly", "Yearly", "OneTime"}
ASSUME TrialAssumption == TrialDays \subseteq Nat
ASSUME CalendarAssumption == Month \in Nat \ {0} /\ Year \in Nat \ {0}
ASSUME BoundsAssumption == StartWindow \in Nat /\ MaxDay \in Nat /\ MaxDate \in Nat
ASSUME MapsAssumption == DtoMapsDeclared \in BOOLEAN
ASSUME NoneAssumption == None \notin Int

VARIABLES
  subs,      \* the subscription table: for each identifier, its row or None
  catalog,   \* the edition table
  tenants,   \* the tenants that exist
  uow,       \* for each request, its unit of work
  cancelled, \* how many SubscriptionCancelledEvents were published: 0, 1, 2+
  today      \* Clock.Now

vars == <<subs, catalog, tenants, uow, cancelled, today>>

-----------------------------------------------------------------------------
(* The data *)

BillingPeriods == {"Monthly", "Yearly", "OneTime"}

SubscriptionRows ==
  [tenant: Tenants, edition: Editions, billing: BillingPeriods,
   start: Nat, end: Nat, nextBilling: Nat \cup {None}, autoRenew: BOOLEAN,
   price: Nat, status: Statuses, trialEnd: Nat \cup {None}, deleted: BOOLEAN]

ASSUME NoRowAssumption == None \notin SubscriptionRows

EditionRows ==
  [state: {"absent", "stored", "deleted"}, active: BOOLEAN,
   monthly: Prices, yearly: Prices]

\* A unit of work is idle; or a creation that has read its edition; or the
\* change of one row: "loaded" when only read, "ready" when also changed in
\* memory.  base is the row as read (EF's original values), None for a new one.
Idle == [phase |-> "idle"]

Inserts == {"Create", "Provision"}
Updates == {"Update", "Renew", "Cancel", "Suspend", "Activate", "Delete"}

Quoted ==
  [phase: {"quoted"}, op: Inserts, caller: Tenants \cup {Host},
   tenant: Tenants, edition: Editions, monthly: Prices, yearly: Prices]

Changes ==
  [phase: {"loaded", "ready"}, op: Inserts \cup Updates, id: SubIds,
   base: SubscriptionRows \cup {None}, row: SubscriptionRows, stale: BOOLEAN]

TypeOK ==
  /\ subs \in [SubIds -> SubscriptionRows \cup {None}]
  /\ catalog \in [Editions -> EditionRows]
  /\ tenants \subseteq Tenants
  /\ uow \in [Requests -> {Idle} \cup Quoted \cup Changes]
  /\ cancelled \in [SubIds -> 0..2]
  /\ today \in 0..MaxDay

-----------------------------------------------------------------------------
(* The aggregate: Subscription.cs *)

\* CalculateEndDate: a one-time plan lasts a month.
PeriodBackwards(billing) == IF billing = "Yearly" THEN 0 - Year ELSE 0 - Month

PeriodLength(billing) == IF billing = "Yearly" THEN Year ELSE Month

\* CalculateNextBillingDate
NextBillingDate(row) ==
  IF row.autoRenew /\ row.status # "Cancelled" THEN row.end ELSE None

Rebilled(row) == [row EXCEPT !.nextBilling = NextBillingDate(row)]

\* The constructor.
NewSubscription(tenant, edition, billing, start, price, autoRenew, trial) ==
  LET trialEnd == start + trial
      row == [tenant |-> tenant, edition |-> edition, billing |-> billing,
              start |-> start,
              end |-> IF trial > 0 THEN trialEnd ELSE start + PeriodLength(billing),
              nextBilling |-> None, autoRenew |-> autoRenew, price |-> price,
              status |-> IF trial > 0 THEN "Trial" ELSE "Active",
              trialEnd |-> IF trial > 0 THEN trialEnd ELSE None,
              deleted |-> FALSE]
  IN Rebilled(row)

\* Renew: the day after the old end, up to one period after the old end.
RenewedWithoutBilling(row, newPrice) ==
  [row EXCEPT !.start = row.end + 1,
              !.end = row.end + PeriodLength(row.billing), !.price = newPrice]

Renewed(row, newPrice) ==
  LET onTrial == row.status = "Trial" /\ row.trialEnd # None
      base == IF onTrial THEN row.trialEnd ELSE row.end
  IN Rebilled([row EXCEPT
       !.status = IF onTrial THEN "Active" ELSE @,
       !.start = IF onTrial THEN base ELSE base + 1,
       !.end = base + PeriodLength(row.billing),
       !.price = newPrice])

\* UpdateBillingPeriod followed by EnableAutoRenew or DisableAutoRenew.
Replanned(row, billing, price, autoRenew) ==
  Rebilled([row EXCEPT
    !.billing = billing, !.price = price, !.autoRenew = autoRenew,
    !.end = row.start + PeriodLength(billing)])

CancelledKeepingRenewal(row) == [row EXCEPT !.status = "Cancelled"]

Cancelled(row) ==
  [row EXCEPT !.status = "Cancelled", !.autoRenew = FALSE, !.nextBilling = None]

\* ChangeStatus: Suspend and Activate change nothing else.
WithStatus(row, status) == [row EXCEPT !.status = status]

-----------------------------------------------------------------------------
(* The framework: what a caller sees, and a request's unit of work *)

ActiveCallers == Callers \cap (tenants \cup {Host})

\* The tenant filter and the soft-delete filter of every query.
Visible(caller, row) == row # None /\ row.tenant = caller /\ ~row.deleted

\* FindActiveByTenantIdAsync, under the caller's filters: the period's end is
\* not looked at.
HasActive(caller, tenant) ==
  \E id \in SubIds : /\ Visible(caller, subs[id])
                     /\ subs[id].tenant = tenant
                     /\ subs[id].status = "Active"

InChange(r) == uow[r].phase \in {"loaded", "ready"}

Start(r, work) ==
  /\ uow[r] = Idle
  /\ uow' = [uow EXCEPT ![r] = work]
  /\ UNCHANGED <<subs, catalog, tenants, cancelled, today>>

Continue(r, work) ==
  /\ uow' = [uow EXCEPT ![r] = work]
  /\ UNCHANGED <<subs, catalog, tenants, cancelled, today>>

\* The unit of work that has read row id and turned it into row.
Change(op, phase, id, row) ==
  [phase |-> phase, op |-> op, id |-> id, base |-> subs[id],
   row |-> row, stale |-> FALSE]

\* The rows GetEntityByIdAsync finds for some caller.
Accessible ==
  {id \in SubIds : \E caller \in ActiveCallers : Visible(caller, subs[id])}

\* A GUID nothing uses yet.
Fresh(id) ==
  /\ subs[id] = None
  /\ \A r \in Requests : InChange(r) => uow[r].id # id

-----------------------------------------------------------------------------
(* Creating a subscription: CreateAsync and ProvisionTenantAsync *)

\* The edition is read first, and must be there and active.  The quote is
\* the pair of prices of the edition as read; the second read that
\* provisioning makes returns the row its unit of work already tracks.
ReadEdition(r, op, caller, tenant) ==
  \E e \in Editions :
    /\ catalog[e].state = "stored"
    /\ catalog[e].active
    /\ Start(r, [phase |-> "quoted", op |-> op, caller |-> caller,
                 tenant |-> tenant, edition |-> e,
                 monthly |-> catalog[e].monthly, yearly |-> catalog[e].yearly])

\* Calls for a tenant that does not exist are not enumerated: nobody would
\* ever see the row.
CreateAsync(r) ==
  \E caller \in ActiveCallers, tenant \in tenants :
    ReadEdition(r, "Create", caller, tenant)

\* The tenant is new: its GUID is neither stored nor about to be.
ProvisionTenantAsync(r) ==
  \E caller \in ActiveCallers, tenant \in Tenants \ tenants :
    /\ \A q \in Requests :
         /\ uow[q].phase = "quoted" => uow[q].tenant # tenant
         /\ InChange(q) => uow[q].row.tenant # tenant
    /\ ReadEdition(r, "Provision", caller, tenant)

\* GetPriceForPeriod
PriceForPeriod(quote, billing) ==
  IF billing = "Yearly" THEN quote.yearly ELSE quote.monthly

\* The price, the renewal flag and the start date of the request: a custom
\* price of 0 is no custom price; provisioning sets all three itself.
Terms(quote, billing) ==
  LET listed == PriceForPeriod(quote, billing)
  IN IF quote.op = "Provision"
       THEN {[price |-> listed, autoRenew |-> TRUE, start |-> today]}
       ELSE [price: (Prices \ {0}) \cup {listed}, autoRenew: BOOLEAN,
             start: today..(today + StartWindow)]

\* The rest of CreateSubscriptionAsync: the tenant has no active subscription,
\* the price is not zero unless there is a trial, and the row is built.
CreateSubscriptionAsync(r) ==
  /\ uow[r].phase = "quoted"
  /\ ~HasActive(uow[r].caller, uow[r].tenant)
  /\ \E id \in SubIds, billing \in Periods, trial \in TrialDays :
       \E terms \in Terms(uow[r], billing) :
         /\ Fresh(id)
         /\ terms.price > 0 \/ trial > 0
         /\ Continue(r, Change(uow[r].op, "ready", id,
              NewSubscription(uow[r].tenant, uow[r].edition, billing,
                terms.start, terms.price, terms.autoRenew, trial)))

-----------------------------------------------------------------------------
(* Changing a subscription *)

\* Renewal may be switched on for any subscription that is not cancelled.
UpdateAsync(r) ==
  \E id \in Accessible, billing \in Periods, price \in Prices,
     autoRenew \in BOOLEAN :
    /\ autoRenew => subs[id].status # "Cancelled"
    /\ Start(r, Change("Update", "ready", id,
                       Replanned(subs[id], billing, price, autoRenew)))

CancelAsync(r) ==
  \E id \in Accessible :
    /\ CanTransition(subs[id].status, "Cancelled")
    /\ Start(r, Change("Cancel", "ready", id, Cancelled(subs[id])))

\* The manager suspends active subscriptions only.
SuspendAsync(r) ==
  \E id \in Accessible :
    /\ subs[id].status = "Active"
    /\ CanTransition(subs[id].status, "Suspended")
    /\ Start(r, Change("Suspend", "ready", id, WithStatus(subs[id], "Suspended")))

ActivateAnything(r) ==
  \E id \in Accessible :
    Start(r, Change("Activate", "ready", id, WithStatus(subs[id], "Active")))

ActivateAsync(r) ==
  \E id \in Accessible :
    /\ CanTransition(subs[id].status, "Active")
    /\ Start(r, Change("Activate", "ready", id, WithStatus(subs[id], "Active")))

DeleteAsync(r) ==
  \E id \in Accessible :
    Start(r, Change("Delete", "ready", id, [subs[id] EXCEPT !.deleted = TRUE]))

\* RenewAsync reads the subscription, and then the manager its edition.
RenewAsync(r) ==
  \E id \in Accessible :
    /\ subs[id].status \in {"Active", "Expired"}
    /\ Start(r, Change("Renew", "loaded", id, subs[id]))

RenewSubscriptionAsync(r) ==
  /\ uow[r].phase = "loaded"
  /\ LET row == uow[r].row
         edition == catalog[row.edition]
     IN /\ edition.state = "stored"
        /\ edition.active
        /\ row.end + PeriodLength(row.billing) <= MaxDate
        /\ Continue(r, [uow[r] EXCEPT
             !.phase = "ready",
             !.row = Renewed(row, PriceForPeriod(edition, row.billing))])

-----------------------------------------------------------------------------
(* The end of a request *)

\* After a save of row id, every other unit of work that read it is stale.
Settled(r, id) ==
  [q \in Requests |->
     IF q = r THEN Idle
     ELSE IF InChange(q) /\ uow[q].id = id THEN [uow[q] EXCEPT !.stale = TRUE]
     ELSE uow[q]]

\* The event of Cancel(): counted up to 2, which stands for "more than once".
PublishedWhenActive(work) ==
  IF work.op = "Cancel" /\ work.base.status = "Active"
    THEN [cancelled EXCEPT ![work.id] = IF @ = 2 THEN 2 ELSE @ + 1]
    ELSE cancelled

Published(work) ==
  IF work.op = "Cancel"
    THEN [cancelled EXCEPT ![work.id] = IF @ = 2 THEN 2 ELSE @ + 1]
    ELSE cancelled

\* The answers of CreateAsync and UpdateAsync are mapped to a DTO after the
\* rows are sent to the database and before the transaction commits.
AlwaysAnswerable(work) == TRUE

Answerable(work) == work.op \in {"Create", "Update"} => DtoMapsDeclared

\* Cancelling a cancelled subscription and activating an active one assign
\* what is there already: the change tracker finds nothing to save.
NothingToSave(work) == work.op \in {"Cancel", "Activate"} /\ work.row = work.base

SaveWithoutStamp(r) ==
  /\ uow[r].phase = "ready"
  /\ ~NothingToSave(uow[r])
  /\ Answerable(uow[r])
  /\ subs' = [subs EXCEPT ![uow[r].id] = uow[r].row]
  /\ tenants' = IF uow[r].op = "Provision"
                  THEN tenants \cup {uow[r].row.tenant} ELSE tenants
  /\ cancelled' = Published(uow[r])
  /\ uow' = Settled(r, uow[r].id)
  /\ UNCHANGED <<catalog, today>>

SaveChanges(r) ==
  /\ uow[r].phase = "ready"
  /\ ~NothingToSave(uow[r])
  /\ ~uow[r].stale
  /\ Answerable(uow[r])
  /\ subs' = [subs EXCEPT ![uow[r].id] = uow[r].row]
  /\ tenants' = IF uow[r].op = "Provision"
                  THEN tenants \cup {uow[r].row.tenant} ELSE tenants
  /\ cancelled' = Published(uow[r])
  /\ uow' = Settled(r, uow[r].id)
  /\ UNCHANGED <<catalog, today>>

\* No UPDATE is sent: the stamp is neither checked nor renewed.
SaveNothing(r) ==
  /\ uow[r].phase = "ready"
  /\ NothingToSave(uow[r])
  /\ cancelled' = Published(uow[r])
  /\ uow' = [uow EXCEPT ![r] = Idle]
  /\ UNCHANGED <<subs, catalog, tenants, today>>

\* The event is published when the unit of work completes, just before the
\* transaction commits: the process may stop, or the commit fail, in between.
CommitFails(r) ==
  /\ uow[r].phase = "ready"
  /\ ~uow[r].stale \/ NothingToSave(uow[r])
  /\ uow[r].op = "Cancel"
  /\ cancelled' = Published(uow[r])
  /\ uow' = [uow EXCEPT ![r] = Idle]
  /\ UNCHANGED <<subs, catalog, tenants, today>>

\* An exception (a failed check, a stale stamp, no DTO map, a lost
\* connection) or a stop of the process: nothing of the request remains.
Rollback(r) ==
  /\ uow[r] # Idle
  /\ uow' = [uow EXCEPT ![r] = Idle]
  /\ UNCHANGED <<subs, catalog, tenants, cancelled, today>>

-----------------------------------------------------------------------------
(* The catalogue: EditionAppService, the framework's CRUD service *)

\* Both DTOs demand a yearly price above the monthly one.
SetEdition(e) ==
  \E active \in BOOLEAN, monthly, yearly \in Prices :
    /\ yearly > monthly
    /\ catalog' = [catalog EXCEPT ![e] =
         [state |-> "stored", active |-> active,
          monthly |-> monthly, yearly |-> yearly]]
    /\ UNCHANGED <<subs, tenants, uow, cancelled, today>>

CreateEdition(e) ==
  DtoMapsDeclared /\ catalog[e].state = "absent" /\ SetEdition(e)

UpdateEdition(e) ==
  DtoMapsDeclared /\ catalog[e].state = "stored" /\ SetEdition(e)

DeleteEdition(e) ==
  /\ catalog[e].state = "stored"
  /\ catalog' = [catalog EXCEPT ![e].state = "deleted"]
  /\ UNCHANGED <<subs, tenants, uow, cancelled, today>>

-----------------------------------------------------------------------------

Tick ==
  /\ today < MaxDay
  /\ today' = today + 1
  /\ UNCHANGED <<subs, catalog, tenants, uow, cancelled>>

\* Editions may have been put in the database beforehand, and tenants been
\* created by the tenant management module.
Init ==
  /\ subs = [id \in SubIds |-> None]
  /\ catalog \in [Editions -> {e \in EditionRows :
                                 e.state # "deleted" /\ e.monthly < e.yearly}]
  /\ tenants \in SUBSET Tenants
  /\ uow = [r \in Requests |-> Idle]
  /\ cancelled = [id \in SubIds |-> 0]
  /\ today = 0

Step(r) ==
  \/ CreateAsync(r) \/ ProvisionTenantAsync(r) \/ CreateSubscriptionAsync(r)
  \/ UpdateAsync(r) \/ CancelAsync(r) \/ SuspendAsync(r) \/ ActivateAsync(r)
  \/ DeleteAsync(r) \/ RenewAsync(r) \/ RenewSubscriptionAsync(r)
  \/ SaveChanges(r) \/ SaveNothing(r) \/ CommitFails(r) \/ Rollback(r)

Next ==
  \/ \E r \in Requests : Step(r)
  \/ \E e \in Editions : CreateEdition(e) \/ UpdateEdition(e) \/ DeleteEdition(e)
  \/ Tick

Spec == Init /\ [][Next]_vars

-----------------------------------------------------------------------------
(* Properties *)

\* The next billing date, stored beside what it is computed from, is never
\* out of date: it is the end of the paid period for a subscription that
\* renews, and nothing for one that does not, and a cancelled one never
\* renews.  Every operation of Subscription.cs that touches the period, the
\* renewal flag or the status has to keep it so.
RowConsistent(row) ==
  /\ row.nextBilling = IF row.autoRenew THEN row.end ELSE None
  /\ row.status = "Cancelled" => ~row.autoRenew

BillingConsistent ==
  \A id \in SubIds : subs[id] # None => RowConsistent(subs[id])

\* No change is computed from a row that is no longer the stored one: a save
\* that changes a row was read from exactly the row it replaces, however many
\* requests work on the row together.
NoLostUpdate ==
  [][\A r \in Requests :
       (InChange(r) /\ uow'[r] = Idle /\ subs'[uow[r].id] # subs[uow[r].id])
         => subs[uow[r].id] = uow[r].base]_vars

\* No cancellation goes unannounced: when a subscription is stored as
\* cancelled its event has been published, even when the process stops on the
\* way.  (The converse is not promised: an event may be published whose
\* transaction then fails.)
CancellationAnnounced ==
  \A id \in SubIds : subs[id] # None =>
    (subs[id].status = "Cancelled" => cancelled[id] > 0)

\* What a change in memory always is, given the row it was computed from:
\* the building or the changing of a row in one legal step.
LegalChange(work) ==
  /\ RowConsistent(work.row)
  /\ work.base = None =>
       /\ work.phase = "ready"
       /\ work.row.status \in {"Trial", "Active"}
       /\ ~work.row.deleted
  /\ work.base # None =>
       /\ RowConsistent(work.base)
       /\ ~work.base.deleted
       /\ work.row.tenant = work.base.tenant
       /\ work.row.deleted => work.row = [work.base EXCEPT !.deleted = TRUE]
       /\ CanTransition(work.base.status, work.row.status)
       /\ work.row.status # work.base.status =>
            IF work.row.status = "Cancelled" THEN work.op = "Cancel"
            ELSE work.row.autoRenew = work.base.autoRenew
       /\ work.phase = "loaded" =>
            work.row = work.base /\ work.base.status \in {"Active", "Expired"}

\* The optimistic lock: a change whose stamp is still good was computed from
\* the row as it is stored.
StampsTell ==
  \A r \in Requests :
    (InChange(r) /\ ~uow[r].stale) => subs[uow[r].id] = uow[r].base

\* The inductive invariant: the properties above and what they rest on.
IInv ==
  /\ TypeOK
  /\ BillingConsistent
  /\ CancellationAnnounced
  /\ StampsTell
  /\ \A r \in Requests : InChange(r) => LegalChange(uow[r])

\* The table, seen through what the service promises of each row.
View(row) ==
  IF row = None THEN None
  ELSE [owner |-> row.tenant, status |-> row.status,
        billed |-> row.nextBilling # None, removed |-> row.deleted]

Seen == [id \in SubIds |-> View(subs[id])]

Ledger == INSTANCE SubscriptionLedger WITH Absent <- None, ledger <- Seen

ASSUME NoLedgerRowAssumption == None \notin Ledger!Rows

\* Every step of the service is, for each row, one legal step of the ledger
\* or none: concurrent requests never move a status off the transition table,
\* revive a cancelled or deleted subscription, or bill a cancelled one.
ImplementsLedger == Ledger!Spec

\* "Tenant can only have one active subscription": so it is while no DTO map is
\* declared, since then no creation of its own is ever committed.  The search of
\* CreateSubscriptionAsync alone does not see to it: two creations may both
\* search before either inserts, the host does not see a tenant's rows, and an
\* older subscription may be activated beside its successor.
OneActivePerTenant ==
  \A i, j \in SubIds :
    (/\ subs[i] # None /\ ~subs[i].deleted /\ subs[i].status = "Active"
     /\ subs[j] # None /\ ~subs[j].deleted /\ subs[j].status = "Active"
     /\ subs[i].tenant = subs[j].tenant) => i = j

-----------------------------------------------------------------------------
(* What a comment of the code says, and the code does not do *)

\* SubscriptionStateMachine.cs:49, repeating a transition is an "idempotent"
\* operation: cancelling a cancelled subscription publishes nothing.
CancelIsIdempotent ==
  [][\A r \in Requests :
       (/\ InChange(r) /\ uow'[r] = Idle
        /\ uow[r].op = "Cancel" /\ uow[r].base.status = "Cancelled")
         => cancelled'[uow[r].id] = cancelled[uow[r].id]]_vars

=============================================================================
