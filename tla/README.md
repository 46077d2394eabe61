# tasky: TLA+ models and proofs

This directory holds the verification project of the `ppmtoan/tasky` repository
(solution *ModuleTest*): a multi-tenant software-as-a-service back end of ABP 9.3
micro-services in C# over PostgreSQL, with an Angular page in front. It models
the parts that have logic of their own (the SaaS service in `src/services/saas`,
the database migrations in `src/shared`, the product page) as TLA+ modules that
TLC checks on small instances and TLAPS proves theorems about.

Paths below are relative to `src/`; `SaaS` stands for
`services/saas/src/ModuleTest.SaasService`.

## 1. Inventory

| part | state it keeps | operations | here |
| --- | --- | --- | --- |
| Subscriptions (`SaaS.Application/Subscriptions`, `SaaS.Domain/Aggregates/SubscriptionAggregate`, `DomainServices/SubscriptionManager.cs`) | table of subscriptions: tenant, edition, period, next billing date, renewal flag, price, status, trial end | create, update, renew, cancel, suspend, activate, delete | modelled |
| Editions (`SaaS.Application/Editions`, `Aggregates/EditionAggregate`) | table of editions: prices, active flag, limits | generic CRUD | partly |
| Invoices (`SaaS.Application/Invoices`, `Aggregates/BillingAggregate`, `DomainServices/InvoiceManager.cs`) | table of invoices: due date, status, payment | issue (at provisioning), pay, cancel, overdue batch | partly |
| Tenant provisioning (`DomainServices/TenantProvisioningManager.cs`) | tenant, subscription, invoice in the SaaS database, admin user in the identity database | provision (deprovision only logs and has no caller) | modelled |
| Host and tenant administration (`SaaS.Application/HostAdmin`, `TenantAdmin`) | none of their own | activate and deactivate a tenant; metrics and lists | partly |
| Money, invoice numbers, proration, upgrade and downgrade | none | computations nobody calls | not modelled |
| Migration events (`shared/ModuleTest.Shared.Hosting.Microservices/DbMigrations`, one handler per service) | schema version and seed data per database and tenant, events on Kafka with a try count | apply migrations, tenant created, connection string updated, retry | modelled |
| Startup migration check (same directory, `EfCore`) | a distributed lock per service | lock, check, migrate, seed, three tries | modelled |
| Database migrator (`shared/ModuleTest.DbMigrator`) | set of migrated databases | migrate and seed the host, then every tenant | partly (not what `OpenIddictDataSeeder` writes) |
| Product service (`services/product`) | one table | list, create, update, delete | partly, with the page |
| Identity and administration services | framework modules | those of the framework | not modelled, apart from their migration handlers |
| Gateways, authentication server, web hosts, Kubernetes and tye files | none | configuration | not modelled |
| Angular product page (`apps/angular/projects/product-service`) | list, filters, dialog with a form, busy flag | list, create, edit, delete | modelled |

### How the parts interact

Calls are HTTP requests. Each runs in a unit of work: it reads rows, changes
objects in memory, and saves and commits at its end. Requests share nothing but the
database, so two of them interact only through the rows one reads and the other
saves. Subscriptions read the edition catalogue. Provisioning inserts a tenant, a
subscription and an invoice in one transaction, and the administrator in
another, of the identity database. Subscriptions and invoices
publish distributed events (`SubscriptionCancelledEvent`, `InvoicePaidEvent`),
which nobody in the repository subscribes to. The migration handlers of the
services talk through Kafka events only. Instances of one service share a
distributed lock when they start; the migrator tool runs beside them and takes no
lock. The product page calls the product service, whose table other clients change
too.

### What is hard

* **Interleaving.** Everything read before an `await` may be stale at the save.
  The framework's concurrency stamp covers the update of a row, and nothing
  covers "search, then insert" (one active subscription, tenant name, invoice
  sequence).
* **Atomicity.** Events leave the process at the completion of the unit of work,
  before the commit; there is no outbox. A unit of work over two databases has two
  commits.
* **Partial failure.** The answers of `CreateAsync`, `UpdateAsync` and
  `MarkAsPaidAsync` are mapped to DTOs after the save, and the AutoMapper profile
  declares no map.
* **Derived state.** `NextBillingDate` is stored beside what it is computed
  from.
* **Retries.** Migration handlers publish their event again when they fail, to
  every subscriber, and decide what is left to do from what they find done.
* **Crashes.** A handler that stops is run again from its start; an instance that
  crashes keeps its lock until the lock expires.
* **Late answers.** Callbacks of the page's requests run on whatever the page
  shows when they come.

`PROJECT.json` lists each hazard at its line with the properties that watch it,
or why none does yet.

### What makes each part correct

* Subscriptions: a status only follows the transition table, a cancelled
  subscription is never billed again, no update is lost, the next billing date is
  never out of date, a cancellation is announced, a tenant has at most one
  active subscription.
* Invoices: settled once and for good, overdue only when late and unsettled,
  cancelled only when pending, a payment is announced.
* Provisioning: a stored tenant has its subscription and its invoice, and its user
  unless the process stopped between two commits; no user without tenant; names
  are unique.
* Migrations: every database reaches its last schema and its seed data, or the
  failure is final and known; tenants follow the host; retries end.
* Startup: one instance migrates at a time, none serves an old schema for good.
* Tool: no tenant with a database of its own is passed over.
* Page: it comes to show its own changes, its dialog never hangs, and an answer
  closes the dialog it belongs to.

## 2. Modules

| module | what it is |
| --- | --- |
| `SubscriptionStates` | statuses and transition table of `SubscriptionStateMachine.cs` |
| `SubscriptionLedger` | abstract: what is promised of a stored subscription |
| `Subscriptions` | the service: aggregate, manager, application service, editions, the subscription of a provisioning |
| `MCSubscriptions` | symmetry for TLC |
| `SubscriptionsProofs` | theorems about `Subscriptions` |
| `InvoiceLifecycle` | abstract: what is promised of an invoice |
| `Invoices` | the service: aggregate, manager, application service, the invoice of a provisioning |
| `MCInvoices` | symmetry for TLC |
| `InvoicesProofs` | theorems about `Invoices` |
| `TenantRegistry` | abstract: what is promised of a tenant, seen across the two databases |
| `TenantProvisioning` | a tenant, its user, subscription and invoice in one unit of work over two databases; deactivation |
| `MCTenantProvisioning` | symmetry for TLC |
| `TenantProvisioningProofs` | theorems about `TenantProvisioning` |
| `DatabaseMigrations` | the migration events, their handlers, retries, redelivery |
| `MCDatabaseMigrations` | services, databases and events for TLC |
| `DatabaseMigrationsProofs` | theorems about `DatabaseMigrations` |
| `NothingForgottenProofs` | the theorem that nothing asked for is forgotten, on top of these |
| `TenantsFollowProofs` | the theorem that tenants follow the host, on top of both |
| `StartupMigrations` | the startup check of the instances and the migrator tool |
| `MCStartupMigrations` | services, instances and tenants for TLC |
| `StartupMigrationsProofs` | theorems about `StartupMigrations` |
| `ProductPage` | the Angular product page over the product service |
| `MCProductPage` | the table at first, for TLC |
| `ProductPageProofs` | theorems about `ProductPage` |

### State and actions

In `Subscriptions`, `subs` is the table (a function from identifiers to rows or
`None`; a row is a record of the properties of `Subscription.cs`), `catalog` the
editions, `tenants` the tenants that exist, `today` the clock, `cancelled` counts
the published cancellation events of each subscription up to 2, and `uow` gives
each request in flight its unit of work: idle; `quoted` when a creation has read
its edition; `loaded` when a renewal has read its subscription and not yet its
edition; `ready` when the changed row only waits for its save. `base` is the row
as read, `row` the row as changed.

A request is a sequence of steps between which any other request may run:

* `CreateAsync` or `ProvisionTenantAsync` reads the edition, and
  `CreateSubscriptionAsync` then searches for an active subscription and builds
  the row.
* `RenewAsync` reads the subscription, and `RenewSubscriptionAsync` then reads
  the edition and renews in memory.
* `UpdateAsync`, `CancelAsync`, `SuspendAsync`, `ActivateAsync` and `DeleteAsync`
  read and change in one step: nothing else is read between.
* `SaveChanges` ends a request that changed something, `SaveNothing` one whose
  changes left the row as it was, `Rollback` is any exception or stop, and
  `CommitFails` is a stop between the publication of events and the commit.

Guards come from the checks of the application service, of the manager and of the
aggregate together, since a failed check ends the request with an exception (a
`Rollback`, or no step at all).

`Invoices` has the same structure with a unit of work that may hold several rows, as
`ProcessOverdueInvoicesAsync` changes all late invoices of the caller in one
save.

`TenantProvisioning` looks at a provisioning as a whole. `tenants`, `subs` and
`invoices` are tables of the SaaS database, `users` of the identity database.
`work` is the unit of work of a request: the edition read (`ReadEdition`), the name
found free (`CreateTenant`), the user added (`CreateTenantAdminUser`), the rest
built and inserted (`Provision`); then `CommitOne` commits one database after the
other, in the order in which they were first used. `Abort` is an exception or a stop
anywhere, and `cut` remembers the tenants that a stop caught between the commits.
`DeactivateTenant` is the soft delete of `HostAdminAppService`; `ActivateTenant`
refuses a deleted tenant, and for another one changes nothing, so it is a step that
changes nothing.

In `DatabaseMigrations`, `inbox` holds the events on their way to each service (a
bag: no order), `worker` the handler that each consumer runs, `migrated` and
`seeded` what was done in which database, `strings` the tenants' connection strings,
`givenUp` the operations that ended in the error log. A handler is
`Receive`, for a tenant `FindTenant` (has it a database of its own?), `FindPending`
(open the context and ask for pending migrations), `MigrateAsync`, `SeedAsync`, then for
the host's migration `ListTenants` and `QueueTenant`, and `Acknowledge`; a call named in
`Faults` may throw, and `HandleError` is the catch that publishes the event again. `Crash`
delivers the event again as it was received. The service reads the connection
strings when it looks the tenant up and again each time it connects, so they may change
between any two of these steps.

In `StartupMigrations`, `inst` is the progress of each instance, with the
`retryCount` of the `TryAsync` it is in; `lock` the holder of each service's lock;
`tool` the run of the migrator tool, with the list of databases and tenants it has
still to do and its `migratedDatabaseSchemas` (`known`). Every step of
`StartupCheck` and `ToolStep` is one awaited call, which may throw.

In `ProductPage`, `page` holds the fields of `ProductComponent`, the state of its
`ListService` (a query due, a query under way) and the requests it has sent;
`table` is the product table, and `version` counts its changes. User actions are
the handlers of the template, `Serve` and `GetListAsync` the service, `Answered` and
`SetData` the callbacks. One price stands for the form, one least price for the
filters.

### Assumptions about what is outside the repository

These are behaviours of ABP, EF Core and PostgreSQL; `map` marks them external.

1. A request has a transactional unit of work, and an exception rolls all of it
   back, also after `SaveChangesAsync`.
2. An UPDATE carries the row's `ConcurrencyStamp` and fails when another save
   changed the row; each save renews the stamp, also of a row of which
   only an owned value (period, price) changed. When no property differs, as in
   a second `Cancel`, nothing is sent and nothing checked. An INSERT has no check,
   since the tables have no unique index.
3. Queries hide other tenants' rows, from the host too, and soft-deleted
   rows.
4. Distributed events of an entity leave at the completion of the unit of
   work, before the commit.
5. A new GUID is unused.
6. `ObjectMapper` fails where no map is declared. `DtoMapsDeclared` says whether
   the maps are there: FALSE is the profile as the repository has it, TRUE the
   evident intent.
7. The `IdentityUserManager` that provisioning asks for can be resolved and
   creates the user. The module graph of the SaaS host does not declare the
   identity module, so a deployment has to add it before it can provision.

8. A unit of work opens a transaction for each database at its first use and
   commits them in that order; what is committed stays when the next commit fails.
9. `ITenantManager.CreateAsync` checks the name and inserts nothing. The role
   "admin" may not exist for a new tenant, so giving it may fail.
10. Kafka: a service's instances form one consumer group; an event is delivered to
    every group, at least once, in no order that a program may rely on; the offset is
    committed after the handler, also when the handler throws.
11. The distributed lock (Redis) is exclusive, is not waited for, and expires when
    its holder is gone. A holder that is alive keeps it: a process that is suspended
    longer than the expiry is not modelled.
12. A migration is applied wholly or not at all, and again without effect.
13. The Kubernetes deployment replaces an instance that ended.
14. `ListService.get` lets a query start after a delay, and `hookToQuery` drops the
    answer of the query before (`switchMap`); it goes on after an error. A modal
    cannot be closed while busy, and covers the page; a confirmation too.

One clock stands for `Clock.Now` and `DateTime.UtcNow` (a server on UTC). A
month and a year are fixed numbers of days: `AddMonths` at the end of a month is
not modelled. Names, currencies, feature limits, logging and authorization
policies are left out.

## 3. Runs

| run | instance | shows |
| --- | --- | --- |
| `subscriptions_races` | one tenant, one subscription, two requests, maps declared; about 855 000 states | every interleaving of two requests' reads and saves, with stops and lost commits: `TypeOK`, `BillingConsistent`, `CancellationAnnounced`, `NoLostUpdate`, `ImplementsLedger` |
| `subscriptions_without_maps` | a tenant and the host as callers, two tenants, two subscriptions, both billing periods, repeated renewals, two requests at once, no map; about 1.1 million states | `BillingConsistent` through long sequences; `OneActivePerTenant`, which holds as long as only provisioning can insert |
| `cancel_twice` | one subscription | violation: a repeated cancellation publishes again |
| `invoices_races` | two tenants, two invoices, three requests; about 236 000 states | a payment, a cancellation and a batch meet: `TypeOK`, `PaidAnnounced`, `SettledIsFinal`, `ImplementsLifecycle` |
| `tenant_provisioning` | two requests, three tenants of one name, trials of none, zero and one day; about 1 million states | `TypeOK`, `NamesUniqueInSequence`, `CompleteTenants`, `NoOrphanedUsers`, `ImplementsRegistry` with failures and stops anywhere |
| `host_migration` | a service with two consumers whose seeding does not throw, the SaaS service with its startup check, two tenants, one of which is created and moves to another database meanwhile; about 864 000 states | `TypeOK`, `TenantsFollowHost`, `HostFirst` |
| `migration_retries` | a service that seeds and one that does not, a tenant that moves to another database, migrating, seeding and publishing may throw, one stop; about 426 000 states | `Served`, `RetriesEnd` (liveness) |
| `strings_change` | the same services, a tenant that moves to the database where it has the data of one of them and whose own string for that service is removed, every call may throw; about 1.5 million states | `NothingForgotten` |
| `host_seeding_fails` | one service, one tenant, seeding throws | violation: the tenant's migration is never queued |
| `startup_migrations` | two instances of a service that seeds, one of another, a run of the tool over three tenants, all with the data of one service in a database of its own, three failures, one crash; about 264 000 states | `TypeOK`, `OneMigratesAtATime`, `ServesUpToDate`, `ToolMigratesTenants`, `HostsMigrated` (liveness) |
| `tool_skips_schema` | the tool over two tenants that share a database, one of them with a separate one for a service | violation: a database counts as migrated whose schema is not |
| `product_page` | one page and other clients, two products, two prices, one filter, two changes, one refresh; about 667 000 states | `TypeOK`, `ShowsOwnChanges`, `ClosesOwnDialog`, `BusyTellsSubmission`, `NotStuck`, `ShowsEventually` (liveness) |

**Why the bounds are enough.** Requests interact pairwise through one row, so two
requests and one row meet in every order; invoices take three because a batch, a
payment and a cancellation each treat the same pending row differently, and a
batch of two rows needs two of them. `MaxDate` in `subscriptions_without_maps`
allows a renewal of a month twice over and a change between month (2 days) and
year (3 days). Prices 0 and 1 of the other runs tell a free price from a charged one. `MaxDay`
bounds the clock; due dates of one day make an invoice overdue inside it.
`StartWindow` 0 leaves out start dates in the future, which no guard reads.
`subscriptions_without_maps` has prices 1 and 2, so that a provisioned subscription is active
from the start and two requests are enough to look for a second one.

Two provisionings race for one name, and the third tenant is one that was there
before, so a deactivated namesake meets a race. In the migrations, `MaxEventTryCount`
is 1 where the code has 3: an event is then tried, retried and given up, which are
all the cases of the comparison, and two services multiply each other's retries.
`host_migration` has two consumers of one service, which may handle the host's event
and a tenant's at once, while the tenant moves between two steps of either. Seeding
throws in `migration_retries` and in `strings_change`, where a tenant moves under a running
handler too. In the latter a string is removed; the tenant then has both services' data in
one database, or, in the other order, moves under a handler that had still seen the string.
Three failures are
what `RetryCount` 3 takes to stop an instance. Three tenants let the tool meet
a default database that two tenants share, and a tenant without one. On the page, two changes are what it takes
for one answer to come after another dialog was opened, and one refresh makes a query
overtake another.

The proofs cover all other values of all constants.

**Deadlock.** The configurations say `CHECK_DEADLOCK FALSE`: a service to which
nobody sends a request does nothing, and with every row cancelled or deleted, the
identifiers used up and the clock at its bound no request can be answered; the
migrations and the deployment come to rest. `product_page` and
`tenant_provisioning` check deadlock.

**Symmetry.** Requests and identifiers of rows are interchangeable; in
`Invoices` and `TenantProvisioning` tenants are too (the host is not among them).
The properties of these runs, the refinements among them, are safety properties, for which symmetry is sound; the
runs with liveness properties use none.

**Fairness.** All of it is weak fairness of what runs by itself:

* `DatabaseMigrations`: a consumer goes on while it has an event to receive or a
  handler to finish (`WF_vars(HandleEventAsync(w))` for each worker): the consumer is
  a background loop, and every await of a handler ends, with a result or an exception.
  Nothing is assumed about which of these happens, who publishes, or stops.
* `StartupMigrations`: a started instance goes on with its check, a stopped one is
  replaced by the deployment, a lock nobody renews expires, a started tool goes on.
  Nobody has to start the tool.
* `ProductPage`: the delay of a query ends, a query and a request are answered or
  fail (the browser's timeout), and their callbacks run. Users need do nothing; they
  refresh only finitely often (`MaxGets`), since a refresh gives up the query under
  way and without end would keep a page from showing anything.

The other modules claim no liveness: a request that fails is not retried by the
SaaS service, no background worker exists that must eventually expire a
subscription or mark an invoice, and nothing obliges a client to call.

### Findings

* `cancel_twice`: `SubscriptionStateMachine.cs:49` calls the change of a status to
  itself an idempotent operation; `Subscription.Cancel` publishes the event again.
* `host_seeding_fails`: the handlers say "Migrate tenant databases after host
  migration" and do so only when the same handling applied the host's migration.
  Seeding comes between the two: when it throws, the retry finds nothing to migrate
  and queues nobody. A stop of the process, a failure to list the tenants or to
  publish, a startup check that was faster or a second consumer of a service that
  seeds has the same effect.
* `tool_skips_schema`: the migrator tool notes a tenant's default connection string
  as migrated although the schema of a service for which the tenant has a string of
  its own was migrated there and not in the default database; a second tenant that
  shares the default database is then skipped.

**A defect that another one hides.** `SubscriptionManager.cs:53` says a tenant can only
have one active subscription, and as built it has. But the check and the insert of
`CreateSubscriptionAsync` are not atomic and there is no unique index, so two creations
would both find none; the host's search does not see the tenant's rows at all; and
`ActivateAsync` would make an older subscription active beside its successor. None of this
happens now, because `CreateAsync` cannot map its answer (`SubscriptionAppService.cs:57`,
no DTO map is declared) and its unit of work is rolled back: only provisioning inserts,
each time for a new tenant. Declaring the map uncovers it: with `DtoMapsDeclared` TRUE
TLC finds two active subscriptions in each of these ways, as it does with the mutant of
`subscriptions_without_maps`, which lets a creation answer without the map.

**What some properties leave out.** `ClosesOwnDialog` leaves out a dialog that was
submitted twice (Enter in the form while it is busy): the second answer then does close
whatever dialog is open. `TenantsFollowHost` leaves out failures to list or to queue the
tenants and stops, which have the effect of `host_seeding_fails`. `NothingForgotten` and
`Served` leave out, for one tenant and one service, the removal of a connection string that
this service uses, since no handler looks at that event. `ToolMigratesTenants` speaks of
tenants that keep each service's data alike; `tool_skips_schema` shows the others.

## 4. Proofs

All theorems hold for every value of the constants that satisfies the named
assumptions of the modules (`CallersAssumption`, `PricesAssumption`, ...): any
number of tenants, rows and concurrent requests, any prices, any period lengths; any
number of services, consumers, instances, databases, pages, failures and crashes.
Two theorems have a condition of their own, `~DtoMapsDeclared` and `Calm`.

| theorem | states |
| --- | --- |
| `SubscriptionsProofs!Invariant` | `IInv` is invariant |
| `SubscriptionsProofs!TypeCorrect` | `TypeOK` |
| `SubscriptionsProofs!BillingStaysConsistent` | `BillingConsistent` |
| `SubscriptionsProofs!CancellationsAreAnnounced` | `CancellationAnnounced` |
| `SubscriptionsProofs!UpdatesAreNotLost` | `NoLostUpdate` |
| `SubscriptionsProofs!LedgerImplemented` | `Subscriptions` implements `SubscriptionLedger` |
| `SubscriptionsProofs!OneActiveWithoutMaps` | `OneActivePerTenant`, while no DTO map is declared |
| `InvoicesProofs!Invariant` | `IInv` is invariant |
| `InvoicesProofs!TypeCorrect` | `TypeOK` |
| `InvoicesProofs!PaymentsAreAnnounced` | `PaidAnnounced` |
| `InvoicesProofs!SettledOnce` | `SettledIsFinal` |
| `InvoicesProofs!LifecycleImplemented` | `Invoices` implements `InvoiceLifecycle` |
| `TenantProvisioningProofs!Invariance` | `IInv` is invariant |
| `TenantProvisioningProofs!TypeCorrect` | `TypeOK` |
| `TenantProvisioningProofs!NamesUnique` | `NamesUniqueInSequence` |
| `TenantProvisioningProofs!Complete` | `CompleteTenants` |
| `TenantProvisioningProofs!NoOrphans` | `NoOrphanedUsers` |
| `TenantProvisioningProofs!RegistryImplemented` | `TenantProvisioning` implements `TenantRegistry` |
| `DatabaseMigrationsProofs!Invariance` | `IInv` is invariant |
| `DatabaseMigrationsProofs!TypeCorrect` | `TypeOK` |
| `DatabaseMigrationsProofs!TenantsAfterHost` | `HostFirst` |
| `NothingForgottenProofs!NobodyIsForgotten` | `NothingForgotten` |
| `TenantsFollowProofs!TenantsAreMigrated` | `TenantsFollowHost`, in a `Calm` system |
| `StartupMigrationsProofs!Invariance` | `IInv` is invariant |
| `StartupMigrationsProofs!TypeCorrect` | `TypeOK` |
| `StartupMigrationsProofs!LockExcludes` | `OneMigratesAtATime` |
| `StartupMigrationsProofs!ServedSchemas` | `ServesUpToDate` |
| `StartupMigrationsProofs!ToolLeavesNoTenant` | `ToolMigratesTenants` |
| `ProductPageProofs!Invariance` | `IInv` is invariant |
| `ProductPageProofs!TypeCorrect` | `TypeOK` |
| `ProductPageProofs!PageShowsOwnChanges` | `ShowsOwnChanges` |
| `ProductPageProofs!SubmissionClosesOwnDialog` | `ClosesOwnDialog` |
| `ProductPageProofs!BusyMeansSubmission` | `BusyTellsSubmission` |

**The argument for `Subscriptions` and `Invoices`.** None of the properties is inductive: a save stores whatever a
unit of work holds, so the properties need to know what that may be. `IInv` adds
two facts. The first is the optimistic lock (`StampsTell`; in `Invoices` a part of
`WorkOK`): while a unit of work is not stale, the row it read is the stored one.
A save keeps it because it makes every other reader of the row stale. The second
says that the changed row is a legal change of the row read (`LegalChange`): each
handler establishes it from its own checks, and no other step touches it (in
`Invoices` it mentions the clock, and stays true as the clock advances, for a
late invoice stays late). A save is then a legal change of the *stored* row,
which gives the action properties and, through the refinement mapping `Seen`,
the step of the abstract specification. One lemma per action carries the proof of
`IInv`; the operators of the aggregate have lemmas of their own.

The refinement mapping of `Subscriptions` keeps of a row its tenant, its status,
whether it has a next billing date and whether it is deleted; that of `Invoices`
the status and the due date.

`OneActivePerTenant` would fail with the DTO maps declared (§3). While none is declared,
as in the repository, it holds for any number of requests: `OneRowEach` says that a tenant has one row at
most, because only provisioning inserts, and each provisioning is about a tenant that is
neither stored nor another's.

**The argument for `TenantProvisioning`.** `WorkOK` says what a unit of work knows: its
databases are `saas` and then `identity`, in this order and never another; before the
first commit nobody has stored its identifier (no two requests have the same one:
`IdsDiffer`), and the tenants it saw under its name are deleted, which a soft delete
that cannot be undone keeps true; after the first commit its tenant is stored, and
after the second its user too. With `SawStored` (what a tenant saw was stored before)
the first commit cannot add a namesake that saw the other or was seen by it. The
order of the two commits gives `NoOrphanedUsers`, and the only tenant without user at
the end of a request is one whose unit of work was cut.

`TenantRegistry` is the same system as a reader of both databases sees it. The refinement
mapping `Seen` joins, for an identifier, the row of the tenant, of its subscription, of
its invoice and of its user into one record. The commit of the SaaS database is `Open`,
that of the identity database `Appoint`, a soft delete `Deactivate`, and every other step
is seen as none. `Open` needs that nobody has a user, a subscription or an invoice under
an identifier that has no tenant (`NoOrphanedUsers`, `BilledStored`), and `Appoint` that
the tenant still has no user when the second commit comes (in `WorkOK`). The abstract
specification has no requests and no stops: that a stop between the commits leaves a
tenant waiting for its user, and nothing worse, is what the theorem says of it.

**The argument for `DatabaseMigrations`.** `HandlerOK` says of a handler that it runs an
event its service handles, and that one which lists or queues tenants is about to
do so for a host whose schema is migrated: `result` is TRUE only after the migration,
and a schema does not become old again. An event published again is the one handled,
with another try count, so `HostFirst` passes from the event to its retry.

`NothingForgotten` says that once no event is on its way and no handler runs, whatever
was asked for an owner's database is done there, or its error is logged. It has no
condition on the constants, and it is the safety core of `Served`: what is left to
liveness is that quiet comes (`RetriesEnd`). The proof does not count events. `Attended`
says of a service and an owner that the database is as it should be, or an error is
logged, or an event about the owner waits, or a consumer `Attends` to the owner: it is at
a step from which it will find, migrate or seed the database the owner is in *now*, or
publish the event again. Each step hands the owner from one of these to another. A connection
string that moves takes the owner's database away from under a handler, and brings an
event with it, which is the third case. A string that is removed brings an event that no
handler looks at; the property leaves out the services that use that string, for that
tenant only (`Removed`).
A service is `Concerned` with an owner from the moment it was asked, so the proof also
has to show that nobody takes the last event about an owner without attending to it.

`TenantsFollowHost` is false of some constants, and its theorem names the conditions
in `Calm`: connection strings may move but are not removed, listing and queueing tenants
does not throw, no other event about the host than a request to migrate it is sent, and
no tenant lives in the host's database or moves there (its migration would be mistaken
for the host's). `HasItsOwn` says that a context is opened only for an owner that has a
database, still, for no string is removed between the lookup and the opening. The instance of `host_migration` satisfies them. `Pursued` is `Attended`
or a consumer that lists or queues tenants, this one still to come; a host's handler that
migrated passes every tenant to itself, and then one after the other to the events that
it publishes.

**The argument for `StartupMigrations`.** `OneMigratesAtATime` is inductive with the types:
the lock is taken only when free, released only by its holder's step, and expires only
when its holder is out of the locked block. `LockHeld` adds that without a crash nobody
else's lock is in the way; `PassedRightly` that an instance which passed its check did so
after the migration, or because another one that has not passed held the lock.
`ToolOK` relates the tool's `known` databases and the rests of its lists to `migrated`.
A known connection string stands for one tenant that had it and whose schemas are all up
to date, wherever they are. The tool then skips other tenants with this string, which is
right for a tenant when all of them keep their data where it does (`Alike`), and wrong
otherwise (`tool_skips_schema`); `ToolMigratesTenants` asks it of no other tenants.

**The argument for `ProductPage`.** `Fresh` says of a page that knows of the last
change of the table: a query is due, or under way and not answered with other rows
than the table's, or the page shows them (or the list failed). A change that ends
makes a query due in the same callback that tells of it, and a query reads the table
after that. `Known` says that no answer tells of a change to come, so the next change
makes every page ignorant at once. `Single` says, while no dialog was submitted
twice, that a submission is the only one and its dialog open and busy: no
other dialog can have been opened, and the submission is still its dialog's own.
`Honest` ties the busy flag to a
submission under way; with `Single` it gives `BusyTellsSubmission`, the safety core of
`NotStuck`: a dialog that is busy waits for an answer that frees it.
`PageStep` is the lemma that a step of one page, which may change the table, leaves
the other pages good.

**Only model-checked.** Every safety property of the passing runs has a theorem, the
three refinements included; the
liveness properties (`Served`, `RetriesEnd`, `HostsMigrated`, `NotStuck`,
`ShowsEventually`) have none. **Out of the prover's reach** are liveness under fairness,
`ENABLED`, induction over data and recursive operators; no module uses `RECURSIVE`.

## 5. Not modelled

* **Money, proration, upgrade, downgrade, credit notes, invoice sequence numbers.** No
  caller reaches these methods, so there is no state of the running program that
  they change. Whether one of them throws is a matter of a single call.
* **Queries and metrics** of host and tenant administration: they change no state, and
  no text promises that their numbers come from one snapshot.
* **Feature and usage limits** of an edition: nothing reads them but uncalled methods.
* **What is seeded**: the framework's seeders. The models have one fact per service,
  owner and database. `OpenIddictDataSeeder` writes applications and scopes of the
  authentication server one after the other.
* **Identity, administration, authentication server, gateways, web hosts**:
  configuration of framework modules.
* **Third-party code**: nearly all JavaScript of the repository is that of
  libraries copied under `wwwroot/libs` (jQuery, luxon, bootstrap, sweetalert2, ...)
  for the authentication server and the web hosts. It is not part of the system's own
  logic, so the share of JavaScript and TypeScript lines that the map covers is small
  by nature. The modules model the C# services, and of the scripts the product page.

## 6. What could follow

1. An abstract specification of a database (`old`, `migrated`, or given up) that
   `DatabaseMigrations` and `StartupMigrations` both implement.
2. Operators for money and periods against reference definitions, once the methods
   have a caller.
