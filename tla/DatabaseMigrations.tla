------------------------ MODULE DatabaseMigrations ------------------------
(***************************************************************************)
(* The database migration events: the handlers by which every service     *)
(* brings its schema up to date in the host's database and in the separate *)
(* databases of tenants (DatabaseMigrationEventHandlerBase and the four    *)
(* handlers derived from it).                                              *)
(*                                                                         *)
(* A service consumes the events in a consumer group of its own, so what   *)
(* is published reaches every service that handles it, in no fixed order.  *)
(* The consumer acknowledges an event after its handler returned: when the *)
(* process stops before, the event is delivered again.  A handler that     *)
(* fails publishes the event once more, with a try count one higher, to    *)
(* everybody, until the count passes MaxEventTryCount.                     *)
(*                                                                         *)
(* An event that a handler returns from before doing anything leaves no    *)
(* trace, so it is not delivered to that service at all (Handles).         *)
(***************************************************************************)
EXTENDS Integers, Bags, BagsExt

CONSTANTS
  Services,          \* the services with a migration handler
  Seeders,           \* those whose handler also seeds data
  HostOnly,          \* those that have no schema in a tenant's database
  Workers,           \* the consumers: processes of a service
  ServiceOf,         \* the service of a worker
  Tenants,           \* tenant identifiers
  Host,              \* the host, C#'s null tenant
  Databases,         \* the databases, each named by its connection string
  HostDb,            \* the database of a service on the host's side
  Default,           \* the name "Default" of a connection string
  None,              \* no connection string
  InitialStrings,    \* the connection strings of the tenants at the start
  Requests,          \* events that other programs publish, once each
  Updates,           \* changes of connection strings: [tenant, name, value]
  Startups,          \* services whose startup check may run
  Faults,            \* the calls that may throw
  MaxEventTryCount,  \* how often an event is published again
  MaxCrashes         \* bound on the stops of a process

Owners == Tenants \cup {Host}
Names == Services \cup {Default}

ASSUME ServicesAssumption == Seeders \subseteq Services /\ HostOnly \subseteq Services
ASSUME WorkersAssumption == ServiceOf \in [Workers -> Services]
ASSUME OwnersAssumption == Host \notin Tenants
ASSUME DatabasesAssumption == HostDb \in [Services -> Databases] /\ None \notin Databases
ASSUME NamesAssumption == Default \notin Services
ASSUME StringsAssumption ==
  InitialStrings \in [Tenants -> [Names -> Databases \cup {None}]]
ASSUME UpdatesAssumption ==
  Updates \subseteq [tenant: Tenants, name: Names, value: Databases \cup {None}]
ASSUME StartupsAssumption == Startups \subseteq Services
ASSUME FaultsAssumption ==
  Faults \subseteq {"find", "migrate", "seed", "list", "publish", "publishAgain"}
ASSUME BoundsAssumption == MaxEventTryCount \in Nat /\ MaxCrashes \in Nat

Kinds == {"ApplyDatabaseMigrations", "TenantCreated", "ConnectionStringUpdated"}

\* name is the DatabaseName of an ApplyDatabaseMigrationsEto, and the
\* ConnectionStringName of a TenantConnectionStringUpdatedEto, whose NewValue
\* is blank or not.
Events ==
  [kind: Kinds, owner: Owners, name: Names, blank: BOOLEAN,
   tries: 0 .. MaxEventTryCount]

ASSUME RequestsAssumption == \A e \in Requests : e \in Events /\ e.tries = 0

VARIABLES
  inbox,     \* for each service, the bag of events to be delivered to it
  worker,    \* for each worker, the handler it runs
  migrated,  \* the <<service, database>> with no pending schema migration
  seeded,    \* the <<service, owner, database>> whose data is seeded
  strings,   \* the connection strings of each tenant
  givenUp,   \* the <<service, owner>> of operations that ended in the error log
  asked,     \* the requests and updates that were made
  crashes    \* how often a process stopped

vars == <<inbox, worker, migrated, seeded, strings, givenUp, asked, crashes>>

-----------------------------------------------------------------------------
(* Databases *)

\* The connection string of an owner for a service: the service's own name
\* first, then the default one, then the host's.
DatabaseOf(s, o) ==
  CASE o = Host -> HostDb[s]
    [] o # Host /\ strings[o][s] # None -> strings[o][s]
    [] o # Host /\ strings[o][s] = None /\ strings[o][Default] # None ->
         strings[o][Default]
    [] OTHER -> HostDb[s]

\* Only the host and a tenant with a database of its own are migrated.
HasDatabase(s, o) ==
  o # Host => strings[o][Default] # None \/ strings[o][s] # None

WithDefaultString == {t \in Tenants : strings[t][Default] # None}

WithSeparateString == {t \in Tenants : \E n \in Names : strings[t][n] # None}

-----------------------------------------------------------------------------
(* Events *)

HandlesOwnName(s, e) ==
  \/ /\ e.kind = "ApplyDatabaseMigrations"
     /\ e.name = s
     /\ s \in HostOnly => e.owner = Host
  \/ /\ e.kind = "TenantCreated"
     /\ s \notin HostOnly
  \/ /\ e.kind = "ConnectionStringUpdated"
     /\ s \notin HostOnly
     /\ e.name = s
     /\ ~e.blank

\* The conditions under which a handler does not return at once.
Handles(s, e) ==
  \/ /\ e.kind = "ApplyDatabaseMigrations"
     /\ e.name = s
     /\ s \in HostOnly => e.owner = Host
  \/ /\ e.kind = "TenantCreated"
     /\ s \notin HostOnly
  \/ /\ e.kind = "ConnectionStringUpdated"
     /\ s \notin HostOnly
     /\ e.name \in {s, Default}
     /\ ~e.blank

Delivered(box, e) ==
  [s \in Services |-> IF Handles(s, e) THEN BagAdd(box[s], e) ELSE box[s]]

ApplyToTenant(s, t) ==
  [kind |-> "ApplyDatabaseMigrations", owner |-> t, name |-> s,
   blank |-> FALSE, tries |-> 0]

StringUpdated(u) ==
  [kind |-> "ConnectionStringUpdated", owner |-> u.tenant, name |-> u.name,
   blank |-> u.value = None, tries |-> 0]

AgainUncounted(e) == e

Again(e) == [e EXCEPT !.tries = @ + 1]

-----------------------------------------------------------------------------
(* The handler of a worker *)

Waiting == [step |-> "wait"]

\* event is the event as received; result what MigrateDatabaseSchemaAsync
\* returns; left the tenants whose migration is still to be queued.
Handlers ==
  [step: {"find", "pending", "migrate", "seed", "list", "queue", "failed", "done"},
   event: Events, database: Databases, result: BOOLEAN, left: SUBSET Tenants]

Goto(w, step) == worker' = [worker EXCEPT ![w].step = step]

\* The call that the handler is about to make throws: the handler's catch.
Fails(w, call) == call \in Faults /\ Goto(w, "failed")

Receive(w, e) ==
  LET s == ServiceOf[w] IN
  /\ worker[w] = Waiting
  /\ e \in BagToSet(inbox[s])
  /\ inbox' = [inbox EXCEPT ![s] = BagRemove(@, e)]
  /\ worker' = [worker EXCEPT ![w] =
       [step |-> IF e.owner = Host THEN "pending" ELSE "find",
        event |-> e, database |-> HostDb[s], result |-> FALSE, left |-> {}]]
  /\ UNCHANGED <<migrated, seeded, strings, givenUp, asked, crashes>>

\* The tenant is looked up first, for whether it has a database of its own.
FindTenant(w) ==
  /\ worker[w].step = "find"
  /\ \/ Goto(w, IF HasDatabase(ServiceOf[w], worker[w].event.owner)
                THEN "pending" ELSE "seed")
     \/ Fails(w, "find")
  /\ UNCHANGED <<inbox, migrated, seeded, strings, givenUp, asked, crashes>>

\* The context is opened on the database that the owner has by then, and asked
\* for pending migrations.
FindPending(w) ==
  LET s == ServiceOf[w]
      d == DatabaseOf(s, worker[w].event.owner)
  IN
  /\ worker[w].step = "pending"
  /\ \/ worker' = [worker EXCEPT
          ![w].database = d,
          ![w].step = IF <<s, d>> \notin migrated THEN "migrate" ELSE "seed"]
     \/ Fails(w, "find")
  /\ UNCHANGED <<inbox, migrated, seeded, strings, givenUp, asked, crashes>>

MigrateAndForget(w) ==
  /\ worker[w].step = "migrate"
  /\ \/ /\ migrated' = migrated \cup {<<ServiceOf[w], worker[w].database>>}
        /\ worker' = [worker EXCEPT ![w].step = "seed", ![w].result = TRUE]
     \/ "migrate" \in Faults /\ UNCHANGED migrated /\ Goto(w, "done")
  /\ UNCHANGED <<inbox, seeded, strings, givenUp, asked, crashes>>

MigrateAndHope(w) ==
  /\ worker[w].step = "migrate"
  /\ worker' = [worker EXCEPT ![w].step = "seed", ![w].result = TRUE]
  /\ \/ migrated' = migrated \cup {<<ServiceOf[w], worker[w].database>>}
     \/ "migrate" \in Faults /\ UNCHANGED migrated
  /\ UNCHANGED <<inbox, seeded, strings, givenUp, asked, crashes>>

MigrateAsync(w) ==
  /\ worker[w].step = "migrate"
  /\ \/ /\ migrated' = migrated \cup {<<ServiceOf[w], worker[w].database>>}
        /\ worker' = [worker EXCEPT ![w].step = "seed", ![w].result = TRUE]
     \/ UNCHANGED migrated /\ Fails(w, "migrate")
  /\ UNCHANGED <<inbox, seeded, strings, givenUp, asked, crashes>>

\* What follows a handler's seeding: only a host whose schema was migrated by
\* this very handler has its tenants queued.
AfterSeeding(w) ==
  IF /\ worker[w].event.kind = "ApplyDatabaseMigrations"
     /\ worker[w].event.owner = Host
     /\ worker[w].result
     /\ ServiceOf[w] \notin HostOnly
  THEN "list" ELSE "done"

SeedAsync(w) ==
  LET s == ServiceOf[w]
      o == worker[w].event.owner
  IN
  /\ worker[w].step = "seed"
  /\ \/ /\ Goto(w, AfterSeeding(w))
        /\ seeded' = IF s \in Seeders
                     THEN seeded \cup {<<s, o, DatabaseOf(s, o)>>}
                     ELSE seeded
     \/ s \in Seeders /\ UNCHANGED seeded /\ Fails(w, "seed")
  /\ UNCHANGED <<inbox, migrated, strings, givenUp, asked, crashes>>

ListTenants(w) ==
  /\ worker[w].step = "list"
  /\ \/ worker' = [worker EXCEPT ![w].step = "queue",
                                 ![w].left = WithSeparateString]
     \/ Fails(w, "list")
  /\ UNCHANGED <<inbox, migrated, seeded, strings, givenUp, asked, crashes>>

QueueTenant(w, t) ==
  /\ worker[w].step = "queue"
  /\ t \in worker[w].left
  /\ \/ /\ inbox' = Delivered(inbox, ApplyToTenant(ServiceOf[w], t))
        /\ worker' = [worker EXCEPT ![w].left = @ \ {t}]
     \/ UNCHANGED inbox /\ Fails(w, "publish")
  /\ UNCHANGED <<migrated, seeded, strings, givenUp, asked, crashes>>

AllQueued(w) ==
  /\ worker[w].step = "queue"
  /\ worker[w].left = {}
  /\ Goto(w, "done")
  /\ UNCHANGED <<inbox, migrated, seeded, strings, givenUp, asked, crashes>>

GivesUp(w) == givenUp' = givenUp \cup {<<ServiceOf[w], worker[w].event.owner>>}

HandleErrorCountingLate(w) ==
  LET e == worker[w].event IN
  /\ worker[w].step = "failed"
  /\ Goto(w, "done")
  /\ IF e.tries <= MaxEventTryCount
     THEN inbox' = Delivered(inbox, Again(e)) /\ UNCHANGED givenUp
     ELSE UNCHANGED inbox /\ GivesUp(w)
  /\ UNCHANGED <<migrated, seeded, strings, asked, crashes>>

\* The catch: publish the event again, or log that the operation is cancelled.
\* An exception from that PublishAsync leaves the handler, and the consumer
\* logs it and acknowledges the event all the same.
HandleError(w) ==
  LET e == worker[w].event IN
  /\ worker[w].step = "failed"
  /\ Goto(w, "done")
  /\ IF e.tries + 1 <= MaxEventTryCount
     THEN \/ inbox' = Delivered(inbox, Again(e)) /\ UNCHANGED givenUp
          \/ "publishAgain" \in Faults /\ UNCHANGED inbox /\ GivesUp(w)
     ELSE UNCHANGED inbox /\ GivesUp(w)
  /\ UNCHANGED <<migrated, seeded, strings, asked, crashes>>

Acknowledge(w) ==
  /\ worker[w].step = "done"
  /\ worker' = [worker EXCEPT ![w] = Waiting]
  /\ UNCHANGED <<inbox, migrated, seeded, strings, givenUp, asked, crashes>>

-----------------------------------------------------------------------------
(* The surroundings *)

\* The process stops before the acknowledgement: the event as it was received
\* is delivered again.
Crash(w) ==
  /\ worker[w] # Waiting
  /\ crashes < MaxCrashes
  /\ crashes' = crashes + 1
  /\ inbox' = [inbox EXCEPT ![ServiceOf[w]] = BagAdd(@, worker[w].event)]
  /\ worker' = [worker EXCEPT ![w] = Waiting]
  /\ UNCHANGED <<migrated, seeded, strings, givenUp, asked>>

Request(e) ==
  /\ e \in Requests \ asked
  /\ asked' = asked \cup {e}
  /\ inbox' = Delivered(inbox, e)
  /\ UNCHANGED <<worker, migrated, seeded, strings, givenUp, crashes>>

UpdateConnectionString(u) ==
  /\ u \in Updates \ asked
  /\ asked' = asked \cup {u}
  /\ strings' = [strings EXCEPT ![u.tenant][u.name] = u.value]
  /\ inbox' = Delivered(inbox, StringUpdated(u))
  /\ UNCHANGED <<worker, migrated, seeded, givenUp, crashes>>

\* The startup check of a service, taken as one step: it migrates the host's
\* database, seeds the host's data, and queues no tenant.
CheckAndApplyDatabaseMigrations(s) ==
  /\ s \in Startups
  /\ <<s, HostDb[s]>> \notin migrated
  /\ migrated' = migrated \cup {<<s, HostDb[s]>>}
  /\ seeded' = IF s \in Seeders THEN seeded \cup {<<s, Host, HostDb[s]>>} ELSE seeded
  /\ UNCHANGED <<inbox, worker, strings, givenUp, asked, crashes>>

-----------------------------------------------------------------------------
(* The specification *)

Init ==
  /\ inbox = [s \in Services |-> EmptyBag]
  /\ worker = [w \in Workers |-> Waiting]
  /\ migrated = {}
  /\ seeded = {}
  /\ strings = InitialStrings
  /\ givenUp = {}
  /\ asked = {}
  /\ crashes = 0

HandleEventAsync(w) ==
  \/ \E e \in BagToSet(inbox[ServiceOf[w]]) : Receive(w, e)
  \/ FindTenant(w)
  \/ FindPending(w)
  \/ MigrateAsync(w)
  \/ SeedAsync(w)
  \/ ListTenants(w)
  \/ \E t \in Tenants : QueueTenant(w, t)
  \/ AllQueued(w)
  \/ HandleError(w)
  \/ Acknowledge(w)

Next ==
  \/ \E w \in Workers : HandleEventAsync(w) \/ Crash(w)
  \/ \E e \in Requests : Request(e)
  \/ \E u \in Updates : UpdateConnectionString(u)
  \/ \E s \in Startups : CheckAndApplyDatabaseMigrations(s)

\* A consumer goes on as long as it has something to do; what the other
\* programs do is up to them.
Fairness == \A w \in Workers : WF_vars(HandleEventAsync(w))

Spec == Init /\ [][Next]_vars /\ Fairness

-----------------------------------------------------------------------------
(* Properties *)

Busy(w) == worker[w] # Waiting

AllQuiet ==
  /\ \A s \in Services : BagToSet(inbox[s]) = {}
  /\ \A w \in Workers : ~Busy(w)

\* The events that wait for a service or are being handled by it.
OnTheirWay(s) ==
  BagToSet(inbox[s])
    \cup {worker[w].event : w \in {v \in Workers : ServiceOf[v] = s /\ Busy(v)}}

\* A service has an event about an owner to handle.
Awaits(s, o) == \E e \in BagToSet(inbox[s]) : e.owner = o

\* What handling an event is for: the owner's database, if it has one, is up
\* to date, and seeded by the services that seed.
UpToDate(s, o) == HasDatabase(s, o) => <<s, DatabaseOf(s, o)>> \in migrated
Seeded(s, o) == s \in Seeders => <<s, o, DatabaseOf(s, o)>> \in seeded

\* Type invariant: every event on its way was published to a service that
\* handles it, and has been tried at most MaxEventTryCount times before.
TypeOK ==
  /\ inbox = [s \in Services |-> inbox[s]]
  /\ \A s \in Services :
       /\ IsABag(inbox[s])
       /\ \A e \in BagToSet(inbox[s]) : e \in Events /\ Handles(s, e)
  /\ worker \in [Workers -> Handlers \cup {Waiting}]
  /\ migrated \subseteq Services \X Databases
  /\ seeded \subseteq Services \X Owners \X Databases
  /\ strings \in [Tenants -> [Names -> Databases \cup {None}]]
  /\ givenUp \subseteq Services \X Owners
  /\ asked \subseteq Requests \cup Updates
  /\ crashes \in 0 .. MaxCrashes

\* "Migrate tenant databases after host migration": when an event asks for the
\* migration of a tenant, and no other program did, the host's schema of that
\* service is up to date, whatever failed, stopped or ran in between.
HostFirst ==
  \A s \in Services : \A e \in OnTheirWay(s) :
    /\ e.kind = "ApplyDatabaseMigrations" /\ e.owner # Host
    /\ [e EXCEPT !.tries = 0] \notin Requests
    => <<s, HostDb[s]>> \in migrated

\* The purpose of queueing the tenants: once nothing is under way, a service
\* that migrated the host's schema has migrated every tenant with a database of
\* its own too, or has logged an error for that tenant.
TenantsFollow(s) ==
  AllQuiet /\ <<s, HostDb[s]>> \in migrated =>
    \A t \in Tenants : UpToDate(s, t) \/ <<s, t>> \in givenUp

\* The code reaches that purpose for a service whose seeding does not throw, as
\* long as no process stops, its startup check had nothing to migrate, and the
\* tenants are listed and queued without an exception; connection strings may
\* change meanwhile.
TenantsFollowHost ==
  crashes = 0 =>
    \A s \in Services \ (HostOnly \cup Startups) :
      (s \in Seeders => "seed" \notin Faults) => TenantsFollow(s)

\* The purpose for every service that has tenant databases.
TenantsAlwaysFollowHost == \A s \in Services \ HostOnly : TenantsFollow(s)

\* Somebody asked a service to bring an owner's database up to date, by an event
\* that it handles or by a change of a connection string that it uses.
Concerned(s, o) ==
  \/ \E e \in asked \cap Requests : e.owner = o /\ Handles(s, e)
  \/ /\ s \notin HostOnly
     /\ \E u \in asked \cap Updates : u.tenant = o /\ u.name \in {s, Default}

\* A connection string of the tenant that the service uses was removed.  No
\* handler looks at that event.
Removed(s, o) ==
  \E u \in asked \cap Updates :
    u.tenant = o /\ u.name \in {s, Default} /\ u.value = None

\* Nothing is forgotten: once nothing is under way, every database that somebody
\* asked for is as it should be where it is by then, or the error is in the log;
\* whatever calls threw, however often an event was tried by how many consumers,
\* where processes stopped, and between which steps connection strings moved.
\* Only a service that lost a connection string of the tenant is left out.
NothingForgotten ==
  AllQuiet =>
    \A s \in Services, o \in Owners :
      Concerned(s, o) /\ ~Removed(s, o) =>
        (UpToDate(s, o) /\ Seeded(s, o)) \/ <<s, o>> \in givenUp

\* No event is forgotten: what a service has to handle for an owner ends with
\* the owner's database as it is by then up to date and seeded, or with the
\* error in the log; through retries, stopped processes, and connection strings
\* that change while handlers run, unless the service loses one.
Served ==
  \A s \in Services : \A o \in Owners :
    Awaits(s, o) ~> \/ UpToDate(s, o) /\ Seeded(s, o)
                    \/ <<s, o>> \in givenUp
                    \/ Removed(s, o)

\* Retries end: although a failed event goes to every service again, and each
\* of them may fail and publish in turn, all of them become quiet for good.
RetriesEnd == <>[]AllQuiet

=============================================================================
