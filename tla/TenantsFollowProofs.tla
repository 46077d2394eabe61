------------------------- MODULE TenantsFollowProofs -------------------------
(***************************************************************************)
(* Proof that a service which migrated the host's schema comes to migrate  *)
(* every tenant with a database of its own, for any number of consumers,   *)
(* tenants, databases and failing calls, and while tenants move.           *)
(***************************************************************************)
EXTENDS NothingForgottenProofs

-----------------------------------------------------------------------------
(* The strengthened invariant *)

\* The services that TenantsFollowHost speaks of.
Plain ==
  {s \in Services \ (HostOnly \cup Startups) : s \in Seeders => "seed" \notin Faults}

\* What TenantsFollowHost leaves out: connection strings that are removed, tenants
\* that cannot be listed or queued, other events about the host than a request
\* to migrate it, and a tenant in the host's database.
Calm ==
  /\ Faults \cap {"list", "publish"} = {}
  /\ \A e \in Requests : e.owner = Host => e.kind = "ApplyDatabaseMigrations"
  /\ \A u \in Updates : u.value # None
  /\ \A s \in Plain : \A n \in {s, Default} :
       /\ \A t \in Tenants : InitialStrings[t][n] # HostDb[s]
       /\ \A u \in Updates : u.name = n => u.value # HostDb[s]

Proper(e) == e.owner = Host => e.kind = "ApplyDatabaseMigrations"

AllProper ==
  /\ \A s \in Services : \A e \in BagToSet(inbox[s]) : Proper(e)
  /\ \A w \in Workers : Busy(w) => Proper(worker[w].event)

\* No tenant is in the host's database.
Apart ==
  \A s \in Plain : \A t \in Tenants : \A n \in {s, Default} : strings[t][n] # HostDb[s]

\* A context is opened for owners with a database only.
HasItsOwn(w) ==
  worker[w].step = "pending" => HasDatabase(ServiceOf[w], worker[w].event.owner)

\* The host's database is migrated for the host, and not for a tenant.
HostsOwn(w) ==
  /\ worker[w].step = "migrate"
  /\ ServiceOf[w] \in Plain
  /\ worker[w].database = HostDb[ServiceOf[w]]
  => worker[w].event.owner = Host

\* A consumer that migrated the host is on its way to queue the tenant.
Queues(w, t) ==
  /\ worker[w].step \in {"seed", "list", "queue"}
  /\ worker[w].event.owner = Host
  /\ worker[w].result
  /\ worker[w].step = "queue" => t \in worker[w].left

\* A tenant is migrated or given up, or somebody is on the way to it.
Pursued(s, t) ==
  \/ UpToDate(s, t)
  \/ Attended(s, t)
  \/ \E w \in Workers : ServiceOf[w] = s /\ Queues(w, t)

AllPursued ==
  \A s \in Plain : <<s, HostDb[s]>> \in migrated => \A t \in Tenants : Pursued(s, t)

QInv ==
  /\ Calm
  /\ AllProper
  /\ Apart
  /\ \A w \in Workers : HasItsOwn(w) /\ HostsOwn(w)
  /\ crashes = 0 => AllPursued

LEMMA PlainService ==
  ASSUME NEW s \in Plain
  PROVE  /\ s \in Services /\ s \notin HostOnly /\ s \notin Startups
         /\ s \in Seeders => "seed" \notin Faults
BY DEF Plain

LEMMA CalmStays == Calm => Calm'
BY DEF Calm, Plain

-----------------------------------------------------------------------------
(* The events about the host *)

\* A consumer that goes on with its event or is free, while no event is
\* published but proper ones.
LEMMA ProperStays ==
  ASSUME AllProper,
         \A s \in Services : \A e \in BagToSet(inbox'[s]) :
           e \in BagToSet(inbox[s]) \/ Proper(e),
         \A w \in Workers : Busy(w)' =>
           \/ Proper(worker'[w].event)
           \/ Busy(w) /\ worker'[w].event = worker[w].event
  PROVE  AllProper'
BY DEF AllProper, Proper

\* What a consumer publishes and delivers again is proper.
LEMMA WorkerProper ==
  ASSUME IInv, QInv, NEW w \in Workers, HandleEventAsync(w) \/ Crash(w)
  PROVE  AllProper'
<1>1. InboxOK(inbox) /\ AllProper
  BY TypeParts DEF IInv, QInv
<1>2. ASSUME NEW e \in BagToSet(inbox[ServiceOf[w]]), Receive(w, e)
      PROVE  AllProper'
  <2>1. /\ \A v \in Workers \ {w} : worker'[v] = worker[v]
        /\ worker'[w].event = e
    BY <1>2 DEF Receive, IInv, TypeOK
  <2>2. Proper(e)
    BY <1>1, BusyWorker DEF AllProper, IInv
  <2>3. ServiceOf[w] \in Services
    BY BusyWorker DEF IInv
  <2>4. \A s \in Services : BagToSet(inbox'[s]) \subseteq BagToSet(inbox[s])
    BY <1>1, <1>2, <2>3, TakingRemoves DEF Receive
  <2>5. QED
    BY <1>1, <2>1, <2>2, <2>4, ProperStays DEF Busy
<1>3. CASE Crash(w)
  <2>1. /\ \A v \in Workers \ {w} : worker'[v] = worker[v]
        /\ worker'[w] = Waiting
    BY <1>3 DEF Crash, IInv, TypeOK
  <2>2. PICK e : e = worker[w].event /\ Proper(e)
    BY <1>1, <1>3 DEF AllProper, Crash, Busy
  <2>3. \A s \in Services :
          inbox'[s] = IF s = ServiceOf[w] THEN BagAdd(inbox[s], e) ELSE inbox[s]
    BY <1>1, <1>3, <2>2 DEF Crash, InboxOK
  <2>4. \A s \in Services : BagToSet(inbox'[s]) \subseteq BagToSet(inbox[s]) \cup {e}
    BY <1>1, <2>3, BagAddAdds DEF InboxOK
  <2>5. QED
    BY <1>1, <2>1, <2>2, <2>4, ProperStays DEF Busy
<1>4. CASE HandleEventAsync(w) /\ ~\E e \in BagToSet(inbox[ServiceOf[w]]) : Receive(w, e)
  <2>1. Busy(w) /\ worker[w] \in Handlers /\ ServiceOf[w] \in Services
    BY <1>4, BusyWorker DEF HandleEventAsync, FindTenant, FindPending, MigrateAsync, SeedAsync,
       ListTenants, QueueTenant, AllQueued, HandleError, Acknowledge, IInv
  <2>2. /\ \A v \in Workers \ {w} : worker'[v] = worker[v]
        /\ worker'[w] = Waiting \/ worker'[w].event = worker[w].event
    BY <1>4, <2>1 DEF HandleEventAsync, FindTenant, FindPending, MigrateAsync, SeedAsync,
       ListTenants, QueueTenant, AllQueued, HandleError, Acknowledge, Goto, Fails,
       IInv, TypeOK, Handlers
  <2>3. \/ UNCHANGED inbox
        \/ \E e \in Events : Proper(e) /\ inbox' = Delivered(inbox, e)
    <3>1. CASE \E t \in Tenants : QueueTenant(w, t)
      <4>1. \A t \in Tenants : /\ ApplyToTenant(ServiceOf[w], t) \in Events
                               /\ Proper(ApplyToTenant(ServiceOf[w], t))
        BY <2>1, EventsMade, OwnersAssumption DEF ApplyToTenant, Proper
      <4>2. QED
        BY <3>1, <4>1 DEF QueueTenant
    <3>2. CASE HandleError(w)
      <4>1. PICK e \in Events : e = worker[w].event /\ Proper(e)
        BY <1>1, <2>1, EventType DEF AllProper
      <4>2. CASE e.tries + 1 <= MaxEventTryCount
        <5>1. PICK a \in Events : a = Again(e)
          BY <4>2, EventsMade
        <5>2. a.kind = e.kind /\ a.owner = e.owner
          BY <5>1 DEF Again, Events
        <5>3. QED
          BY <3>2, <4>1, <5>1, <5>2 DEF HandleError, Proper
      <4>3. QED
        BY <3>2, <4>1, <4>2 DEF HandleError
    <3>3. QED
      BY <1>4, <3>1, <3>2 DEF HandleEventAsync, FindTenant, FindPending, MigrateAsync, SeedAsync,
         ListTenants, AllQueued, Acknowledge
  <2>4. \A s \in Services : \A e \in BagToSet(inbox'[s]) :
          e \in BagToSet(inbox[s]) \/ Proper(e)
    BY <1>1, <2>3, DeliveredAdds
  <2>5. QED
    BY <1>1, <2>1, <2>2, <2>4, ProperStays DEF Busy
<1>5. QED
  BY <1>2, <1>3, <1>4

\* What the other programs publish is proper.
LEMMA SurroundingsProper ==
  ASSUME IInv, QInv,
         \/ \E e \in Requests : Request(e)
         \/ \E u \in Updates : UpdateConnectionString(u)
         \/ \E s \in Startups : CheckAndApplyDatabaseMigrations(s)
  PROVE  AllProper'
<1>1. InboxOK(inbox) /\ AllProper
  BY TypeParts DEF IInv, QInv
<1>2. UNCHANGED worker
  BY DEF Request, UpdateConnectionString, CheckAndApplyDatabaseMigrations
<1>3. \/ UNCHANGED inbox
      \/ \E e \in Events : Proper(e) /\ inbox' = Delivered(inbox, e)
  <2>1. \A e \in Requests : e \in Events /\ Proper(e)
    BY EventsMade DEF QInv, Calm, Proper
  <2>2. ASSUME NEW u \in Updates
        PROVE  StringUpdated(u) \in Events /\ Proper(StringUpdated(u))
    <3>1. u.tenant # Host
      BY Assumptions
    <3>2. QED
      BY <3>1, EventsMade DEF StringUpdated, Proper
  <2>3. QED
    BY <2>1, <2>2 DEF Request, UpdateConnectionString, CheckAndApplyDatabaseMigrations
<1>4. \A s \in Services : \A e \in BagToSet(inbox'[s]) :
        e \in BagToSet(inbox[s]) \/ Proper(e)
  <2>1. CASE UNCHANGED inbox
    BY <2>1
  <2>2. ASSUME NEW e \in Events, Proper(e), inbox' = Delivered(inbox, e)
        PROVE  \A s \in Services : BagToSet(inbox'[s]) \subseteq BagToSet(inbox[s]) \cup {e}
    BY <1>1, <2>2, DeliveredAdds
  <2>3. QED
    BY <1>3, <2>1, <2>2
<1>5. QED
  BY <1>1, <1>2, <1>4, ProperStays DEF Busy

-----------------------------------------------------------------------------
(* The host's database *)

LEMMA ApartStays ==
  ASSUME IInv, QInv, [Next]_vars
  PROVE  Apart'
<1>1. CASE UNCHANGED strings
  BY <1>1 DEF QInv, Apart, Plain
<1>2. ASSUME NEW u \in Updates, UpdateConnectionString(u)
      PROVE  Apart'
  <2> SUFFICES ASSUME NEW s \in Plain, NEW t \in Tenants, NEW n \in {s, Default}
               PROVE  strings'[t][n] # HostDb[s]
    BY DEF Apart, Plain
  <2>1. strings[t][n] # HostDb[s] /\ (u.name = n => u.value # HostDb[s])
    BY DEF QInv, Apart, Calm
  <2>2. n \in Names /\ u.tenant \in Tenants /\ u.name \in Names
    BY PlainService, Assumptions DEF Names
  <2>3. /\ strings \in [Tenants -> [Names -> Databases \cup {None}]]
        /\ strings' = [strings EXCEPT ![u.tenant][u.name] = u.value]
    BY <1>2 DEF UpdateConnectionString, IInv, TypeOK
  <2>4. QED
    BY <2>1, <2>2, <2>3
<1>3. QED
  BY <1>1, <1>2
  DEF Next, HandleEventAsync, Receive, FindTenant, FindPending, MigrateAsync, SeedAsync,
      ListTenants, QueueTenant, AllQueued, HandleError, Acknowledge, Crash, Request,
      CheckAndApplyDatabaseMigrations, vars

\* A tenant with a database of its own is not in the host's.
LEMMA TenantApart ==
  ASSUME QInv, NEW s \in Plain, NEW t \in Tenants, HasDatabase(s, t)
  PROVE  DatabaseOf(s, t) # HostDb[s]
<1>1. /\ strings[t][s] # HostDb[s] /\ strings[t][Default] # HostDb[s]
      /\ t # Host
  BY OwnersAssumption DEF QInv, Apart
<1>2. QED
  BY <1>1 DEF HasDatabase, DatabaseOf

\* While no connection string is removed, an owner keeps having a database.
LEMMA DatabaseKept ==
  ASSUME IInv, QInv, [Next]_vars, NEW s \in Services, NEW o \in Owners, HasDatabase(s, o)
  PROVE  HasDatabase(s, o)'
<1>1. CASE UNCHANGED strings
  BY <1>1 DEF HasDatabase
<1>2. ASSUME NEW u \in Updates, UpdateConnectionString(u)
      PROVE  HasDatabase(s, o)'
  <2>1. u.value # None
    BY DEF QInv, Calm
  <2>2. /\ strings \in [Tenants -> [Names -> Databases \cup {None}]]
        /\ strings' = [strings EXCEPT ![u.tenant][u.name] = u.value]
        /\ u.tenant \in Tenants /\ u.name \in Names
        /\ s \in Names /\ Default \in Names
    BY <1>2, Assumptions DEF UpdateConnectionString, IInv, TypeOK, Names
  <2>3. ASSUME o \in Tenants, NEW n \in Names, strings[o][n] # None
        PROVE  strings'[o][n] # None
    BY <2>1, <2>2, <2>3
  <2>4. QED
    BY <2>2, <2>3 DEF HasDatabase, Owners
<1>3. QED
  BY <1>1, <1>2
  DEF Next, HandleEventAsync, Receive, FindTenant, FindPending, MigrateAsync, SeedAsync,
      ListTenants, QueueTenant, AllQueued, HandleError, Acknowledge, Crash, Request,
      CheckAndApplyDatabaseMigrations, vars

\* A step of another consumer or of the surroundings leaves a consumer alone.
LEMMA OneMoves ==
  ASSUME IInv, [Next]_vars, NEW v \in Workers
  PROVE  \/ worker'[v] = worker[v]
         \/ HandleEventAsync(v) \/ Crash(v)
<1>1. ASSUME NEW w \in Workers, HandleEventAsync(w) \/ Crash(w), v # w
      PROVE  worker'[v] = worker[v]
  BY <1>1 DEF HandleEventAsync, Receive, FindTenant, FindPending, MigrateAsync, SeedAsync,
     ListTenants, QueueTenant, AllQueued, HandleError, Acknowledge, Crash,
     Goto, Fails, IInv, TypeOK
<1>2. QED
  BY <1>1 DEF Next, Request, UpdateConnectionString,
     CheckAndApplyDatabaseMigrations, vars

LEMMA HasItsOwnStays ==
  ASSUME IInv, QInv, [Next]_vars, NEW v \in Workers
  PROVE  HasItsOwn(v)'
<1>1. CASE worker'[v] = worker[v]
  <2>1. CASE worker[v].step = "pending"
    <3>1. Busy(v)
      BY <2>1, BusyWorker DEF IInv
    <3>2. ServiceOf[v] \in Services /\ worker[v].event.owner \in Owners
      BY <3>1, EventType
    <3>3. HasDatabase(ServiceOf[v], worker[v].event.owner)
      BY <2>1 DEF QInv, HasItsOwn
    <3>4. QED
      BY <1>1, <3>2, <3>3, DatabaseKept DEF HasItsOwn, HasDatabase
  <2>2. QED
    BY <1>1, <2>1 DEF HasItsOwn
<1>2. CASE worker'[v].step # "pending"
  BY <1>2 DEF HasItsOwn
<1>3. CASE \E e : Receive(v, e)
  <2>1. PICK e : Receive(v, e)
    BY <1>3
  <2>2. /\ worker'[v].event = e
        /\ worker'[v].step = IF e.owner = Host THEN "pending" ELSE "find"
    BY <2>1 DEF Receive, IInv, TypeOK
  <2>3. QED
    BY <2>2 DEF HasItsOwn, HasDatabase
<1>4. CASE FindTenant(v) /\ worker'[v].step = "pending"
  <2>1. Busy(v)
    BY <1>4, BusyWorker DEF FindTenant, IInv
  <2>2. worker[v] \in Handlers
    BY <2>1, EventType
  <2>3. /\ worker'[v].event = worker[v].event
        /\ HasDatabase(ServiceOf[v], worker[v].event.owner)
        /\ UNCHANGED strings
    BY <1>4, <2>2 DEF FindTenant, Fails, Goto, IInv, TypeOK, Handlers
  <2>4. QED
    BY <2>3 DEF HasItsOwn, HasDatabase
<1>5. CASE (HandleEventAsync(v) \/ Crash(v)) /\ ~FindTenant(v) /\ ~\E e : Receive(v, e)
  <2>1. worker'[v].step # "pending"
    <3>1. worker[v] \in Handlers \cup {Waiting}
      BY DEF IInv, TypeOK
    <3>2. QED
      BY <1>5, <3>1 DEF HandleEventAsync, FindPending, MigrateAsync, SeedAsync,
         AfterSeeding, ListTenants, QueueTenant, AllQueued, HandleError, Acknowledge,
         Crash, Goto, Fails, IInv, TypeOK, Waiting, Handlers
  <2>2. QED
    BY <1>2, <2>1
<1>6. QED
  BY <1>1, <1>2, <1>3, <1>4, <1>5, OneMoves

LEMMA HostsOwnStays ==
  ASSUME IInv, QInv, [Next]_vars, NEW v \in Workers
  PROVE  HostsOwn(v)'
<1>1. CASE worker'[v] = worker[v]
  BY <1>1 DEF QInv, HostsOwn, Plain
<1>2. CASE worker'[v].step # "migrate"
  BY <1>2 DEF HostsOwn
<1>3. CASE FindPending(v) /\ worker'[v].step = "migrate"
  <2>1. Busy(v)
    BY <1>3, BusyWorker DEF FindPending, IInv
  <2>2. /\ worker[v] \in Handlers /\ ServiceOf[v] \in Services
        /\ worker[v].event.owner \in Owners
    BY <2>1, EventType
  <2>3. PICK d : d = DatabaseOf(ServiceOf[v], worker[v].event.owner)
    OBVIOUS
  <2>4. /\ worker'[v].event = worker[v].event
        /\ worker'[v].database = d
    BY <1>3, <2>2, <2>3 DEF FindPending, Fails, Goto, IInv, TypeOK, Handlers
  <2>5. HasDatabase(ServiceOf[v], worker[v].event.owner)
    BY <1>3 DEF FindPending, QInv, HasItsOwn
  <2>6. QED
    BY <2>2, <2>3, <2>4, <2>5, TenantApart DEF HostsOwn, Owners, Plain
<1>4. QED
  <2>1. CASE (HandleEventAsync(v) \/ Crash(v)) /\ ~FindPending(v)
    <3>1. worker'[v].step # "migrate"
      <4>1. worker[v] \in Handlers \cup {Waiting} /\ worker' = [worker EXCEPT ![v] = worker'[v]]
        BY <2>1 DEF HandleEventAsync, Receive, FindTenant, MigrateAsync, SeedAsync,
           ListTenants, QueueTenant, AllQueued, HandleError, Acknowledge, Crash,
           Goto, Fails, IInv, TypeOK
      <4>2. QED
        BY <2>1, <4>1 DEF HandleEventAsync, Receive, FindTenant, MigrateAsync, SeedAsync, AfterSeeding,
           ListTenants, QueueTenant, AllQueued, HandleError, Acknowledge, Crash,
           Goto, Fails, IInv, TypeOK, Waiting, Handlers
    <3>2. QED
      BY <1>2, <3>1
  <2>2. QED
    BY <1>1, <1>2, <1>3, <2>1, OneMoves

-----------------------------------------------------------------------------
(* The tenants *)

\* A step brings the host's schema up to date: its consumer will queue everybody.
LEMMA HostMigrated ==
  ASSUME IInv, QInv, [Next]_vars, NEW s \in Plain, NEW t \in Tenants,
         <<s, HostDb[s]>> \notin migrated, <<s, HostDb[s]>> \in migrated'
  PROVE  Pursued(s, t)'
<1>1. PICK w \in Workers : MigrateAsync(w) /\ migrated' # migrated
  <2>1. \A r \in Startups : ~CheckAndApplyDatabaseMigrations(r)
    BY PlainService DEF CheckAndApplyDatabaseMigrations
  <2>2. QED
    BY <2>1 DEF Next, HandleEventAsync, Receive, FindTenant, FindPending, SeedAsync,
       ListTenants, QueueTenant, AllQueued, HandleError, Acknowledge, Crash, Request,
       UpdateConnectionString, vars
<1>2. Busy(w) /\ worker[w].step = "migrate" /\ worker[w] \in Handlers
  BY <1>1, BusyWorker, EventType DEF MigrateAsync, IInv
<1>3. /\ migrated' = migrated \cup {<<ServiceOf[w], worker[w].database>>}
      /\ worker' = [worker EXCEPT ![w].step = "seed", ![w].result = TRUE]
  BY <1>1 DEF MigrateAsync
<1>4. ServiceOf[w] = s /\ worker[w].database = HostDb[s]
  BY <1>3
<1>5. worker[w].event.owner = Host
  BY <1>2, <1>4 DEF QInv, HostsOwn
<1>6. /\ worker'[w].event = worker[w].event
      /\ worker'[w].step = "seed" /\ worker'[w].result = TRUE
  BY <1>2, <1>3 DEF Handlers, IInv, TypeOK
<1>7. Queues(w, t)'
  BY <1>5, <1>6 DEF Queues
<1>8. QED
  BY <1>4, <1>7 DEF Pursued

\* A tenant that is up to date stays so, until it moves, which is an event.
LEMMA UpToDatePursued ==
  ASSUME IInv, QInv, [Next]_vars, NEW s \in Plain, NEW t \in Tenants, UpToDate(s, t)
  PROVE  Pursued(s, t)'
<1>1. CASE UNCHANGED strings
  <2>1. migrated \subseteq migrated'
    BY DEF Next, HandleEventAsync, Receive, FindTenant, FindPending, MigrateAsync, SeedAsync,
       ListTenants, QueueTenant, AllQueued, HandleError, Acknowledge, Crash, Request,
       UpdateConnectionString, CheckAndApplyDatabaseMigrations, vars
  <2>2. QED
    BY <1>1, <2>1 DEF UpToDate, HasDatabase, DatabaseOf, Pursued
<1>2. ASSUME NEW u \in Updates, UpdateConnectionString(u)
      PROVE  Pursued(s, t)'
  <2>1. CASE u.tenant = t /\ u.name \in {s, Default}
    <3>1. Attended(s, t)'
      BY <1>2, <2>1, PlainService, UpdateAttends DEF QInv, Calm, Owners, KeepsStrings
    <3>2. QED
      BY <3>1 DEF Pursued
  <2>2. CASE ~(u.tenant = t /\ u.name \in {s, Default})
    <3>1. /\ strings \in [Tenants -> [Names -> Databases \cup {None}]]
          /\ strings' = [strings EXCEPT ![u.tenant][u.name] = u.value]
          /\ s \in Names /\ Default \in Names
          /\ UNCHANGED migrated
      BY <1>2, PlainService DEF UpdateConnectionString, IInv, TypeOK, Names
    <3>2. strings'[t][s] = strings[t][s] /\ strings'[t][Default] = strings[t][Default]
      BY <2>2, <3>1
    <3>3. QED
      BY <3>1, <3>2 DEF UpToDate, HasDatabase, DatabaseOf, Pursued
  <2>3. QED
    BY <2>1, <2>2
<1>3. QED
  BY <1>1, <1>2
  DEF Next, HandleEventAsync, Receive, FindTenant, FindPending, MigrateAsync, SeedAsync,
      ListTenants, QueueTenant, AllQueued, HandleError, Acknowledge, Crash, Request,
      CheckAndApplyDatabaseMigrations, vars

\* The record of a handler after Goto.
LEMMA AfterGoto ==
  ASSUME IInv, NEW w \in Workers, Busy(w), NEW step, Goto(w, step)
  PROVE  /\ worker'[w].step = step
         /\ worker'[w].event = worker[w].event
         /\ worker'[w].result = worker[w].result
<1>1. worker[w] \in Handlers
  BY BusyWorker DEF IInv
<1>2. worker'[w] = [worker[w] EXCEPT !.step = step]
  BY DEF Goto, IInv, TypeOK
<1>3. QED
  BY <1>1, <1>2 DEF Handlers

\* A consumer that seeded the host goes on to list the tenants.
LEMMA SeedQueues ==
  ASSUME IInv, QInv, NEW w \in Workers, SeedAsync(w), ServiceOf[w] \in Plain,
         NEW t \in Tenants, Queues(w, t)
  PROVE  Queues(w, t)'
<1>1. Busy(w)
  BY BusyWorker DEF SeedAsync, IInv
<1>2. worker[w].event.kind = "ApplyDatabaseMigrations"
  BY <1>1 DEF QInv, AllProper, Proper, Queues
<1>3. AfterSeeding(w) = "list"
  BY <1>2, PlainService DEF AfterSeeding, Queues
<1>4. Goto(w, "list")
  BY <1>3, PlainService DEF SeedAsync, Fails
<1>5. QED
  BY <1>1, <1>4, AfterGoto DEF Queues

\* The list has every tenant with a database of its own.
LEMMA ListQueues ==
  ASSUME IInv, QInv, NEW w \in Workers, ListTenants(w), ServiceOf[w] \in Plain,
         NEW t \in Tenants, Queues(w, t)
  PROVE  Queues(w, t)' \/ UpToDate(ServiceOf[w], t)
<1>1. Busy(w) /\ worker[w].step = "list" /\ worker[w] \in Handlers
  BY BusyWorker, EventType DEF ListTenants, IInv
<1>2. worker' = [worker EXCEPT ![w].step = "queue", ![w].left = WithSeparateString]
  BY DEF ListTenants, Fails, QInv, Calm
<1>3. worker'[w] = [worker[w] EXCEPT !.step = "queue", !.left = WithSeparateString]
  BY <1>2 DEF IInv, TypeOK
<1>4. /\ worker'[w].event = worker[w].event /\ worker'[w].result = worker[w].result
      /\ worker'[w].step = "queue" /\ worker'[w].left = WithSeparateString
  BY <1>1, <1>3 DEF Handlers
<1>5. CASE t \in WithSeparateString
  BY <1>4, <1>5 DEF Queues
<1>6. CASE t \notin WithSeparateString
  BY <1>6, OwnersAssumption, PlainService
  DEF WithSeparateString, UpToDate, HasDatabase, Names
<1>7. QED
  BY <1>5, <1>6

\* Queueing a tenant takes it off the list and publishes its event.
LEMMA QueueQueues ==
  ASSUME IInv, QInv, NEW w \in Workers, NEW u \in Tenants, QueueTenant(w, u),
         ServiceOf[w] \in Plain, NEW t \in Tenants, Queues(w, t)
  PROVE  Queues(w, t)' \/ Attended(ServiceOf[w], t)'
<1>1. Busy(w) /\ worker[w].step = "queue" /\ worker[w] \in Handlers
  BY BusyWorker, EventType DEF QueueTenant, IInv
<1>2. PICK e : e = ApplyToTenant(ServiceOf[w], u)
  OBVIOUS
<1>3. /\ inbox' = Delivered(inbox, e)
      /\ worker' = [worker EXCEPT ![w].left = @ \ {u}]
  BY <1>2 DEF QueueTenant, Fails, QInv, Calm
<1>4. worker'[w] = [worker[w] EXCEPT !.left = @ \ {u}]
  BY <1>3 DEF IInv, TypeOK
<1>5. /\ worker'[w].event = worker[w].event /\ worker'[w].result = worker[w].result
      /\ worker'[w].step = "queue" /\ worker'[w].left = worker[w].left \ {u}
  BY <1>1, <1>4 DEF Handlers
<1>6. CASE t = u
  <2>1. e.owner = t /\ Handles(ServiceOf[w], e)
    BY <1>2, <1>6, PlainService DEF Handles, ApplyToTenant
  <2>2. e \in BagToSet(inbox'[ServiceOf[w]])
    BY <1>3, <2>1, DeliveredKeeps, PlainService, TypeParts DEF IInv
  <2>3. QED
    BY <2>1, <2>2 DEF Attended
<1>7. CASE t # u
  BY <1>1, <1>5, <1>7 DEF Queues
<1>8. QED
  BY <1>6, <1>7

\* A consumer on its way to queue a tenant does so, unless its process stops.
LEMMA QueuesPursued ==
  ASSUME IInv, QInv, [Next]_vars, (crashes = 0)',
         NEW s \in Plain, NEW t \in Tenants,
         NEW v \in Workers, ServiceOf[v] = s, Queues(v, t)
  PROVE  Pursued(s, t)'
<1>1. CASE worker'[v] = worker[v]
  <2>1. Queues(v, t)'
    BY <1>1 DEF Queues
  <2>2. QED
    BY <2>1 DEF Pursued
<1>2. CASE HandleEventAsync(v)
  <2>1. ~FindTenant(v) /\ ~FindPending(v) /\ ~MigrateAsync(v) /\ ~HandleError(v) /\ ~Acknowledge(v)
    BY DEF Queues, FindTenant, FindPending, MigrateAsync, HandleError, Acknowledge
  <2>2. ~AllQueued(v) /\ \A e : ~Receive(v, e)
    BY DEF Queues, AllQueued, Receive, Waiting
  <2>3. CASE SeedAsync(v)
    BY <2>3, SeedQueues DEF Pursued
  <2>4. CASE ListTenants(v)
    BY <2>4, ListQueues, UpToDatePursued DEF Pursued
  <2>5. CASE \E u \in Tenants : QueueTenant(v, u)
    BY <2>5, QueueQueues DEF Pursued
  <2>6. QED
    BY <1>2, <2>1, <2>2, <2>3, <2>4, <2>5 DEF HandleEventAsync
<1>3. CASE Crash(v)
  BY <1>3 DEF Crash, IInv, TypeOK
<1>4. QED
  BY <1>1, <1>2, <1>3, OneMoves

LEMMA PursuedStays ==
  ASSUME IInv, QInv, [Next]_vars, (crashes = 0)'
  PROVE  AllPursued'
<1> SUFFICES ASSUME NEW s \in Plain, <<s, HostDb[s]>> \in migrated', NEW t \in Tenants
             PROVE  Pursued(s, t)'
  BY DEF AllPursued, Plain
<1>1. crashes = 0
  <2>1. \A w \in Workers : ~Crash(w)
    BY DEF Crash, IInv, TypeOK
  <2>2. QED
    BY <2>1 DEF Next, HandleEventAsync, Receive, FindTenant, FindPending, MigrateAsync, SeedAsync,
       ListTenants, QueueTenant, AllQueued, HandleError, Acknowledge, Request,
       UpdateConnectionString, CheckAndApplyDatabaseMigrations, vars
<1>2. CASE <<s, HostDb[s]>> \notin migrated
  BY <1>2, HostMigrated
<1>3. CASE <<s, HostDb[s]>> \in migrated
  <2>1. Pursued(s, t)
    BY <1>1, <1>3 DEF QInv, AllPursued
  <2>2. CASE UpToDate(s, t)
    BY <2>2, UpToDatePursued
  <2>3. CASE Attended(s, t)
    <3>1. Attended(s, t)'
      BY <2>3, AttendedStays, PlainService
      DEF QInv, Calm, InCharge, Owners, KeepsStrings
    <3>2. QED
      BY <3>1 DEF Pursued
  <2>4. CASE \E w \in Workers : ServiceOf[w] = s /\ Queues(w, t)
    BY <2>4, QueuesPursued
  <2>5. QED
    BY <2>1, <2>2, <2>3, <2>4 DEF Pursued
<1>4. QED
  BY <1>2, <1>3

-----------------------------------------------------------------------------
(* The theorem *)

LEMMA InitFollows == Calm /\ Init => QInv
<1> SUFFICES ASSUME Calm, Init PROVE QInv
  OBVIOUS
<1>1. AllProper
  BY EmptyBagIsEmpty DEF Init, AllProper, Busy
<1>2. Apart
  BY DEF Init, Calm, Apart
<1>3. \A w \in Workers : HasItsOwn(w) /\ HostsOwn(w)
  BY DEF Init, HasItsOwn, HostsOwn, Waiting
<1>4. AllPursued
  BY DEF Init, AllPursued
<1>5. QED
  BY <1>1, <1>2, <1>3, <1>4 DEF QInv

LEMMA NextFollows == IInv /\ QInv /\ [Next]_vars => QInv'
<1> SUFFICES ASSUME IInv, QInv, [Next]_vars PROVE QInv'
  OBVIOUS
<1>1. AllProper'
  <2>1. CASE UNCHANGED vars
    BY <2>1, ProperStays DEF QInv, vars, Busy
  <2>2. QED
    BY <2>1, WorkerProper, SurroundingsProper DEF Next
<1>2. Calm' /\ Apart' /\ \A w \in Workers : HasItsOwn(w)' /\ HostsOwn(w)'
  BY CalmStays, ApartStays, HasItsOwnStays, HostsOwnStays DEF QInv
<1>3. (crashes = 0)' => AllPursued'
  BY PursuedStays
<1>4. QED
  BY <1>1, <1>2, <1>3 DEF QInv

\* When nothing is under way, nobody is on the way to a tenant any more.
LEMMA QuietFollows == IInv /\ QInv => TenantsFollowHost
<1> SUFFICES ASSUME QInv, crashes = 0, AllQuiet,
                    NEW s \in Plain, <<s, HostDb[s]>> \in migrated, NEW t \in Tenants
             PROVE  UpToDate(s, t) \/ <<s, t>> \in givenUp
  BY DEF TenantsFollowHost, TenantsFollow, Plain
<1>1. Pursued(s, t)
  BY DEF QInv, AllPursued
<1>2. \A w \in Workers : ~Queues(w, t) /\ ~Attends(w, t)
  BY DEF AllQuiet, Busy, Queues, Attends, Waiting
<1>3. BagToSet(inbox[s]) = {}
  BY PlainService DEF AllQuiet
<1>4. QED
  BY <1>1, <1>2, <1>3 DEF Pursued, Attended

\* In a calm system, a service whose seeding does not throw and that migrated the
\* host's schema by an event leaves no tenant behind: once nothing is under way,
\* each has its own database migrated, where it is by then, or an error logged.
THEOREM TenantsAreMigrated == Calm /\ Spec => []TenantsFollowHost
<1>1. Spec => []IInv
  BY Invariance
<1>2. Calm /\ Spec => []QInv
  BY <1>1, InitFollows, NextFollows, PTL DEF Spec
<1>3. QED
  BY <1>1, <1>2, QuietFollows, PTL

=============================================================================
