------------------------- MODULE StartupMigrations -------------------------
(***************************************************************************)
(* How the databases are migrated when the system is deployed: every       *)
(* instance of a service checks its host database as it starts             *)
(* (PendingEfCoreMigrationsChecker), and a tool, run beside them, migrates *)
(* and seeds all databases of the host and of the tenants                  *)
(* (ModuleTestDbMigrationService).                                         *)
(*                                                                         *)
(* The instances of a service exclude one another with a distributed lock  *)
(* that they only try to acquire; the tool takes no lock.  An instance     *)
(* whose check fails three times, or that crashes, stops, and the          *)
(* deployment starts it again.  The lock of a process that crashed is free *)
(* only after it has expired.                                              *)
(***************************************************************************)
EXTENDS Naturals, Sequences, SequencesExt

CONSTANTS
  Services,       \* the services
  Seeders,        \* those whose startup check seeds the host's data too
  HostServices,   \* the services in the order in which the tool migrates
  TenantServices, \* those of them that have a schema in tenant databases
  Instances,      \* processes of services
  ServiceOf,      \* the service of an instance
  Tenants,        \* the tenants, in the order in which the tool lists them
  Databases,      \* databases, each named by its connection string
  HostDb,         \* the host's database of a service
  DefaultString,  \* the tenants' default connection strings
  OwnString,      \* the tenants' connection strings for one service
  None,           \* C#'s null
  RetryCount,     \* how often TryAsync tries
  MaxFailures,    \* bound on the exceptions
  MaxCrashes,     \* bound on the crashes
  MaxRuns         \* bound on the runs of the tool

ASSUME ServiceAssumption ==
  /\ Seeders \subseteq Services
  /\ HostServices \in Seq(Services)
  /\ TenantServices \in Seq(Services)
  /\ ServiceOf \in [Instances -> Services]
ASSUME DatabaseAssumption ==
  /\ Tenants \in Seq(ToSet(Tenants))
  /\ HostDb \in [Services -> Databases]
  /\ None \notin Databases \cup Instances
  /\ DefaultString \in [ToSet(Tenants) -> Databases \cup {None}]
  /\ OwnString \in [ToSet(Tenants) -> [Services -> Databases \cup {None}]]
ASSUME LimitAssumption ==
  /\ RetryCount \in Nat \ {0}
  /\ {MaxFailures, MaxCrashes, MaxRuns} \subseteq Nat

VARIABLES
  migrated,  \* the <<service, database>> with no pending schema migration
  inst,      \* for each instance, where it is in its startup
  lock,      \* for each service, the holder of the lock "Migration_..."
  tool,      \* the run of the tool
  failures,  \* how many calls threw
  crashes,   \* how many processes crashed
  runs       \* how often the tool was started

vars == <<migrated, inst, lock, tool, failures, crashes, runs>>

-----------------------------------------------------------------------------
(* The startup check of an instance *)

\* retries is the retryCount of the TryAsync that the instance is in.
Startups ==
  [step: {"lock", "check", "migrate", "seed", "serving", "stopped"},
   retries: 1 .. RetryCount]

At(i, step) == inst[i].step = step

Starting == [step |-> "lock", retries |-> RetryCount]

\* The check returns: the instance goes on to seed, with tries of its own, or
\* to serve requests.
Checked(i) ==
  inst' = [inst EXCEPT ![i] =
    [step |-> IF ServiceOf[i] \in Seeders THEN "seed" ELSE "serving",
     retries |-> RetryCount]]

TryAgainThenServe(i, first) ==
  /\ failures < MaxFailures
  /\ failures' = failures + 1
  /\ inst' = IF inst[i].retries - 1 > 0
             THEN [inst EXCEPT ![i] = [step |-> first, retries |-> @.retries - 1]]
             ELSE [inst EXCEPT ![i].step = "serving"]

\* TryAsync: an exception is caught and the task tried again from its first
\* step, or thrown on when retryCount has reached 0, and the process ends.
TryAgain(i, first) ==
  /\ failures < MaxFailures
  /\ failures' = failures + 1
  /\ inst' = IF inst[i].retries - 1 > 0
             THEN [inst EXCEPT ![i] = [step |-> first, retries |-> @.retries - 1]]
             ELSE [inst EXCEPT ![i].step = "stopped"]

\* Leaving the block disposes the handle, by return or by exception.
Release(i) == lock' = [lock EXCEPT ![ServiceOf[i]] = None]

TryAcquireRegardless(i) ==
  /\ At(i, "lock")
  /\ lock' = [lock EXCEPT ![ServiceOf[i]] = IF @ = None THEN i ELSE @]
  /\ inst' = [inst EXCEPT ![i].step = "check"]
  /\ UNCHANGED <<migrated, tool, failures, crashes, runs>>

\* TryAcquireAsync does not wait: without the handle there is nothing to do.
TryAcquire(i) ==
  /\ At(i, "lock")
  /\ \/ /\ lock[ServiceOf[i]] = None
        /\ lock' = [lock EXCEPT ![ServiceOf[i]] = i]
        /\ inst' = [inst EXCEPT ![i].step = "check"]
        /\ UNCHANGED failures
     \/ /\ lock[ServiceOf[i]] # None
        /\ Checked(i)
        /\ UNCHANGED <<lock, failures>>
     \/ /\ TryAgain(i, "lock")
        /\ UNCHANGED lock
  /\ UNCHANGED <<migrated, tool, crashes, runs>>

GetPendingMigrations(i) ==
  LET s == ServiceOf[i] IN
  /\ At(i, "check")
  /\ \/ /\ <<s, HostDb[s]>> \notin migrated
        /\ inst' = [inst EXCEPT ![i].step = "migrate"]
        /\ UNCHANGED <<lock, failures>>
     \/ /\ <<s, HostDb[s]>> \in migrated
        /\ Checked(i)
        /\ Release(i)
        /\ UNCHANGED failures
     \/ /\ TryAgain(i, "lock")
        /\ Release(i)
  /\ UNCHANGED <<migrated, tool, crashes, runs>>

MigrateKeepingLock(i) ==
  /\ At(i, "migrate")
  /\ \/ /\ migrated' = migrated \cup {<<ServiceOf[i], HostDb[ServiceOf[i]]>>}
        /\ Checked(i)
        /\ Release(i)
        /\ UNCHANGED failures
     \/ /\ TryAgain(i, "lock")
        /\ UNCHANGED <<migrated, lock>>
  /\ UNCHANGED <<tool, crashes, runs>>

Migrate(i) ==
  /\ At(i, "migrate")
  /\ Release(i)
  /\ \/ /\ migrated' = migrated \cup {<<ServiceOf[i], HostDb[ServiceOf[i]]>>}
        /\ Checked(i)
        /\ UNCHANGED failures
     \/ /\ TryAgain(i, "lock")
        /\ UNCHANGED migrated
  /\ UNCHANGED <<tool, crashes, runs>>

\* On a schema with pending migrations, seeding may work or throw.
Seed(i) ==
  /\ At(i, "seed")
  /\ \/ /\ inst' = [inst EXCEPT ![i].step = "serving"]
        /\ UNCHANGED failures
     \/ TryAgain(i, "seed")
  /\ UNCHANGED <<migrated, lock, tool, crashes, runs>>

\* The deployment replaces a process that ended.
Restart(i) ==
  /\ At(i, "stopped")
  /\ inst' = [inst EXCEPT ![i] = Starting]
  /\ UNCHANGED <<migrated, lock, tool, failures, crashes, runs>>

Crash(i) ==
  /\ ~At(i, "stopped")
  /\ crashes < MaxCrashes
  /\ crashes' = crashes + 1
  /\ inst' = [inst EXCEPT ![i].step = "stopped"]
  /\ UNCHANGED <<migrated, lock, tool, failures, runs>>

\* A crashed process does not renew its lock, started again or not.
Holds(i) == At(i, "check") \/ At(i, "migrate")

LockExpires(s) ==
  /\ lock[s] # None
  /\ ~Holds(lock[s])
  /\ lock' = [lock EXCEPT ![s] = None]
  /\ UNCHANGED <<migrated, inst, tool, failures, crashes, runs>>

-----------------------------------------------------------------------------
(* The tool *)

Off == [step |-> "off"]

\* services: the databases still to be migrated for the host or for the tenant
\* at the head of tenants; known: migratedDatabaseSchemas.
ToolRuns ==
  [step: {"migrate", "seed", "list", "next", "completed"}, forHost: BOOLEAN,
   services: Seq(Services), tenants: Seq(ToSet(Tenants)), known: SUBSET Databases]

\* The database of a tenant for a service, by its connection strings.
TenantDb(t, s) ==
  CASE OwnString[t][s] # None -> OwnString[t][s]
    [] OwnString[t][s] = None /\ DefaultString[t] # None -> DefaultString[t]
    [] OTHER -> HostDb[s]

ToolDb(s) == IF tool.forHost THEN HostDb[s] ELSE TenantDb(Head(tool.tenants), s)

StartTool ==
  /\ tool = Off
  /\ runs < MaxRuns
  /\ runs' = runs + 1
  /\ tool' = [step |-> "migrate", forHost |-> TRUE, services |-> HostServices,
              tenants |-> <<>>, known |-> {}]
  /\ UNCHANGED <<migrated, inst, lock, failures, crashes>>

\* No call of the tool is tried again.
ToolFails ==
  /\ failures < MaxFailures
  /\ failures' = failures + 1
  /\ tool' = Off

ToolMigratesOrSkips ==
  /\ tool # Off /\ tool.step = "migrate"
  /\ \/ /\ tool.services # <<>>
        /\ migrated' = migrated \cup {<<Head(tool.services), ToolDb(Head(tool.services))>>}
        /\ tool' = [tool EXCEPT !.services = Tail(@)]
        /\ UNCHANGED failures
     \/ /\ tool.services # <<>>
        /\ failures < MaxFailures
        /\ failures' = failures + 1
        /\ tool' = [tool EXCEPT !.services = Tail(@)]
        /\ UNCHANGED migrated
     \/ /\ tool.services = <<>>
        /\ tool' = [tool EXCEPT !.step = "seed",
             !.known = IF tool.forHost THEN @
                       ELSE @ \cup {DefaultString[Head(tool.tenants)]}]
        /\ UNCHANGED <<migrated, failures>>
  /\ UNCHANGED <<inst, lock, crashes, runs>>

\* MigrateAllDatabasesAsync, one database at a time, and then, for a tenant,
\* migratedDatabaseSchemas.
ToolMigrates ==
  /\ tool # Off /\ tool.step = "migrate"
  /\ \/ /\ tool.services # <<>>
        /\ migrated' = migrated \cup {<<Head(tool.services), ToolDb(Head(tool.services))>>}
        /\ tool' = [tool EXCEPT !.services = Tail(@)]
        /\ UNCHANGED failures
     \/ /\ tool.services # <<>>
        /\ ToolFails
        /\ UNCHANGED migrated
     \/ /\ tool.services = <<>>
        /\ tool' = [tool EXCEPT !.step = "seed",
             !.known = IF tool.forHost THEN @
                       ELSE @ \cup {DefaultString[Head(tool.tenants)]}]
        /\ UNCHANGED <<migrated, failures>>
  /\ UNCHANGED <<inst, lock, crashes, runs>>

ToolSeeds ==
  /\ tool # Off /\ tool.step = "seed"
  /\ \/ /\ tool' = IF tool.forHost
                   THEN [tool EXCEPT !.step = "list", !.forHost = FALSE]
                   ELSE [tool EXCEPT !.step = "next", !.tenants = Tail(@)]
        /\ UNCHANGED failures
     \/ ToolFails
  /\ UNCHANGED <<migrated, inst, lock, crashes, runs>>

\* "Failed to get tenant list. Assuming no tenants exist yet."
ToolLists ==
  /\ tool # Off /\ tool.step = "list"
  /\ \/ /\ tool' = [tool EXCEPT !.step = "next", !.tenants = Tenants]
        /\ UNCHANGED failures
     \/ /\ failures < MaxFailures
        /\ failures' = failures + 1
        /\ tool' = [tool EXCEPT !.step = "completed"]
  /\ UNCHANGED <<migrated, inst, lock, crashes, runs>>

ToolNextUnchecked ==
  /\ tool # Off /\ tool.step = "next"
  /\ tool' =
       IF tool.tenants = <<>> THEN [tool EXCEPT !.step = "completed"]
       ELSE IF DefaultString[Head(tool.tenants)] \notin tool.known
            THEN [tool EXCEPT !.step = "migrate", !.services = TenantServices]
            ELSE [tool EXCEPT !.step = "seed"]
  /\ UNCHANGED <<migrated, inst, lock, failures, crashes, runs>>

\* A tenant without a default connection string, or with one in
\* migratedDatabaseSchemas, is only seeded.
ToolNext ==
  /\ tool # Off /\ tool.step = "next"
  /\ tool' =
       IF tool.tenants = <<>> THEN [tool EXCEPT !.step = "completed"]
       ELSE IF DefaultString[Head(tool.tenants)] \notin tool.known \cup {None}
            THEN [tool EXCEPT !.step = "migrate", !.services = TenantServices]
            ELSE [tool EXCEPT !.step = "seed"]
  /\ UNCHANGED <<migrated, inst, lock, failures, crashes, runs>>

-----------------------------------------------------------------------------
(* The specification *)

Init ==
  /\ migrated = {}
  /\ inst = [i \in Instances |-> Starting]
  /\ lock = [s \in Services |-> None]
  /\ tool = Off
  /\ failures = 0 /\ crashes = 0 /\ runs = 0

StartupCheck(i) ==
  TryAcquire(i) \/ GetPendingMigrations(i) \/ Migrate(i) \/ Seed(i)

ToolStep == ToolMigrates \/ ToolSeeds \/ ToolLists \/ ToolNext

Next ==
  \/ \E i \in Instances : StartupCheck(i) \/ Restart(i) \/ Crash(i)
  \/ \E s \in Services : LockExpires(s)
  \/ StartTool
  \/ ToolStep

\* A running process goes on, the deployment restarts a stopped one, and a lock
\* nobody renews expires.  Whether the tool is run is up to the operator.
Fairness ==
  /\ \A i \in Instances : WF_vars(StartupCheck(i)) /\ WF_vars(Restart(i))
  /\ \A s \in Services : WF_vars(LockExpires(s))
  /\ WF_vars(ToolStep)

Spec == Init /\ [][Next]_vars /\ Fairness

-----------------------------------------------------------------------------
(* Properties *)

\* Type invariant.
TypeOK ==
  /\ migrated \subseteq Services \X Databases
  /\ inst \in [Instances -> Startups]
  /\ lock \in [Services -> Instances \cup {None}]
  /\ tool = Off \/ tool \in ToolRuns
  /\ failures \in 0 .. MaxFailures
  /\ crashes \in 0 .. MaxCrashes
  /\ runs \in 0 .. MaxRuns

\* "Lock is acquired for db migration": between acquiring and disposing the
\* handle an instance is the only one of its service, whoever failed, crashed
\* or was restarted in between, and the lock names it.
OneMigratesAtATime ==
  \A i \in Instances : Holds(i) => lock[ServiceOf[i]] = i

\* A database once migrated is what an instance that skipped the migration
\* relies on: unless a process crashed or is still at it, an instance serves
\* only when its host database is up to date.
ServesUpToDate ==
  \A i \in Instances : At(i, "serving") /\ crashes = 0 =>
    LET s == ServiceOf[i] IN
    \/ <<s, HostDb[s]>> \in migrated
    \/ \E j \in Instances \ {i} : ServiceOf[j] = s /\ ~At(j, "serving")

\* Every host database is up to date at last, although an instance that does
\* not get the lock goes on without waiting for the one that has it: so long as
\* no process crashes.
HostsMigrated ==
  <>(crashes > 0 \/ \A i \in Instances : <<ServiceOf[i], HostDb[ServiceOf[i]]>> \in migrated)

\* "the database was not migrated yet" is what the tool concludes from
\* migratedDatabaseSchemas, so every schema of a database listed there has been
\* migrated.
KnownIsMigrated ==
  tool # Off =>
    \A d \in tool.known : \A s \in ToSet(TenantServices) : <<s, d>> \in migrated

\* The tenants that have t's default connection string keep the data of every
\* service where t does, in the database of that string or elsewhere.
Alike(t) ==
  \A u \in ToSet(Tenants) : DefaultString[u] = DefaultString[t] =>
    \A s \in ToSet(TenantServices) : TenantDb(u, s) = TenantDb(t, s)

\* "All databases have been successfully migrated": when the tool has gone past
\* a tenant that has a default connection string, alone or shared with tenants
\* like it, every schema of the tenant is up to date in the database it is in,
\* whatever failed or ran meanwhile.
ToolMigratesTenants ==
  tool # Off /\ tool.step = "next" =>
    \A t \in ToSet(Tenants) \ ToSet(tool.tenants) :
      DefaultString[t] # None /\ Alike(t) =>
        \A s \in ToSet(TenantServices) : <<s, TenantDb(t, s)>> \in migrated

=============================================================================
