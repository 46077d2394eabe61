\* A host migration by a service with two consumers whose seeding does not throw,
\* while a tenant is created and moves to another database, and the startup check
\* of the SaaS service; no process stops.
CONSTANTS
  Identity = Identity
  Product = Product
  Saas = Saas
  i1 = i1
  p1 = p1
  p2 = p2
  t1 = t1
  t2 = t2
  dbHost = dbHost
  dbA = dbA
  dbB = dbB
  Host = Host
  Default = Default
  None = None
  HostOnly = {Saas}
  ServiceOf <- MCServiceOf
  HostDb <- MCHostDb
  InitialStrings <- MCStrings
  Services = {Product, Saas}
  Seeders = {Product}
  Workers = {p1, p2}
  Tenants = {t1, t2}
  Databases = {dbHost, dbA, dbB}
  Requests <- MCApplyProductAndCreated
  Updates <- MCMove
  Startups = {Saas}
  Faults = {"find", "migrate", "publishAgain"}
  MaxEventTryCount = 1
  MaxCrashes = 0
SPECIFICATION Spec
CHECK_DEADLOCK FALSE
INVARIANTS
  TypeOK
  TenantsFollowHost
  HostFirst
