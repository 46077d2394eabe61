\* The host's data of Product is to be migrated, and a tenant's database to be
\* another one, while calls throw in both services and a process may stop.
CONSTANTS
  Identity = Identity
  Product = Product
  Saas = Saas
  i1 = i1
  p1 = p1
  p2 = p2
  t1 = t1
  t2 = t2
  dbHost = dbHost
  dbA = dbA
  dbB = dbB
  Host = Host
  Default = Default
  None = None
  HostOnly = {}
  ServiceOf <- MCServiceOf
  HostDb <- MCHostDb
  InitialStrings <- MCStrings
  Services = {Identity, Product}
  Seeders = {Identity}
  Workers = {i1, p1}
  Tenants = {t1}
  Databases = {dbHost, dbA, dbB}
  Requests <- MCApplyProduct
  Updates <- MCMove
  Startups = {}
  Faults = {"migrate", "seed", "publish"}
  MaxEventTryCount = 1
  MaxCrashes = 1
SPECIFICATION Spec
CHECK_DEADLOCK FALSE
PROPERTIES
  Served
  RetriesEnd
