\* The host is migrated and its seeding fails once.
CONSTANTS
  Identity = Identity
  Product = Product
  Saas = Saas
  i1 = i1
  p1 = p1
  p2 = p2
  t1 = t1
  t2 = t2
  dbHost = dbHost
  dbA = dbA
  dbB = dbB
  Host = Host
  Default = Default
  None = None
  HostOnly = {}
  ServiceOf <- MCServiceOf
  HostDb <- MCHostDb
  InitialStrings <- MCStrings
  Services = {Identity}
  Seeders = {Identity}
  Workers = {i1}
  Tenants = {t1}
  Databases = {dbHost, dbA}
  Requests <- MCApplyHosts
  Updates = {}
  Startups = {}
  Faults = {"seed"}
  MaxEventTryCount = 3
  MaxCrashes = 0
SPECIFICATION Spec
CHECK_DEADLOCK FALSE
INVARIANTS
  TenantsAlwaysFollowHost
