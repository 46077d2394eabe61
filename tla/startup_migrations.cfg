\* Two instances of a service that seeds, one of a service that does not, and
\* the tool; three calls throw and one process crashes.
CONSTANTS
  Saas = Saas
  Identity = Identity
  Product = Product
  i1 = i1
  i2 = i2
  p1 = p1
  t1 = t1
  t2 = t2
  t3 = t3
  dbHost = dbHost
  dbA = dbA
  dbB = dbB
  None = None
  Services = {Saas, Identity, Product}
  Seeders = {Identity}
  HostServices <- MCHostServices
  TenantServices <- MCTenantServices
  Instances = {i1, i2, p1}
  ServiceOf <- MCServiceOf
  Tenants <- MCTenants
  Databases = {dbHost, dbA, dbB}
  HostDb <- MCHostDb
  DefaultString <- MCDefaultString
  OwnString <- MCOwnString
  RetryCount = 3
  MaxFailures = 3
  MaxCrashes = 1
  MaxRuns = 1
SPECIFICATION Spec
CHECK_DEADLOCK FALSE
INVARIANTS
  TypeOK
  OneMigratesAtATime
  ServesUpToDate
  ToolMigratesTenants
PROPERTIES
  HostsMigrated
