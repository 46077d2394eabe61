\* The tool alone, over two tenants that share a database, the first of which
\* has a separate database for one service.
CONSTANTS
  Saas = Saas
  Identity = Identity
  Product = Product
  i1 = i1
  i2 = i2
  p1 = p1
  t1 = t1
  t2 = t2
  t3 = t3
  dbHost = dbHost
  dbA = dbA
  dbB = dbB
  None = None
  Services = {Saas, Identity, Product}
  Seeders = {Identity}
  HostServices <- MCHostServices
  TenantServices <- MCTenantServices
  Instances = {p1}
  ServiceOf <- MCServiceOf
  Tenants <- MCTenants
  Databases = {dbHost, dbA, dbB}
  HostDb <- MCHostDb
  DefaultString <- MCDefaultString
  OwnString <- MCMixedString
  RetryCount = 3
  MaxFailures = 1
  MaxCrashes = 1
  MaxRuns = 1
SPECIFICATION Spec
CHECK_DEADLOCK FALSE
INVARIANTS
  KnownIsMigrated
