\* The same calls and stops, while a tenant moves to the database in which it has
\* the data of Product, for which it had a connection string of its own until then.
CONSTANTS
  Identity = Identity
  Product = Product
  Saas = Saas
  i1 = i1
  p1 = p1
  p2 = p2
  t1 = t1
  t2 = t2
  dbHost = dbHost
  dbA = dbA
  dbB = dbB
  Host = Host
  Default = Default
  None = None
  HostOnly = {}
  ServiceOf <- MCServiceOf
  HostDb <- MCHostDb
  InitialStrings <- MCApart
  Services = {Identity, Product}
  Seeders = {Identity}
  Workers = {i1, p1}
  Tenants = {t1}
  Databases = {dbHost, dbA, dbB}
  Requests <- MCApplyProduct
  Updates <- MCMoveAndRemove
  Startups = {}
  Faults = {"find", "migrate", "seed", "list", "publish", "publishAgain"}
  MaxEventTryCount = 1
  MaxCrashes = 1
SPECIFICATION Spec
CHECK_DEADLOCK FALSE
INVARIANTS
  NothingForgotten
