\* Two requests at once on one subscription: every interleaving of the reads
\* and the saves.
CONSTANTS
  Host = Host
  None = None
  Tenants = {t1}
  Callers = {t1}
  Editions = {e1}
  SubIds = {s1}
  Requests = {r1, r2}
  Prices = {0, 1}
  Periods = {"Monthly"}
  TrialDays = {0, 1}
  Month = 1
  Year = 2
  StartWindow = 0
  MaxDay = 0
  MaxDate = 2
  DtoMapsDeclared = TRUE
SPECIFICATION Spec
SYMMETRY Interchangeable
CHECK_DEADLOCK FALSE
INVARIANTS
  TypeOK
  BillingConsistent
  CancellationAnnounced
PROPERTIES
  NoLostUpdate
  ImplementsLedger
