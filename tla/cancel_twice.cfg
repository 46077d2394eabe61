\* A subscription cancelled, and cancelled again.
CONSTANTS
  Host = Host
  None = None
  Tenants = {t1}
  Callers = {t1, Host}
  Editions = {e1}
  SubIds = {s1}
  Requests = {r1}
  Prices = {0, 1}
  Periods = {"Monthly"}
  TrialDays = {0, 1}
  Month = 2
  Year = 3
  StartWindow = 0
  MaxDay = 0
  MaxDate = 3
  DtoMapsDeclared = FALSE
SPECIFICATION Spec
SYMMETRY Interchangeable
CHECK_DEADLOCK FALSE
PROPERTY
  CancelIsIdempotent
