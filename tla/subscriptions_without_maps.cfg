\* The AutoMapper profile as the repository has it, with no DTO map declared:
\* two requests at once, of a tenant and the host, about two tenants; both billing
\* periods, repeated renewals, editions and a running clock.
CONSTANTS
  Host = Host
  None = None
  Tenants = {t1, t2}
  Callers = {t1, Host}
  Editions = {e1}
  SubIds = {s1, s2}
  Requests = {r1, r2}
  Prices = {1, 2}
  Periods = {"Monthly", "Yearly"}
  TrialDays = {0}
  Month = 2
  Year = 3
  StartWindow = 0
  MaxDay = 1
  MaxDate = 5
  DtoMapsDeclared = FALSE
SPECIFICATION Spec
SYMMETRY Interchangeable
CHECK_DEADLOCK FALSE
INVARIANTS
  BillingConsistent
  OneActivePerTenant
