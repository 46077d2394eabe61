\* Three requests at once on the invoices of two tenants: a payment, a
\* cancellation and an overdue batch that meet on one invoice.
CONSTANTS
  Host = Host
  None = None
  Tenants = {t1, t2}
  Callers = {t1, t2, Host}
  InvoiceIds = {i1, i2}
  Requests = {r1, r2, r3}
  DueDays = 1
  MaxDay = 3
  DtoMapsDeclared = TRUE
SPECIFICATION Spec
SYMMETRY Interchangeable
CHECK_DEADLOCK FALSE
INVARIANTS
  TypeOK
  PaidAnnounced
PROPERTIES
  SettledIsFinal
  ImplementsLifecycle
