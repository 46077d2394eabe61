\* One page and the other clients of the service: two changes to two products.
CONSTANTS
  p1 = p1
  a = a
  b = b
  None = None
  Gone = Gone
  Pages = {p1}
  Products = {a, b}
  Prices = {1, 2}
  MinPrices = {2}
  Stock <- MCStock
  MaxRequests = 2
  MaxGets = 1
SPECIFICATION Spec
INVARIANTS
  TypeOK
  ShowsOwnChanges
  ClosesOwnDialog
  BusyTellsSubmission
PROPERTIES
  NotStuck
  ShowsEventually
