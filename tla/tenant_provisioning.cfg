\* Two provisionings at a time of three tenants of the same name,
\* without a trial, with one of no days and with one of a day.
CONSTANTS
  r1 = r1
  r2 = r2
  t1 = t1
  t2 = t2
  t3 = t3
  n1 = n1
  None = None
  Requests = {r1, r2}
  Tenants = {t1, t2, t3}
  Names = {n1}
  Trials = {None, 0, 1}
SYMMETRY Symmetry
SPECIFICATION Spec
INVARIANTS
  TypeOK
  NamesUniqueInSequence
  CompleteTenants
  NoOrphanedUsers
PROPERTIES
  ImplementsRegistry
