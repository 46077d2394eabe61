------------------------ MODULE MCDatabaseMigrations ------------------------
(***************************************************************************)
(* Small instances of DatabaseMigrations for TLC.                          *)
(***************************************************************************)
EXTENDS DatabaseMigrations

CONSTANTS
  Identity, Product, Saas,   \* services: one that seeds, one that does not,
                             \* one on the host's side only
  i1, p1, p2,                \* consumers of the first two
  t1, t2,                    \* tenants
  dbHost, dbA, dbB           \* databases

MCServiceOf ==
  [w \in Workers |-> IF w = i1 THEN Identity ELSE Product]

MCHostDb == [s \in Services |-> dbHost]

\* The first tenant has a database of its own for everything, the second one
\* for Product, in the first one's database.
MCStrings ==
  [t \in Tenants |-> [n \in Names |->
     IF <<t, n>> \in {<<t1, Default>>, <<t2, Product>>} THEN dbA ELSE None]]

\* The first tenant has a database of its own, and keeps the data of Product in
\* another one.
MCApart ==
  [t \in Tenants |-> [n \in Names |->
     CASE n = Default -> dbA [] n = Product -> dbB [] OTHER -> None]]

Apply(s, o) ==
  [kind |-> "ApplyDatabaseMigrations", owner |-> o, name |-> s,
   blank |-> FALSE, tries |-> 0]

Created(t) ==
  [kind |-> "TenantCreated", owner |-> t, name |-> Default,
   blank |-> FALSE, tries |-> 0]

MCApplyProduct == {Apply(Product, Host)}
MCApplyHosts == {Apply(s, Host) : s \in Services}
MCApplyProductAndCreated == MCApplyProduct \cup {Created(t1)}

\* The first tenant moves to another database.
MCMove == {[tenant |-> t1, name |-> Default, value |-> dbB]}

\* Its data of Product is to be in the other database too, for which its own
\* connection string is removed.
MCMoveAndRemove == MCMove \cup {[tenant |-> t1, name |-> Product, value |-> None]}

=============================================================================
