------------------------ MODULE MCStartupMigrations ------------------------
(***************************************************************************)
(* A small instance of StartupMigrations for TLC.                          *)
(***************************************************************************)
EXTENDS StartupMigrations

CONSTANTS
  Saas, Identity, Product,  \* services
  i1, i2, p1,               \* instances
  t1, t2, t3,               \* tenants
  dbHost, dbA, dbB          \* databases

MCServiceOf ==
  [i \in Instances |-> IF i = p1 THEN Product ELSE Identity]
MCHostServices == <<Saas, Identity, Product>>
MCTenantServices == <<Identity, Product>>
MCHostDb == [s \in Services |-> dbHost]

\* Two tenants share a database, the third has none of its own by default; all
\* have the data of one service in another database.
MCTenants == <<t1, t2, t3>>
MCDefaultString == [t \in {t1, t2, t3} |-> IF t = t3 THEN None ELSE dbA]
MCOwnString ==
  [t \in {t1, t2, t3} |-> [s \in Services |-> IF s = Product THEN dbB ELSE None]]

\* Of the two tenants that share a database, the first has the data of one
\* service elsewhere.
MCMixedString ==
  [t \in {t1, t2, t3} |-> [s \in Services |->
     IF t = t1 /\ s = Product THEN dbB ELSE None]]

=============================================================================
