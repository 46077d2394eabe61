--------------------------- MODULE TenantRegistry ---------------------------
(***************************************************************************)
(* What provisioning promises of a tenant, seen across the two databases   *)
(* that it is stored in:                                                   *)
(*   - a tenant appears at once, with its name, its plan and, unless on    *)
(*     trial, its invoice, and no two requests make the same one;          *)
(*   - its administrator comes with it or later, once, and is never        *)
(*     replaced;                                                           *)
(*   - its name, plan and invoice stay as they are;                        *)
(*   - a deactivated tenant never comes back.                              *)
(***************************************************************************)
CONSTANTS Tenants,  \* identifiers of tenants
          Names,    \* names of tenants
          Absent    \* no tenant, and no administrator yet

VARIABLE registry   \* for each identifier, Absent or what is stored of the tenant

Plans == {"Trial", "Active"}
Administrators == {"admin", "user"}

Rows ==
  [name: Names, plan: Plans, invoiced: BOOLEAN,
   administrator: Administrators \cup {Absent}, deactivated: BOOLEAN]

TypeOK == registry \in [Tenants -> Rows \cup {Absent}]

Init == registry = [t \in Tenants |-> Absent]

Becomes(t, row) == registry' = [registry EXCEPT ![t] = row]

\* What is on trial is not billed, and nothing else goes unbilled.
Open(t) ==
  /\ registry[t] = Absent
  /\ \E name \in Names, plan \in Plans :
       Becomes(t, [name |-> name, plan |-> plan, invoiced |-> plan = "Active",
                   administrator |-> Absent, deactivated |-> FALSE])

\* A tenant may be deactivated before it has its administrator.
Appoint(t) ==
  /\ registry[t] # Absent
  /\ registry[t].administrator = Absent
  /\ \E who \in Administrators :
       Becomes(t, [registry[t] EXCEPT !.administrator = who])

Deactivate(t) ==
  /\ registry[t] # Absent
  /\ ~registry[t].deactivated
  /\ Becomes(t, [registry[t] EXCEPT !.deactivated = TRUE])

\* The first conjunct follows from the second, and spares TLC most of the work.
Next ==
  \E t \in Tenants :
    /\ registry'[t] # registry[t]
    /\ Open(t) \/ Appoint(t) \/ Deactivate(t)

Spec == Init /\ [][Next]_registry

=============================================================================
