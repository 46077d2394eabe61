------------------------- MODULE TenantProvisioning -------------------------
(***************************************************************************)
(* How the SaaS service provisions a tenant (TenantProvisioningManager and *)
(* TenantProvisioningAppService): the tenant, its administrator, its first *)
(* subscription and its first invoice, in one unit of work; and how the    *)
(* host deactivates tenants (HostAdminAppService).                         *)
(*                                                                         *)
(* The administrator is a row of the identity database, the rest of the    *)
(* SaaS database.  A unit of work opens a transaction in each database     *)
(* that it uses and commits them one after the other, in this order.       *)
(***************************************************************************)
EXTENDS Naturals, Sequences, SequencesExt

CONSTANTS
  Requests, \* requests at the same time
  Tenants,  \* identifiers of tenants
  Names,    \* names of tenants
  Trials,   \* the trial days that a request may ask for
  None      \* C#'s null

ASSUME TrialsAssumption == Trials \subseteq Nat \cup {None} /\ None \notin Nat

VARIABLES
  edition,  \* the edition that requests ask for: its active flag, and whether it is free
  tenants,  \* SaaS database: the tenant table
  subs,     \* SaaS database: the status of a tenant's first subscription
  invoices, \* SaaS database: the tenants that have their first invoice
  users,    \* identity database: the administrator of a tenant, "admin" if in the role
  work,     \* for each request, its unit of work
  cut       \* history: tenants whose unit of work ended between its commits

vars == <<edition, tenants, subs, invoices, users, work, cut>>

Idle == [step |-> "idle"]

\* saw is history: the tenants there were when the name was checked.
TenantRows == [name: Names, deleted: BOOLEAN, saw: SUBSET Tenants]
Admins == {"admin", "user"}
Statuses == {"Trial", "Active"}

ASSUME NoneAssumption ==
  None \notin Tenants \cup Names \cup TenantRows \cup Admins \cup Statuses

\* opened: the databases whose transactions are yet to be committed.
Databases == {"saas", "identity"}
Works ==
  [step: {"edition", "named", "admin", "saved"}, name: Names, trial: Trials,
   free: BOOLEAN, id: Tenants \cup {None}, saw: SUBSET Tenants,
   admin: Admins, opened: Seq(Databases)]

OpenedFirst(opened, db) ==
  IF db \in ToSet(opened) THEN opened ELSE <<db>> \o opened

\* The transactions of a unit of work, in the order of first use.
Opened(opened, db) ==
  IF db \in ToSet(opened) THEN opened ELSE Append(opened, db)

Stored(id) == tenants[id] # None
Visible(id) == Stored(id) /\ ~tenants[id].deleted

At(r, step) == work[r] # Idle /\ work[r].step = step

-----------------------------------------------------------------------------
(* Provisioning *)

\* The manager reads the edition again later, and gets the tracked object.
ReadEdition(r) ==
  /\ work[r] = Idle
  /\ edition.active
  /\ \E name \in Names, trial \in Trials :
       work' = [work EXCEPT ![r] =
         [step |-> "edition", name |-> name, trial |-> trial, free |-> edition.free,
          id |-> None, saw |-> {}, admin |-> "user", opened |-> Opened(<<>>, "saas")]]
  /\ UNCHANGED <<edition, tenants, subs, invoices, users, cut>>

CreateTenantUnidentified(r) ==
  /\ At(r, "edition")
  /\ ~\E t \in Tenants : Visible(t) /\ tenants[t].name = work[r].name
  /\ work' = [work EXCEPT ![r].step = "named", ![r].saw = {t \in Tenants : Stored(t)}]
  /\ UNCHANGED <<edition, tenants, subs, invoices, users, cut>>

\* "Tenant name must be unique"; the tenant gets an unused identifier and is
\* not inserted yet.
CreateTenant(r) ==
  /\ At(r, "edition")
  /\ ~\E t \in Tenants : Visible(t) /\ tenants[t].name = work[r].name
  /\ \E id \in Tenants :
       /\ ~Stored(id) /\ id \notin cut
       /\ \A q \in Requests : work[q] # Idle => work[q].id # id
       /\ work' = [work EXCEPT ![r].step = "named", ![r].id = id,
                               ![r].saw = {t \in Tenants : Stored(t)}]
  /\ UNCHANGED <<edition, tenants, subs, invoices, users, cut>>

\* The new tenant has no user whose address could be taken.  A role that is
\* refused is only logged.
CreateTenantAdminUser(r) ==
  /\ At(r, "named")
  /\ \E admin \in Admins :
       work' = [work EXCEPT ![r].step = "admin", ![r].admin = admin,
                            ![r].opened = Opened(@, "identity")]
  /\ UNCHANGED <<edition, tenants, subs, invoices, users, cut>>

OnTrialIfAsked(w) == w.trial # None

\* "trialDays.HasValue && trialDays.Value > 0".
OnTrial(w) == w.trial # None /\ w.trial > 0

\* "no zero or negative prices unless trial".  The rest of the manager reads
\* nothing that another request could change; then come the inserts.
Provision(r) ==
  /\ At(r, "admin")
  /\ work[r].free => OnTrial(work[r])
  /\ work' = [work EXCEPT ![r].step = "saved"]
  /\ UNCHANGED <<edition, tenants, subs, invoices, users, cut>>

InvoicedUnlessAsked(w) == w.trial = None

\* Only a trial of at least a day goes without an invoice.
Invoiced(w) == w.trial = None \/ w.trial = 0

CommitOne(r) ==
  LET w == work[r] IN
  /\ At(r, "saved")
  /\ w.opened # <<>>
  /\ \/ /\ Head(w.opened) = "saas"
        /\ tenants' = [tenants EXCEPT ![w.id] =
             [name |-> w.name, deleted |-> FALSE, saw |-> w.saw]]
        /\ subs' = [subs EXCEPT ![w.id] = IF OnTrial(w) THEN "Trial" ELSE "Active"]
        /\ invoices' = IF Invoiced(w) THEN invoices \cup {w.id} ELSE invoices
        /\ UNCHANGED users
     \/ /\ Head(w.opened) = "identity"
        /\ users' = [users EXCEPT ![w.id] = w.admin]
        /\ UNCHANGED <<tenants, subs, invoices>>
  /\ work' = [work EXCEPT ![r].opened = Tail(@)]
  /\ UNCHANGED <<edition, cut>>

Answer(r) ==
  /\ At(r, "saved")
  /\ work[r].opened = <<>>
  /\ work' = [work EXCEPT ![r] = Idle]
  /\ UNCHANGED <<edition, tenants, subs, invoices, users, cut>>

\* An exception, a failed commit or a stop of the process: what is not
\* committed is rolled back, and what is committed stays.
Abort(r) ==
  /\ work[r] # Idle
  /\ cut' = IF At(r, "saved") /\ Len(work[r].opened) = 1
            THEN cut \cup {work[r].id} ELSE cut
  /\ work' = [work EXCEPT ![r] = Idle]
  /\ UNCHANGED <<edition, tenants, subs, invoices, users>>

-----------------------------------------------------------------------------
(* Host administration *)

UpdateEdition ==
  /\ edition' \in [active: BOOLEAN, free: BOOLEAN]
  /\ UNCHANGED <<tenants, subs, invoices, users, work, cut>>

\* A soft delete; the subscription, the invoice and the user stay as they are.
DeactivateTenant(id) ==
  /\ Visible(id)
  /\ tenants' = [tenants EXCEPT ![id].deleted = TRUE]
  /\ UNCHANGED <<edition, subs, invoices, users, work, cut>>

ActivateDeleted(id) ==
  /\ Stored(id)
  /\ tenants' = [tenants EXCEPT ![id].deleted = FALSE]
  /\ UNCHANGED <<edition, subs, invoices, users, work, cut>>

\* "Cannot undelete via this method": GetAsync does not find a deleted tenant,
\* and nothing of the others changes.
ActivateTenant(id) ==
  /\ Visible(id)
  /\ UNCHANGED vars

-----------------------------------------------------------------------------
(* The specification *)

Init ==
  /\ edition \in [active: BOOLEAN, free: BOOLEAN]
  /\ tenants = [t \in Tenants |-> None]
  /\ subs = [t \in Tenants |-> None]
  /\ invoices = {}
  /\ users = [t \in Tenants |-> None]
  /\ work = [r \in Requests |-> Idle]
  /\ cut = {}

ProvisionTenant(r) ==
  \/ ReadEdition(r) \/ CreateTenant(r) \/ CreateTenantAdminUser(r) \/ Provision(r)
  \/ CommitOne(r) \/ Answer(r) \/ Abort(r)

Next ==
  \/ \E r \in Requests : ProvisionTenant(r)
  \/ UpdateEdition
  \/ \E id \in Tenants : DeactivateTenant(id) \/ ActivateTenant(id)

Spec == Init /\ [][Next]_vars

-----------------------------------------------------------------------------
(* Properties *)

\* Type invariant: beyond the types, a tenant in the making has an identifier.
TypeOK ==
  /\ edition \in [active: BOOLEAN, free: BOOLEAN]
  /\ tenants \in [Tenants -> TenantRows \cup {None}]
  /\ subs \in [Tenants -> Statuses \cup {None}]
  /\ invoices \subseteq Tenants
  /\ users \in [Tenants -> Admins \cup {None}]
  /\ work \in [Requests -> Works \cup {Idle}]
  /\ \A r \in Requests : work[r].step \notin {"idle", "edition"} => work[r].id \in Tenants
  /\ cut \subseteq Tenants

\* "Tenant name must be unique": the check comes before the insert and no index
\* enforces it, so two tenants in use may share a name only if each was checked
\* before the other was stored, whatever was deactivated or reactivated since.
NamesUniqueInSequence ==
  \A t, u \in Tenants :
    t # u /\ Visible(t) /\ Visible(u) /\ tenants[t].name = tenants[u].name =>
      t \notin tenants[u].saw /\ u \notin tenants[t].saw

\* "a complete tenant including subscription, admin user, and initial invoice":
\* a stored tenant has its subscription, with an invoice unless on trial, and
\* its user, unless the unit of work is or ended between its two commits.
CompleteTenants ==
  \A t \in Tenants : Stored(t) =>
    /\ subs[t] # None
    /\ subs[t] = "Active" => t \in invoices
    /\ \/ users[t] # None
       \/ t \in cut
       \/ \E r \in Requests : At(r, "saved") /\ work[r].id = t

\* Whatever fails, the two databases differ one way only: there is never an
\* administrator of a tenant that does not exist.
NoOrphanedUsers == \A t \in Tenants : users[t] # None => Stored(t)

-----------------------------------------------------------------------------
(* What the two databases show together *)

View(t) ==
  IF tenants[t] = None THEN None
  ELSE [name |-> tenants[t].name, plan |-> subs[t], invoiced |-> t \in invoices,
        administrator |-> users[t], deactivated |-> tenants[t].deleted]

Seen == [t \in Tenants |-> View(t)]

Registry == INSTANCE TenantRegistry WITH Absent <- None, registry <- Seen

ASSUME NoRegistryRowAssumption == None \notin Registry!Rows

\* Every step is, for each tenant, one legal step of the registry or none: over
\* two databases, with requests at the same time that fail or stop anywhere, a
\* tenant appears once and whole but for its administrator, who is added at most
\* once, and nothing of it changes later but that it is deactivated for good.
ImplementsRegistry == Registry!Spec

=============================================================================
