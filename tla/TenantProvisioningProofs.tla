---------------------- MODULE TenantProvisioningProofs ----------------------
(***************************************************************************)
(* Proofs about TenantProvisioning, for every set of requests, tenants and *)
(* names, and any trials.                                                  *)
(***************************************************************************)
EXTENDS TenantProvisioning, TLAPS

-----------------------------------------------------------------------------
(* The strengthened invariant *)

One == <<"saas">>
Both == <<"saas", "identity">>
Rest == <<"identity">>

\* The transactions yet to be committed, by the progress of the unit of work.
OpenedOK(w) ==
  /\ w.step \in {"edition", "named"} => w.opened = One
  /\ w.step = "admin" => w.opened = Both
  /\ w.step = "saved" => w.opened \in {Both, Rest, <<>>}

\* A tenant that is only in memory yet.
Unsaved(w) ==
  \/ w.step \in {"named", "admin"}
  \/ w.step = "saved" /\ w.opened = Both

\* What a unit of work in flight knows of the databases: nobody has stored a
\* tenant under its identifier, and the tenants that it saw with its name are
\* deleted.
WorkOK(w) ==
  /\ OpenedOK(w)
  /\ Unsaved(w) =>
       /\ ~Stored(w.id)
       /\ \A t \in w.saw : Stored(t) /\ (Visible(t) => tenants[t].name # w.name)
  /\ w.step = "saved" /\ w.opened = Rest => Stored(w.id) /\ users[w.id] = None
  /\ w.step = "saved" /\ w.opened = <<>> => Stored(w.id) /\ users[w.id] # None

AllWorkOK == \A r \in Requests : work[r] # Idle => WorkOK(work[r])

\* No two requests make the same tenant.
IdsDiffer ==
  \A q, r \in Requests :
    q # r /\ work[q] # Idle /\ work[r] # Idle /\ work[q].id \in Tenants =>
      work[q].id # work[r].id

SawStored == \A t \in Tenants : Stored(t) => \A u \in tenants[t].saw : Stored(u)

\* Nobody is billed before there is a tenant.
BilledStored == \A t \in invoices : Stored(t)

IInv ==
  /\ TypeOK /\ AllWorkOK /\ IdsDiffer /\ SawStored /\ BilledStored
  /\ NamesUniqueInSequence /\ CompleteTenants /\ NoOrphanedUsers

-----------------------------------------------------------------------------
(* Sequences of databases *)

LEMMA OpenedInOrder ==
  /\ Opened(<<>>, "saas") = One
  /\ Opened(One, "identity") = Both
  <1>1. ToSet(<<>>) = {} /\ ToSet(One) = {"saas"}
    BY DEF ToSet, One
  <1>2. Append(<<>>, "saas") = One /\ Append(One, "identity") = Both
    <2>1. Append(<<>>, "saas") = One
      BY DEF One
    <2>2. One \in Seq(Databases) /\ Both \in Seq(Databases) /\ "identity" \in Databases
      BY DEF One, Both, Databases
    <2>3. Append(One, "identity") \in Seq(Databases)
      BY <2>2
    <2>4. Len(Append(One, "identity")) = 2 /\ Len(Both) = 2
      BY <2>2 DEF One, Both
    <2>5. /\ Append(One, "identity")[1] = "saas"
          /\ Append(One, "identity")[2] = "identity"
      BY <2>2 DEF One
    <2>6. Both[1] = "saas" /\ Both[2] = "identity"
      BY DEF Both
    <2>7. Append(One, "identity") = Both
      BY <2>2, <2>3, <2>4, <2>5, <2>6
    <2> QED BY <2>1, <2>7
  <1>3. "saas" \notin ToSet(<<>>) /\ "identity" \notin ToSet(One)
    BY <1>1
  <1> QED BY <1>2, <1>3 DEF Opened

LEMMA Tails ==
  /\ One \in Seq(Databases) /\ Both \in Seq(Databases) /\ Rest \in Seq(Databases)
  /\ <<>> \in Seq(Databases)
  /\ Head(Both) = "saas" /\ Tail(Both) = Rest
  /\ Head(Rest) = "identity" /\ Tail(Rest) = <<>>
  /\ Both # Rest /\ Both # <<>> /\ Rest # <<>>
  /\ Len(Both) = 2 /\ Len(Rest) = 1
  BY DEF One, Both, Rest, Databases

LEMMA Nulls ==
  /\ \A n \in Names : n # None
  /\ \A t \in Tenants : t # None
  /\ \A row \in TenantRows : row # None
  /\ \A a \in Admins : a # None
  /\ \A s \in Statuses : s # None
  BY NoneAssumption

\* The history of a stored tenant names tenants.
LEMMA SawInTenants ==
  ASSUME IInv, NEW t \in Tenants, Stored(t)
  PROVE  tenants[t].saw \subseteq Tenants
  <1>1. tenants[t] \in TenantRows
    BY DEF IInv, TypeOK, Stored
  <1> QED BY <1>1 DEF TenantRows

-----------------------------------------------------------------------------
(* Steps of a unit of work before it commits *)

\* A request's unit of work that goes on without storing anything.
LEMMA WorkStep ==
  ASSUME IInv, NEW r \in Requests, NEW w \in Works,
         ~At(r, "saved"),
         work' = [work EXCEPT ![r] = w],
         UNCHANGED <<tenants, subs, invoices, users, cut>>,
         edition' = edition,
         w.step # "edition" => w.id \in Tenants,
         WorkOK(w),
         \A q \in Requests : q # r /\ work[q] # Idle /\ w.id \in Tenants => work[q].id # w.id
  PROVE  IInv'
  <1> USE DEF IInv
  <1>1. w # Idle /\ w.step # "idle"
    BY DEF Works, Idle
  <1>2. /\ work \in [Requests -> Works \cup {Idle}]
        /\ work'[r] = w
        /\ \A q \in Requests : q # r => work'[q] = work[q]
    BY DEF TypeOK
  <1>3. TypeOK'
    BY <1>1, <1>2 DEF TypeOK
  <1>4. AllWorkOK'
    <2>1. \A v : WorkOK(v) => WorkOK(v)'
      BY DEF WorkOK, Stored, Visible
    <2> QED BY <1>2, <2>1 DEF AllWorkOK
  <1>5. IdsDiffer'
    BY <1>2 DEF IdsDiffer
  <1>6. SawStored' /\ BilledStored' /\ NamesUniqueInSequence' /\ NoOrphanedUsers'
    BY DEF SawStored, BilledStored, NamesUniqueInSequence, NoOrphanedUsers, Stored, Visible
  <1>7. CompleteTenants'
    BY <1>2 DEF CompleteTenants, At, Stored
  <1> QED BY <1>3, <1>4, <1>5, <1>6, <1>7

LEMMA ReadEditionKeeps ==
  ASSUME IInv, NEW r \in Requests, ReadEdition(r)
  PROVE  IInv'
  <1>1. PICK name \in Names, trial \in Trials : work' = [work EXCEPT ![r] =
          [step |-> "edition", name |-> name, trial |-> trial, free |-> edition.free,
           id |-> None, saw |-> {}, admin |-> "user", opened |-> One]]
    BY OpenedInOrder DEF ReadEdition
  <1> DEFINE w == [step |-> "edition", name |-> name, trial |-> trial, free |-> edition.free,
                   id |-> None, saw |-> {}, admin |-> "user", opened |-> One]
  <1>2. w \in Works
    BY Tails DEF Works, IInv, TypeOK, Admins
  <1>3. WorkOK(w)
    BY DEF WorkOK, OpenedOK, Unsaved
  <1>4. ~At(r, "saved")
    BY DEF ReadEdition, At
  <1>5. None \notin Tenants
    BY Nulls
  <1> QED BY <1>1, <1>2, <1>3, <1>4, <1>5, WorkStep DEF ReadEdition

LEMMA CreateTenantKeeps ==
  ASSUME IInv, NEW r \in Requests, CreateTenant(r)
  PROVE  IInv'
  <1>1. PICK id \in Tenants :
          /\ ~Stored(id)
          /\ \A q \in Requests : work[q] # Idle => work[q].id # id
          /\ work' = [work EXCEPT ![r].step = "named", ![r].id = id,
                                  ![r].saw = {t \in Tenants : Stored(t)}]
    BY DEF CreateTenant
  <1> DEFINE w == [work[r] EXCEPT !.step = "named", !.id = id,
                                  !.saw = {t \in Tenants : Stored(t)}]
  <1>2. work[r] \in Works /\ work[r].step = "edition" /\ WorkOK(work[r])
    BY DEF IInv, TypeOK, AllWorkOK, CreateTenant, At
  <1>3. work' = [work EXCEPT ![r] = w]
    BY <1>1 DEF IInv, TypeOK
  <1>4. /\ w \in Works /\ w.step = "named" /\ w.id = id /\ w.name = work[r].name
        /\ w.opened = work[r].opened /\ w.saw = {t \in Tenants : Stored(t)}
    BY <1>2 DEF Works
  <1>5. WorkOK(w)
    <2>1. w.opened = One
      BY <1>2, <1>4 DEF WorkOK, OpenedOK
    <2>2. \A t \in w.saw : Stored(t) /\ (Visible(t) => tenants[t].name # w.name)
      BY <1>4 DEF CreateTenant
    <2> HIDE DEF w
    <2> QED BY <1>1, <1>4, <2>1, <2>2 DEF WorkOK, OpenedOK, Unsaved
  <1>6. ~At(r, "saved")
    BY DEF CreateTenant, At
  <1> HIDE DEF w
  <1> QED BY <1>1, <1>3, <1>4, <1>5, <1>6, WorkStep DEF CreateTenant

LEMMA CreateTenantAdminUserKeeps ==
  ASSUME IInv, NEW r \in Requests, CreateTenantAdminUser(r)
  PROVE  IInv'
  <1>1. /\ work[r] # Idle /\ work[r] \in Works /\ work[r].step = "named"
        /\ WorkOK(work[r]) /\ work[r].id \in Tenants
    BY DEF IInv, TypeOK, AllWorkOK, CreateTenantAdminUser, At
  <1>2. work[r].opened = One
    BY <1>1 DEF WorkOK, OpenedOK
  <1>3. PICK admin \in Admins :
          work' = [work EXCEPT ![r].step = "admin", ![r].admin = admin,
                               ![r].opened = Opened(@, "identity")]
    BY DEF CreateTenantAdminUser
  <1> DEFINE w == [work[r] EXCEPT !.step = "admin", !.admin = admin, !.opened = Both]
  <1>4. work' = [work EXCEPT ![r] = w]
    BY <1>1, <1>2, <1>3, OpenedInOrder DEF IInv, TypeOK
  <1>5. /\ w \in Works /\ w.step = "admin" /\ w.id = work[r].id /\ w.name = work[r].name
        /\ w.opened = Both /\ w.saw = work[r].saw
    BY <1>1, Tails DEF Works
  <1> HIDE DEF w
  <1>6. WorkOK(w)
    <2>1. /\ ~Stored(work[r].id)
          /\ \A t \in work[r].saw : Stored(t) /\ (Visible(t) => tenants[t].name # work[r].name)
      BY <1>1 DEF WorkOK, Unsaved
    <2>2. OpenedOK(w)
      BY <1>5 DEF OpenedOK
    <2> QED BY <1>5, <2>1, <2>2 DEF WorkOK
  <1>7. \A q \in Requests : q # r /\ work[q] # Idle /\ w.id \in Tenants => work[q].id # w.id
    BY <1>1, <1>5 DEF IInv, IdsDiffer
  <1>8. ~At(r, "saved")
    BY DEF CreateTenantAdminUser, At
  <1> QED BY <1>1, <1>4, <1>5, <1>6, <1>7, <1>8, WorkStep DEF CreateTenantAdminUser

LEMMA ProvisionKeeps ==
  ASSUME IInv, NEW r \in Requests, Provision(r)
  PROVE  IInv'
  <1>1. /\ work[r] # Idle /\ work[r] \in Works /\ work[r].step = "admin"
        /\ WorkOK(work[r]) /\ work[r].id \in Tenants
    BY DEF IInv, TypeOK, AllWorkOK, Provision, At
  <1>2. work[r].opened = Both
    BY <1>1 DEF WorkOK, OpenedOK
  <1> DEFINE w == [work[r] EXCEPT !.step = "saved"]
  <1>3. work' = [work EXCEPT ![r] = w]
    BY DEF IInv, TypeOK, Provision
  <1>4. /\ w \in Works /\ w.step = "saved" /\ w.id = work[r].id /\ w.name = work[r].name
        /\ w.opened = Both /\ w.saw = work[r].saw
    BY <1>1, <1>2 DEF Works
  <1> HIDE DEF w
  <1>5. WorkOK(w)
    BY <1>1, <1>4, Tails DEF WorkOK, OpenedOK, Unsaved
  <1>6. \A q \in Requests : q # r /\ work[q] # Idle /\ w.id \in Tenants => work[q].id # w.id
    BY <1>1, <1>4 DEF IInv, IdsDiffer
  <1>7. ~At(r, "saved")
    BY DEF Provision, At
  <1> QED BY <1>1, <1>3, <1>4, <1>5, <1>6, <1>7, WorkStep DEF Provision

-----------------------------------------------------------------------------
(* Commits and ends *)

\* What a unit of work that is about to commit has yet to commit.
LEMMA Saved ==
  ASSUME IInv, NEW r \in Requests, At(r, "saved")
  PROVE  /\ work[r] # Idle /\ work[r] \in Works /\ WorkOK(work[r])
         /\ work[r].id \in Tenants
         /\ work[r].opened \in {Both, Rest, <<>>}
  <1>1. work[r] # Idle /\ work[r].step = "saved" /\ work[r] \in Works
    BY DEF IInv, TypeOK, At
  <1>2. WorkOK(work[r])
    BY <1>1 DEF IInv, AllWorkOK
  <1>3. work[r].id \in Tenants
    BY <1>1 DEF IInv, TypeOK
  <1> QED BY <1>1, <1>2, <1>3 DEF WorkOK, OpenedOK

\* The first commit: the tenant, its subscription and its invoice appear.
LEMMA CommitSaasKeeps ==
  ASSUME IInv, NEW r \in Requests, At(r, "saved"), work[r].opened # <<>>,
         Head(work[r].opened) = "saas",
         tenants' = [tenants EXCEPT ![work[r].id] =
           [name |-> work[r].name, deleted |-> FALSE, saw |-> work[r].saw]],
         subs' = [subs EXCEPT ![work[r].id] = IF OnTrial(work[r]) THEN "Trial" ELSE "Active"],
         invoices' = IF Invoiced(work[r]) THEN invoices \cup {work[r].id} ELSE invoices,
         work' = [work EXCEPT ![r].opened = Tail(@)],
         UNCHANGED <<users, edition, cut>>
  PROVE  IInv'
  <1>a. PICK id \in Tenants : id = work[r].id
    BY Saved
  <1> DEFINE row == [name |-> work[r].name, deleted |-> FALSE, saw |-> work[r].saw]
  <1>1. /\ work[r] # Idle /\ work[r] \in Works /\ WorkOK(work[r]) /\ id = work[r].id
        /\ work[r].opened = Both /\ work[r].step = "saved"
    BY <1>a, Saved, Tails DEF At
  <1>2. work' = [work EXCEPT ![r] = [work[r] EXCEPT !.opened = Rest]]
    BY <1>1, Tails DEF IInv, TypeOK
  <1>3. PICK w \in Works : w = [work[r] EXCEPT !.opened = Rest]
    BY <1>1, Tails DEF Works
  <1>b. /\ work' = [work EXCEPT ![r] = w]
        /\ w.step = "saved" /\ w.id = id /\ w.opened = Rest /\ w # Idle
    BY <1>1, <1>2, <1>3, Tails DEF Works, Idle
  <1>4. row \in TenantRows /\ row # None /\ ~row.deleted /\ row.saw = work[r].saw
        /\ row.name = work[r].name
    <2>1. row \in TenantRows
      BY <1>1 DEF Works, TenantRows
    <2> QED BY <2>1, Nulls
  <1>5. /\ ~Stored(id)
        /\ \A t \in row.saw : Stored(t) /\ (Visible(t) => tenants[t].name # row.name)
    BY <1>1, <1>4 DEF WorkOK, Unsaved
  <1> HIDE DEF row
  <1>6. /\ tenants \in [Tenants -> TenantRows \cup {None}] /\ tenants' = [tenants EXCEPT ![id] = row]
        /\ tenants'[id] = row /\ \A t \in Tenants : t # id => tenants'[t] = tenants[t]
    BY <1>1 DEF IInv, TypeOK, row
  <1>7. /\ Stored(id)' /\ Visible(id)'
        /\ \A t \in Tenants : t # id => (Stored(t)' <=> Stored(t)) /\ (Visible(t)' <=> Visible(t))
        /\ \A t \in Tenants : Stored(t) => t # id /\ Stored(t)'
    BY <1>4, <1>5, <1>6 DEF Stored, Visible
  <1>8. /\ work \in [Requests -> Works \cup {Idle}] /\ work'[r] = w
        /\ \A q \in Requests : q # r => work'[q] = work[q]
    BY <1>b DEF IInv, TypeOK
  <1>9. TypeOK'
    <2>1. tenants' \in [Tenants -> TenantRows \cup {None}]
      BY <1>4, <1>6
    <2>2. subs' \in [Tenants -> Statuses \cup {None}]
      BY DEF IInv, TypeOK, Statuses
    <2>3. invoices' \subseteq Tenants
      BY <1>1 DEF IInv, TypeOK
    <2>4. work' \in [Requests -> Works \cup {Idle}]
      BY <1>b, <1>8
    <2>5. \A q \in Requests : work'[q].step \notin {"idle", "edition"} => work'[q].id \in Tenants
      BY <1>1, <1>b, <1>8 DEF IInv, TypeOK
    <2> QED BY <2>1, <2>2, <2>3, <2>4, <2>5 DEF IInv, TypeOK
  <1>10. AllWorkOK'
    <2> SUFFICES ASSUME NEW q \in Requests, work'[q] # Idle
                 PROVE  WorkOK(work[q])'
      BY DEF AllWorkOK
    <2>1. CASE q = r
      <3>1. users'[id] = None
        BY <1>5 DEF IInv, NoOrphanedUsers
      <3>2. WorkOK(w)'
        BY <1>b, <1>7, <3>1, Tails DEF WorkOK, OpenedOK, Unsaved
      <3> QED BY <2>1, <3>2, <1>8
    <2>2. CASE q # r
      <3>1. PICK v \in Works : v = work[q] /\ v = work'[q] /\ v # Idle
        BY <1>8, <2>2
      <3>2. WorkOK(v)
        BY <1>8, <2>2, <3>1 DEF IInv, AllWorkOK
      <3>3. v.step # "edition" => v.id \in Tenants /\ v.id # id
        BY <1>1, <2>2, <3>1 DEF IInv, IdsDiffer, TypeOK, Works
      <3>4. v.saw \subseteq Tenants
        BY DEF Works
      <3>5. OpenedOK(v)' /\ (Unsaved(v)' <=> Unsaved(v))
        BY <3>2 DEF WorkOK, OpenedOK, Unsaved
      <3>6. Unsaved(v) => /\ ~Stored(v.id)'
                          /\ \A t \in v.saw : Stored(t)' /\ (Visible(t)' => tenants'[t].name # v.name)
        BY <1>6, <1>7, <3>2, <3>3, <3>4 DEF WorkOK, Unsaved
      <3>7. v.step = "saved" => (Stored(v.id)' <=> Stored(v.id))
        BY <1>7, <3>3
      <3>8. WorkOK(v)'
        BY <3>2, <3>5, <3>6, <3>7 DEF WorkOK
      <3> QED BY <3>1, <3>8
    <2> QED BY <2>1, <2>2
  <1>11. IdsDiffer'
    BY <1>1, <1>b, <1>8 DEF IInv, IdsDiffer
  <1>12. SawStored'
    <2> SUFFICES ASSUME NEW t \in Tenants, Stored(t)', NEW u \in tenants'[t].saw
                 PROVE  Stored(u)'
      BY DEF SawStored
    <2>1. CASE t = id
      <3>1. u \in row.saw /\ u \in Tenants
        BY <1>1, <1>4, <1>6, <2>1 DEF Works
      <3> QED BY <1>5, <1>7, <3>1
    <2>2. CASE t # id
      <3>1. Stored(t) /\ u \in tenants[t].saw
        BY <1>6, <1>7, <2>2
      <3>2. Stored(u) /\ u \in Tenants
        BY <3>1, SawInTenants DEF IInv, SawStored
      <3> QED BY <1>7, <3>2
    <2> QED BY <2>1, <2>2
  <1>13. NamesUniqueInSequence'
    <2> SUFFICES ASSUME NEW t \in Tenants, NEW u \in Tenants, t # u,
                        Visible(t)', Visible(u)', tenants'[t].name = tenants'[u].name
                 PROVE  t \notin tenants'[u].saw
      BY DEF NamesUniqueInSequence
    <2>1. CASE u = id
      BY <2>1, <1>4, <1>5, <1>6, <1>7
    <2>2. CASE u # id
      <3>1. Stored(u) /\ Visible(u) /\ tenants'[u] = tenants[u]
        BY <2>2, <1>6, <1>7 DEF Visible
      <3>2. CASE t = id
        BY <3>1, <3>2, <1>5 DEF IInv, SawStored
      <3>3. CASE t # id
        BY <3>1, <3>3, <1>6, <1>7 DEF IInv, NamesUniqueInSequence
      <3> QED BY <3>2, <3>3
    <2> QED BY <2>1, <2>2
  <1>14. CompleteTenants'
    <2> SUFFICES ASSUME NEW t \in Tenants, Stored(t)'
                 PROVE  /\ subs'[t] # None
                        /\ subs'[t] = "Active" => t \in invoices'
                        /\ \/ users'[t] # None
                           \/ t \in cut'
                           \/ \E q \in Requests : At(q, "saved")' /\ work'[q].id = t
      BY DEF CompleteTenants
    <2>1. CASE t = id
      <3>1. subs'[t] = IF OnTrial(work[r]) THEN "Trial" ELSE "Active"
        BY <1>1, <2>1 DEF IInv, TypeOK
      <3>2. subs'[t] # None
        BY <3>1, Nulls DEF Statuses
      <3>3. ~OnTrial(work[r]) => Invoiced(work[r])
        <4>1. work[r].trial = None \/ work[r].trial \in Nat
          BY <1>1, TrialsAssumption DEF Works
        <4> QED BY <4>1 DEF OnTrial, Invoiced
      <3>4. At(r, "saved")' /\ work'[r].id = t
        BY <1>b, <1>8, <2>1 DEF At
      <3> QED BY <2>1, <3>1, <3>2, <3>3, <3>4
    <2>2. CASE t # id
      <3>1. Stored(t) /\ subs'[t] = subs[t] /\ invoices \subseteq invoices' /\ (t \in invoices' => t \in invoices)
        BY <1>1, <2>2, <1>7 DEF IInv, TypeOK
      <3>2. \A q \in Requests : At(q, "saved") /\ work[q].id = t => At(q, "saved")' /\ work'[q].id = t
        BY <1>1, <1>b, <2>2, <1>8 DEF At
      <3> QED BY <3>1, <3>2 DEF IInv, CompleteTenants
    <2> QED BY <2>1, <2>2
  <1>15. NoOrphanedUsers' /\ BilledStored'
    BY <1>1, <1>7 DEF IInv, TypeOK, NoOrphanedUsers, BilledStored
  <1> QED BY <1>9, <1>10, <1>11, <1>12, <1>13, <1>14, <1>15 DEF IInv

\* The second commit: the administrator appears.
LEMMA CommitIdentityKeeps ==
  ASSUME IInv, NEW r \in Requests, At(r, "saved"), work[r].opened # <<>>,
         Head(work[r].opened) = "identity",
         users' = [users EXCEPT ![work[r].id] = work[r].admin],
         work' = [work EXCEPT ![r].opened = Tail(@)],
         UNCHANGED <<tenants, subs, invoices, edition, cut>>
  PROVE  IInv'
  <1>a. PICK id \in Tenants : id = work[r].id
    BY Saved
  <1>1. /\ work[r] # Idle /\ work[r] \in Works /\ WorkOK(work[r]) /\ id = work[r].id
        /\ work[r].opened = Rest /\ work[r].step = "saved" /\ work[r].admin \in Admins
    BY <1>a, Saved, Tails DEF At, Works
  <1>2. work' = [work EXCEPT ![r] = [work[r] EXCEPT !.opened = <<>>]]
    BY <1>1, Tails DEF IInv, TypeOK
  <1>3. PICK w \in Works : w = [work[r] EXCEPT !.opened = <<>>]
    BY <1>1, Tails DEF Works
  <1>4. /\ work' = [work EXCEPT ![r] = w]
        /\ w.step = "saved" /\ w.id = id /\ w.opened = <<>> /\ w # Idle
    BY <1>1, <1>2, <1>3, Tails DEF Works, Idle
  <1>5. Stored(id)
    BY <1>1 DEF WorkOK
  <1>6. /\ users' \in [Tenants -> Admins \cup {None}]
        /\ users'[id] # None
        /\ \A t \in Tenants : t # id => users'[t] = users[t]
    BY <1>1, Nulls DEF IInv, TypeOK
  <1>7. /\ work' \in [Requests -> Works \cup {Idle}] /\ work'[r] = w
        /\ \A q \in Requests : q # r => work'[q] = work[q]
    BY <1>3, <1>4 DEF IInv, TypeOK
  <1>8. \A t \in Tenants : users[t] # None => users'[t] # None
    BY <1>6
  <1>9. \A t : (Stored(t)' <=> Stored(t)) /\ (Visible(t)' <=> Visible(t))
    BY DEF Stored, Visible
  <1>10. TypeOK'
    <2>1. \A q \in Requests : work'[q].step \notin {"idle", "edition"} => work'[q].id \in Tenants
      BY <1>1, <1>4, <1>7 DEF IInv, TypeOK
    <2> QED BY <1>6, <1>7, <2>1 DEF IInv, TypeOK
  <1>11. AllWorkOK'
    <2> SUFFICES ASSUME NEW q \in Requests, work'[q] # Idle
                 PROVE  WorkOK(work[q])'
      BY DEF AllWorkOK
    <2>1. CASE q = r
      <3>1. WorkOK(w)'
        BY <1>4, <1>5, <1>6, <1>9, Tails DEF WorkOK, OpenedOK, Unsaved
      <3> QED BY <2>1, <3>1, <1>7
    <2>2. CASE q # r
      <3>1. PICK v \in Works : v = work[q] /\ v = work'[q] /\ v # Idle
        BY <1>7, <2>2
      <3>2. WorkOK(v) /\ (v.step = "saved" => v.id \in Tenants)
        BY <1>7, <2>2, <3>1 DEF IInv, AllWorkOK, TypeOK
      <3>3. OpenedOK(v)' /\ (Unsaved(v)' <=> Unsaved(v))
        BY <3>2 DEF WorkOK, OpenedOK, Unsaved
      <3>4. v.step = "saved" => v.id # id
        BY <1>1, <2>2, <3>1, <3>2 DEF IInv, IdsDiffer
      <3>5. v.step = "saved" => users'[v.id] = users[v.id]
        BY <1>6, <3>2, <3>4
      <3>6. WorkOK(v)'
        BY <1>9, <3>2, <3>3, <3>5 DEF WorkOK
      <3> QED BY <3>1, <3>6
    <2> QED BY <2>1, <2>2
  <1>12. IdsDiffer'
    BY <1>1, <1>4, <1>7 DEF IInv, IdsDiffer
  <1>13. SawStored' /\ BilledStored' /\ NamesUniqueInSequence'
    BY DEF IInv, SawStored, BilledStored, NamesUniqueInSequence, Stored, Visible
  <1>14. CompleteTenants'
    <2>1. \A q \in Requests, t \in Tenants :
            At(q, "saved") /\ work[q].id = t => At(q, "saved")' /\ work'[q].id = t
      BY <1>1, <1>4, <1>7 DEF At
    <2> QED BY <1>8, <1>9, <2>1 DEF IInv, CompleteTenants
  <1>15. NoOrphanedUsers'
    BY <1>5, <1>6, <1>9 DEF IInv, NoOrphanedUsers
  <1> QED BY <1>10, <1>11, <1>12, <1>13, <1>14, <1>15 DEF IInv

LEMMA CommitOneKeeps ==
  ASSUME IInv, NEW r \in Requests, CommitOne(r)
  PROVE  IInv'
  <1>1. CASE Head(work[r].opened) = "saas"
    BY <1>1, CommitSaasKeeps DEF CommitOne
  <1>2. CASE Head(work[r].opened) = "identity"
    BY <1>2, CommitIdentityKeeps DEF CommitOne
  <1> QED BY <1>1, <1>2 DEF CommitOne

\* A request that ends leaves a tenant that is complete, or one of the cut.
LEMMA EndKeeps ==
  ASSUME IInv, NEW r \in Requests,
         work' = [work EXCEPT ![r] = Idle],
         UNCHANGED <<edition, tenants, subs, invoices, users>>,
         cut \subseteq cut', cut' \subseteq Tenants,
         At(r, "saved") /\ Stored(work[r].id) =>
           users[work[r].id] # None \/ work[r].id \in cut'
  PROVE  IInv'
  <1>1. /\ work \in [Requests -> Works \cup {Idle}] /\ work'[r] = Idle
        /\ \A q \in Requests : q # r => work'[q] = work[q]
    BY DEF IInv, TypeOK
  <1>2. TypeOK'
    <2>1. work' \in [Requests -> Works \cup {Idle}]
      BY <1>1
    <2>2. \A q \in Requests : work'[q].step \notin {"idle", "edition"} => work'[q].id \in Tenants
      BY <1>1 DEF IInv, TypeOK, Idle
    <2> QED BY <2>1, <2>2 DEF IInv, TypeOK
  <1>3. AllWorkOK'
    <2>1. \A v : WorkOK(v) => WorkOK(v)'
      BY DEF WorkOK, Stored, Visible
    <2> QED BY <1>1, <2>1 DEF IInv, AllWorkOK
  <1>4. IdsDiffer'
    BY <1>1 DEF IInv, IdsDiffer
  <1>5. SawStored' /\ BilledStored' /\ NamesUniqueInSequence' /\ NoOrphanedUsers'
    BY DEF IInv, SawStored, BilledStored, NamesUniqueInSequence, NoOrphanedUsers,
           Stored, Visible
  <1>6. CompleteTenants'
    <2>1. \A q \in Requests : q # r => (At(q, "saved")' <=> At(q, "saved")) /\ work'[q] = work[q]
      BY <1>1 DEF At
    <2>2. \A t : Stored(t)' <=> Stored(t)
      BY DEF Stored
    <2> QED BY <2>1, <2>2 DEF IInv, CompleteTenants
  <1> QED BY <1>2, <1>3, <1>4, <1>5, <1>6 DEF IInv

LEMMA AnswerKeeps ==
  ASSUME IInv, NEW r \in Requests, Answer(r)
  PROVE  IInv'
  <1>1. users[work[r].id] # None
    BY Saved, Tails DEF Answer, At, WorkOK
  <1>2. cut \subseteq Tenants
    BY DEF IInv, TypeOK
  <1> QED BY <1>1, <1>2, EndKeeps DEF Answer

LEMMA AbortKeeps ==
  ASSUME IInv, NEW r \in Requests, Abort(r)
  PROVE  IInv'
  <1>1. cut \subseteq cut' /\ cut' \subseteq Tenants
    BY Saved DEF Abort, IInv, TypeOK
  <1>2. ASSUME At(r, "saved"), Stored(work[r].id)
        PROVE  users[work[r].id] # None \/ work[r].id \in cut'
    <2>1. work[r].step = "saved" /\ WorkOK(work[r]) /\ work[r].opened \in {Both, Rest, <<>>}
      BY <1>2, Saved DEF At
    <2>2. work[r].opened # Both
      BY <1>2, <2>1 DEF WorkOK, Unsaved
    <2>3. CASE work[r].opened = Rest
      BY <1>2, <2>3, Tails DEF Abort
    <2>4. CASE work[r].opened = <<>>
      BY <2>1, <2>4 DEF WorkOK
    <2> QED BY <2>1, <2>2, <2>3, <2>4
  <1> QED BY <1>1, <1>2, EndKeeps DEF Abort

-----------------------------------------------------------------------------
(* Host administration *)

LEMMA UpdateEditionKeeps ==
  ASSUME IInv, UpdateEdition
  PROVE  IInv'
  <1>1. TypeOK'
    BY DEF IInv, TypeOK, UpdateEdition
  <1>2. \A v : WorkOK(v) => WorkOK(v)'
    BY DEF UpdateEdition, WorkOK, Stored, Visible
  <1>3. AllWorkOK' /\ IdsDiffer'
    BY <1>2 DEF IInv, UpdateEdition, AllWorkOK, IdsDiffer
  <1>4. /\ SawStored' /\ BilledStored' /\ NamesUniqueInSequence'
        /\ NoOrphanedUsers' /\ CompleteTenants'
    BY DEF IInv, UpdateEdition, SawStored, BilledStored, NamesUniqueInSequence, NoOrphanedUsers,
           CompleteTenants, At, Stored, Visible
  <1> QED BY <1>1, <1>3, <1>4 DEF IInv

LEMMA DeactivateTenantKeeps ==
  ASSUME IInv, NEW id \in Tenants, DeactivateTenant(id)
  PROVE  IInv'
  <1> DEFINE row == [tenants[id] EXCEPT !.deleted = TRUE]
  <1>1. Stored(id) /\ tenants[id] \in TenantRows
    BY DEF DeactivateTenant, Visible, Stored, IInv, TypeOK
  <1>2. row \in TenantRows /\ row.deleted /\ row.saw = tenants[id].saw
    BY <1>1 DEF TenantRows
  <1>3. /\ tenants' \in [Tenants -> TenantRows \cup {None}] /\ tenants'[id] = row
        /\ \A t \in Tenants : t # id => tenants'[t] = tenants[t]
    BY <1>2 DEF DeactivateTenant, IInv, TypeOK
  <1> HIDE DEF row
  <1>4. \A t \in Tenants :
          /\ Stored(t)' <=> Stored(t)
          /\ Visible(t)' => Visible(t) /\ t # id /\ tenants'[t] = tenants[t]
          /\ Stored(t) => tenants'[t].saw = tenants[t].saw
    BY <1>1, <1>2, <1>3, Nulls DEF Stored, Visible
  <1>5. TypeOK'
    BY <1>3 DEF DeactivateTenant, IInv, TypeOK
  <1>6. AllWorkOK'
    <2> SUFFICES ASSUME NEW q \in Requests, work[q] # Idle
                 PROVE  WorkOK(work[q])'
      BY DEF AllWorkOK, DeactivateTenant
    <2>1. PICK v \in Works : v = work[q] /\ v = work'[q]
      BY DEF IInv, TypeOK, DeactivateTenant
    <2>2. WorkOK(v) /\ (v.step # "edition" => v.id \in Tenants) /\ v.saw \subseteq Tenants
      BY <2>1 DEF IInv, AllWorkOK, TypeOK, Works
    <2>3. OpenedOK(v)' /\ (Unsaved(v)' <=> Unsaved(v))
      BY <2>2 DEF WorkOK, OpenedOK, Unsaved
    <2>4. Unsaved(v) => /\ ~Stored(v.id)'
                        /\ \A t \in v.saw : Stored(t)' /\ (Visible(t)' => tenants'[t].name # v.name)
      BY <1>4, <2>2 DEF WorkOK, Unsaved
    <2>5. v.step = "saved" => (Stored(v.id)' <=> Stored(v.id))
      BY <1>4, <2>2
    <2>6. WorkOK(v)'
      BY <2>2, <2>3, <2>4, <2>5 DEF WorkOK, DeactivateTenant
    <2> QED BY <2>1, <2>6
  <1>7. IdsDiffer'
    BY DEF IInv, IdsDiffer, DeactivateTenant
  <1>8. SawStored' /\ BilledStored'
    BY <1>4, SawInTenants DEF IInv, TypeOK, SawStored, BilledStored, DeactivateTenant
  <1>9. NamesUniqueInSequence'
    BY <1>4 DEF IInv, NamesUniqueInSequence
  <1>10. CompleteTenants' /\ NoOrphanedUsers'
    BY <1>4 DEF IInv, CompleteTenants, NoOrphanedUsers, At, DeactivateTenant
  <1> QED BY <1>5, <1>6, <1>7, <1>8, <1>9, <1>10 DEF IInv

LEMMA StutterKeeps ==
  ASSUME IInv, UNCHANGED vars
  PROVE  IInv'
  <1>1. \A v : WorkOK(v) => WorkOK(v)'
    BY DEF vars, WorkOK, Stored, Visible
  <1>2. AllWorkOK' /\ IdsDiffer' /\ TypeOK'
    BY <1>1 DEF IInv, vars, AllWorkOK, IdsDiffer, TypeOK
  <1>3. /\ SawStored' /\ BilledStored' /\ NamesUniqueInSequence'
        /\ NoOrphanedUsers' /\ CompleteTenants'
    BY DEF IInv, vars, SawStored, BilledStored, NamesUniqueInSequence, NoOrphanedUsers,
           CompleteTenants, At, Stored, Visible
  <1> QED BY <1>2, <1>3 DEF IInv

-----------------------------------------------------------------------------
(* The theorems *)

LEMMA InitKeeps == Init => IInv
  <1> SUFFICES ASSUME Init PROVE IInv
    OBVIOUS
  <1>1. \A t \in Tenants : ~Stored(t) /\ users[t] = None
    BY DEF Init, Stored
  <1>2. \A r \in Requests : work[r] = Idle
    BY DEF Init
  <1>3. TypeOK
    BY <1>2 DEF Init, TypeOK, Idle
  <1>4. BilledStored
    BY DEF Init, BilledStored
  <1> QED BY <1>1, <1>2, <1>3, <1>4 DEF IInv, AllWorkOK, IdsDiffer, SawStored,
        NamesUniqueInSequence, CompleteTenants, NoOrphanedUsers, Visible

LEMMA NextKeeps == IInv /\ [Next]_vars => IInv'
  <1> SUFFICES ASSUME IInv, [Next]_vars PROVE IInv'
    OBVIOUS
  <1>1. ASSUME NEW r \in Requests, ProvisionTenant(r) PROVE IInv'
    BY <1>1, ReadEditionKeeps, CreateTenantKeeps, CreateTenantAdminUserKeeps,
       ProvisionKeeps, CommitOneKeeps, AnswerKeeps, AbortKeeps DEF ProvisionTenant
  <1>2. CASE UpdateEdition
    BY <1>2, UpdateEditionKeeps
  <1>3. ASSUME NEW id \in Tenants, DeactivateTenant(id) PROVE IInv'
    BY <1>3, DeactivateTenantKeeps
  <1>4. ASSUME NEW id \in Tenants, ActivateTenant(id) PROVE IInv'
    BY <1>4, StutterKeeps DEF ActivateTenant
  <1>5. CASE UNCHANGED vars
    BY <1>5, StutterKeeps
  <1> QED BY <1>1, <1>2, <1>3, <1>4, <1>5 DEF Next

\* What holds of every reachable state of the tenants in the making.
THEOREM Invariance == Spec => []IInv
  BY InitKeeps, NextKeeps, PTL DEF Spec

\* The rows and the units of work have their types, and a tenant in the
\* making has its identifier.
THEOREM TypeCorrect == Spec => []TypeOK
  <1>1. IInv => TypeOK
    BY DEF IInv
  <1> QED BY <1>1, Invariance, PTL

\* Two tenants in use share a name only if each was checked before the other
\* was stored.
THEOREM NamesUnique == Spec => []NamesUniqueInSequence
  <1>1. IInv => NamesUniqueInSequence
    BY DEF IInv
  <1> QED BY <1>1, Invariance, PTL

\* A stored tenant has its subscription and its invoice, and its administrator
\* unless the two commits were cut.
THEOREM Complete == Spec => []CompleteTenants
  <1>1. IInv => CompleteTenants
    BY DEF IInv
  <1> QED BY <1>1, Invariance, PTL

\* No administrator without its tenant, whatever fails.
THEOREM NoOrphans == Spec => []NoOrphanedUsers
  <1>1. IInv => NoOrphanedUsers
    BY DEF IInv
  <1> QED BY <1>1, Invariance, PTL

-----------------------------------------------------------------------------
(* The registry *)

\* What the registry shows of one tenant.
LEMMA Shown ==
  ASSUME IInv, NEW t \in Tenants
  PROVE  /\ Seen[t] = View(t)
         /\ ~Stored(t) => Seen[t] = None
         /\ Stored(t) =>
              /\ Seen[t] # None
              /\ Seen[t] = [name |-> tenants[t].name, plan |-> subs[t],
                            invoiced |-> t \in invoices, administrator |-> users[t],
                            deactivated |-> tenants[t].deleted]
  <1>1. Seen[t] = View(t)
    BY DEF Seen
  <1>2. CASE Stored(t)
    <2>1. tenants[t] \in TenantRows /\ subs[t] \in Statuses /\ users[t] \in Admins \cup {None}
      BY <1>2 DEF IInv, TypeOK, CompleteTenants, Stored
    <2>2. View(t) = [name |-> tenants[t].name, plan |-> subs[t],
                     invoiced |-> t \in invoices, administrator |-> users[t],
                     deactivated |-> tenants[t].deleted]
      BY <1>2 DEF View, Stored
    <2>3. View(t) \in Registry!Rows
      BY <2>1, <2>2 DEF Registry!Rows, Registry!Plans, Registry!Administrators,
                        TenantRows, Statuses, Admins
    <2> QED BY <1>1, <1>2, <2>2, <2>3, NoRegistryRowAssumption
  <1>3. CASE ~Stored(t)
    BY <1>1, <1>3 DEF View, Stored
  <1> QED BY <1>1, <1>2, <1>3

\* A step that concerns one tenant.
LEMMA OneTenant ==
  ASSUME NEW id \in Tenants, NEW row, View(id)' = row,
         \A t \in Tenants : t # id => View(t)' = View(t)
  PROVE  Registry!Becomes(id, row) /\ Seen'[id] = row
  BY DEF Seen, Registry!Becomes

\* The first commit opens the tenant.
LEMMA CommitSaasOpens ==
  ASSUME IInv, IInv', NEW r \in Requests, At(r, "saved"), work[r].opened # <<>>,
         Head(work[r].opened) = "saas",
         tenants' = [tenants EXCEPT ![work[r].id] =
           [name |-> work[r].name, deleted |-> FALSE, saw |-> work[r].saw]],
         subs' = [subs EXCEPT ![work[r].id] = IF OnTrial(work[r]) THEN "Trial" ELSE "Active"],
         invoices' = IF Invoiced(work[r]) THEN invoices \cup {work[r].id} ELSE invoices,
         UNCHANGED users
  PROVE  Registry!Next
  <1>1. /\ work[r] \in Works /\ WorkOK(work[r]) /\ work[r].id \in Tenants
        /\ work[r].opened = Both /\ work[r].step = "saved"
    BY Saved, Tails DEF At
  <1>2. PICK id \in Tenants : id = work[r].id
    BY <1>1
  <1>3. ~Stored(id) /\ users[id] = None /\ id \notin invoices
    BY <1>1, <1>2 DEF WorkOK, Unsaved, IInv, NoOrphanedUsers, BilledStored
  <1>4. PICK name \in Names : name = work[r].name
    BY <1>1 DEF Works
  <1>5. PICK plan \in Registry!Plans : plan = IF OnTrial(work[r]) THEN "Trial" ELSE "Active"
    BY DEF Registry!Plans
  <1>6. Invoiced(work[r]) <=> plan = "Active"
    <2>1. work[r].trial = None \/ work[r].trial \in Nat
      BY <1>1, TrialsAssumption DEF Works
    <2> QED BY <1>5, <2>1, TrialsAssumption DEF OnTrial, Invoiced
  <1>7. /\ tenants'[id].name = name /\ tenants'[id].deleted = FALSE
        /\ subs'[id] = plan /\ users'[id] = None
        /\ (id \in invoices') = (plan = "Active")
        /\ tenants'[id] # None
    <2>1. PICK new : new = [name |-> name, deleted |-> FALSE, saw |-> work[r].saw]
      OBVIOUS
    <2>2. new \in TenantRows /\ new # None /\ new.name = name /\ new.deleted = FALSE
      <3>1. work[r].saw \subseteq Tenants
        BY <1>1 DEF Works
      <3>2. new \in TenantRows
        BY <2>1, <3>1 DEF TenantRows
      <3> QED BY <2>1, <3>2, Nulls
    <2>3. tenants'[id] = new
      BY <1>2, <1>4, <2>1 DEF IInv, TypeOK
    <2>4. subs'[id] = plan
      BY <1>2, <1>5 DEF IInv, TypeOK
    <2>5. (id \in invoices') = (plan = "Active")
      BY <1>2, <1>3, <1>6
    <2> QED BY <1>3, <2>2, <2>3, <2>4, <2>5
  <1>8. PICK row : row = [name |-> name, plan |-> plan, invoiced |-> plan = "Active",
                          administrator |-> None, deactivated |-> FALSE]
    OBVIOUS
  <1>9. View(id)' = row
    BY <1>7, <1>8 DEF View
  <1>10. \A t \in Tenants : t # id => View(t)' = View(t)
    <2> SUFFICES ASSUME NEW t \in Tenants, t # id PROVE View(t)' = View(t)
      OBVIOUS
    <2>1. tenants'[t] = tenants[t] /\ subs'[t] = subs[t] /\ users'[t] = users[t]
      BY <1>2 DEF IInv, TypeOK
    <2>2. (t \in invoices') = (t \in invoices)
      BY <1>2
    <2> QED BY <2>1, <2>2 DEF View
  <1>11. Registry!Becomes(id, row) /\ Seen'[id] = row
    BY <1>9, <1>10, OneTenant
  <1>12. Seen[id] = None /\ row # None
    <2>1. Seen[id] = None
      BY <1>3, Shown
    <2>2. row \in Registry!Rows
      BY <1>8 DEF Registry!Rows
    <2> QED BY <2>1, <2>2, NoRegistryRowAssumption
  <1>13. Registry!Open(id)
    BY <1>8, <1>11, <1>12 DEF Registry!Open
  <1> QED BY <1>11, <1>12, <1>13 DEF Registry!Next

\* The second commit appoints the administrator.
LEMMA CommitIdentityAppoints ==
  ASSUME IInv, IInv', NEW r \in Requests, At(r, "saved"), work[r].opened # <<>>,
         Head(work[r].opened) = "identity",
         users' = [users EXCEPT ![work[r].id] = work[r].admin],
         UNCHANGED <<tenants, subs, invoices>>
  PROVE  Registry!Next
  <1>1. /\ work[r] \in Works /\ WorkOK(work[r]) /\ work[r].id \in Tenants
        /\ work[r].opened = Rest /\ work[r].step = "saved"
    BY Saved, Tails DEF At
  <1>2. PICK id \in Tenants : id = work[r].id
    BY <1>1
  <1>3. Stored(id) /\ users[id] = None
    BY <1>1, <1>2 DEF WorkOK
  <1>4. PICK who \in Registry!Administrators : who = work[r].admin /\ who # None
    BY <1>1, Nulls DEF Works, Admins, Registry!Administrators
  <1>5. users'[id] = who /\ \A t \in Tenants : t # id => users'[t] = users[t]
    BY <1>2, <1>4 DEF IInv, TypeOK
  <1>6. Seen[id] = [name |-> tenants[id].name, plan |-> subs[id],
                    invoiced |-> id \in invoices, administrator |-> None,
                    deactivated |-> tenants[id].deleted]
    BY <1>3, Shown
  <1>7. PICK row : row = [Seen[id] EXCEPT !.administrator = who]
    OBVIOUS
  <1>8. row = [name |-> tenants[id].name, plan |-> subs[id],
               invoiced |-> id \in invoices, administrator |-> who,
               deactivated |-> tenants[id].deleted]
    BY <1>6, <1>7
  <1>9. View(id)' = row
    BY <1>3, <1>5, <1>8 DEF View, Stored
  <1>10. \A t \in Tenants : t # id => View(t)' = View(t)
    BY <1>5 DEF View
  <1>11. Registry!Becomes(id, row) /\ Seen'[id] = row
    BY <1>9, <1>10, OneTenant
  <1>12. Seen[id] # None /\ Seen[id].administrator = None /\ row.administrator = who
    BY <1>3, <1>6, <1>8, Shown
  <1>13. Registry!Appoint(id)
    BY <1>7, <1>11, <1>12 DEF Registry!Appoint
  <1>14. Seen'[id] # Seen[id]
    BY <1>4, <1>11, <1>12
  <1> QED BY <1>13, <1>14 DEF Registry!Next

LEMMA DeactivateRefines ==
  ASSUME IInv, NEW id \in Tenants, DeactivateTenant(id)
  PROVE  Registry!Next
  <1>1. Stored(id) /\ tenants[id].deleted = FALSE
    BY DEF DeactivateTenant, Visible, Stored, IInv, TypeOK, TenantRows
  <1>2. /\ tenants'[id] = [tenants[id] EXCEPT !.deleted = TRUE]
        /\ \A t \in Tenants : t # id => tenants'[t] = tenants[t]
        /\ UNCHANGED <<subs, invoices, users>>
    BY DEF DeactivateTenant, IInv, TypeOK
  <1>3. /\ tenants'[id].name = tenants[id].name /\ tenants'[id].deleted = TRUE
        /\ tenants'[id] # None
    <2>1. tenants[id] \in TenantRows
      BY <1>1 DEF IInv, TypeOK, Stored
    <2>2. tenants'[id] \in TenantRows
      BY <1>2, <2>1 DEF TenantRows
    <2> QED BY <1>2, <2>1, <2>2, Nulls DEF TenantRows
  <1>4. /\ Seen[id] # None
        /\ Seen[id] = [name |-> tenants[id].name, plan |-> subs[id],
                       invoiced |-> id \in invoices, administrator |-> users[id],
                       deactivated |-> FALSE]
    BY <1>1, Shown
  <1>5. PICK row : row = [Seen[id] EXCEPT !.deactivated = TRUE]
    OBVIOUS
  <1>6. row = [name |-> tenants[id].name, plan |-> subs[id],
               invoiced |-> id \in invoices, administrator |-> users[id],
               deactivated |-> TRUE]
    <2>1. PICK name, plan, has, who :
            /\ name = tenants[id].name /\ plan = subs[id] /\ who = users[id]
            /\ has = (id \in invoices)
      OBVIOUS
    <2>2. PICK yes, no : yes = TRUE /\ no = FALSE
      OBVIOUS
    <2>3. Seen[id] = [name |-> name, plan |-> plan, invoiced |-> has,
                      administrator |-> who, deactivated |-> no]
      BY <1>4, <2>1, <2>2
    <2>4. row = [Seen[id] EXCEPT !.deactivated = yes]
      BY <1>5, <2>2
    <2>5. row = [name |-> name, plan |-> plan, invoiced |-> has,
                 administrator |-> who, deactivated |-> yes]
      BY <2>3, <2>4
    <2> QED BY <2>1, <2>2, <2>5
  <1>7. View(id)' = row
    BY <1>2, <1>3, <1>6 DEF View
  <1>8. \A t \in Tenants : t # id => View(t)' = View(t)
    BY <1>2 DEF View
  <1>9. Registry!Becomes(id, row) /\ Seen'[id] = row
    BY <1>7, <1>8, OneTenant
  <1>10. Registry!Deactivate(id)
    BY <1>4, <1>5, <1>9 DEF Registry!Deactivate
  <1>11. Seen'[id] # Seen[id]
    <2>1. row.deactivated = TRUE /\ Seen[id].deactivated = FALSE
      BY <1>4, <1>6
    <2> QED BY <1>9, <2>1
  <1> QED BY <1>10, <1>11 DEF Registry!Next

\* What does not touch the rows is no step of the registry.
LEMMA UnchangedRows ==
  ASSUME UNCHANGED <<tenants, subs, invoices, users>>
  PROVE  UNCHANGED Seen
  BY DEF Seen, View

\* Provisioning implements the registry, for any number of requests that fail or
\* stop anywhere between their steps and their two commits.
THEOREM RegistryImplemented == Spec => ImplementsRegistry
  <1>1. Init => Registry!Init
    BY DEF Init, Registry!Init, Seen, View
  <1>2. IInv /\ IInv' /\ [Next]_vars => [Registry!Next]_Seen
    <2> SUFFICES ASSUME IInv, IInv', [Next]_vars
                 PROVE  Registry!Next \/ UNCHANGED Seen
      OBVIOUS
    <2>1. ASSUME NEW r \in Requests, CommitOne(r) PROVE Registry!Next
      <3>1. CASE Head(work[r].opened) = "saas"
        BY <2>1, <3>1, CommitSaasOpens DEF CommitOne
      <3>2. CASE Head(work[r].opened) = "identity"
        BY <2>1, <3>2, CommitIdentityAppoints DEF CommitOne
      <3> QED BY <2>1, <3>1, <3>2 DEF CommitOne
    <2>2. ASSUME NEW r \in Requests, ProvisionTenant(r), ~CommitOne(r) PROVE UNCHANGED Seen
      BY <2>2, UnchangedRows
         DEF ProvisionTenant, ReadEdition, CreateTenant, CreateTenantAdminUser,
             Provision, Answer, Abort
    <2>3. ASSUME NEW id \in Tenants, DeactivateTenant(id) PROVE Registry!Next
      BY <2>3, DeactivateRefines
    <2>4. CASE UpdateEdition \/ (\E id \in Tenants : ActivateTenant(id)) \/ UNCHANGED vars
      BY <2>4, UnchangedRows DEF UpdateEdition, ActivateTenant, vars
    <2> QED BY <2>1, <2>2, <2>3, <2>4 DEF Next
  <1> QED BY <1>1, <1>2, Invariance, PTL DEF Spec, ImplementsRegistry, Registry!Spec

=============================================================================
