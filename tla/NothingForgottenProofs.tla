------------------------ MODULE NothingForgottenProofs ------------------------
(***************************************************************************)
(* Proof that no owner's database is forgotten, for any number of services, *)
(* consumers, tenants, databases, tries and stops, whichever calls throw,  *)
(* and while connection strings move.                                      *)
(***************************************************************************)
EXTENDS DatabaseMigrationsProofs

-----------------------------------------------------------------------------
(* The strengthened invariant *)

\* A consumer is at a step from which it brings the owner's database, where it
\* is now, up to date and seeds it, or publishes the event again.
Attends(w, o) ==
  /\ Busy(w)
  /\ worker[w].event.owner = o
  /\ \/ worker[w].step \in {"find", "pending", "failed"}
     \/ /\ worker[w].step = "migrate"
        /\ worker[w].database = DatabaseOf(ServiceOf[w], o)
     \/ /\ worker[w].step = "seed"
        /\ UpToDate(ServiceOf[w], o)

\* An owner's database is as it should be or given up, or somebody is on the
\* way to it.
Attended(s, o) ==
  \/ UpToDate(s, o) /\ Seeded(s, o)
  \/ <<s, o>> \in givenUp
  \/ \E e \in BagToSet(inbox[s]) : e.owner = o
  \/ \E w \in Workers : ServiceOf[w] = s /\ Attends(w, o)

NInv ==
  \A s \in Services, o \in Owners :
    Concerned(s, o) /\ ~Removed(s, o) => Attended(s, o)

\* A step that removes no string of the tenant that the service uses.
KeepsStrings(s, o) ==
  \A u \in Updates :
    UpdateConnectionString(u) /\ u.tenant = o /\ u.name \in {s, Default} =>
      u.value # None

\* A service without a schema in tenants' databases looks after the host only.
InCharge(s, o) == s \in HostOnly => o = Host

-----------------------------------------------------------------------------
(* Facts that every step uses *)

\* Removing an element of a bag keeps the others.
LEMMA BagRemoveKeeps ==
  ASSUME NEW B, IsABag(B), NEW x, NEW y \in BagToSet(B), y # x
  PROVE  y \in BagToSet(BagRemove(B, x))
BY DEF IsABag, BagRemove, BagToSet

\* A published event reaches every service that handles it, and takes the place
\* of no other.
LEMMA DeliveredKeeps ==
  ASSUME NEW box, InboxOK(box), NEW e, NEW s \in Services
  PROVE  /\ BagToSet(box[s]) \subseteq BagToSet(Delivered(box, e)[s])
         /\ Handles(s, e) => e \in BagToSet(Delivered(box, e)[s])
<1>1. IsABag(box[s])
  BY DEF InboxOK
<1>2. BagToSet(BagAdd(box[s], e)) = BagToSet(box[s]) \cup {e}
  BY <1>1, BagAddAdds
<1>3. Delivered(box, e)[s] = IF Handles(s, e) THEN BagAdd(box[s], e) ELSE box[s]
  BY DEF Delivered
<1>4. QED
  BY <1>2, <1>3

\* An owner stays in its database while its strings that the service uses stay.
LEMMA DatabaseStays ==
  ASSUME NEW s, NEW o,
         o # Host => /\ strings'[o][s] = strings[o][s]
                     /\ strings'[o][Default] = strings[o][Default]
  PROVE  DatabaseOf(s, o)' = DatabaseOf(s, o) /\ HasDatabase(s, o)' = HasDatabase(s, o)
BY DEF DatabaseOf, HasDatabase

\* What was done to a database stays done.
LEMMA DoneStays ==
  ASSUME NEW s, NEW o,
         o # Host => /\ strings'[o][s] = strings[o][s]
                     /\ strings'[o][Default] = strings[o][Default],
         migrated \subseteq migrated', seeded \subseteq seeded'
  PROVE  /\ UpToDate(s, o) => UpToDate(s, o)'
         /\ Seeded(s, o) => Seeded(s, o)'
<1>1. DatabaseOf(s, o)' = DatabaseOf(s, o) /\ HasDatabase(s, o)' = HasDatabase(s, o)
  BY DatabaseStays
<1>2. QED
  BY <1>1 DEF UpToDate, Seeded

\* A consumer whose record stays goes on attending to the owner.
LEMMA AttendsStays ==
  ASSUME NEW v \in Workers, NEW o, Attends(v, o), worker'[v] = worker[v],
         o # Host => /\ strings'[o][ServiceOf[v]] = strings[o][ServiceOf[v]]
                     /\ strings'[o][Default] = strings[o][Default],
         migrated \subseteq migrated', seeded \subseteq seeded'
  PROVE  Attends(v, o)'
<1>1. DatabaseOf(ServiceOf[v], o)' = DatabaseOf(ServiceOf[v], o)
  BY DatabaseStays
<1>2. UpToDate(ServiceOf[v], o) => UpToDate(ServiceOf[v], o)'
  BY DoneStays
<1>3. QED
  BY <1>1, <1>2 DEF Attends, Busy

\* A step of one consumer leaves no owner behind, when the events that it takes
\* away and the owner that it attended to are not left behind.
LEMMA Hands ==
  ASSUME NEW w \in Workers, NEW s \in Services, NEW o \in Owners, Attended(s, o),
         \A v \in Workers \ {w} : worker'[v] = worker[v],
         UNCHANGED strings,
         migrated \subseteq migrated', seeded \subseteq seeded', givenUp \subseteq givenUp',
         \A e \in BagToSet(inbox[s]) : e.owner = o => Attended(s, o)',
         ServiceOf[w] = s /\ Attends(w, o) => Attended(s, o)'
  PROVE  Attended(s, o)'
<1>1. CASE UpToDate(s, o) /\ Seeded(s, o)
  BY <1>1, DoneStays DEF Attended
<1>2. CASE <<s, o>> \in givenUp
  BY <1>2 DEF Attended
<1>3. CASE \E e \in BagToSet(inbox[s]) : e.owner = o
  BY <1>3
<1>4. CASE \E v \in Workers : ServiceOf[v] = s /\ Attends(v, o)
  <2>1. PICK v \in Workers : ServiceOf[v] = s /\ Attends(v, o)
    BY <1>4
  <2>2. CASE v = w
    BY <2>1, <2>2
  <2>3. CASE v # w
    <3>1. Attends(v, o)'
      BY <2>1, <2>3, AttendsStays
    <3>2. QED
      BY <2>1, <3>1 DEF Attended
  <2>4. QED
    BY <2>2, <2>3
<1>5. QED
  BY <1>1, <1>2, <1>3, <1>4 DEF Attended

\* The same, of a step that leaves the events where they are.
LEMMA HandsAlone ==
  ASSUME NEW w \in Workers, NEW s \in Services, NEW o \in Owners, Attended(s, o),
         \A v \in Workers \ {w} : worker'[v] = worker[v],
         UNCHANGED <<inbox, strings>>,
         migrated \subseteq migrated', seeded \subseteq seeded', givenUp \subseteq givenUp',
         ServiceOf[w] = s /\ Attends(w, o) => Attended(s, o)'
  PROVE  Attended(s, o)'
<1>1. \A e \in BagToSet(inbox[s]) : e.owner = o => Attended(s, o)'
  BY DEF Attended
<1>2. QED
  BY <1>1, Hands

\* The call throws: the handler goes on to its catch.
LEMMA FailsAttends ==
  ASSUME IInv, NEW w \in Workers, Busy(w), Goto(w, "failed"),
         NEW s \in Services, NEW o \in Owners, Attended(s, o),
         UNCHANGED <<inbox, strings, migrated, seeded, givenUp>>
  PROVE  Attended(s, o)'
<1>1. PICK new \in Handlers :
        /\ worker' = [worker EXCEPT ![w] = new]
        /\ worker'[w] = new
        /\ new.event = worker[w].event /\ new.step = "failed"
  BY GotoRecord
<1>2. \A v \in Workers \ {w} : worker'[v] = worker[v]
  BY <1>1 DEF IInv, TypeOK
<1>3. Busy(w)'
  BY <1>1 DEF Busy, Handlers, Waiting
<1>4. ServiceOf[w] = s /\ Attends(w, o) => Attended(s, o)'
  BY <1>1, <1>3 DEF Attends, Attended
<1>5. QED
  BY <1>2, <1>4, HandsAlone

-----------------------------------------------------------------------------
(* The steps of a handler *)

LEMMA ReceiveAttends ==
  ASSUME IInv, NEW w \in Workers, NEW e, Receive(w, e),
         NEW s \in Services, NEW o \in Owners, Attended(s, o)
  PROVE  Attended(s, o)'
<1>1. /\ ServiceOf[w] \in Services
      /\ worker'[w].event = e /\ worker'[w].step \in {"find", "pending"}
      /\ \A v \in Workers \ {w} : worker'[v] = worker[v]
  BY BusyWorker DEF Receive, IInv, TypeOK
<1>2. Busy(w)'
  BY <1>1 DEF Busy, Waiting
<1>3. inbox'[s] = IF s = ServiceOf[w] THEN BagRemove(inbox[s], e) ELSE inbox[s]
  BY TypeParts DEF Receive, InboxOK, IInv
<1>4. ASSUME NEW f \in BagToSet(inbox[s]), f.owner = o
      PROVE  Attended(s, o)'
  <2>1. CASE s = ServiceOf[w] /\ f = e
    <3>1. Attends(w, o)'
      BY <1>1, <1>2, <1>4, <2>1 DEF Attends
    <3>2. QED
      BY <2>1, <3>1 DEF Attended
  <2>2. CASE s # ServiceOf[w] \/ f # e
    <3>1. IsABag(inbox[s])
      BY TypeParts DEF InboxOK, IInv
    <3>2. f \in BagToSet(inbox'[s])
      BY <1>3, <2>2, <3>1, BagRemoveKeeps
    <3>3. QED
      BY <1>4, <3>2 DEF Attended
  <2>3. QED
    BY <2>1, <2>2
<1>5. ~Attends(w, o)
  BY DEF Receive, Attends, Busy
<1>6. QED
  BY <1>1, <1>4, <1>5, Hands DEF Receive

\* A handler that finds no database of the owner's own goes on with an owner
\* whose database is up to date, for want of one.
LEMMA FindTenantAttends ==
  ASSUME IInv, NEW w \in Workers, FindTenant(w),
         NEW s \in Services, NEW o \in Owners, Attended(s, o)
  PROVE  Attended(s, o)'
<1> DEFINE r == ServiceOf[w]
           p == worker[w].event.owner
<1>1. Busy(w)
  BY BusyWorker DEF FindTenant, IInv
<1>2. CASE Fails(w, "find")
  BY <1>1, <1>2, FailsAttends DEF FindTenant, Fails
<1>3. ASSUME NEW step \in {"pending", "seed"}, Goto(w, step),
             step = "seed" => ~HasDatabase(r, p)
      PROVE  Attended(s, o)'
  <2>1. PICK new \in Handlers :
          /\ worker' = [worker EXCEPT ![w] = new]
          /\ worker'[w] = new
          /\ new.event = worker[w].event /\ new.step = step
    BY <1>1, <1>3, GotoRecord
  <2>2. \A v \in Workers \ {w} : worker'[v] = worker[v]
    BY <2>1 DEF IInv, TypeOK
  <2>3. Busy(w)'
    BY <2>1 DEF Busy, Handlers, Waiting
  <2>4. step = "seed" => UpToDate(r, p)'
    <3>1. HasDatabase(r, p)' = HasDatabase(r, p)
      BY DatabaseStays, <2>1 DEF FindTenant
    <3>2. QED
      BY <1>3, <3>1 DEF UpToDate
  <2>5. ASSUME r = s, Attends(w, o)
        PROVE  Attended(s, o)'
    <3>1. p = o
      BY <2>5 DEF Attends
    <3>2. Attends(w, o)'
      BY <1>3, <2>1, <2>3, <2>4, <3>1 DEF Attends
    <3>3. QED
      BY <2>5, <3>2 DEF Attended
  <2>6. QED
    BY <2>2, <2>5, HandsAlone DEF FindTenant
<1>4. QED
  BY <1>2, <1>3 DEF FindTenant

\* A handler that finds no migration pending goes on with a database that is up
\* to date.
LEMMA FindPendingAttends ==
  ASSUME IInv, NEW w \in Workers, FindPending(w),
         NEW s \in Services, NEW o \in Owners, Attended(s, o)
  PROVE  Attended(s, o)'
<1> DEFINE r == ServiceOf[w]
           p == worker[w].event.owner
           d == DatabaseOf(r, p)
           step == IF <<r, d>> \notin migrated THEN "migrate" ELSE "seed"
<1>1. Busy(w)
  BY BusyWorker DEF FindPending, IInv
<1>2. CASE Fails(w, "find")
  BY <1>1, <1>2, FailsAttends DEF FindPending, Fails
<1>3. CASE worker' = [worker EXCEPT ![w].database = d, ![w].step = step]
  <2>1. worker[w] \in Handlers
    BY <1>1, EventType
  <2>2. PICK new : new = [worker[w] EXCEPT !.database = d, !.step = step]
    OBVIOUS
  <2>3. /\ worker'[w] = new
        /\ \A v \in Workers \ {w} : worker'[v] = worker[v]
    BY <1>3, <2>2 DEF IInv, TypeOK
  <2>4. new.event = worker[w].event /\ new.database = d /\ new.step = step
    BY <2>1, <2>2 DEF Handlers
  <2>5. Busy(w)'
    BY <2>3, <2>4 DEF Busy, Waiting
  <2>6. d' = d /\ (UpToDate(r, p) => UpToDate(r, p)')
    BY <2>3, <2>4, DatabaseStays, DoneStays DEF FindPending
  <2>7. step = "seed" => UpToDate(r, p)
    BY DEF UpToDate
  <2>8. ASSUME r = s, Attends(w, o)
        PROVE  Attended(s, o)'
    <3>1. p = o
      BY <2>8 DEF Attends
    <3>2. Attends(w, o)'
      BY <2>3, <2>4, <2>5, <2>6, <2>7, <3>1 DEF Attends
    <3>3. QED
      BY <2>8, <3>2 DEF Attended
  <2>9. QED
    BY <2>3, <2>8, HandsAlone DEF FindPending
<1>4. QED
  BY <1>2, <1>3 DEF FindPending

\* A migration of the database where the owner is now makes it up to date.
LEMMA MigrateAttends ==
  ASSUME IInv, NEW w \in Workers, MigrateAsync(w),
         NEW s \in Services, NEW o \in Owners, Attended(s, o)
  PROVE  Attended(s, o)'
<1> DEFINE r == ServiceOf[w]
           d == worker[w].database
<1>1. Busy(w) /\ worker[w].step = "migrate" /\ worker[w] \in Handlers
  BY BusyWorker, EventType DEF MigrateAsync, IInv
<1>2. CASE UNCHANGED migrated /\ Fails(w, "migrate")
  BY <1>1, <1>2, FailsAttends DEF MigrateAsync, Fails
<1>3. CASE /\ migrated' = migrated \cup {<<r, d>>}
           /\ worker' = [worker EXCEPT ![w].step = "seed", ![w].result = TRUE]
  <2>1. PICK new : new = [worker[w] EXCEPT !.step = "seed", !.result = TRUE]
    OBVIOUS
  <2>2. /\ worker'[w] = new
        /\ \A v \in Workers \ {w} : worker'[v] = worker[v]
    BY <1>3, <2>1 DEF IInv, TypeOK
  <2>3. new.event = worker[w].event /\ new.step = "seed"
    BY <1>1, <2>1 DEF Handlers
  <2>4. Busy(w)'
    BY <2>2, <2>3 DEF Busy, Waiting
  <2>5. ASSUME r = s, Attends(w, o)
        PROVE  Attended(s, o)'
    <3>1. worker[w].event.owner = o /\ d = DatabaseOf(r, o)
      BY <1>1, <2>5 DEF Attends
    <3>2. DatabaseOf(r, o)' = DatabaseOf(r, o)
      BY DatabaseStays DEF MigrateAsync
    <3>3. UpToDate(r, o)'
      BY <1>3, <3>1, <3>2 DEF UpToDate
    <3>4. Attends(w, o)'
      BY <2>2, <2>3, <2>4, <3>1, <3>3 DEF Attends
    <3>5. QED
      BY <2>5, <3>4 DEF Attended
  <2>6. QED
    BY <1>3, <2>2, <2>5, HandsAlone DEF MigrateAsync
<1>4. QED
  BY <1>2, <1>3 DEF MigrateAsync

\* Seeding writes to the database where the owner is now.
LEMMA SeedAttends ==
  ASSUME IInv, NEW w \in Workers, SeedAsync(w),
         NEW s \in Services, NEW o \in Owners, Attended(s, o)
  PROVE  Attended(s, o)'
<1> DEFINE r == ServiceOf[w]
           p == worker[w].event.owner
<1>1. Busy(w) /\ worker[w].step = "seed"
  BY BusyWorker DEF SeedAsync, IInv
<1>2. CASE UNCHANGED seeded /\ Fails(w, "seed")
  BY <1>1, <1>2, FailsAttends DEF SeedAsync, Fails
<1>3. CASE /\ Goto(w, AfterSeeding(w))
           /\ seeded' = IF r \in Seeders THEN seeded \cup {<<r, p, DatabaseOf(r, p)>>}
                                         ELSE seeded
  <2>1. \A v \in Workers \ {w} : worker'[v] = worker[v]
    BY <1>3 DEF Goto, IInv, TypeOK
  <2>2. ASSUME r = s, Attends(w, o)
        PROVE  Attended(s, o)'
    <3>1. p = o /\ UpToDate(s, o)
      BY <1>1, <2>2 DEF Attends
    <3>2. UpToDate(s, o)'
      BY <1>3, <3>1, DoneStays DEF SeedAsync
    <3>3. DatabaseOf(s, o)' = DatabaseOf(s, o)
      BY DatabaseStays DEF SeedAsync
    <3>4. Seeded(s, o)'
      BY <1>3, <2>2, <3>1, <3>3 DEF Seeded
    <3>5. QED
      BY <3>2, <3>4 DEF Attended
  <2>3. QED
    BY <1>3, <2>1, <2>2, HandsAlone DEF SeedAsync
<1>4. QED
  BY <1>2, <1>3 DEF SeedAsync

\* The steps of a host's handler after its seeding attend to no owner.
LEMMA QueueingAttends ==
  ASSUME IInv, NEW w \in Workers,
         ListTenants(w) \/ (\E t \in Tenants : QueueTenant(w, t)) \/ AllQueued(w)
           \/ Acknowledge(w),
         NEW s \in Services, NEW o \in Owners, Attended(s, o)
  PROVE  Attended(s, o)'
<1>1. \A v \in Workers \ {w} : worker'[v] = worker[v]
  BY DEF ListTenants, QueueTenant, AllQueued, Acknowledge, Goto, Fails, IInv, TypeOK
<1>2. UNCHANGED <<migrated, seeded, strings, givenUp>>
  BY DEF ListTenants, QueueTenant, AllQueued, Acknowledge
<1>3. ~Attends(w, o)
  BY DEF ListTenants, QueueTenant, AllQueued, Acknowledge, Attends
<1>4. BagToSet(inbox[s]) \subseteq BagToSet(inbox'[s])
  <2>1. \/ UNCHANGED inbox
        \/ \E t \in Tenants : inbox' = Delivered(inbox, ApplyToTenant(ServiceOf[w], t))
    BY DEF ListTenants, QueueTenant, AllQueued, Acknowledge
  <2>2. InboxOK(inbox)
    BY TypeParts DEF IInv
  <2>3. QED
    BY <2>1, <2>2, DeliveredKeeps
<1>5. \A e \in BagToSet(inbox[s]) : e.owner = o => Attended(s, o)'
  BY <1>4 DEF Attended
<1>6. QED
  BY <1>1, <1>2, <1>3, <1>5, Hands

\* The catch publishes the event again, which its own service handles, or gives
\* the owner up.
LEMMA HandleErrorAttends ==
  ASSUME IInv, NEW w \in Workers, HandleError(w),
         NEW s \in Services, NEW o \in Owners, Attended(s, o)
  PROVE  Attended(s, o)'
<1>1. Busy(w)
  BY BusyWorker DEF HandleError, IInv
<1>2. PICK e \in Events : e = worker[w].event /\ Handles(ServiceOf[w], e)
  BY <1>1, EventType
<1>3. \A v \in Workers \ {w} : worker'[v] = worker[v]
  BY DEF HandleError, Goto, IInv, TypeOK
<1>4. CASE UNCHANGED inbox /\ GivesUp(w)
  <2>1. ServiceOf[w] = s /\ Attends(w, o) => Attended(s, o)'
    BY <1>4 DEF GivesUp, Attends, Attended
  <2>2. QED
    BY <1>3, <1>4, <2>1, HandsAlone DEF HandleError, GivesUp
<1>5. CASE /\ e.tries + 1 <= MaxEventTryCount
           /\ inbox' = Delivered(inbox, Again(e))
           /\ UNCHANGED givenUp
  <2>1. PICK a \in Events : a = Again(e)
    BY <1>5, EventsMade
  <2>2. a.kind = e.kind /\ a.owner = e.owner /\ a.name = e.name /\ a.blank = e.blank
    BY <2>1 DEF Again, Events
  <2>3. Handles(ServiceOf[w], a)
    BY <1>2, <2>2 DEF Handles
  <2>4. InboxOK(inbox)
    BY TypeParts DEF IInv
  <2>5. /\ BagToSet(inbox[s]) \subseteq BagToSet(inbox'[s])
        /\ ServiceOf[w] = s => a \in BagToSet(inbox'[s])
    BY <1>5, <2>1, <2>3, <2>4, DeliveredKeeps
  <2>6. \A f \in BagToSet(inbox[s]) : f.owner = o => Attended(s, o)'
    BY <2>5 DEF Attended
  <2>7. ServiceOf[w] = s /\ Attends(w, o) => Attended(s, o)'
    BY <1>2, <2>2, <2>5 DEF Attends, Attended
  <2>8. QED
    BY <1>3, <1>5, <2>6, <2>7, Hands DEF HandleError
<1>6. QED
  BY <1>2, <1>4, <1>5 DEF HandleError

-----------------------------------------------------------------------------
(* The steps of the surroundings *)

\* The event of a process that stops is delivered again.
LEMMA CrashAttends ==
  ASSUME IInv, NEW w \in Workers, Crash(w),
         NEW s \in Services, NEW o \in Owners, Attended(s, o)
  PROVE  Attended(s, o)'
<1>1. \A v \in Workers \ {w} : worker'[v] = worker[v]
  BY DEF Crash, IInv, TypeOK
<1>2. PICK e : e = worker[w].event
  OBVIOUS
<1>3. IsABag(inbox[s])
  BY TypeParts DEF InboxOK, IInv
<1>4. inbox'[s] = IF s = ServiceOf[w] THEN BagAdd(inbox[s], e) ELSE inbox[s]
  BY <1>2, TypeParts DEF Crash, InboxOK, IInv
<1>5. /\ BagToSet(inbox[s]) \subseteq BagToSet(inbox'[s])
      /\ s = ServiceOf[w] => e \in BagToSet(inbox'[s])
  BY <1>3, <1>4, BagAddAdds
<1>6. \A f \in BagToSet(inbox[s]) : f.owner = o => Attended(s, o)'
  BY <1>5 DEF Attended
<1>7. ServiceOf[w] = s /\ Attends(w, o) => Attended(s, o)'
  BY <1>2, <1>5 DEF Attends, Attended
<1>8. QED
  BY <1>1, <1>6, <1>7, Hands DEF Crash

\* A step that leaves the workers and the owner's connection strings alone and
\* takes no event away.
LEMMA SurroundingsAttend ==
  ASSUME NEW s \in Services, NEW o \in Owners, Attended(s, o),
         UNCHANGED <<worker, givenUp>>,
         o # Host => /\ strings'[o][s] = strings[o][s]
                     /\ strings'[o][Default] = strings[o][Default],
         migrated \subseteq migrated', seeded \subseteq seeded',
         BagToSet(inbox[s]) \subseteq BagToSet(inbox'[s])
  PROVE  Attended(s, o)'
<1>1. UpToDate(s, o) /\ Seeded(s, o) => UpToDate(s, o)' /\ Seeded(s, o)'
  BY DoneStays
<1>2. \A v \in Workers : ServiceOf[v] = s /\ Attends(v, o) => Attends(v, o)'
  BY AttendsStays
<1>3. QED
  BY <1>1, <1>2 DEF Attended

LEMMA RequestAttends ==
  ASSUME IInv, NEW e \in Requests, Request(e), NEW s \in Services, NEW o \in Owners,
         Attended(s, o) \/ (e.owner = o /\ Handles(s, e))
  PROVE  Attended(s, o)'
<1>1. InboxOK(inbox) /\ inbox' = Delivered(inbox, e)
  BY TypeParts DEF IInv, Request
<1>2. /\ BagToSet(inbox[s]) \subseteq BagToSet(inbox'[s])
      /\ Handles(s, e) => e \in BagToSet(inbox'[s])
  BY <1>1, DeliveredKeeps
<1>3. QED
  BY <1>2, SurroundingsAttend DEF Request, Attended

\* A change of a string that a service uses is handled by that service, and
\* another one does not move the owner.
LEMMA UpdateAttends ==
  ASSUME IInv, NEW u \in Updates, UpdateConnectionString(u),
         NEW s \in Services, NEW o \in Owners, KeepsStrings(s, o),
         \/ Attended(s, o) /\ InCharge(s, o)
         \/ s \notin HostOnly /\ u.tenant = o /\ u.name \in {s, Default}
  PROVE  Attended(s, o)'
<1>1. InboxOK(inbox)
  BY TypeParts DEF IInv
<1>2. PICK e : e = StringUpdated(u)
  OBVIOUS
<1>3. /\ e.kind = "ConnectionStringUpdated" /\ e.owner = u.tenant
      /\ e.name = u.name /\ e.blank = (u.value = None)
  BY <1>2 DEF StringUpdated
<1>4. inbox' = Delivered(inbox, e)
  BY <1>2 DEF UpdateConnectionString
<1>5. /\ BagToSet(inbox[s]) \subseteq BagToSet(inbox'[s])
      /\ Handles(s, e) => e \in BagToSet(inbox'[s])
  BY <1>1, <1>4, DeliveredKeeps
<1>6. CASE s \notin HostOnly /\ u.tenant = o /\ u.name \in {s, Default}
  <2>1. Handles(s, e)
    BY <1>3, <1>6 DEF Handles, KeepsStrings
  <2>2. QED
    BY <1>3, <1>5, <1>6, <2>1 DEF Attended
<1>7. CASE /\ Attended(s, o) /\ InCharge(s, o)
           /\ ~(s \notin HostOnly /\ u.tenant = o /\ u.name \in {s, Default})
  <2>1. ASSUME o # Host
        PROVE  strings'[o][s] = strings[o][s] /\ strings'[o][Default] = strings[o][Default]
    <3>1. /\ o \in Tenants /\ (u.tenant # o \/ u.name \notin {s, Default})
          /\ s \in Names /\ Default \in Names
      BY <1>7, <2>1 DEF InCharge, Owners, Names
    <3>2. /\ strings \in [Tenants -> [Names -> Databases \cup {None}]]
          /\ strings' = [strings EXCEPT ![u.tenant][u.name] = u.value]
      BY DEF UpdateConnectionString, IInv, TypeOK
    <3>3. QED
      BY <3>1, <3>2
  <2>2. QED
    BY <1>5, <1>7, <2>1, SurroundingsAttend DEF UpdateConnectionString
<1>8. QED
  BY <1>6, <1>7

LEMMA CheckAttends ==
  ASSUME NEW r \in Startups, CheckAndApplyDatabaseMigrations(r),
         NEW s \in Services, NEW o \in Owners, Attended(s, o)
  PROVE  Attended(s, o)'
BY SurroundingsAttend DEF CheckAndApplyDatabaseMigrations

\* The lemma of this module: what is attended to stays attended to, in a step
\* that removes no connection string of it.
LEMMA AttendedStays ==
  ASSUME IInv, [Next]_vars, NEW s \in Services, NEW o \in Owners,
         Attended(s, o), InCharge(s, o),
         KeepsStrings(s, o)
  PROVE  Attended(s, o)'
<1>1. CASE UNCHANGED vars
  BY <1>1, SurroundingsAttend DEF vars
<1>2. ASSUME NEW w \in Workers, HandleEventAsync(w)
      PROVE  Attended(s, o)'
  BY <1>2, ReceiveAttends, FindTenantAttends, FindPendingAttends, MigrateAttends, SeedAttends,
     QueueingAttends, HandleErrorAttends
  DEF HandleEventAsync
<1>3. ASSUME NEW w \in Workers, Crash(w)
      PROVE  Attended(s, o)'
  BY <1>3, CrashAttends
<1>4. ASSUME NEW e \in Requests, Request(e)
      PROVE  Attended(s, o)'
  BY <1>4, RequestAttends
<1>5. ASSUME NEW u \in Updates, UpdateConnectionString(u)
      PROVE  Attended(s, o)'
  BY <1>5, UpdateAttends
<1>6. ASSUME NEW r \in Startups, CheckAndApplyDatabaseMigrations(r)
      PROVE  Attended(s, o)'
  BY <1>6, CheckAttends
<1>7. QED
  BY <1>1, <1>2, <1>3, <1>4, <1>5, <1>6 DEF Next

-----------------------------------------------------------------------------
(* The theorem *)

LEMMA ConcernedInCharge ==
  ASSUME IInv, NEW s \in Services, NEW o \in Owners, Concerned(s, o)
  PROVE  InCharge(s, o)
BY DEF Concerned, Handles, InCharge

\* An event is not a change of a connection string.
LEMMA RequestsApart ==
  ASSUME NEW e \in Requests
  PROVE  e \notin Updates
<1>1. DOMAIN e = {"kind", "owner", "name", "blank", "tries"}
  BY Assumptions DEF Events
<1>2. \A u \in Updates : DOMAIN u = {"tenant", "name", "value"}
  BY Assumptions
<1>3. QED
  BY <1>1, <1>2

LEMMA NextAttends == IInv /\ NInv /\ [Next]_vars => NInv'
<1> SUFFICES ASSUME IInv, NInv, [Next]_vars, NEW s \in Services,
                    NEW o \in Owners, Concerned(s, o)', ~Removed(s, o)'
             PROVE  Attended(s, o)'
  BY DEF NInv
<1>1. KeepsStrings(s, o)
  BY DEF KeepsStrings, UpdateConnectionString, Removed
<1>2. asked \subseteq asked'
  BY DEF Next, HandleEventAsync, Receive, FindTenant, FindPending, MigrateAsync, SeedAsync,
     ListTenants, QueueTenant, AllQueued, HandleError, Acknowledge, Crash, Request,
     UpdateConnectionString, CheckAndApplyDatabaseMigrations, vars
<1>3. ~Removed(s, o)
  BY <1>2 DEF Removed
<1>4. CASE Concerned(s, o)
  <2>1. Attended(s, o) /\ InCharge(s, o)
    BY <1>3, <1>4, ConcernedInCharge DEF NInv
  <2>2. QED
    BY <1>1, <2>1, AttendedStays
<1>5. CASE ~Concerned(s, o)
  <2>1. CASE asked' = asked
    BY <1>5, <2>1 DEF Concerned, Handles
  <2>2. ASSUME NEW e \in Requests, Request(e)
        PROVE  Attended(s, o)'
    <3>1. asked' = asked \cup {e}
      BY <2>2 DEF Request
    <3>2. CASE e.owner = o /\ Handles(s, e)
      BY <2>2, <3>2, RequestAttends
    <3>3. CASE \E u \in asked' \cap Updates :
                 s \notin HostOnly /\ u.tenant = o /\ u.name \in {s, Default}
      <4>1. e \in Updates /\ e.tenant = o
        BY <1>5, <3>1, <3>3 DEF Concerned
      <4>2. QED
        BY <4>1, RequestsApart
    <3>4. QED
      BY <1>5, <3>1, <3>2, <3>3 DEF Concerned, Handles
  <2>3. ASSUME NEW u \in Updates, UpdateConnectionString(u)
        PROVE  Attended(s, o)'
    <3>1. asked' = asked \cup {u}
      BY <2>3 DEF UpdateConnectionString
    <3>2. CASE s \notin HostOnly /\ u.tenant = o /\ u.name \in {s, Default}
      BY <1>1, <2>3, <3>2, UpdateAttends
    <3>3. CASE \E e \in asked' \cap Requests : e.owner = o /\ Handles(s, e)
      <4>1. u \in Requests
        BY <1>5, <3>1, <3>3 DEF Concerned
      <4>2. QED
        BY <4>1, RequestsApart
    <3>4. QED
      BY <1>5, <3>1, <3>2, <3>3 DEF Concerned, Handles
  <2>4. QED
    BY <2>1, <2>2, <2>3
    DEF Next, HandleEventAsync, Receive, FindTenant, FindPending, MigrateAsync, SeedAsync,
        ListTenants, QueueTenant, AllQueued, HandleError, Acknowledge, Crash,
        CheckAndApplyDatabaseMigrations, vars
<1>6. QED
  BY <1>4, <1>5

\* When nothing is under way, nobody is on the way to an owner any more.
LEMMA QuietAttends == IInv /\ NInv => NothingForgotten
<1> SUFFICES ASSUME NInv, AllQuiet, NEW s \in Services,
                    NEW o \in Owners, Concerned(s, o), ~Removed(s, o)
             PROVE  (UpToDate(s, o) /\ Seeded(s, o)) \/ <<s, o>> \in givenUp
  BY DEF NothingForgotten
<1>1. Attended(s, o)
  BY DEF NInv
<1>2. BagToSet(inbox[s]) = {} /\ \A w \in Workers : ~Attends(w, o)
  BY DEF AllQuiet, Attends
<1>3. QED
  BY <1>1, <1>2 DEF Attended

\* However handlers fail, stop and meet, an owner's database that a service was
\* asked to look after is in the end up to date and seeded where it is by then,
\* or its error is in the log, unless that service lost a string of the tenant.
THEOREM NobodyIsForgotten == Spec => []NothingForgotten
<1>1. Spec => []IInv
  BY Invariance
<1>2. Init => NInv
  BY DEF Init, NInv, Concerned
<1>3. Spec => []NInv
  BY <1>1, <1>2, NextAttends, PTL DEF Spec
<1>4. QED
  BY <1>1, <1>3, QuietAttends, PTL

=============================================================================
