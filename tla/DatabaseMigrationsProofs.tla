---------------------- MODULE DatabaseMigrationsProofs ----------------------
(***************************************************************************)
(* Proofs about DatabaseMigrations, for every set of services, consumers,  *)
(* tenants and databases, every set of calls that may throw, and any       *)
(* number of tries and stops.                                              *)
(***************************************************************************)
EXTENDS DatabaseMigrations, TLAPS

-----------------------------------------------------------------------------
(* Bags *)

LEMMA BagAddAdds ==
  ASSUME NEW B, IsABag(B), NEW x
  PROVE  /\ IsABag(BagAdd(B, x))
         /\ BagToSet(BagAdd(B, x)) = BagToSet(B) \cup {x}
  BY DEF IsABag, BagAdd, BagToSet

LEMMA BagRemoveRemoves ==
  ASSUME NEW B, IsABag(B), NEW x
  PROVE  /\ IsABag(BagRemove(B, x))
         /\ BagToSet(BagRemove(B, x)) \subseteq BagToSet(B)
  BY DEF IsABag, BagRemove, BagToSet

LEMMA EmptyBagIsEmpty == IsABag(EmptyBag) /\ BagToSet(EmptyBag) = {}
  BY DEF EmptyBag, SetToBag, IsABag, BagToSet

-----------------------------------------------------------------------------
(* The inboxes *)

\* What TypeOK says of the events on their way.
InboxOK(box) ==
  /\ box = [s \in Services |-> box[s]]
  /\ \A s \in Services :
       /\ IsABag(box[s])
       /\ \A e \in BagToSet(box[s]) : e \in Events /\ Handles(s, e)

\* Publishing an event adds it to the inbox of every service that handles it
\* and changes no other.
LEMMA DeliveredAdds ==
  ASSUME NEW box, InboxOK(box), NEW e \in Events
  PROVE  /\ InboxOK(Delivered(box, e))
         /\ \A s \in Services :
              /\ BagToSet(Delivered(box, e)[s]) \subseteq BagToSet(box[s]) \cup {e}
              /\ e \in BagToSet(Delivered(box, e)[s]) =>
                   e \in BagToSet(box[s]) \/ Handles(s, e)
  <1>1. \A s \in Services :
          Delivered(box, e)[s] = IF Handles(s, e) THEN BagAdd(box[s], e) ELSE box[s]
    BY DEF Delivered
  <1>2. \A s \in Services :
          /\ IsABag(Delivered(box, e)[s])
          /\ BagToSet(Delivered(box, e)[s]) =
               IF Handles(s, e) THEN BagToSet(box[s]) \cup {e} ELSE BagToSet(box[s])
    <2> TAKE s \in Services
    <2>1. IsABag(box[s])
      BY DEF InboxOK
    <2>2. /\ IsABag(BagAdd(box[s], e))
          /\ BagToSet(BagAdd(box[s], e)) = BagToSet(box[s]) \cup {e}
      BY <2>1, BagAddAdds
    <2> QED BY <1>1, <2>1, <2>2
  <1>3. Delivered(box, e) = [s \in Services |-> Delivered(box, e)[s]]
    BY DEF Delivered
  <1> QED BY <1>2, <1>3 DEF InboxOK

\* Taking an event from an inbox leaves a part of what was there.
LEMMA TakingRemoves ==
  ASSUME NEW box, InboxOK(box), NEW s \in Services, NEW e
  PROVE  LET after == [box EXCEPT ![s] = BagRemove(@, e)]
         IN  /\ InboxOK(after)
             /\ \A r \in Services : BagToSet(after[r]) \subseteq BagToSet(box[r])
  <1> DEFINE after == [box EXCEPT ![s] = BagRemove(@, e)]
  <1>1. \A r \in Services : after[r] = IF r = s THEN BagRemove(box[r], e) ELSE box[r]
    BY DEF InboxOK
  <1>2. \A r \in Services :
          IsABag(after[r]) /\ BagToSet(after[r]) \subseteq BagToSet(box[r])
    BY <1>1, BagRemoveRemoves DEF InboxOK
  <1>3. after = [r \in Services |-> after[r]]
    BY DEF InboxOK
  <1> HIDE DEF after
  <1>4. InboxOK(after)
    BY <1>2, <1>3 DEF InboxOK
  <1> QED BY <1>2, <1>4 DEF after

-----------------------------------------------------------------------------
(* The inductive invariant *)

\* What a handler has established at each step: it handles its event, the
\* database it migrates for the host is the host's, and a result of TRUE for the
\* host means that the host's schema is up to date.
HandlerOK(w) ==
  LET s == ServiceOf[w]
      h == worker[w]
  IN
  Busy(w) =>
    /\ Handles(s, h.event)
    /\ h.event.owner = Host =>
         /\ h.step = "migrate" => h.database = HostDb[s]
         /\ h.result => <<s, HostDb[s]>> \in migrated
    /\ h.step \in {"list", "queue"} => h.event.owner = Host /\ h.result

IInv ==
  /\ TypeOK
  /\ \A w \in Workers : HandlerOK(w)
  /\ HostFirst

\* The condition of HostFirst for one event.
AfterHost(s, e) ==
  /\ e.kind = "ApplyDatabaseMigrations" /\ e.owner # Host
  /\ [e EXCEPT !.tries = 0] \notin Requests
  => <<s, HostDb[s]>> \in migrated

LEMMA Assumptions ==
  /\ Seeders \subseteq Services /\ HostOnly \subseteq Services
  /\ ServiceOf \in [Workers -> Services]
  /\ Host \notin Tenants
  /\ HostDb \in [Services -> Databases] /\ None \notin Databases
  /\ Default \notin Services
  /\ InitialStrings \in [Tenants -> [Names -> Databases \cup {None}]]
  /\ Updates \subseteq [tenant: Tenants, name: Names, value: Databases \cup {None}]
  /\ Startups \subseteq Services
  /\ MaxEventTryCount \in Nat /\ MaxCrashes \in Nat
  /\ \A e \in Requests : e \in Events /\ e.tries = 0
  BY ServicesAssumption, WorkersAssumption, OwnersAssumption, DatabasesAssumption,
     NamesAssumption, StringsAssumption, UpdatesAssumption, StartupsAssumption,
     BoundsAssumption, RequestsAssumption

LEMMA DatabaseOfType ==
  ASSUME TypeOK, NEW s \in Services, NEW o \in Owners
  PROVE  /\ DatabaseOf(s, o) \in Databases
         /\ o = Host => DatabaseOf(s, o) = HostDb[s]
  <1>1. CASE o = Host
    BY <1>1, Assumptions DEF DatabaseOf
  <1>2. CASE o # Host
    <2>1. o \in Tenants
      BY <1>2 DEF Owners
    <2>2. strings[o][s] \in Databases \cup {None} /\ strings[o][Default] \in Databases \cup {None}
      BY <2>1 DEF TypeOK, Names
    <2> QED BY <1>2, <2>2, Assumptions DEF DatabaseOf
  <1> QED BY <1>1, <1>2

\* A worker whose step is not "wait" runs a handler.
LEMMA BusyWorker ==
  ASSUME TypeOK, NEW w \in Workers
  PROVE  /\ ServiceOf[w] \in Services
         /\ Busy(w) => worker[w] \in Handlers
         /\ worker[w].step # "wait" => Busy(w)
  BY Assumptions DEF TypeOK, Busy, Waiting

LEMMA EventsMade ==
  /\ \A s \in Services, t \in Tenants : ApplyToTenant(s, t) \in Events
  /\ \A u \in Updates : StringUpdated(u) \in Events
  /\ \A e \in Events : e.tries + 1 <= MaxEventTryCount => Again(e) \in Events
  /\ \A e \in Requests : e \in Events
  <1>1. \A s \in Services, t \in Tenants : ApplyToTenant(s, t) \in Events
    BY Assumptions DEF ApplyToTenant, Events, Kinds, Owners, Names
  <1>2. \A u \in Updates : StringUpdated(u) \in Events
    BY Assumptions DEF StringUpdated, Events, Kinds, Owners
  <1>3. \A e \in Events : e.tries + 1 <= MaxEventTryCount => Again(e) \in Events
    BY Assumptions DEF Again, Events
  <1> QED BY <1>1, <1>2, <1>3, Assumptions

-----------------------------------------------------------------------------
(* The steps of a handler *)

LEMMA TypeParts ==
  TypeOK <=>
    /\ InboxOK(inbox)
    /\ worker \in [Workers -> Handlers \cup {Waiting}]
    /\ migrated \subseteq Services \X Databases
    /\ seeded \subseteq Services \X Owners \X Databases
    /\ strings \in [Tenants -> [Names -> Databases \cup {None}]]
    /\ givenUp \subseteq Services \X Owners
    /\ asked \subseteq Requests \cup Updates
    /\ crashes \in 0 .. MaxCrashes
  BY DEF TypeOK, InboxOK

\* The condition of HostFirst stays true of an event.
LEMMA HostFirstFromEvents ==
  ASSUME HostFirst, migrated \subseteq migrated',
         \A s \in Services : \A e \in OnTheirWay(s)' :
           e \in OnTheirWay(s) \/ AfterHost(s, e)'
  PROVE  HostFirst'
  BY DEF HostFirst, AfterHost

\* A handler that goes on with its event, or a worker that is free again.
LEMMA EventsKept ==
  ASSUME TypeOK, NEW w \in Workers, NEW new,
         worker' = [worker EXCEPT ![w] = new],
         new = Waiting \/ (Busy(w) /\ new.event = worker[w].event)
  PROVE  \A s \in Services : \A e \in OnTheirWay(s)' :
           e \in BagToSet(inbox'[s]) \/ e \in OnTheirWay(s)
  <1> SUFFICES ASSUME NEW s \in Services, NEW v \in Workers,
                      ServiceOf[v] = s, Busy(v)'
               PROVE  worker'[v].event \in OnTheirWay(s)
    BY DEF OnTheirWay
  <1>1. worker'[v] = IF v = w THEN new ELSE worker[v]
    BY DEF TypeOK
  <1>2. Busy(v) /\ worker'[v].event = worker[v].event
    BY <1>1 DEF Busy
  <1> QED BY <1>2 DEF OnTheirWay

LEMMA OthersKept ==
  ASSUME IInv, NEW w \in Workers, NEW new,
         worker' = [worker EXCEPT ![w] = new],
         migrated \subseteq migrated'
  PROVE  \A v \in Workers \ {w} : HandlerOK(v)'
  <1> TAKE v \in Workers \ {w}
  <1>1. worker'[v] = worker[v]
    BY DEF IInv, TypeOK
  <1>2. HandlerOK(v)
    BY DEF IInv
  <1> QED BY <1>1, <1>2 DEF HandlerOK, Busy

\* One step of the handler of w.
LEMMA Advances ==
  ASSUME IInv, NEW w \in Workers, Busy(w),
         NEW new \in Handlers, new.event = worker[w].event,
         worker' = [worker EXCEPT ![w] = new],
         migrated \subseteq migrated', migrated' \subseteq Services \X Databases,
         HandlerOK(w)',
         InboxOK(inbox'),
         \A s \in Services : \A e \in BagToSet(inbox'[s]) :
           e \in OnTheirWay(s) \/ AfterHost(s, e)',
         seeded' \subseteq Services \X Owners \X Databases,
         givenUp' \subseteq Services \X Owners,
         UNCHANGED <<strings, asked, crashes>>
  PROVE  IInv'
  <1>1. TypeOK'
    <2>1. worker' \in [Workers -> Handlers \cup {Waiting}]
      BY DEF IInv, TypeOK
    <2> QED BY <2>1 DEF IInv, TypeOK, InboxOK
  <1>2. \A v \in Workers : HandlerOK(v)'
    BY OthersKept
  <1>3. HostFirst'
    BY EventsKept, HostFirstFromEvents DEF IInv
  <1> QED BY <1>1, <1>2, <1>3 DEF IInv

\* A step that writes only the handler's own record.
LEMMA OnlyHandler ==
  ASSUME IInv, NEW w \in Workers, Busy(w),
         NEW new \in Handlers, new.event = worker[w].event,
         worker' = [worker EXCEPT ![w] = new],
         HandlerOK(w)',
         UNCHANGED <<inbox, migrated, strings, asked, crashes>>,
         seeded' \subseteq Services \X Owners \X Databases,
         givenUp' \subseteq Services \X Owners
  PROVE  IInv'
  <1>1. InboxOK(inbox') /\ migrated' \subseteq Services \X Databases
    BY TypeParts DEF IInv
  <1>2. \A s \in Services : \A e \in BagToSet(inbox'[s]) : e \in OnTheirWay(s)
    BY DEF OnTheirWay
  <1> QED BY <1>1, <1>2, Advances

\* The handler record after Goto, and what HandlerOK asks of it.
LEMMA GotoRecord ==
  ASSUME IInv, NEW w \in Workers, Busy(w),
         NEW step \in {"find", "pending", "migrate", "seed", "list", "queue", "failed", "done"},
         Goto(w, step)
  PROVE  \E new \in Handlers :
           /\ worker' = [worker EXCEPT ![w] = new]
           /\ worker'[w] = new
           /\ new.event = worker[w].event /\ new.result = worker[w].result
           /\ new.database = worker[w].database /\ new.step = step
  <1> DEFINE new == [worker[w] EXCEPT !.step = step]
  <1>1. worker[w] \in Handlers
    BY BusyWorker DEF IInv
  <1>2. worker' = [worker EXCEPT ![w] = new]
    BY DEF Goto
  <1>3. worker'[w] = new
    BY <1>2 DEF IInv, TypeOK
  <1>4. /\ new \in Handlers
        /\ new.event = worker[w].event /\ new.result = worker[w].result
        /\ new.database = worker[w].database /\ new.step = step
    BY <1>1 DEF Handlers
  <1> HIDE DEF new
  <1> QED BY <1>2, <1>3, <1>4

\* A handler that only goes to another step, when that step asks no more of it.
LEMMA GoesOn ==
  ASSUME IInv, NEW w \in Workers, Busy(w),
         NEW step \in {"pending", "seed", "list", "failed", "done"},
         Goto(w, step),
         step = "list" => worker[w].event.owner = Host /\ worker[w].result,
         UNCHANGED <<inbox, migrated, strings, asked, crashes>>,
         seeded' \subseteq Services \X Owners \X Databases,
         givenUp' \subseteq Services \X Owners
  PROVE  IInv'
  <1>1. PICK new \in Handlers :
          /\ worker' = [worker EXCEPT ![w] = new]
          /\ worker'[w] = new
          /\ new.event = worker[w].event /\ new.result = worker[w].result
          /\ new.step = step
    BY GotoRecord
  <1>2. HandlerOK(w)
    BY DEF IInv
  <1>3. HandlerOK(w)'
    BY <1>1, <1>2 DEF HandlerOK
  <1> QED BY <1>1, <1>3, OnlyHandler

LEMMA TypeOfSeeded ==
  ASSUME IInv
  PROVE  seeded \subseteq Services \X Owners \X Databases /\ givenUp \subseteq Services \X Owners
  BY DEF IInv, TypeOK

LEMMA EventType ==
  ASSUME IInv, NEW w \in Workers, Busy(w)
  PROVE  /\ ServiceOf[w] \in Services
         /\ worker[w] \in Handlers
         /\ worker[w].event \in Events
         /\ worker[w].event.owner \in Owners
         /\ Handles(ServiceOf[w], worker[w].event)
  BY BusyWorker DEF IInv, HandlerOK, Handlers, Events

LEMMA FindTenantKeeps ==
  ASSUME IInv, NEW w \in Workers, FindTenant(w)
  PROVE  IInv'
  <1>1. Busy(w)
    BY BusyWorker DEF FindTenant, IInv
  <1>2. \/ Goto(w, "pending")
        \/ Goto(w, "seed")
        \/ Goto(w, "failed")
    BY DEF FindTenant, Fails
  <1> QED BY <1>1, <1>2, GoesOn, TypeOfSeeded DEF FindTenant

LEMMA FindPendingKeeps ==
  ASSUME IInv, NEW w \in Workers, FindPending(w)
  PROVE  IInv'
  <1> DEFINE s == ServiceOf[w]
             o == worker[w].event.owner
             d == DatabaseOf(s, o)
             step == IF <<s, d>> \notin migrated THEN "migrate" ELSE "seed"
             new == [worker[w] EXCEPT !.database = d, !.step = step]
  <1>1. Busy(w)
    BY BusyWorker DEF FindPending, IInv
  <1>2. CASE Fails(w, "find")
    BY <1>1, <1>2, GoesOn, TypeOfSeeded DEF FindPending, Fails
  <1>3. CASE worker' = [worker EXCEPT ![w].database = d, ![w].step = step]
    <2>1. d \in Databases /\ (o = Host => d = HostDb[s])
      BY <1>1, EventType, DatabaseOfType DEF IInv
    <2>2. worker' = [worker EXCEPT ![w] = new]
      BY <1>3
    <2>3. new \in Handlers
      BY <1>1, <2>1, EventType DEF Handlers
    <2>4. /\ new.event = worker[w].event /\ new.result = worker[w].result
          /\ new.database = d /\ new.step = step
      BY <1>1, EventType DEF Handlers
    <2>5. worker'[w] = new
      BY <2>2 DEF IInv, TypeOK
    <2>6. HandlerOK(w) /\ UNCHANGED migrated
      BY DEF IInv, FindPending
    <2> HIDE DEF new, d, step
    <2>7. step \in {"migrate", "seed"}
      BY DEF step
    <2>8. HandlerOK(w)'
      BY <1>1, <2>1, <2>4, <2>5, <2>6, <2>7 DEF HandlerOK
    <2> QED BY <1>1, <2>2, <2>3, <2>4, <2>8, OnlyHandler, TypeOfSeeded DEF FindPending
  <1> QED BY <1>2, <1>3 DEF FindPending

LEMMA MigrateKeeps ==
  ASSUME IInv, NEW w \in Workers, MigrateAsync(w)
  PROVE  IInv'
  <1> DEFINE s == ServiceOf[w]
             d == worker[w].database
             new == [worker[w] EXCEPT !.step = "seed", !.result = TRUE]
  <1>1. Busy(w)
    BY BusyWorker DEF MigrateAsync, IInv
  <1>2. CASE UNCHANGED migrated /\ Fails(w, "migrate")
    BY <1>1, <1>2, GoesOn, TypeOfSeeded DEF MigrateAsync, Fails
  <1>3. CASE /\ migrated' = migrated \cup {<<s, d>>}
             /\ worker' = [worker EXCEPT ![w].step = "seed", ![w].result = TRUE]
    <2>1. worker' = [worker EXCEPT ![w] = new]
      BY <1>3
    <2>2. new \in Handlers
      BY <1>1, EventType DEF Handlers
    <2>3. new.event = worker[w].event /\ new.step = "seed" /\ new.result = TRUE
      BY <1>1, EventType DEF Handlers
    <2>4. worker'[w] = new
      BY <2>1 DEF IInv, TypeOK
    <2>5. s \in Services /\ d \in Databases
      BY <1>1, EventType DEF Handlers
    <2>6. migrated' \subseteq Services \X Databases
      BY <1>3, <2>5 DEF IInv, TypeOK
    <2> HIDE DEF new
    <2>7. HandlerOK(w) /\ worker[w].step = "migrate"
      BY DEF IInv, MigrateAsync
    <2>8. HandlerOK(w)'
      BY <1>1, <1>3, <2>3, <2>4, <2>7 DEF HandlerOK
    <2>9. InboxOK(inbox') /\ \A r \in Services : \A e \in BagToSet(inbox'[r]) : e \in OnTheirWay(r)
      BY TypeParts DEF IInv, MigrateAsync, OnTheirWay
    <2> QED
      BY <1>1, <1>3, <2>1, <2>2, <2>3, <2>6, <2>8, <2>9, Advances, TypeOfSeeded
      DEF MigrateAsync
  <1> QED BY <1>2, <1>3 DEF MigrateAsync

LEMMA SeedKeeps ==
  ASSUME IInv, NEW w \in Workers, SeedAsync(w)
  PROVE  IInv'
  <1> DEFINE s == ServiceOf[w]
             o == worker[w].event.owner
  <1>1. Busy(w)
    BY BusyWorker DEF SeedAsync, IInv
  <1>2. CASE UNCHANGED seeded /\ Fails(w, "seed")
    BY <1>1, <1>2, GoesOn, TypeOfSeeded DEF SeedAsync, Fails
  <1>3. CASE /\ Goto(w, AfterSeeding(w))
             /\ seeded' = IF s \in Seeders
                          THEN seeded \cup {<<s, o, DatabaseOf(s, o)>>}
                          ELSE seeded
    <2>1. <<s, o, DatabaseOf(s, o)>> \in Services \X Owners \X Databases
      BY <1>1, EventType, DatabaseOfType DEF IInv
    <2>2. seeded' \subseteq Services \X Owners \X Databases
      BY <1>3, <2>1, TypeOfSeeded
    <2>3. /\ AfterSeeding(w) \in {"list", "done"}
          /\ AfterSeeding(w) = "list" => o = Host /\ worker[w].result
      BY DEF AfterSeeding
    <2> QED BY <1>1, <1>3, <2>2, <2>3, GoesOn, TypeOfSeeded DEF SeedAsync
  <1> QED BY <1>2, <1>3 DEF SeedAsync

LEMMA ListKeeps ==
  ASSUME IInv, NEW w \in Workers, ListTenants(w)
  PROVE  IInv'
  <1> DEFINE new == [worker[w] EXCEPT !.step = "queue", !.left = WithSeparateString]
  <1>1. Busy(w)
    BY BusyWorker DEF ListTenants, IInv
  <1>2. CASE Fails(w, "list")
    BY <1>1, <1>2, GoesOn, TypeOfSeeded DEF ListTenants, Fails
  <1>3. CASE worker' = [worker EXCEPT ![w].step = "queue", ![w].left = WithSeparateString]
    <2>1. worker' = [worker EXCEPT ![w] = new]
      BY <1>3
    <2>2. new \in Handlers
      BY <1>1, EventType DEF Handlers, WithSeparateString
    <2>3. new.event = worker[w].event /\ new.step = "queue" /\ new.result = worker[w].result
      BY <1>1, EventType DEF Handlers
    <2>4. worker'[w] = new
      BY <2>1 DEF IInv, TypeOK
    <2> HIDE DEF new
    <2>5. HandlerOK(w) /\ worker[w].step = "list" /\ UNCHANGED migrated
      BY DEF IInv, ListTenants
    <2>6. HandlerOK(w)'
      BY <1>1, <2>3, <2>4, <2>5 DEF HandlerOK
    <2> QED BY <1>1, <2>1, <2>2, <2>3, <2>6, OnlyHandler, TypeOfSeeded DEF ListTenants
  <1> QED BY <1>2, <1>3 DEF ListTenants

LEMMA QueueTenantKeeps ==
  ASSUME IInv, NEW w \in Workers, NEW t \in Tenants, QueueTenant(w, t)
  PROVE  IInv'
  <1> DEFINE s == ServiceOf[w]
             e == ApplyToTenant(s, t)
             new == [worker[w] EXCEPT !.left = worker[w].left \ {t}]
  <1>1. Busy(w)
    BY BusyWorker DEF QueueTenant, IInv
  <1>2. CASE UNCHANGED inbox /\ Fails(w, "publish")
    BY <1>1, <1>2, GoesOn, TypeOfSeeded DEF QueueTenant, Fails
  <1>3. CASE /\ inbox' = Delivered(inbox, e)
             /\ worker' = [worker EXCEPT ![w].left = @ \ {t}]
    <2>1. worker' = [worker EXCEPT ![w] = new]
      BY <1>3
    <2>2. new \in Handlers
      BY <1>1, EventType DEF Handlers
    <2>3. /\ new.event = worker[w].event /\ new.step = "queue"
          /\ new.result = worker[w].result
      BY <1>1, EventType DEF Handlers, QueueTenant
    <2>4. worker'[w] = new
      BY <2>1 DEF IInv, TypeOK
    <2> HIDE DEF new
    <2>5. HandlerOK(w) /\ worker[w].step = "queue" /\ UNCHANGED migrated
      BY DEF IInv, QueueTenant
    <2>6. HandlerOK(w)'
      BY <1>1, <2>3, <2>4, <2>5 DEF HandlerOK
    <2>7. e \in Events /\ InboxOK(inbox)
      BY <1>1, EventType, EventsMade, TypeParts DEF IInv
    <2>8. /\ InboxOK(inbox')
          /\ \A r \in Services :
               /\ BagToSet(inbox'[r]) \subseteq BagToSet(inbox[r]) \cup {e}
               /\ e \in BagToSet(inbox'[r]) => e \in BagToSet(inbox[r]) \/ Handles(r, e)
      BY <1>3, <2>7, DeliveredAdds
    <2>9. <<s, HostDb[s]>> \in migrated'
      BY <1>1, <2>5 DEF HandlerOK
    <2>10. \A r \in Services : Handles(r, e) => r = s
      BY DEF Handles, ApplyToTenant
    <2>11. \A r \in Services : \A f \in BagToSet(inbox'[r]) :
             f \in OnTheirWay(r) \/ AfterHost(r, f)'
      BY <2>8, <2>9, <2>10 DEF OnTheirWay, AfterHost
    <2>12. migrated \subseteq migrated' /\ migrated' \subseteq Services \X Databases
      BY <2>5 DEF IInv, TypeOK
    <2> QED
      BY <1>1, <2>1, <2>2, <2>3, <2>6, <2>8, <2>11, <2>12, Advances, TypeOfSeeded
      DEF QueueTenant
  <1> QED BY <1>2, <1>3 DEF QueueTenant

LEMMA AllQueuedKeeps ==
  ASSUME IInv, NEW w \in Workers, AllQueued(w)
  PROVE  IInv'
  <1>1. Busy(w)
    BY BusyWorker DEF AllQueued, IInv
  <1> QED BY <1>1, GoesOn, TypeOfSeeded DEF AllQueued

LEMMA HandleErrorKeeps ==
  ASSUME IInv, NEW w \in Workers, HandleError(w)
  PROVE  IInv'
  <1> DEFINE s == ServiceOf[w]
  <1>1. Busy(w)
    BY BusyWorker DEF HandleError, IInv
  <1>2. PICK e \in Events :
          e = worker[w].event /\ e.owner \in Owners /\ Handles(s, e) /\ s \in Services
    BY <1>1, EventType
  <1>3. CASE UNCHANGED inbox /\ GivesUp(w)
    <2>1. givenUp' \subseteq Services \X Owners
      BY <1>2, <1>3, TypeOfSeeded DEF GivesUp
    <2> QED BY <1>1, <1>3, <2>1, GoesOn, TypeOfSeeded DEF HandleError
  <1>4. CASE /\ e.tries + 1 <= MaxEventTryCount
             /\ inbox' = Delivered(inbox, Again(e))
             /\ UNCHANGED givenUp
    <2> DEFINE a == Again(e)
    <2>1. /\ a \in Events
          /\ a.kind = e.kind /\ a.owner = e.owner /\ a.name = e.name
          /\ [a EXCEPT !.tries = 0] = [e EXCEPT !.tries = 0]
      BY <1>2, <1>4, EventsMade DEF Again, Events
    <2> HIDE DEF a
    <2>2. /\ InboxOK(inbox')
          /\ \A r \in Services :
               /\ BagToSet(inbox'[r]) \subseteq BagToSet(inbox[r]) \cup {a}
               /\ a \in BagToSet(inbox'[r]) => a \in BagToSet(inbox[r]) \/ Handles(r, a)
      BY <1>4, <2>1, DeliveredAdds, TypeParts DEF IInv, a
    <2>3. AfterHost(s, e)
      BY <1>1, <1>2 DEF IInv, HostFirst, OnTheirWay, AfterHost
    <2>4. \A r \in Services : Handles(r, a) /\ a.kind = "ApplyDatabaseMigrations" => r = s
      BY <1>2, <2>1 DEF Handles
    <2>5. UNCHANGED migrated
      BY DEF HandleError
    <2>6. \A r \in Services : Handles(r, a) => AfterHost(r, a)'
      BY <2>1, <2>3, <2>4, <2>5 DEF AfterHost
    <2>7. \A r \in Services : \A f \in BagToSet(inbox'[r]) :
            f \in OnTheirWay(r) \/ AfterHost(r, f)'
      BY <2>2, <2>6 DEF OnTheirWay
    <2>8. PICK new \in Handlers :
            /\ worker' = [worker EXCEPT ![w] = new]
            /\ worker'[w] = new
            /\ new.event = worker[w].event /\ new.result = worker[w].result
            /\ new.database = worker[w].database /\ new.step = "done"
      BY <1>1, GotoRecord DEF HandleError
    <2>9. HandlerOK(w)'
      BY <1>1, <2>5, <2>8 DEF IInv, HandlerOK
    <2> QED
      BY <1>1, <1>4, <2>2, <2>5, <2>7, <2>8, <2>9, Advances, TypeOfSeeded
      DEF HandleError, IInv, TypeOK
  <1> QED BY <1>2, <1>3, <1>4 DEF HandleError

LEMMA ReceiveKeeps ==
  ASSUME IInv, NEW w \in Workers, NEW e, Receive(w, e)
  PROVE  IInv'
  <1> DEFINE s == ServiceOf[w]
             new == [step |-> IF e.owner = Host THEN "pending" ELSE "find",
                     event |-> e, database |-> HostDb[s],
                     result |-> FALSE, left |-> {}]
  <1>1. s \in Services /\ e \in BagToSet(inbox[s]) /\ InboxOK(inbox)
    BY BusyWorker, TypeParts DEF Receive, IInv
  <1>2. e \in Events /\ Handles(s, e)
    BY <1>1 DEF InboxOK
  <1>3. new \in Handlers
    BY <1>1, <1>2, Assumptions DEF Handlers
  <1>4. worker' = [worker EXCEPT ![w] = new]
    BY DEF Receive
  <1>5. worker'[w] = new
    BY <1>4 DEF IInv, TypeOK
  <1>6. inbox' = [inbox EXCEPT ![s] = BagRemove(@, e)]
    BY DEF Receive
  <1>7. InboxOK(inbox') /\ \A r \in Services : BagToSet(inbox'[r]) \subseteq BagToSet(inbox[r])
    BY <1>1, <1>6, TakingRemoves
  <1>8. new.step \in {"find", "pending"} /\ new.event = e /\ new.result = FALSE
    OBVIOUS
  <1> HIDE DEF new
  <1>9. TypeOK'
    <2>1. worker' \in [Workers -> Handlers \cup {Waiting}]
      BY <1>3, <1>4 DEF IInv, TypeOK
    <2> QED BY <1>7, <2>1 DEF IInv, TypeOK, InboxOK, Receive
  <1>10. HandlerOK(w)'
    BY <1>2, <1>5, <1>8 DEF HandlerOK
  <1>11. \A v \in Workers : HandlerOK(v)'
    BY <1>4, <1>10, OthersKept DEF Receive
  <1>12. \A r \in Services : \A f \in OnTheirWay(r)' : f \in OnTheirWay(r)
    <2> SUFFICES ASSUME NEW r \in Services, NEW v \in Workers,
                        ServiceOf[v] = r, Busy(v)'
                 PROVE  worker'[v].event \in OnTheirWay(r)
      BY <1>7 DEF OnTheirWay
    <2>1. CASE v = w
      BY <1>1, <1>5, <1>8, <2>1 DEF OnTheirWay
    <2>2. CASE v # w
      <3>1. worker'[v] = worker[v] /\ Busy(v)
        BY <1>4, <2>2 DEF IInv, TypeOK, Busy
      <3> QED BY <3>1 DEF OnTheirWay
    <2> QED BY <2>1, <2>2
  <1>13. HostFirst'
    BY <1>12, HostFirstFromEvents DEF IInv, Receive
  <1> QED BY <1>9, <1>11, <1>13 DEF IInv

\* A worker becomes free; what it handled is acknowledged, or returned.
LEMMA Frees ==
  ASSUME IInv, NEW w \in Workers, Busy(w),
         worker' = [worker EXCEPT ![w] = Waiting],
         InboxOK(inbox'),
         \A s \in Services : BagToSet(inbox'[s]) \subseteq OnTheirWay(s),
         UNCHANGED <<migrated, seeded, strings, givenUp, asked>>,
         crashes' \in 0 .. MaxCrashes
  PROVE  IInv'
  <1>1. TypeOK'
    <2>1. worker' \in [Workers -> Handlers \cup {Waiting}]
      BY DEF IInv, TypeOK
    <2> QED BY <2>1 DEF IInv, TypeOK, InboxOK
  <1>2. worker'[w] = Waiting
    BY DEF IInv, TypeOK
  <1>3. HandlerOK(w)'
    BY <1>2 DEF HandlerOK, Busy
  <1>4. \A v \in Workers : HandlerOK(v)'
    BY <1>3, OthersKept
  <1>5. \A s \in Services : \A e \in OnTheirWay(s)' : e \in OnTheirWay(s)
    BY EventsKept DEF IInv
  <1>6. HostFirst'
    BY <1>5, HostFirstFromEvents DEF IInv
  <1> QED BY <1>1, <1>4, <1>6 DEF IInv

LEMMA AcknowledgeKeeps ==
  ASSUME IInv, NEW w \in Workers, Acknowledge(w)
  PROVE  IInv'
  <1>1. Busy(w)
    BY BusyWorker DEF Acknowledge, IInv
  <1>2. InboxOK(inbox') /\ \A s \in Services : BagToSet(inbox'[s]) \subseteq OnTheirWay(s)
    BY TypeParts DEF Acknowledge, IInv, OnTheirWay
  <1> QED BY <1>1, <1>2, Frees DEF Acknowledge, IInv, TypeOK

LEMMA CrashKeeps ==
  ASSUME IInv, NEW w \in Workers, Crash(w)
  PROVE  IInv'
  <1> DEFINE s == ServiceOf[w]
  <1>1. Busy(w)
    BY DEF Crash, Busy
  <1>2. PICK e \in Events : e = worker[w].event /\ Handles(s, e) /\ s \in Services
    BY <1>1, EventType
  <1>3. inbox' = [inbox EXCEPT ![s] = BagAdd(@, e)]
    BY <1>2 DEF Crash
  <1>4. /\ InboxOK(inbox')
        /\ \A r \in Services :
             BagToSet(inbox'[r]) =
               IF r = s THEN BagToSet(inbox[r]) \cup {e} ELSE BagToSet(inbox[r])
    <2>1. InboxOK(inbox) /\ s \in Services
      BY <1>2, TypeParts DEF IInv
    <2>2. \A r \in Services : inbox'[r] = IF r = s THEN BagAdd(inbox[r], e) ELSE inbox[r]
      BY <1>3, <2>1 DEF InboxOK
    <2>3. inbox' = [r \in Services |-> inbox'[r]]
      BY <1>3, <2>1 DEF InboxOK
    <2>4. \A r \in Services :
            /\ IsABag(inbox'[r])
            /\ BagToSet(inbox'[r]) =
                 IF r = s THEN BagToSet(inbox[r]) \cup {e} ELSE BagToSet(inbox[r])
      <3> TAKE r \in Services
      <3>1. IsABag(inbox[r])
        BY <2>1 DEF InboxOK
      <3>2. /\ IsABag(BagAdd(inbox[r], e))
            /\ BagToSet(BagAdd(inbox[r], e)) = BagToSet(inbox[r]) \cup {e}
        BY <3>1, BagAddAdds
      <3>3. CASE r = s
        BY <2>2, <3>2, <3>3
      <3>4. CASE r # s
        BY <2>2, <3>1, <3>4
      <3> QED BY <3>3, <3>4
    <2> QED BY <1>2, <2>3, <2>4, <2>1 DEF InboxOK
  <1>5. \A r \in Services : BagToSet(inbox'[r]) \subseteq OnTheirWay(r)
    BY <1>1, <1>2, <1>4 DEF OnTheirWay
  <1>6. crashes' \in 0 .. MaxCrashes
    BY Assumptions DEF Crash, IInv, TypeOK
  <1> QED BY <1>1, <1>4, <1>5, <1>6, Frees DEF Crash

-----------------------------------------------------------------------------
(* The steps of the surroundings *)

\* A step that leaves the workers alone and publishes events that keep
\* HostFirst, or migrates a host's database.
LEMMA Surroundings ==
  ASSUME IInv,
         UNCHANGED <<worker, givenUp, crashes>>,
         seeded' \subseteq Services \X Owners \X Databases,
         migrated \subseteq migrated', migrated' \subseteq Services \X Databases,
         strings' \in [Tenants -> [Names -> Databases \cup {None}]],
         asked' \subseteq Requests \cup Updates,
         InboxOK(inbox'),
         \A s \in Services : \A e \in BagToSet(inbox'[s]) :
           e \in BagToSet(inbox[s]) \/ AfterHost(s, e)'
  PROVE  IInv'
  <1>1. TypeOK'
    BY DEF IInv, TypeOK, InboxOK
  <1>2. \A w \in Workers : HandlerOK(w)'
    BY DEF IInv, HandlerOK, Busy
  <1>3. \A s \in Services : \A e \in OnTheirWay(s)' : e \in OnTheirWay(s) \/ AfterHost(s, e)'
    BY DEF OnTheirWay, Busy
  <1>4. HostFirst'
    BY <1>3, HostFirstFromEvents DEF IInv
  <1> QED BY <1>1, <1>2, <1>4 DEF IInv

LEMMA RequestKeeps ==
  ASSUME IInv, NEW e \in Requests, Request(e)
  PROVE  IInv'
  <1>1. e \in Events /\ e.tries = 0 /\ InboxOK(inbox)
    BY Assumptions, TypeParts DEF IInv
  <1>2. /\ InboxOK(inbox')
        /\ \A s \in Services : BagToSet(inbox'[s]) \subseteq BagToSet(inbox[s]) \cup {e}
    BY <1>1, DeliveredAdds DEF Request
  <1>3. [e EXCEPT !.tries = 0] = e
    BY <1>1 DEF Events
  <1>4. \A s \in Services : AfterHost(s, e)'
    BY <1>3 DEF AfterHost
  <1> QED BY <1>2, <1>4, Surroundings DEF Request, IInv, TypeOK

LEMMA UpdateKeeps ==
  ASSUME IInv, NEW u \in Updates, UpdateConnectionString(u)
  PROVE  IInv'
  <1>1. /\ u.tenant \in Tenants /\ u.name \in Names /\ u.value \in Databases \cup {None}
        /\ StringUpdated(u) \in Events /\ InboxOK(inbox)
    BY Assumptions, EventsMade, TypeParts DEF IInv
  <1>2. /\ InboxOK(inbox')
        /\ \A s \in Services :
             BagToSet(inbox'[s]) \subseteq BagToSet(inbox[s]) \cup {StringUpdated(u)}
    BY <1>1, DeliveredAdds DEF UpdateConnectionString
  <1>3. \A s \in Services : AfterHost(s, StringUpdated(u))'
    BY DEF AfterHost, StringUpdated
  <1>4. strings' \in [Tenants -> [Names -> Databases \cup {None}]]
    BY <1>1 DEF UpdateConnectionString, IInv, TypeOK
  <1> QED BY <1>2, <1>3, <1>4, Surroundings DEF UpdateConnectionString, IInv, TypeOK

LEMMA StartupKeeps ==
  ASSUME IInv, NEW s \in Startups, CheckAndApplyDatabaseMigrations(s)
  PROVE  IInv'
  <1>1. <<s, HostDb[s]>> \in Services \X Databases /\ InboxOK(inbox)
    BY Assumptions, TypeParts DEF IInv
  <1>2. seeded' \subseteq Services \X Owners \X Databases
    BY <1>1, TypeOfSeeded, Assumptions DEF CheckAndApplyDatabaseMigrations, Owners
  <1> QED BY <1>1, <1>2, Surroundings DEF CheckAndApplyDatabaseMigrations, IInv, TypeOK

-----------------------------------------------------------------------------
(* The theorems *)

LEMMA InitEstablishes ==
  ASSUME Init
  PROVE  IInv
  <1>1. InboxOK(inbox) /\ \A s \in Services : BagToSet(inbox[s]) = {}
    BY EmptyBagIsEmpty DEF Init, InboxOK
  <1>2. TypeOK
    BY <1>1, Assumptions DEF Init, TypeOK, InboxOK
  <1>3. \A w \in Workers : ~Busy(w)
    BY DEF Init, Busy
  <1> QED BY <1>1, <1>2, <1>3 DEF IInv, HandlerOK, HostFirst, OnTheirWay

LEMMA NextPreserves ==
  ASSUME IInv, [Next]_vars
  PROVE  IInv'
  <1>1. CASE UNCHANGED vars
    BY <1>1 DEF vars, IInv, TypeOK, HandlerOK, HostFirst, OnTheirWay, Busy
  <1>2. ASSUME NEW w \in Workers, HandleEventAsync(w)
        PROVE  IInv'
    BY <1>2, ReceiveKeeps, FindTenantKeeps, FindPendingKeeps, MigrateKeeps, SeedKeeps, ListKeeps,
       QueueTenantKeeps, AllQueuedKeeps, HandleErrorKeeps, AcknowledgeKeeps
    DEF HandleEventAsync
  <1>3. ASSUME NEW w \in Workers, Crash(w)
        PROVE  IInv'
    BY <1>3, CrashKeeps
  <1>4. ASSUME NEW e \in Requests, Request(e)
        PROVE  IInv'
    BY <1>4, RequestKeeps
  <1>5. ASSUME NEW u \in Updates, UpdateConnectionString(u)
        PROVE  IInv'
    BY <1>5, UpdateKeeps
  <1>6. ASSUME NEW s \in Startups, CheckAndApplyDatabaseMigrations(s)
        PROVE  IInv'
    BY <1>6, StartupKeeps
  <1> QED BY <1>1, <1>2, <1>3, <1>4, <1>5, <1>6 DEF Next

\* The inductive invariant holds in every reachable state.
THEOREM Invariance == Spec => []IInv
  <1>1. Init => IInv
    BY InitEstablishes
  <1>2. IInv /\ [Next]_vars => IInv'
    BY NextPreserves
  <1> QED BY <1>1, <1>2, PTL DEF Spec

\* Every reachable state is well formed: above all, no event is on its way that
\* its service would not handle, or that was tried more than MaxEventTryCount
\* times before (IncrementEventTryCount).
THEOREM TypeCorrect == Spec => []TypeOK
  <1>1. IInv => TypeOK
    BY DEF IInv
  <1> QED BY <1>1, Invariance, PTL

\* A tenant's migration that a handler queued is asked for only once the host's
\* schema of that service is up to date, however handlers fail, stop, are
\* repeated or run beside one another.
THEOREM TenantsAfterHost == Spec => []HostFirst
  <1>1. IInv => HostFirst
    BY DEF IInv
  <1> QED BY <1>1, Invariance, PTL

=============================================================================
