----------------------- MODULE StartupMigrationsProofs -----------------------
(***************************************************************************)
(* Proofs about StartupMigrations, for every set of services, instances,   *)
(* tenants and databases and any number of failures, crashes and runs.     *)
(***************************************************************************)
EXTENDS StartupMigrations, TLAPS

-----------------------------------------------------------------------------
(* The strengthened invariant *)

\* While no process has crashed, a lock is held by an instance of its service
\* that is still in the locked block.
LockHeld ==
  crashes = 0 =>
    \A s \in Services : lock[s] # None =>
      lock[s] \in Instances /\ ServiceOf[lock[s]] = s /\ Holds(lock[s])

Pending(i) == At(i, "lock") \/ Holds(i) \/ At(i, "stopped")

\* An instance that passed its check leaves the migration done, or to another
\* one that has not passed it.
PassedRightly ==
  crashes = 0 =>
    \A i \in Instances : ~Pending(i) =>
      \/ <<ServiceOf[i], HostDb[ServiceOf[i]]>> \in migrated
      \/ \E j \in Instances : ServiceOf[j] = ServiceOf[i] /\ Pending(j)

\* Wherever a tenant's data is, all its schemas are up to date.
Migrated(t) ==
  \A s \in ToSet(TenantServices) : <<s, TenantDb(t, s)>> \in migrated

\* What the tool may conclude from one tenant about those with its database.
Owed(t) == DefaultString[t] # None /\ Alike(t) => Migrated(t)

\* Where the tool is: it migrates a tenant that has a database of its own.
ToolAt ==
  tool # Off =>
    /\ ~tool.forHost /\ tool.step = "migrate" =>
         /\ tool.tenants # <<>>
         /\ DefaultString[Head(tool.tenants)] # None
    /\ ~tool.forHost /\ tool.step = "seed" => tool.tenants # <<>>
    /\ tool.forHost => tool.step \in {"migrate", "seed"}

\* What the tool has done: a tenant of each database it will not do again, the
\* schemas of the tenant it is at, the tenants it has gone past.
ToolDone ==
  tool # Off =>
    /\ \A d \in tool.known : \E u \in ToSet(Tenants) : DefaultString[u] = d /\ Migrated(u)
    /\ ~tool.forHost /\ tool.step = "migrate" =>
         \A s \in ToSet(TenantServices) \ ToSet(tool.services) :
           <<s, TenantDb(Head(tool.tenants), s)>> \in migrated
    /\ ~tool.forHost /\ tool.step = "seed" => Owed(Head(tool.tenants))
    /\ ~tool.forHost /\ tool.step \in {"migrate", "seed", "next"} =>
         \A t \in ToSet(Tenants) \ ToSet(tool.tenants) : Owed(t)

ToolOK == ToolAt /\ ToolDone

IInv == TypeOK /\ OneMigratesAtATime /\ LockHeld /\ PassedRightly /\ ToolOK

-----------------------------------------------------------------------------
(* Sequences *)

LEMMA TailTypes ==
  ASSUME NEW S, NEW q \in Seq(S), q # <<>>
  PROVE  Head(q) \in S /\ Tail(q) \in Seq(S)
  OBVIOUS

\* Only the head leaves a sequence when its tail is taken.
LEMMA TailKeeps ==
  ASSUME NEW S, NEW q \in Seq(S), q # <<>>
  PROVE  /\ Head(q) \in ToSet(q)
         /\ ToSet(q) \subseteq ToSet(Tail(q)) \cup {Head(q)}
  <1>1. /\ Len(q) \in Nat /\ Len(q) # 0
        /\ DOMAIN q = 1 .. Len(q) /\ Head(q) = q[1]
        /\ DOMAIN Tail(q) = 1 .. (Len(q) - 1)
        /\ \A k \in 1 .. (Len(q) - 1) : Tail(q)[k] = q[k + 1]
    OBVIOUS
  <1>2. Head(q) \in ToSet(q)
    BY <1>1 DEF ToSet
  <1>3. ASSUME NEW e \in ToSet(q), e # Head(q)  PROVE e \in ToSet(Tail(q))
    <2>1. PICK k \in 1 .. Len(q) : e = q[k]
      BY <1>1 DEF ToSet
    <2>2. k # 1 /\ k - 1 \in 1 .. (Len(q) - 1) /\ Tail(q)[k - 1] = e
      BY <1>1, <1>3, <2>1
    <2> QED BY <1>1, <2>2 DEF ToSet
  <1> QED BY <1>2, <1>3

LEMMA NothingInEmpty == ToSet(<<>>) = {}
  BY DEF ToSet

-----------------------------------------------------------------------------
(* The instances *)

Common == ServiceAssumption /\ DatabaseAssumption /\ LimitAssumption

LEMMA Limits ==
  /\ RetryCount \in Nat \ {0} /\ MaxFailures \in Nat /\ MaxCrashes \in Nat
  /\ MaxRuns \in Nat
  BY LimitAssumption DEF LimitAssumption

LEMMA Assumed == Common
  BY ServiceAssumption, DatabaseAssumption, LimitAssumption DEF Common

\* The steps of instances, crashes and expiries keep what is said of the tool:
\* the databases migrated only grow.
LEMMA ToolUndisturbed ==
  ASSUME ToolOK, UNCHANGED tool, migrated \subseteq migrated'
  PROVE  ToolOK'
  <1>1. \A t : Migrated(t) => Migrated(t)'
    BY DEF Migrated
  <1>2. \A t : Owed(t) => Owed(t)'
    BY <1>1 DEF Owed
  <1> QED BY <1>1, <1>2 DEF ToolOK, ToolAt, ToolDone

\* Steps that migrate nothing keep every tenant as it is.
LEMMA DoneUndisturbed ==
  ASSUME UNCHANGED migrated
  PROVE  \A t : (Migrated(t)' <=> Migrated(t)) /\ (Owed(t)' <=> Owed(t))
  BY DEF Migrated, Owed

LEMMA CheckedEffect ==
  ASSUME TypeOK, NEW i \in Instances, Checked(i)
  PROVE  /\ inst' \in [Instances -> Startups]
         /\ inst'[i].step \in {"seed", "serving"}
         /\ \A j \in Instances \ {i} : inst'[j] = inst[j]
  BY Limits DEF Checked, TypeOK, Startups

LEMMA TryAgainEffect ==
  ASSUME TypeOK, NEW i \in Instances, NEW first \in {"lock", "seed"},
         TryAgain(i, first)
  PROVE  /\ inst' \in [Instances -> Startups]
         /\ inst'[i].step \in {first, "stopped"}
         /\ \A j \in Instances \ {i} : inst'[j] = inst[j]
         /\ failures' \in 0 .. MaxFailures
  BY Limits DEF TryAgain, TypeOK, Startups

\* What every step of instance i leaves alone.
OnlyInstance(i) ==
  /\ UNCHANGED <<tool, crashes>>
  /\ migrated \subseteq migrated'
  /\ \A j \in Instances \ {i} : inst'[j] = inst[j]
  /\ \A s \in Services \ {ServiceOf[i]} : lock'[s] = lock[s]

Locking == OneMigratesAtATime /\ LockHeld /\ PassedRightly

\* An instance that goes on waiting, seeding, or is started again.
LEMMA OutsideKeeps ==
  ASSUME IInv, NEW i \in Instances, OnlyInstance(i), UNCHANGED lock,
         \/ At(i, "lock") \/ At(i, "stopped")
         \/ At(i, "seed"),
         \/ inst'[i].step \in {"lock", "stopped"}
         \/ At(i, "seed") /\ inst'[i].step \in {"seed", "serving"}
  PROVE  Locking'
  <1> USE DEF OnlyInstance
  <1>1. ~Holds(i) /\ ~Holds(i)'
    BY DEF Holds, At
  <1>2. \A j \in Instances : Holds(j)' <=> Holds(j)
    BY <1>1 DEF Holds, At
  <1>3. OneMigratesAtATime' /\ LockHeld'
    BY <1>2 DEF IInv, OneMigratesAtATime, LockHeld
  <1>4. \A j \in Instances : Pending(j) => Pending(j)'
    BY <1>2 DEF Pending, At
  <1>5. \A j \in Instances : ~Pending(j)' => ~Pending(j)
    BY <1>4
  <1>6. PassedRightly'
    BY <1>4, <1>5 DEF IInv, PassedRightly
  <1> QED BY <1>3, <1>6 DEF Locking

\* An instance that finds the lock taken leaves the migration to its holder.
LEMMA SkippingKeeps ==
  ASSUME IInv, NEW i \in Instances, OnlyInstance(i), UNCHANGED lock,
         At(i, "lock"), lock[ServiceOf[i]] # None,
         inst'[i].step \in {"seed", "serving"}
  PROVE  Locking'
  <1> USE DEF OnlyInstance
  <1>1. \A j \in Instances : Holds(j)' <=> Holds(j)
    BY DEF Holds, At
  <1>2. OneMigratesAtATime' /\ LockHeld'
    BY <1>1 DEF IInv, OneMigratesAtATime, LockHeld
  <1>3. ASSUME crashes' = 0, NEW j \in Instances, ~Pending(j)'
        PROVE  \/ <<ServiceOf[j], HostDb[ServiceOf[j]]>> \in migrated'
               \/ \E k \in Instances : ServiceOf[k] = ServiceOf[j] /\ Pending(k)'
    <2>0. ServiceOf[i] \in Services
      BY Assumed DEF Common, ServiceAssumption
    <2>1. PICK k \in Instances : ServiceOf[k] = ServiceOf[i] /\ Holds(k)
      BY <1>3, <2>0 DEF IInv, LockHeld
    <2>2. Pending(k)'
      BY <1>1, <2>1 DEF Pending
    <2>3. CASE ServiceOf[j] = ServiceOf[i]
      BY <2>1, <2>2, <2>3
    <2>4. CASE ServiceOf[j] # ServiceOf[i]
      <3>1. j # i /\ ~Pending(j)
        BY <1>1, <1>3, <2>4 DEF Pending, At
      <3>2. \/ <<ServiceOf[j], HostDb[ServiceOf[j]]>> \in migrated
            \/ \E l \in Instances : ServiceOf[l] = ServiceOf[j] /\ Pending(l)
        BY <1>3, <3>1 DEF IInv, PassedRightly
      <3>3. \A l \in Instances : ServiceOf[l] = ServiceOf[j] /\ Pending(l) => Pending(l)'
        BY <1>1, <2>4 DEF Pending, At
      <3> QED BY <3>2, <3>3
    <2> QED BY <2>3, <2>4
  <1>4. PassedRightly'
    BY <1>3, Assumed DEF PassedRightly, Common, ServiceAssumption
  <1> QED BY <1>2, <1>4 DEF Locking

\* Acquiring the free lock.
LEMMA AcquiringKeeps ==
  ASSUME IInv, NEW i \in Instances, OnlyInstance(i),
         At(i, "lock"), lock[ServiceOf[i]] = None,
         lock' = [lock EXCEPT ![ServiceOf[i]] = i],
         inst'[i].step = "check"
  PROVE  Locking'
  <1> USE DEF OnlyInstance
  <1>1. /\ \A j \in Instances \ {i} : Holds(j)' <=> Holds(j)
        /\ Holds(i)'
    BY DEF Holds, At
  <1>2. ServiceOf[i] \in Services /\ i # None /\ lock'[ServiceOf[i]] = i
    BY Assumed DEF Common, ServiceAssumption, DatabaseAssumption, IInv, TypeOK
  <1>3. \A j \in Instances \ {i} : Holds(j) => ServiceOf[j] # ServiceOf[i]
    <2> TAKE j \in Instances \ {i}
    <2>1. j # None
      BY Assumed DEF Common, DatabaseAssumption
    <2> QED BY <2>1 DEF IInv, OneMigratesAtATime
  <1>4. OneMigratesAtATime'
    <2> SUFFICES ASSUME NEW j \in Instances, Holds(j)'
                 PROVE  lock'[ServiceOf[j]] = j
      BY DEF OneMigratesAtATime
    <2>1. ServiceOf[j] \in Services
      BY Assumed DEF Common, ServiceAssumption
    <2> QED BY <1>1, <1>2, <1>3, <2>1 DEF IInv, OneMigratesAtATime
  <1>5. LockHeld'
    BY <1>1, <1>2 DEF IInv, LockHeld
  <1>6. \A j \in Instances : Pending(j)' <=> Pending(j)
    BY <1>1 DEF Pending, At
  <1>7. PassedRightly'
    BY <1>6 DEF IInv, PassedRightly
  <1> QED BY <1>4, <1>5, <1>7 DEF Locking

\* Leaving the locked block, with the database migrated or to start anew.
LEMMA ReleasingKeeps ==
  ASSUME IInv, NEW i \in Instances, OnlyInstance(i), Holds(i), Release(i),
         \/ inst'[i].step \in {"lock", "stopped"}
         \/ /\ inst'[i].step \in {"seed", "serving"}
            /\ <<ServiceOf[i], HostDb[ServiceOf[i]]>> \in migrated'
  PROVE  Locking'
  <1> USE DEF OnlyInstance
  <1>1. /\ \A j \in Instances \ {i} : Holds(j)' <=> Holds(j)
        /\ ~Holds(i)'
    BY DEF Holds, At
  <1>2. /\ ServiceOf[i] \in Services /\ lock'[ServiceOf[i]] = None
        /\ lock[ServiceOf[i]] = i
    BY Assumed DEF Common, ServiceAssumption, IInv, TypeOK, Release, OneMigratesAtATime
  <1>3. OneMigratesAtATime'
    <2> SUFFICES ASSUME NEW j \in Instances, Holds(j)'
                 PROVE  lock'[ServiceOf[j]] = j
      BY DEF OneMigratesAtATime
    <2>1. ServiceOf[j] \in Services /\ Holds(j) /\ j # i
      BY <1>1, Assumed DEF Common, ServiceAssumption
    <2>2. lock[ServiceOf[j]] = j
      BY <2>1 DEF IInv, OneMigratesAtATime
    <2> QED BY <1>2, <2>1, <2>2
  <1>4. LockHeld'
    <2> SUFFICES ASSUME crashes' = 0, NEW s \in Services, lock'[s] # None
                 PROVE  lock'[s] \in Instances /\ ServiceOf[lock'[s]] = s /\ Holds(lock[s])'
      BY DEF LockHeld
    <2>1. s # ServiceOf[i] /\ lock'[s] = lock[s]
      BY <1>2
    <2>2. lock[s] \in Instances /\ ServiceOf[lock[s]] = s /\ Holds(lock[s])
      BY <2>1 DEF IInv, LockHeld
    <2>3. lock[s] # i
      BY <2>1, <2>2
    <2> QED BY <1>1, <2>1, <2>2, <2>3 DEF Holds, At
  <1>5. PassedRightly'
    <2> SUFFICES ASSUME crashes' = 0, NEW j \in Instances, ~Pending(j)'
                 PROVE  \/ <<ServiceOf[j], HostDb[ServiceOf[j]]>> \in migrated'
                        \/ \E k \in Instances : ServiceOf[k] = ServiceOf[j] /\ Pending(k)'
      BY Assumed DEF PassedRightly, Common, ServiceAssumption
    <2>1. CASE inst'[i].step \in {"lock", "stopped"}
      <3>1. Pending(i)' /\ \A k \in Instances : Pending(k) => Pending(k)'
        BY <1>1, <2>1 DEF Pending, At
      <3> QED BY <3>1 DEF IInv, PassedRightly
    <2>2. CASE /\ inst'[i].step \in {"seed", "serving"}
               /\ <<ServiceOf[i], HostDb[ServiceOf[i]]>> \in migrated'
      <3>1. CASE ServiceOf[j] = ServiceOf[i]
        BY <2>2, <3>1
      <3>2. CASE ServiceOf[j] # ServiceOf[i]
        <4>1. /\ ~Pending(j)
              /\ \A k \in Instances : ServiceOf[k] = ServiceOf[j] /\ Pending(k) => Pending(k)'
          BY <1>1, <3>2 DEF Pending, At
        <4> QED BY <4>1 DEF IInv, PassedRightly
      <3> QED BY <3>1, <3>2
    <2> QED BY <2>1, <2>2
  <1> QED BY <1>3, <1>4, <1>5 DEF Locking

LEMMA InsideKeeps ==
  ASSUME IInv, NEW i \in Instances, OnlyInstance(i), UNCHANGED lock,
         At(i, "check"), inst'[i].step = "migrate"
  PROVE  Locking'
  <1> USE DEF OnlyInstance
  <1>1. \A j \in Instances : Holds(j)' <=> Holds(j)
    BY DEF Holds, At
  <1>2. \A j \in Instances : Pending(j)' <=> Pending(j)
    BY <1>1 DEF Pending, At, Holds
  <1> QED BY <1>1, <1>2
          DEF Locking, IInv, OneMigratesAtATime, LockHeld, PassedRightly

-----------------------------------------------------------------------------
(* One lemma per action *)

LEMMA TryAcquireKeeps ==
  ASSUME IInv, NEW i \in Instances, TryAcquire(i)
  PROVE  IInv'
  <1> USE DEF TryAcquire
  <1>0. TypeOK /\ ServiceOf[i] \in Services
    BY Assumed DEF IInv, Common, ServiceAssumption
  <1>1. CASE /\ lock[ServiceOf[i]] = None
             /\ lock' = [lock EXCEPT ![ServiceOf[i]] = i]
             /\ inst' = [inst EXCEPT ![i].step = "check"]
             /\ UNCHANGED failures
    <2>1. /\ OnlyInstance(i) /\ inst'[i].step = "check"
          /\ inst' \in [Instances -> Startups]
          /\ lock' \in [Services -> Instances \cup {None}]
      BY <1>0, <1>1 DEF OnlyInstance, TypeOK, Startups
    <2>2. TypeOK' /\ ToolOK'
      BY <1>0, <1>1, <2>1, ToolUndisturbed DEF TypeOK, IInv
    <2>3. Locking'
      BY <1>1, <2>1, AcquiringKeeps
    <2> QED BY <2>2, <2>3 DEF IInv, Locking
  <1>2. CASE lock[ServiceOf[i]] # None /\ Checked(i) /\ UNCHANGED <<lock, failures>>
    <2>1. /\ inst' \in [Instances -> Startups]
          /\ inst'[i].step \in {"seed", "serving"}
          /\ \A j \in Instances \ {i} : inst'[j] = inst[j]
      BY <1>0, <1>2, CheckedEffect
    <2>2. TypeOK' /\ ToolOK'
      BY <1>0, <1>2, <2>1, ToolUndisturbed DEF TypeOK, IInv
    <2>3. Locking'
      BY <1>2, <2>1, SkippingKeeps DEF OnlyInstance
    <2> QED BY <2>2, <2>3 DEF IInv, Locking
  <1>3. CASE TryAgain(i, "lock") /\ UNCHANGED lock
    <2>1. /\ inst' \in [Instances -> Startups]
          /\ inst'[i].step \in {"lock", "stopped"}
          /\ \A j \in Instances \ {i} : inst'[j] = inst[j]
          /\ failures' \in 0 .. MaxFailures
      BY <1>0, <1>3, TryAgainEffect
    <2>2. TypeOK' /\ ToolOK'
      BY <1>0, <1>3, <2>1, ToolUndisturbed DEF TypeOK, IInv
    <2>3. Locking'
      BY <1>3, <2>1, OutsideKeeps DEF OnlyInstance
    <2> QED BY <2>2, <2>3 DEF IInv, Locking
  <1> QED BY <1>1, <1>2, <1>3

\* Release, as both steps of the locked block use it.
LEMMA ReleaseTyped ==
  ASSUME TypeOK, NEW i \in Instances, Release(i)
  PROVE  /\ lock' \in [Services -> Instances \cup {None}]
         /\ \A s \in Services \ {ServiceOf[i]} : lock'[s] = lock[s]
  BY DEF TypeOK, Release

LEMMA GetPendingMigrationsKeeps ==
  ASSUME IInv, NEW i \in Instances, GetPendingMigrations(i)
  PROVE  IInv'
  <1> USE DEF GetPendingMigrations
  <1>0. TypeOK /\ Holds(i)
    BY DEF IInv, Holds
  <1>1. CASE inst' = [inst EXCEPT ![i].step = "migrate"] /\ UNCHANGED <<lock, failures>>
    <2>1. /\ OnlyInstance(i) /\ inst'[i].step = "migrate"
          /\ inst' \in [Instances -> Startups]
      BY <1>0, <1>1 DEF OnlyInstance, TypeOK, Startups
    <2>2. TypeOK' /\ ToolOK'
      BY <1>0, <1>1, <2>1, ToolUndisturbed DEF TypeOK, IInv
    <2>3. Locking'
      BY <1>1, <2>1, InsideKeeps
    <2> QED BY <2>2, <2>3 DEF IInv, Locking
  <1>2. CASE /\ <<ServiceOf[i], HostDb[ServiceOf[i]]>> \in migrated
             /\ Checked(i) /\ Release(i) /\ UNCHANGED failures
    <2>1. /\ inst' \in [Instances -> Startups]
          /\ inst'[i].step \in {"seed", "serving"}
          /\ \A j \in Instances \ {i} : inst'[j] = inst[j]
      BY <1>0, <1>2, CheckedEffect
    <2>2. /\ lock' \in [Services -> Instances \cup {None}]
          /\ OnlyInstance(i)
      BY <1>0, <1>2, <2>1, ReleaseTyped DEF OnlyInstance
    <2>3. TypeOK' /\ ToolOK'
      BY <1>0, <1>2, <2>1, <2>2, ToolUndisturbed DEF TypeOK, IInv
    <2>4. Locking'
      BY <1>0, <1>2, <2>1, <2>2, ReleasingKeeps
    <2> QED BY <2>3, <2>4 DEF IInv, Locking
  <1>3. CASE TryAgain(i, "lock") /\ Release(i)
    <2>1. /\ inst' \in [Instances -> Startups]
          /\ inst'[i].step \in {"lock", "stopped"}
          /\ \A j \in Instances \ {i} : inst'[j] = inst[j]
          /\ failures' \in 0 .. MaxFailures
      BY <1>0, <1>3, TryAgainEffect
    <2>2. /\ lock' \in [Services -> Instances \cup {None}]
          /\ OnlyInstance(i)
      BY <1>0, <1>3, <2>1, ReleaseTyped DEF OnlyInstance
    <2>3. TypeOK' /\ ToolOK'
      BY <1>0, <1>3, <2>1, <2>2, ToolUndisturbed DEF TypeOK, IInv
    <2>4. Locking'
      BY <1>0, <1>3, <2>1, <2>2, ReleasingKeeps
    <2> QED BY <2>3, <2>4 DEF IInv, Locking
  <1> QED BY <1>1, <1>2, <1>3

LEMMA MigrateKeeps ==
  ASSUME IInv, NEW i \in Instances, Migrate(i)
  PROVE  IInv'
  <1> USE DEF Migrate
  <1>0. TypeOK /\ Holds(i)
    BY DEF IInv, Holds
  <1>1. lock' \in [Services -> Instances \cup {None}]
        /\ \A s \in Services \ {ServiceOf[i]} : lock'[s] = lock[s]
    BY <1>0, ReleaseTyped
  <1>2. CASE /\ migrated' = migrated \cup {<<ServiceOf[i], HostDb[ServiceOf[i]]>>}
             /\ Checked(i) /\ UNCHANGED failures
    <2>1. /\ inst' \in [Instances -> Startups]
          /\ inst'[i].step \in {"seed", "serving"}
          /\ \A j \in Instances \ {i} : inst'[j] = inst[j]
      BY <1>0, <1>2, CheckedEffect
    <2>2. /\ migrated' \subseteq Services \X Databases
          /\ <<ServiceOf[i], HostDb[ServiceOf[i]]>> \in migrated'
          /\ OnlyInstance(i)
      BY <1>0, <1>1, <1>2, <2>1, Assumed
      DEF OnlyInstance, TypeOK, Common, ServiceAssumption, DatabaseAssumption
    <2>3. TypeOK' /\ ToolOK'
      BY <1>0, <1>1, <1>2, <2>1, <2>2, ToolUndisturbed DEF TypeOK, IInv, OnlyInstance
    <2>4. Locking'
      BY <1>0, <1>2, <2>1, <2>2, ReleasingKeeps
    <2> QED BY <2>3, <2>4 DEF IInv, Locking
  <1>3. CASE TryAgain(i, "lock") /\ UNCHANGED migrated
    <2>1. /\ inst' \in [Instances -> Startups]
          /\ inst'[i].step \in {"lock", "stopped"}
          /\ \A j \in Instances \ {i} : inst'[j] = inst[j]
          /\ failures' \in 0 .. MaxFailures
      BY <1>0, <1>3, TryAgainEffect
    <2>2. OnlyInstance(i)
      BY <1>1, <1>3, <2>1 DEF OnlyInstance
    <2>3. TypeOK' /\ ToolOK'
      BY <1>0, <1>1, <1>3, <2>1, ToolUndisturbed DEF TypeOK, IInv
    <2>4. Locking'
      BY <1>0, <1>3, <2>1, <2>2, ReleasingKeeps
    <2> QED BY <2>3, <2>4 DEF IInv, Locking
  <1> QED BY <1>2, <1>3

LEMMA SeedKeeps ==
  ASSUME IInv, NEW i \in Instances, Seed(i)
  PROVE  IInv'
  <1> USE DEF Seed
  <1>0. TypeOK
    BY DEF IInv
  <1>1. /\ inst' \in [Instances -> Startups]
        /\ inst'[i].step \in {"seed", "serving", "stopped"}
        /\ \A j \in Instances \ {i} : inst'[j] = inst[j]
        /\ failures' \in 0 .. MaxFailures
    <2>1. CASE inst' = [inst EXCEPT ![i].step = "serving"] /\ UNCHANGED failures
      BY <1>0, <2>1 DEF TypeOK, Startups
    <2>2. CASE TryAgain(i, "seed")
      BY <1>0, <2>2, TryAgainEffect
    <2> QED BY <2>1, <2>2
  <1>2. TypeOK' /\ ToolOK'
    BY <1>0, <1>1, ToolUndisturbed DEF TypeOK, IInv
  <1>3. Locking'
    BY <1>1, OutsideKeeps DEF OnlyInstance
  <1> QED BY <1>2, <1>3 DEF IInv, Locking

LEMMA RestartKeeps ==
  ASSUME IInv, NEW i \in Instances, Restart(i)
  PROVE  IInv'
  <1>1. /\ inst' \in [Instances -> Startups]
        /\ inst'[i].step = "lock"
        /\ \A j \in Instances \ {i} : inst'[j] = inst[j]
    BY Limits DEF Restart, Starting, IInv, TypeOK, Startups
  <1>2. TypeOK' /\ ToolOK'
    BY <1>1, ToolUndisturbed DEF Restart, TypeOK, IInv
  <1>3. Locking'
    BY <1>1, OutsideKeeps DEF Restart, OnlyInstance
  <1> QED BY <1>2, <1>3 DEF IInv, Locking

LEMMA CrashKeeps ==
  ASSUME IInv, NEW i \in Instances, Crash(i)
  PROVE  IInv'
  <1>1. /\ inst' \in [Instances -> Startups]
        /\ inst'[i].step = "stopped"
        /\ \A j \in Instances \ {i} : inst'[j] = inst[j]
        /\ crashes' \in 0 .. MaxCrashes /\ crashes' # 0
    BY Limits DEF Crash, IInv, TypeOK, Startups
  <1>2. TypeOK' /\ ToolOK'
    BY <1>1, ToolUndisturbed DEF Crash, TypeOK, IInv
  <1>3. \A j \in Instances : Holds(j)' => Holds(j)
    BY <1>1 DEF Holds, At
  <1>4. Locking'
    BY <1>1, <1>3
    DEF Crash, IInv, Locking, OneMigratesAtATime, LockHeld, PassedRightly
  <1> QED BY <1>2, <1>4 DEF IInv, Locking

LEMMA LockExpiresKeeps ==
  ASSUME IInv, NEW s \in Services, LockExpires(s)
  PROVE  IInv'
  <1> USE DEF LockExpires
  <1>1. TypeOK' /\ ToolOK'
    BY ToolUndisturbed DEF TypeOK, IInv
  <1>2. \A j \in Instances : (Holds(j)' <=> Holds(j)) /\ (Pending(j)' <=> Pending(j))
    BY DEF Pending, Holds, At
  <1>3. OneMigratesAtATime'
    <2> SUFFICES ASSUME NEW j \in Instances, Holds(j)'
                 PROVE  lock'[ServiceOf[j]] = j
      BY DEF OneMigratesAtATime
    <2>1. Holds(j) /\ lock[ServiceOf[j]] = j
      BY <1>2 DEF IInv, OneMigratesAtATime
    <2> QED BY <2>1 DEF IInv, TypeOK
  <1>4. crashes' # 0
    BY DEF IInv, LockHeld
  <1> QED BY <1>1, <1>3, <1>4 DEF IInv, LockHeld, PassedRightly

-----------------------------------------------------------------------------
(* The tool *)

\* The steps of the tool leave the instances and their locks alone.
LEMMA LockingUndisturbed ==
  ASSUME IInv, UNCHANGED <<inst, lock, crashes>>, migrated \subseteq migrated'
  PROVE  Locking'
  BY DEF IInv, Locking, OneMigratesAtATime, LockHeld, PassedRightly, Pending, Holds, At

LEMMA StartToolKeeps ==
  ASSUME IInv, StartTool
  PROVE  IInv'
  <1> USE DEF StartTool
  <1>1. TypeOK'
    BY Assumed, Limits DEF IInv, TypeOK, ToolRuns, Common, ServiceAssumption
  <1>2. ToolOK'
    BY DEF ToolOK, ToolAt, ToolDone
  <1> QED BY <1>1, <1>2, LockingUndisturbed DEF IInv, Locking

\* A run that ends in an exception leaves nothing behind in memory.
LEMMA ToolFailsKeeps ==
  ASSUME IInv, ToolFails, UNCHANGED <<migrated, inst, lock, crashes, runs>>
  PROVE  IInv'
  <1> USE DEF ToolFails
  <1>1. TypeOK'
    BY Limits DEF IInv, TypeOK
  <1>2. ToolOK'
    BY DEF ToolOK, ToolAt, ToolDone
  <1> QED BY <1>1, <1>2, LockingUndisturbed DEF IInv, Locking

LEMMA TenantTyped ==
  ASSUME TypeOK, ToolAt, tool # Off, tool.step = "migrate", ~tool.forHost
  PROVE  /\ Head(tool.tenants) \in ToSet(Tenants)
         /\ DefaultString[Head(tool.tenants)] \in Databases
  <1>1. tool.tenants \in Seq(ToSet(Tenants))
    BY DEF TypeOK, ToolRuns
  <1>2. /\ Head(tool.tenants) \in ToSet(Tenants)
        /\ DefaultString[Head(tool.tenants)] # None
    BY <1>1, TailTypes DEF ToolAt
  <1> QED BY <1>2, Assumed DEF Common, DatabaseAssumption

\* What the tool asks for is a database.
LEMMA ToolDbTyped ==
  ASSUME TypeOK, ToolAt, tool # Off, tool.step = "migrate", NEW s \in Services
  PROVE  ToolDb(s) \in Databases
  <1>1. HostDb[s] \in Databases
    BY Assumed DEF Common, DatabaseAssumption
  <1>2. CASE tool.forHost
    BY <1>1, <1>2 DEF ToolDb
  <1>3. CASE ~tool.forHost
    <2> DEFINE t == Head(tool.tenants)
    <2>1. t \in ToSet(Tenants) /\ DefaultString[t] \in Databases
      BY <1>3, TenantTyped
    <2>2. OwnString[t][s] \in Databases \cup {None}
      BY <2>1, Assumed DEF Common, DatabaseAssumption
    <2>3. TenantDb(t, s) \in Databases
      BY <1>1, <2>1, <2>2 DEF TenantDb
    <2> QED BY <1>3, <2>3 DEF ToolDb
  <1> QED BY <1>2, <1>3

LEMMA ToolMigratesKeeps ==
  ASSUME IInv, ToolMigrates
  PROVE  IInv'
  <1> USE DEF ToolMigrates
  <1>0. /\ TypeOK /\ ToolAt /\ ToolDone /\ tool # Off /\ tool \in ToolRuns
        /\ tool.step = "migrate"
    BY DEF IInv, ToolOK, TypeOK
  <1>1. CASE /\ tool.services # <<>>
             /\ migrated' = migrated \cup {<<Head(tool.services), ToolDb(Head(tool.services))>>}
             /\ tool' = [tool EXCEPT !.services = Tail(@)]
             /\ UNCHANGED failures
    <2> DEFINE h == Head(tool.services)
    <2>1. /\ tool.services \in Seq(Services) /\ h \in Services
          /\ Tail(tool.services) \in Seq(Services)
          /\ ToSet(tool.services) \subseteq ToSet(Tail(tool.services)) \cup {h}
      BY <1>0, <1>1, TailTypes, TailKeeps DEF ToolRuns
    <2>2. ToolDb(h) \in Databases
      BY <1>0, <2>1, ToolDbTyped
    <2>3. /\ tool' \in ToolRuns /\ tool' # Off
          /\ tool'.services = Tail(tool.services)
          /\ tool'.step = "migrate" /\ tool'.forHost = tool.forHost
          /\ tool'.tenants = tool.tenants /\ tool'.known = tool.known
      BY <1>0, <1>1, <2>1 DEF ToolRuns, Off
    <2>4. TypeOK'
      BY <1>0, <1>1, <2>1, <2>2, <2>3 DEF TypeOK
    <2>5. ToolAt'
      BY <1>0, <2>3 DEF ToolAt
    <2>6. ASSUME ~tool.forHost,
                 NEW s \in ToSet(TenantServices) \ ToSet(Tail(tool.services))
          PROVE  <<s, TenantDb(Head(tool.tenants), s)>> \in migrated'
      <3>1. CASE s \in ToSet(tool.services)
        BY <1>1, <2>1, <2>6, <3>1 DEF ToolDb
      <3>2. CASE s \notin ToSet(tool.services)
        BY <1>0, <1>1, <2>6, <3>2 DEF ToolDone
      <3> QED BY <3>1, <3>2
    <2>7. ToolDone'
      <3>1. \A t : Migrated(t) => Migrated(t)'
        BY <1>1 DEF Migrated
      <3>2. \A t : Owed(t) => Owed(t)'
        BY <3>1 DEF Owed
      <3> QED BY <1>0, <2>3, <2>6, <3>1, <3>2 DEF ToolDone
    <2>8. Locking'
      BY <1>1, LockingUndisturbed
    <2> QED BY <2>4, <2>5, <2>7, <2>8 DEF IInv, Locking, ToolOK
  <1>2. CASE tool.services # <<>> /\ ToolFails /\ UNCHANGED migrated
    BY <1>2, ToolFailsKeeps
  <1>3. CASE /\ tool.services = <<>>
             /\ tool' = [tool EXCEPT !.step = "seed",
                  !.known = IF tool.forHost THEN @
                            ELSE @ \cup {DefaultString[Head(tool.tenants)]}]
             /\ UNCHANGED <<migrated, failures>>
    <2> DEFINE d == DefaultString[Head(tool.tenants)]
    <2>0. ~tool.forHost => d \in Databases
      BY <1>0, TenantTyped
    <2>1. /\ tool' \in ToolRuns /\ tool' # Off /\ tool'.step = "seed"
          /\ tool'.forHost = tool.forHost /\ tool'.tenants = tool.tenants
          /\ tool'.known = IF tool.forHost THEN tool.known ELSE tool.known \cup {d}
      BY <1>0, <1>3, <2>0 DEF ToolRuns, Off
    <2>2. TypeOK'
      BY <1>0, <1>3, <2>1 DEF TypeOK
    <2>3. ToolAt'
      BY <1>0, <2>1 DEF ToolAt
    <2>4. ~tool.forHost => Migrated(Head(tool.tenants))
      BY <1>0, <1>3, NothingInEmpty DEF ToolDone, Migrated
    <2>5. ToolDone'
      <3>1. \A t : Migrated(t)' <=> Migrated(t)
        BY <1>3 DEF Migrated
      <3>2. \A t : Owed(t)' <=> Owed(t)
        BY <3>1 DEF Owed
      <3>3. ~tool.forHost => Head(tool.tenants) \in ToSet(Tenants)
        BY <1>0, TenantTyped
      <3>4. \A e \in tool'.known : \E u \in ToSet(Tenants) :
              DefaultString[u] = e /\ Migrated(u)'
        <4>1. CASE tool.forHost
          BY <1>0, <2>1, <3>1, <4>1 DEF ToolDone
        <4>2. CASE ~tool.forHost
          BY <1>0, <2>1, <2>4, <3>1, <3>3, <4>2 DEF ToolDone
        <4> QED BY <4>1, <4>2
      <3>5. ~tool.forHost => Owed(Head(tool.tenants))'
        <4>1. PICK t : t = Head(tool.tenants)
          OBVIOUS
        <4>2. ~tool.forHost => Owed(t)'
          BY <2>4, <3>1, <4>1 DEF Owed
        <4> QED BY <2>1, <4>1, <4>2
      <3>6. ~tool.forHost =>
              \A t \in ToSet(Tenants) \ ToSet(tool.tenants) : Owed(t)'
        BY <1>0, <3>2 DEF ToolDone
      <3> QED BY <2>1, <3>4, <3>5, <3>6 DEF ToolDone
    <2>6. Locking'
      BY <1>3, LockingUndisturbed
    <2> QED BY <2>2, <2>3, <2>5, <2>6 DEF IInv, Locking, ToolOK
  <1> QED BY <1>1, <1>2, <1>3

LEMMA ToolSeedsKeeps ==
  ASSUME IInv, ToolSeeds
  PROVE  IInv'
  <1> USE DEF ToolSeeds
  <1>0. /\ TypeOK /\ ToolAt /\ ToolDone /\ tool # Off /\ tool \in ToolRuns
        /\ tool.step = "seed"
    BY DEF IInv, ToolOK, TypeOK
  <1>1. CASE tool.forHost /\ tool' = [tool EXCEPT !.step = "list", !.forHost = FALSE]
             /\ UNCHANGED failures
    <2>1. /\ tool' \in ToolRuns /\ tool' # Off /\ tool'.step = "list"
          /\ ~tool'.forHost /\ tool'.known = tool.known
      BY <1>0, <1>1 DEF ToolRuns, Off
    <2>2. TypeOK' /\ ToolAt' /\ ToolDone'
      BY <1>0, <1>1, <2>1, DoneUndisturbed DEF TypeOK, ToolAt, ToolDone
    <2> QED BY <2>2, LockingUndisturbed DEF IInv, Locking, ToolOK
  <1>2. CASE ~tool.forHost /\ tool' = [tool EXCEPT !.step = "next", !.tenants = Tail(@)]
             /\ UNCHANGED failures
    <2>1. /\ tool.tenants \in Seq(ToSet(Tenants)) /\ tool.tenants # <<>>
          /\ Tail(tool.tenants) \in Seq(ToSet(Tenants))
          /\ ToSet(tool.tenants) \subseteq ToSet(Tail(tool.tenants)) \cup {Head(tool.tenants)}
      BY <1>0, <1>2, TailTypes, TailKeeps DEF ToolRuns, ToolAt
    <2>2. /\ tool' \in ToolRuns /\ tool' # Off /\ tool'.step = "next"
          /\ ~tool'.forHost /\ tool'.known = tool.known
          /\ tool'.tenants = Tail(tool.tenants)
      BY <1>0, <1>2, <2>1 DEF ToolRuns, Off
    <2>3. TypeOK' /\ ToolAt'
      BY <1>0, <1>2, <2>2 DEF TypeOK, ToolAt
    <2>4. ASSUME NEW t \in ToSet(Tenants) \ ToSet(Tail(tool.tenants))
          PROVE  Owed(t)
      <3>1. CASE t = Head(tool.tenants)
        BY <1>0, <1>2, <3>1 DEF ToolDone
      <3>2. CASE t # Head(tool.tenants)
        BY <1>0, <1>2, <2>1, <2>4, <3>2 DEF ToolDone
      <3> QED BY <3>1, <3>2
    <2>5. ToolDone'
      BY <1>0, <2>2, <2>4, DoneUndisturbed DEF ToolDone
    <2> QED BY <2>3, <2>5, LockingUndisturbed DEF IInv, Locking, ToolOK
  <1>3. CASE ToolFails
    BY <1>3, ToolFailsKeeps
  <1> QED BY <1>1, <1>2, <1>3

LEMMA ToolListsKeeps ==
  ASSUME IInv, ToolLists
  PROVE  IInv'
  <1> USE DEF ToolLists
  <1>0. /\ TypeOK /\ ToolAt /\ ToolDone /\ tool # Off /\ tool \in ToolRuns
        /\ tool.step = "list" /\ ~tool.forHost
    BY DEF IInv, ToolOK, ToolAt, TypeOK
  <1>1. CASE tool' = [tool EXCEPT !.step = "next", !.tenants = Tenants] /\ UNCHANGED failures
    <2>1. /\ tool' \in ToolRuns /\ tool' # Off /\ tool'.step = "next"
          /\ ~tool'.forHost /\ tool'.known = tool.known /\ tool'.tenants = Tenants
      BY <1>0, <1>1, Assumed DEF ToolRuns, Off, Common, DatabaseAssumption
    <2>2. TypeOK' /\ ToolAt' /\ ToolDone'
      BY <1>0, <1>1, <2>1, DoneUndisturbed DEF TypeOK, ToolAt, ToolDone
    <2> QED BY <2>2, LockingUndisturbed DEF IInv, Locking, ToolOK
  <1>2. CASE failures < MaxFailures /\ failures' = failures + 1
             /\ tool' = [tool EXCEPT !.step = "completed"]
    <2>1. /\ tool' \in ToolRuns /\ tool' # Off /\ tool'.step = "completed"
          /\ ~tool'.forHost /\ tool'.known = tool.known
      BY <1>0, <1>2 DEF ToolRuns, Off
    <2>2. TypeOK'
      BY <1>0, <1>2, <2>1, Limits DEF TypeOK
    <2>3. ToolAt' /\ ToolDone'
      BY <1>0, <2>1, DoneUndisturbed DEF ToolAt, ToolDone
    <2> QED BY <2>2, <2>3, LockingUndisturbed DEF IInv, Locking, ToolOK
  <1> QED BY <1>1, <1>2

LEMMA ToolNextKeeps ==
  ASSUME IInv, ToolNext
  PROVE  IInv'
  <1> USE DEF ToolNext
  <1>0. /\ TypeOK /\ ToolAt /\ ToolDone /\ tool # Off /\ tool \in ToolRuns
        /\ tool.step = "next" /\ ~tool.forHost
    BY DEF IInv, ToolOK, ToolAt, TypeOK
  <1>1. CASE tool.tenants = <<>> /\ tool' = [tool EXCEPT !.step = "completed"]
    <2>1. /\ tool' \in ToolRuns /\ tool' # Off /\ tool'.step = "completed"
          /\ ~tool'.forHost /\ tool'.known = tool.known
      BY <1>0, <1>1 DEF ToolRuns, Off
    <2>2. TypeOK' /\ ToolAt' /\ ToolDone'
      BY <1>0, <2>1, DoneUndisturbed DEF TypeOK, ToolAt, ToolDone
    <2> QED BY <2>2, LockingUndisturbed DEF IInv, Locking, ToolOK
  <1>2. CASE /\ tool.tenants # <<>>
             /\ DefaultString[Head(tool.tenants)] \notin tool.known \cup {None}
             /\ tool' = [tool EXCEPT !.step = "migrate", !.services = TenantServices]
    <2>1. /\ tool' \in ToolRuns /\ tool' # Off /\ tool'.step = "migrate"
          /\ ~tool'.forHost /\ tool'.known = tool.known
          /\ tool'.tenants = tool.tenants /\ tool'.services = TenantServices
      BY <1>0, <1>2, Assumed DEF ToolRuns, Off, Common, ServiceAssumption
    <2>2. TypeOK' /\ ToolAt'
      BY <1>0, <1>2, <2>1 DEF TypeOK, ToolAt
    <2>3. ToolDone'
      BY <1>0, <2>1, DoneUndisturbed DEF ToolDone
    <2> QED BY <2>2, <2>3, LockingUndisturbed DEF IInv, Locking, ToolOK
  <1>3. CASE /\ tool.tenants # <<>>
             /\ DefaultString[Head(tool.tenants)] \in tool.known \cup {None}
             /\ tool' = [tool EXCEPT !.step = "seed"]
    <2>1. /\ tool' \in ToolRuns /\ tool' # Off /\ tool'.step = "seed"
          /\ ~tool'.forHost /\ tool'.known = tool.known
          /\ tool'.tenants = tool.tenants
      BY <1>0, <1>3 DEF ToolRuns, Off
    <2>2. TypeOK' /\ ToolAt'
      BY <1>0, <1>3, <2>1 DEF TypeOK, ToolAt
    <2>3. Owed(Head(tool.tenants))
      <3> DEFINE t == Head(tool.tenants)
      <3> SUFFICES ASSUME DefaultString[t] # None, Alike(t)
                   PROVE  Migrated(t)
        BY DEF Owed
      <3>1. PICK u \in ToSet(Tenants) : DefaultString[u] = DefaultString[t] /\ Migrated(u)
        BY <1>0, <1>3 DEF ToolDone
      <3> QED BY <3>1 DEF Alike, Migrated
    <2>4. ToolDone'
      BY <1>0, <2>1, <2>3, DoneUndisturbed DEF ToolDone
    <2> QED BY <2>2, <2>4, LockingUndisturbed DEF IInv, Locking, ToolOK
  <1> QED BY <1>1, <1>2, <1>3

-----------------------------------------------------------------------------
(* The theorems *)

LEMMA InitKeeps == Init => IInv
  <1> SUFFICES ASSUME Init  PROVE IInv
    OBVIOUS
  <1>1. TypeOK
    BY Assumed, Limits DEF Init, TypeOK, Startups, Starting, Common, ServiceAssumption
  <1>2. \A i \in Instances : ~Holds(i) /\ Pending(i)
    BY DEF Init, Starting, Holds, Pending, At
  <1>3. Locking
    BY <1>2, Assumed DEF Init, Locking, OneMigratesAtATime, LockHeld, PassedRightly
  <1>4. ToolOK
    BY DEF Init, ToolOK, ToolAt, ToolDone
  <1> QED BY <1>1, <1>3, <1>4 DEF IInv, Locking

LEMMA NextKeeps == IInv /\ [Next]_vars => IInv'
  <1> SUFFICES ASSUME IInv, [Next]_vars  PROVE IInv'
    OBVIOUS
  <1>1. ASSUME NEW i \in Instances, StartupCheck(i)  PROVE IInv'
    BY <1>1, TryAcquireKeeps, GetPendingMigrationsKeeps, MigrateKeeps, SeedKeeps
    DEF StartupCheck
  <1>2. ASSUME NEW i \in Instances, Restart(i) \/ Crash(i)  PROVE IInv'
    BY <1>2, RestartKeeps, CrashKeeps
  <1>3. ASSUME NEW s \in Services, LockExpires(s)  PROVE IInv'
    BY <1>3, LockExpiresKeeps
  <1>4. CASE StartTool
    BY <1>4, StartToolKeeps
  <1>5. CASE ToolStep
    BY <1>5, ToolMigratesKeeps, ToolSeedsKeeps, ToolListsKeeps, ToolNextKeeps DEF ToolStep
  <1>6. CASE UNCHANGED vars
    <2>1. TypeOK' /\ ToolOK'
      BY <1>6, ToolUndisturbed DEF vars, IInv, TypeOK
    <2> QED BY <1>6, <2>1, LockingUndisturbed DEF vars, IInv, Locking
  <1> QED BY <1>1, <1>2, <1>3, <1>4, <1>5, <1>6 DEF Next

\* The strengthened invariant holds of every reachable state.
THEOREM Invariance == Spec => []IInv
  BY InitKeeps, NextKeeps, PTL DEF Spec

\* Every variable keeps its type; the tool never asks for a null database.
THEOREM TypeCorrect == Spec => []TypeOK
  <1>1. IInv => TypeOK
    BY DEF IInv
  <1> QED BY <1>1, Invariance, PTL

\* The lock names the one instance that is in the locked block, whoever fails,
\* crashes or is restarted, for PendingEfCoreMigrationsChecker.
THEOREM LockExcludes == Spec => []OneMigratesAtATime
  <1>1. IInv => OneMigratesAtATime
    BY DEF IInv
  <1> QED BY <1>1, Invariance, PTL

\* An instance that did not get the lock never serves an old schema with nobody
\* left to migrate it, so long as no process has crashed.
THEOREM ServedSchemas == Spec => []ServesUpToDate
  <1>1. IInv => ServesUpToDate
    <2> SUFFICES ASSUME IInv, NEW i \in Instances, At(i, "serving"), crashes = 0
                 PROVE  LET s == ServiceOf[i] IN
                        \/ <<s, HostDb[s]>> \in migrated
                        \/ \E j \in Instances \ {i} :
                             ServiceOf[j] = s /\ ~At(j, "serving")
      BY DEF ServesUpToDate
    <2>1. ~Pending(i)
      BY DEF Pending, Holds, At
    <2>2. \/ <<ServiceOf[i], HostDb[ServiceOf[i]]>> \in migrated
          \/ \E j \in Instances : ServiceOf[j] = ServiceOf[i] /\ Pending(j)
      BY <2>1 DEF IInv, PassedRightly
    <2>3. \A j \in Instances : Pending(j) => j # i /\ ~At(j, "serving")
      BY DEF Pending, Holds, At
    <2> QED BY <2>2, <2>3
  <1> QED BY <1>1, Invariance, PTL

\* When ModuleTestDbMigrationService has gone past a tenant that has a default
\* connection string, every schema of the tenant is up to date, unless a tenant
\* with the same string keeps data of some service elsewhere.
THEOREM ToolLeavesNoTenant == Spec => []ToolMigratesTenants
  <1>1. IInv => ToolMigratesTenants
    <2> SUFFICES ASSUME IInv, tool # Off, tool.step = "next",
                        NEW t \in ToSet(Tenants) \ ToSet(tool.tenants),
                        DefaultString[t] # None, Alike(t)
                 PROVE  Migrated(t)
      BY DEF ToolMigratesTenants, Migrated
    <2>1. ~tool.forHost
      BY DEF IInv, ToolOK, ToolAt
    <2> QED BY <2>1 DEF IInv, ToolOK, ToolDone, Owed
  <1> QED BY <1>1, Invariance, PTL

=============================================================================
