----------------------------- MODULE LifecycleProofs ----------------------------
(***************************************************************************)
(* What Lifecycle guarantees for any number of machines, with whatever     *)
(* migrations in their binaries, and any number of requests and slugs.     *)
(***************************************************************************)
EXTENDS Lifecycle, TLAPS

Phases == {"down", "lock", "migrate", "connect", "serve", "drain",
           "stopPurge", "close", "exit"}
Sweeps == {"none", "select", "delete", "wait", "ended"}
Request == [at : Machines \cup {NoMachine}, tries : 0 .. SlugAttempts,
            slug : Slugs \cup {"undrawn", "refused"}]

\* The shape of the state, variable by variable.
Shape ==
    /\ applied \in Seq(Nat) /\ lock \in Machines \cup {NoMachine}
    /\ rows \in [Slugs -> Requests \cup {NoRequest}] /\ expired \subseteq Requests
    /\ pc \in [Machines -> Phases] /\ seen \in [Machines -> Nat]
    /\ signalled \in [Machines -> BOOLEAN] /\ stopped \in [Machines -> BOOLEAN]
    /\ sweeper \in [Machines -> Sweeps] /\ batch \in [Machines -> SUBSET Requests]
    /\ pool \in [Machines -> {"none", "open", "closed"}]
    /\ request \in [Requests -> Request] /\ faults \in 0 .. MaxFaults

\* The pool and the sweeper are there from the end of the start to the exit, and
\* past stopPurge the sweeper has returned.
Unwinding ==
    \A m \in Machines :
        /\ pc[m] \in {"down", "lock", "migrate", "connect"} =>
               sweeper[m] = "none" /\ pool[m] = "none"
        /\ pc[m] \in {"serve", "drain", "stopPurge", "close"} => pool[m] = "open"
        /\ pc[m] \in {"serve", "drain", "stopPurge"} => sweeper[m] # "none"
        /\ pc[m] = "exit" => pool[m] = "closed"
        /\ pc[m] \in {"close", "exit"} => sweeper[m] = "ended"

\* Who migrates holds the lock and knows the version; who is past it is not
\* ahead of the schema.
Schema ==
    /\ \A i \in DOMAIN applied : applied[i] = i
    /\ \A m \in Machines : pc[m] = "migrate" <=> lock = m
    /\ \A m \in Machines : pc[m] = "migrate" => seen[m] = Len(applied)
    /\ \A m \in Machines : pc[m] \notin {"down", "lock", "migrate"} => Len(applied) >= Latest[m]

\* Only what has expired is in a batch, and only during the statement.
Batches ==
    \A m \in Machines : /\ batch[m] \subseteq expired
                        /\ batch[m] # {} => sweeper[m] = "delete"

Inv == Shape /\ Unwinding /\ Schema /\ Batches /\ LinksHold

-----------------------------------------------------------------------------
(* Each part of the invariant is preserved. *)

\* The named assumptions of Lifecycle.
LEMMA Assumptions ==
    /\ Latest \in [Machines -> Nat]
    /\ SlugAttempts \in Nat /\ SlugAttempts > 0 /\ MaxFaults \in Nat
    /\ NoMachine \notin Machines /\ NoRequest \notin Requests
    /\ "undrawn" \notin Slugs /\ "refused" \notin Slugs
  BY LatestAssumption, LimitsAssumption, PlaceholderAssumption

\* How a request ends is a request, and a refusal is no slug.
LEMMA RequestTypes ==
    /\ Unmade \in Request /\ Refused \in Request /\ Refused.slug = "refused"
    /\ \A s \in Slugs : Answer(s) \in Request /\ Answer(s).slug = s
  <1>1. 0 \in 0 .. SlugAttempts
    BY Assumptions
  <1>2. \A s : Answer(s) = [at |-> NoMachine, tries |-> 0, slug |-> s]
    BY DEF Answer, Unmade
  <1> QED
    BY <1>1, <1>2 DEF Refused, Unmade, Request

\* A collision leaves the request one, and never invents a slug.
LEMMA CollisionType ==
    ASSUME NEW q \in Request, q.tries > 0
    PROVE  Collided(q) \in Request /\ (Collided(q).slug \in Slugs => Collided(q).slug = q.slug)
  <1>1. CASE q.tries = 1 \/ pool[q.at] = "closed"
    BY <1>1, RequestTypes, Assumptions DEF Collided
  <1>2. CASE ~(q.tries = 1 \/ pool[q.at] = "closed")
    <2>1. q.tries - 1 \in 0 .. SlugAttempts
      BY <1>2, Assumptions DEF Request
    <2>2. Collided(q) = [at |-> q.at, tries |-> q.tries - 1, slug |-> q.slug]
      BY <1>2 DEF Collided, Request
    <2> QED
      BY <2>1, <2>2 DEF Request
  <1> QED
    BY <1>1, <1>2

\* A committed request has the slug of its row.
LEMMA CommittedType ==
    ASSUME NEW q \in Request, NEW s \in Slugs
    PROVE  Committed(q, s) \in Request /\ Committed(q, s).slug = s
  <1>1. Committed(q, s) = [at |-> q.at, tries |-> 0, slug |-> s]
    BY DEF Committed
  <1>2. 0 \in 0 .. SlugAttempts
    BY Assumptions
  <1> QED
    BY <1>1, <1>2 DEF Request

\* The machines are down and nothing was asked.
LEMMA InitInv == Init => Inv
  <1> SUFFICES ASSUME Init
               PROVE  Inv
    OBVIOUS
  <1> USE DEF Init
  <1>1. Shape
    BY Assumptions DEF Shape, Phases, Sweeps, Request, Unmade
  <1>2. Unwinding /\ Batches
    BY DEF Unwinding, Batches
  <1>3. Schema
    BY Assumptions DEF Schema
  <1>4. LinksHold
    BY Assumptions DEF LinksHold, Unmade
  <1> QED
    BY <1>1, <1>2, <1>3, <1>4 DEF Inv

\* The ways out of a process are one: whatever it leaves keeps the invariant.
LEMMA GoneStep ==
    ASSUME Inv, NEW m \in Machines, Gone(m), faults' \in 0 .. MaxFaults
    PROVE  Inv'
  <1> USE DEF Gone
  <1>1. Refused \in Request /\ Refused.slug \notin Slugs
    BY RequestTypes, Assumptions
  <1>2. Shape'
    BY <1>1, Assumptions DEF Inv, Shape, Phases, Sweeps, Unlocked
  <1>3. Unwinding'
    BY DEF Inv, Shape, Unwinding
  <1>4. Schema'
    BY Assumptions DEF Inv, Shape, Schema, Unlocked
  <1>5. Batches'
    BY DEF Inv, Shape, Batches
  <1>6. LinksHold'
    BY <1>1 DEF Inv, Shape, LinksHold
  <1> QED
    BY <1>2, <1>3, <1>4, <1>5, <1>6 DEF Inv

\* From the lock to the listener.
LEMMA StartingStep ==
    ASSUME Inv, NEW m \in Machines, Start(m) \/ Starting(m)
    PROVE  Inv'
  <1> USE DEF Inv, database, sweeps, process, Goto
  <1>1. CASE Start(m)
    BY <1>1 DEF Start, Shape, Phases, Unwinding, Schema, Batches, LinksHold
  <1>2. CASE TakeLock(m)
    BY <1>2, Assumptions DEF TakeLock, LockFree, Shape, Phases, Unwinding, Schema, Batches, LinksHold
  <1>3. CASE GiveUp(m)
    BY <1>3, GoneStep DEF GiveUp, Shape
  <1>4. CASE Migrate(m)
    <2>1. applied' = Append(applied, seen[m] + 1) /\ seen[m] = Len(applied)
      BY <1>4 DEF Migrate, Schema
    <2>2. applied' \in Seq(Nat) /\ Len(applied') = Len(applied) + 1
      BY <2>1 DEF Shape
    <2>3. Shape'
      BY <1>4, <2>2 DEF Migrate, Shape
    <2>4. Schema'
      <3>1. \A i \in DOMAIN applied' : applied'[i] = i
        BY <2>1, <2>2 DEF Shape, Schema
      <3>2. seen'[m] = Len(applied') /\ \A n \in Machines : pc[n] = "migrate" => n = m
        BY <1>4, <2>1, <2>2, Assumptions DEF Migrate, Shape, Schema
      <3>3. \A n \in Machines : pc[n] \notin {"down", "lock", "migrate"} => Len(applied') >= Latest[n]
        BY <2>2, Assumptions DEF Shape, Schema
      <3> QED
        BY <1>4, <3>1, <3>2, <3>3 DEF Migrate, Schema
    <2>5. Unwinding' /\ Batches' /\ LinksHold'
      BY <1>4 DEF Migrate, Unwinding, Batches, LinksHold
    <2> QED
      BY <2>3, <2>4, <2>5
  <1>5. CASE Migrated(m)
    BY <1>5, Assumptions DEF Migrated, Unlocked, Shape, Phases, Unwinding, Schema, Batches, LinksHold
  <1>6. CASE Serve(m)
    BY <1>6 DEF Serve, Shape, Phases, Sweeps, Unwinding, Schema, Batches, LinksHold
  <1> QED
    BY <1>1, <1>2, <1>3, <1>4, <1>5, <1>6 DEF Starting

\* Errors of the start and of a sweep.
LEMMA FailingStep ==
    ASSUME Inv, NEW m \in Machines, Failing(m)
    PROVE  Inv'
  <1> USE DEF Inv, database, sweeps, process
  <1>1. CASE MigrateFails(m)
    BY <1>1, GoneStep, Assumptions DEF MigrateFails, Fault, Shape
  <1>2. CASE ConnectFails(m)
    BY <1>2, GoneStep, Assumptions DEF ConnectFails, Fault, Shape
  <1>3. CASE SweepFails(m)
    BY <1>3 DEF SweepFails, AfterFailure, Shape, Sweeps, Unwinding, Schema, Batches, LinksHold
  <1> QED
    BY <1>1, <1>2, <1>3 DEF Failing

\* The sweep goroutine.
LEMMA SweepingStep ==
    ASSUME Inv, NEW m \in Machines, Sweeping(m)
    PROVE  Inv'
  <1> USE DEF Inv, database, sweeps, process
  <1>1. CASE SelectBatch(m)
    BY <1>1 DEF SelectBatch, Expired, Shape, Sweeps, Unwinding, Schema, Batches, LinksHold
  <1>2. CASE DeleteBatch(m)
    BY <1>2, Assumptions DEF DeleteBatch, Deleted, Shape, Sweeps, Unwinding, Schema, Batches, LinksHold
  <1>3. CASE Tick(m)
    BY <1>3 DEF Tick, Shape, Sweeps, Unwinding, Schema, Batches, LinksHold
  <1>4. CASE SweeperEnds(m)
    BY <1>4 DEF SweeperEnds, Shape, Sweeps, Unwinding, Schema, Batches, LinksHold
  <1> QED
    BY <1>1, <1>2, <1>3, <1>4 DEF Sweeping

\* From the signal to the exit.
LEMMA StoppingStep ==
    ASSUME Inv, NEW m \in Machines, Stopping(m)
    PROVE  Inv'
  <1> USE DEF Inv, database, sweeps, process, Goto
  <1>1. CASE Shutdown(m)
    BY <1>1 DEF Shutdown, Shape, Phases, Unwinding, Schema, Batches, LinksHold
  <1>2. CASE Drained(m)
    BY <1>2 DEF Drained, Shape, Phases, Unwinding, Schema, Batches, LinksHold
  <1>3. CASE PurgeStopped(m)
    BY <1>3 DEF PurgeStopped, SweeperGone, Shape, Phases, Unwinding, Schema, Batches, LinksHold
  <1>4. CASE ClosePool(m)
    BY <1>4 DEF ClosePool, Shape, Phases, Unwinding, Schema, Batches, LinksHold
  <1>5. CASE Exit(m)
    BY <1>5, GoneStep DEF Exit, Shape
  <1> QED
    BY <1>1, <1>2, <1>3, <1>4, <1>5 DEF Stopping

\* Signals, listener errors and crashes.
LEMMA BreakingStep ==
    ASSUME Inv, NEW m \in Machines, Breaking(m)
    PROVE  Inv'
  <1> USE DEF Inv, database, sweeps, process, Goto
  <1>1. CASE Signal(m)
    BY <1>1, Assumptions DEF Signal, Fault, Shape, Unwinding, Schema, Batches, LinksHold
  <1>2. CASE ListenerFails(m)
    BY <1>2, Assumptions DEF ListenerFails, Fault, Shape, Phases, Unwinding, Schema, Batches, LinksHold
  <1>3. CASE Crash(m)
    BY <1>3, GoneStep, Assumptions DEF Crash, Fault, Shape
  <1> QED
    BY <1>1, <1>2, <1>3 DEF Breaking

\* Events are made and expire.
LEMMA EventStep ==
    ASSUME Inv, NEW r \in Requests,
           \/ \E m \in Machines : CreateEvent(m, r)
           \/ \E s \in Slugs : TrySlug(r, s)
           \/ Reply(r)
           \/ RequestFails(r)
           \/ Expire(r)
    PROVE  Inv'
  <1> USE DEF Inv, database, sweeps, process
  <1>1. ASSUME NEW m \in Machines, CreateEvent(m, r)
        PROVE  Inv'
    BY <1>1, Assumptions DEF CreateEvent, Unmade, Request, Shape, Unwinding, Schema, Batches, LinksHold
  <1>2. ASSUME NEW s \in Slugs, TrySlug(r, s)
        PROVE  Inv'
    <2>1. CASE Inserted(s)
      <3>1. rows' = [rows EXCEPT ![s] = r] /\ request' = [request EXCEPT ![r] = Committed(request[r], s)]
        BY <1>2, <2>1 DEF TrySlug
      <3>2. Shape'
        BY <1>2, <3>1, CommittedType DEF TrySlug, Shape
      <3>3. LinksHold'
        <4>1. rows[s] = NoRequest /\ expired' = expired
          BY <1>2, <2>1 DEF TrySlug, Inserted
        <4>2. ASSUME NEW o \in Requests \ {r}, request'[o].slug \in Slugs
              PROVE  rows'[request'[o].slug] = o \/ o \in expired'
          <5>1. request'[o] = request[o]
            BY <3>1 DEF Shape
          <5>2. rows[request[o].slug] = o \/ o \in expired
            BY <4>2, <5>1 DEF LinksHold
          <5>3. request[o].slug = s => o \in expired
            BY <4>1, <5>2, Assumptions
          <5> QED
            BY <3>1, <4>1, <4>2, <5>1, <5>2, <5>3 DEF Shape
        <4>3. request'[r].slug = s /\ rows'[s] = r
          BY <3>1, CommittedType DEF Shape
        <4> QED
          BY <4>2, <4>3 DEF LinksHold
      <3> QED
        BY <1>2, <3>2, <3>3 DEF TrySlug, Unwinding, Schema, Batches
    <2>2. CASE ~Inserted(s)
      <3>1. rows' = rows /\ expired' = expired /\ request' = [request EXCEPT ![r] = Collided(request[r])]
        BY <1>2, <2>2 DEF TrySlug
      <3>2. /\ Collided(request[r]) \in Request
            /\ Collided(request[r]).slug \in Slugs => Collided(request[r]).slug = request[r].slug
        BY <1>2, CollisionType DEF TrySlug, Trying, Shape
      <3>3. Shape'
        BY <1>2, <3>1, <3>2 DEF TrySlug, Shape
      <3>4. LinksHold'
        <4>1. request'[r] = Collided(request[r]) /\ \A o \in Requests \ {r} : request'[o] = request[o]
          BY <3>1 DEF Shape
        <4> QED
          BY <3>1, <3>2, <4>1 DEF LinksHold
      <3> QED
        BY <1>2, <3>3, <3>4 DEF TrySlug, Unwinding, Schema, Batches
    <2> QED
      BY <2>1, <2>2
  <1>3. CASE RequestFails(r)
    <2>1. Refused \in Request /\ Refused.slug \notin Slugs
      BY RequestTypes, Assumptions
    <2>2. Shape'
      <3>1. request' \in [Requests -> Request]
        BY <1>3, <2>1 DEF RequestFails, Shape
      <3> QED
        BY <1>3, <3>1 DEF RequestFails, Shape
    <2>3. LinksHold'
      <3>1. rows' = rows /\ expired' = expired /\ request' = [request EXCEPT ![r] = Refused]
        BY <1>3 DEF RequestFails
      <3>2. request'[r] = Refused /\ \A o \in Requests \ {r} : request'[o] = request[o]
        BY <3>1 DEF Shape
      <3> QED
        BY <2>1, <3>1, <3>2 DEF LinksHold
    <2> QED
      BY <1>3, <2>2, <2>3 DEF RequestFails, Unwinding, Schema, Batches
  <1>4. CASE Expire(r)
    BY <1>4 DEF Expire, Shape, Unwinding, Schema, Batches, LinksHold
  <1>5. CASE Reply(r)
    <2>1. request' = [request EXCEPT ![r] = Answer(request[r].slug)] /\ request[r].slug \in Slugs
      BY <1>5 DEF Reply
    <2>2. Answer(request[r].slug) \in Request /\ Answer(request[r].slug).slug = request[r].slug
      BY <2>1, RequestTypes
    <2>3. Shape'
      <3>1. request' \in [Requests -> Request]
        BY <2>1, <2>2 DEF Shape
      <3> QED
        BY <1>5, <3>1 DEF Reply, Shape
    <2>4. LinksHold'
      <3>1. \A o \in Requests : request'[o].slug = request[o].slug
        BY <2>1, <2>2 DEF Shape
      <3> QED
        BY <1>5, <3>1 DEF Reply, LinksHold
    <2> QED
      BY <1>5, <2>3, <2>4 DEF Reply, Unwinding, Schema, Batches
  <1> QED
    BY <1>1, <1>2, <1>3, <1>4, <1>5

\* The invariant holds throughout; fairness is not needed for it.
LEMMA Invariance == Spec => []Inv
  <1>1. Inv /\ [Next]_vars => Inv'
    <2> SUFFICES ASSUME Inv, [Next]_vars
                 PROVE  Inv'
      OBVIOUS
    <2>1. ASSUME NEW m \in Machines,
                 Start(m) \/ Starting(m) \/ Failing(m) \/ Sweeping(m) \/ Stopping(m) \/ Breaking(m)
          PROVE  Inv'
      BY <2>1, StartingStep, FailingStep, SweepingStep, StoppingStep, BreakingStep
    <2>2. ASSUME NEW r \in Requests,
                 \/ \E m \in Machines : CreateEvent(m, r)
                 \/ \E s \in Slugs : TrySlug(r, s)
                 \/ Reply(r)
                 \/ RequestFails(r)
                 \/ Expire(r)
          PROVE  Inv'
      BY <2>2, EventStep
    <2>3. CASE UNCHANGED vars
      BY <2>3 DEF vars, database, sweeps, process, Inv, Shape, Unwinding, Schema,
                  Batches, LinksHold
    <2> QED
      BY <2>1, <2>2, <2>3 DEF Next
  <1> QED
    BY InitInv, <1>1, PTL DEF Spec

-----------------------------------------------------------------------------
(* Theorems. *)

\* The values of the variables, and who holds the lock, has a sweeper or a pool.
THEOREM TypeCorrect == Spec => []TypeOK
  <1>1. Inv => TypeOK
    <2> SUFFICES ASSUME Inv
                 PROVE  TypeOK
      OBVIOUS
    <2>1. \A m \in Machines : sweeper[m] = "none" <=> pool[m] = "none"
      BY DEF Inv, Shape, Phases, Unwinding
    <2>2. \A r \in Requests : request[r].tries \in 0 .. SlugAttempts
      BY DEF Inv, Shape, Request
    <2> QED
      BY <2>1, <2>2 DEF Inv, Shape, Phases, Sweeps, Schema, Batches, TypeOK
  <1> QED
    BY <1>1, Invariance, PTL

\* However many machines start at once, with whatever binaries: every migration
\* is applied once and in order, and nobody serves on a schema that is behind.
THEOREM MigrationsAreSerial == Spec => []MigratedOnce
  <1>1. Inv => MigratedOnce
    BY DEF Inv, Shape, Phases, Unwinding, Schema, MigratedOnce
  <1> QED
    BY <1>1, Invariance, PTL

\* On every way out of run the pool outlives the sweeper.
THEOREM PoolOutlivesSweeper == Spec => []SweptBeforeClosed
  <1>1. Inv => SweptBeforeClosed
    BY DEF Inv, Shape, Phases, Unwinding, SweptBeforeClosed
  <1> QED
    BY <1>1, Invariance, PTL

\* A link that was handed out leads to its event until that expires.
THEOREM LinksStayGood == Spec => []LinksHold
  <1>1. Inv => LinksHold
    BY DEF Inv
  <1> QED
    BY <1>1, Invariance, PTL
=============================================================================
