-------------------------------- MODULE Lifecycle -------------------------------
(***************************************************************************)
(* The API process, from its start to its exit, on several machines that   *)
(* share a database: it migrates the schema under an advisory lock, opens  *)
(* the pool, sweeps expired events in the background, serves, drains on a  *)
(* signal, and unwinds its defers.  Events are created through it and      *)
(* deleted by its sweeps once they have expired.                           *)
(*                                                                         *)
(* A process runs with migrations and the sweep switched on.  The limiter  *)
(* sweep stops like the expiry sweep and touches no pool; RateLimiter has  *)
(* what it does.                                                           *)
(***************************************************************************)
EXTENDS Integers, Sequences, FiniteSets

CONSTANTS
    Machines, NoMachine,
    Latest,        \* by machine: the last migration its binary embeds
    Requests,      \* POST /events, each made once; also names the row it makes
    NoRequest,
    Slugs,         \* what newSlug may draw
    SlugAttempts,  \* slugAttempts
    PurgeBatch,    \* purgeBatch
    MaxFaults      \* bound: signals, crashes, and errors that end a process

ASSUME LatestAssumption == Latest \in [Machines -> Nat]
ASSUME LimitsAssumption ==
    SlugAttempts \in Nat \ {0} /\ PurgeBatch \in Nat \ {0} /\ MaxFaults \in Nat
ASSUME PlaceholderAssumption ==
    NoMachine \notin Machines /\ NoRequest \notin Requests
    /\ {"undrawn", "refused"} \cap Slugs = {}

VARIABLES
    applied,    \* the migrations applied, in order
    lock,       \* the holder of the advisory lock, or NoMachine
    rows,       \* by slug: the request whose event has it, or NoRequest
    expired,    \* the requests whose events have passed expires_at
    pc,         \* by machine: where run() is
    seen,       \* by machine: the schema version goose goes on from
    signalled,  \* by machine: the signal context is cancelled
    stopped,    \* by machine: stopPurge has cancelled the sweeper
    sweeper,    \* by machine: what the sweep goroutine does
    batch,      \* by machine: the rows its delete statement selected
    pool,       \* by machine: "none", "open" or "closed"
    request,    \* by request: [at, tries, slug], how far its handler is
    faults      \* history: such signals, crashes and errors so far

database == <<applied, lock, rows, expired>>
sweeps == <<stopped, sweeper, batch>>
process == <<pc, seen, signalled, sweeps, pool>>
vars == <<database, process, request, faults>>

Unmade == [at |-> NoMachine, tries |-> 0, slug |-> "undrawn"]
\* How a request ends: with a slug, or without.
Answer(slug) == [Unmade EXCEPT !.slug = slug]
Refused == Answer("refused")

Init ==
    /\ applied = <<>> /\ lock = NoMachine
    /\ rows = [s \in Slugs |-> NoRequest] /\ expired = {}
    /\ pc = [m \in Machines |-> "down"] /\ seen = [m \in Machines |-> 0]
    /\ signalled = [m \in Machines |-> FALSE] /\ stopped = [m \in Machines |-> FALSE]
    /\ sweeper = [m \in Machines |-> "none"] /\ batch = [m \in Machines |-> {}]
    /\ pool = [m \in Machines |-> "none"]
    /\ request = [r \in Requests |-> Unmade] /\ faults = 0

Fault == faults < MaxFaults /\ faults' = faults + 1

Goto(m, from, to) == pc[m] = from /\ pc' = [pc EXCEPT ![m] = to]

Unlocked(m) == IF lock = m THEN NoMachine ELSE lock

\* What a process leaves behind: its session, and with it the lock, is gone,
\* and so are its requests; committed transactions stay.
Gone(m) ==
    /\ lock' = Unlocked(m)
    /\ pc' = [pc EXCEPT ![m] = "down"]
    /\ sweeper' = [sweeper EXCEPT ![m] = "none"]
    /\ batch' = [batch EXCEPT ![m] = {}]
    /\ pool' = [pool EXCEPT ![m] = "none"]
    /\ request' = [r \in Requests |->
            IF request[r].at = m THEN Refused ELSE request[r]]
    /\ seen' = [seen EXCEPT ![m] = 0]
    /\ signalled' = [signalled EXCEPT ![m] = FALSE]
    /\ stopped' = [stopped EXCEPT ![m] = FALSE]
    /\ UNCHANGED <<applied, rows, expired>>

-----------------------------------------------------------------------------
(* Starting. *)

\* The platform starts a machine that is down: at once where one is kept
\* running, with the next visit where a quiet one is put to sleep, or never.
Start(m) ==
    /\ Goto(m, "down", "lock")
    /\ UNCHANGED <<database, seen, signalled, sweeps, pool, request, faults>>

\* Mutant: the lock is taken without waiting for its holder.
LockTried == TRUE

LockFree == lock = NoMachine

\* migrate.Up: the session lock, then goose reads the version.
TakeLock(m) ==
    /\ LockFree
    /\ Goto(m, "lock", "migrate")
    /\ lock' = m
    /\ seen' = [seen EXCEPT ![m] = Len(applied)]
    /\ UNCHANGED <<applied, rows, expired, signalled, sweeps, pool, request, faults>>

\* lockTimeout runs out, or the signal arrives: run returns the error before
\* anything was deferred.
GiveUp(m) ==
    /\ pc[m] = "lock"
    /\ lock # NoMachine \/ signalled[m]
    /\ Gone(m)
    /\ UNCHANGED faults

\* goose applies one migration and its version row in one transaction.
Migrate(m) ==
    /\ pc[m] = "migrate" /\ seen[m] < Latest[m] /\ ~signalled[m]
    /\ applied' = Append(applied, seen[m] + 1)
    /\ seen' = [seen EXCEPT ![m] = @ + 1]
    /\ UNCHANGED <<lock, rows, expired, pc, signalled, sweeps, pool, request, faults>>

\* Up returns; the lock is released on a context of its own.
Migrated(m) ==
    /\ seen[m] >= Latest[m] /\ ~signalled[m]
    /\ Goto(m, "migrate", "connect")
    /\ lock' = Unlocked(m)
    /\ UNCHANGED <<applied, rows, expired, seen, signalled, sweeps, pool, request, faults>>

MigrateFails(m) ==
    /\ pc[m] = "migrate"
    /\ Gone(m)
    /\ \/ signalled[m] /\ UNCHANGED faults
       \/ Fault

\* store.New, startPurge and the listener.
Serve(m) ==
    /\ ~signalled[m]
    /\ Goto(m, "connect", "serve")
    /\ pool' = [pool EXCEPT ![m] = "open"]
    /\ sweeper' = [sweeper EXCEPT ![m] = "select"]
    /\ UNCHANGED <<database, seen, signalled, stopped, batch, request, faults>>

ConnectFails(m) ==
    /\ pc[m] = "connect"
    /\ Gone(m)
    /\ \/ signalled[m] /\ UNCHANGED faults
       \/ Fault

-----------------------------------------------------------------------------
(* The sweep. *)

\* Mutant: stopPurge only waits.
CancelledBySignal(m) == signalled[m]

\* The sweeper's context is a child of the signal context.
Cancelled(m) == signalled[m] \/ stopped[m]

Here(r) == \E s \in Slugs : rows[s] = r
Expired == {r \in expired : Here(r)}

\* PurgeExpired: one delete statement selects at most a batch of rows, without
\* locking them.
SelectBatch(m) ==
    /\ sweeper[m] = "select"
    /\ sweeper' = [sweeper EXCEPT ![m] = "delete"]
    /\ \E b \in SUBSET Expired :
        /\ Cardinality(b) = PurgeBatch \/ (b = Expired /\ Cardinality(b) < PurgeBatch)
        /\ batch' = [batch EXCEPT ![m] = b]
    /\ UNCHANGED <<database, pc, seen, signalled, stopped, pool, request, faults>>

\* The selected rows that are still there.
Deleted(m) == {s \in Slugs : rows[s] \in batch[m]}

\* It deletes those that no other machine has, with what belongs to them; a full
\* batch is followed by another, unless the context ended.
DeleteBatch(m) ==
    /\ sweeper[m] = "delete"
    /\ rows' = [s \in Slugs |-> IF s \in Deleted(m) THEN NoRequest ELSE rows[s]]
    /\ sweeper' = [sweeper EXCEPT ![m] =
            IF Cardinality(Deleted(m)) < PurgeBatch \/ Cancelled(m) THEN "wait" ELSE "select"]
    /\ batch' = [batch EXCEPT ![m] = {}]
    /\ UNCHANGED <<applied, lock, expired, pc, seen, signalled, stopped, pool, request, faults>>

\* Mutant: the goroutine returns on the first error.
SweepEndsIt == "ended"

\* Where a failed sweep leaves the goroutine.
AfterFailure == "wait"

\* The statement fails, its context ends, or sweepTimeout cuts it off: logged,
\* nothing more.
SweepFails(m) ==
    /\ sweeper[m] = "delete"
    /\ sweeper' = [sweeper EXCEPT ![m] = AfterFailure]
    /\ batch' = [batch EXCEPT ![m] = {}]
    /\ UNCHANGED <<database, pc, seen, signalled, stopped, pool, request, faults>>

\* The ticker; select may choose it although the context has ended.
Tick(m) ==
    /\ sweeper[m] = "wait" /\ pool[m] = "open"
    /\ sweeper' = [sweeper EXCEPT ![m] = "select"]
    /\ UNCHANGED <<database, pc, seen, signalled, stopped, batch, pool, request, faults>>

SweeperEnds(m) ==
    /\ sweeper[m] = "wait" /\ Cancelled(m)
    /\ sweeper' = [sweeper EXCEPT ![m] = "ended"]
    /\ UNCHANGED <<database, pc, seen, signalled, stopped, batch, pool, request, faults>>

-----------------------------------------------------------------------------
(* Events. *)

\* handleCreateEvent on a window that expands, up to the transaction of
\* createEventTx, which holds a connection of the pool.  A request accepted
\* earlier may get there as long as the pool is open; one that does not is lost.
CreateEvent(m, r) ==
    /\ pool[m] = "open" /\ request[r] = Unmade
    /\ request' = [request EXCEPT ![r] = [at |-> m, tries |-> SlugAttempts, slug |-> "undrawn"]]
    /\ UNCHANGED <<database, process, faults>>

InHand(r) == request[r].at # NoMachine
Trying(r) == request[r].tries > 0

\* Mutant: the insert replaces the row that has the slug.
Upserted(s) == TRUE

\* The unique index lets the insert through.
Inserted(s) == rows[s] = NoRequest

\* Another transaction for another slug after a collision; 500 after the last
\* attempt, or when the pool gives no connection any more.
Collided(q) ==
    IF q.tries = 1 \/ pool[q.at] = "closed" THEN Refused ELSE [q EXCEPT !.tries = @ - 1]

\* The event is there; nobody was told yet.
Committed(q, s) == [at |-> q.at, tries |-> 0, slug |-> s]

\* createEventTx: event and organizer are inserted and committed; or a collision.
TrySlug(r, s) ==
    /\ Trying(r)
    /\ rows' = IF Inserted(s) THEN [rows EXCEPT ![s] = r] ELSE rows
    /\ request' = [request EXCEPT ![r] = IF Inserted(s) THEN Committed(@, s) ELSE Collided(@)]
    /\ UNCHANGED <<applied, lock, expired, process, faults>>

\* The handler answers with the link.
Reply(r) ==
    /\ InHand(r) /\ request[r].slug \in Slugs
    /\ request' = [request EXCEPT ![r] = Answer(@.slug)]
    /\ UNCHANGED <<database, process, faults>>

\* 500, or no answer at all, also for an event that was committed: the process's
\* own context has ended, or anything else goes wrong, at any moment.
RequestFails(r) ==
    /\ InHand(r)
    /\ request' = [request EXCEPT ![r] = Refused]
    /\ UNCHANGED <<database, process, faults>>

\* Time passes expires_at.
Expire(r) ==
    /\ Here(r)
    /\ expired' = expired \cup {r}
    /\ UNCHANGED <<applied, lock, rows, process, request, faults>>

-----------------------------------------------------------------------------
(* Stopping. *)

Signal(m) ==
    /\ pc[m] # "down" /\ ~signalled[m]
    /\ signalled' = [signalled EXCEPT ![m] = TRUE]
    /\ Fault
    /\ UNCHANGED <<database, pc, seen, sweeps, pool, request>>

\* The select in run: the listener has died, or the signal has come.  Only the
\* latter drains.
ListenerFails(m) ==
    /\ Goto(m, "serve", "stopPurge")
    /\ stopped' = [stopped EXCEPT ![m] = TRUE]
    /\ Fault
    /\ UNCHANGED <<database, seen, signalled, sweeper, batch, pool, request>>

Shutdown(m) ==
    /\ signalled[m]
    /\ Goto(m, "serve", "drain")
    /\ UNCHANGED <<database, seen, signalled, sweeps, pool, request, faults>>

\* Every request is answered, or ShutdownTimeout runs out; then stopPurge.
Drained(m) ==
    /\ Goto(m, "drain", "stopPurge")
    /\ stopped' = [stopped EXCEPT ![m] = TRUE]
    /\ UNCHANGED <<database, seen, signalled, sweeper, batch, pool, request, faults>>

\* Mutant: stopPurge cancels and does not wait.
StopWithoutWaiting(m) == TRUE

\* What stopPurge waits for.
SweeperGone(m) == sweeper[m] = "ended"

PurgeStopped(m) ==
    /\ SweeperGone(m)
    /\ Goto(m, "stopPurge", "close")
    /\ UNCHANGED <<database, seen, signalled, sweeps, pool, request, faults>>

\* Close: nobody gets a connection any more.
ClosePool(m) ==
    /\ Goto(m, "close", "exit")
    /\ pool' = [pool EXCEPT ![m] = "closed"]
    /\ UNCHANGED <<database, seen, signalled, sweeps, request, faults>>

\* "It blocks until in-flight queries finish"; then run and main return.
Exit(m) ==
    /\ pc[m] = "exit"
    /\ \A r \in Requests : Trying(r) => request[r].at # m
    /\ Gone(m)
    /\ UNCHANGED faults

Crash(m) == pc[m] # "down" /\ Gone(m) /\ Fault

-----------------------------------------------------------------------------

Starting(m) == TakeLock(m) \/ GiveUp(m) \/ Migrate(m) \/ Migrated(m) \/ Serve(m)
Failing(m) == MigrateFails(m) \/ ConnectFails(m) \/ SweepFails(m)
Sweeping(m) == SelectBatch(m) \/ DeleteBatch(m) \/ Tick(m) \/ SweeperEnds(m)
Stopping(m) == Shutdown(m) \/ Drained(m) \/ PurgeStopped(m) \/ ClosePool(m) \/ Exit(m)
Breaking(m) == Signal(m) \/ ListenerFails(m) \/ Crash(m)

Next ==
    \/ \E m \in Machines :
          Start(m) \/ Starting(m) \/ Failing(m) \/ Sweeping(m) \/ Stopping(m) \/ Breaking(m)
    \/ \E m \in Machines, r \in Requests : CreateEvent(m, r)
    \/ \E r \in Requests, s \in Slugs : TrySlug(r, s)
    \/ \E r \in Requests : Reply(r) \/ RequestFails(r) \/ Expire(r)

\* What the main goroutine does next when nothing breaks.
Running(m) == Starting(m) \/ Stopping(m) \/ (signalled[m] /\ (MigrateFails(m) \/ ConnectFails(m)))

\* A goroutine that can go on does, the database answers a statement, and a
\* cancelled operation returns.  select picks at random among what is ready, so
\* it does not take the ticker for ever once its context has ended; and a sweep
\* tried again and again does not fail every time.  Nothing makes the platform
\* start a machine that is down.
Fairness ==
    /\ \A m \in Machines : /\ WF_vars(Running(m)) /\ WF_vars(Sweeping(m))
                           /\ SF_vars(SweeperEnds(m)) /\ SF_vars(DeleteBatch(m))
    /\ WF_vars(\E r \in Requests, s \in Slugs : TrySlug(r, s))

Spec == Init /\ [][Next]_vars /\ Fairness

-----------------------------------------------------------------------------
(* Properties. *)

\* The values the variables take; the lock is held by who migrates, and only a
\* machine that has not cleaned up has a sweeper or a pool.
TypeOK ==
    /\ lock \in Machines \cup {NoMachine} /\ faults \in 0 .. MaxFaults
    /\ \A m \in Machines : pc[m] = "migrate" <=> lock = m
    /\ rows \in [Slugs -> Requests \cup {NoRequest}] /\ expired \subseteq Requests
    /\ pc \in [Machines -> {"down", "lock", "migrate", "connect", "serve", "drain",
                            "stopPurge", "close", "exit"}]
    /\ sweeper \in [Machines -> {"none", "select", "delete", "wait", "ended"}]
    /\ \A m \in Machines : batch[m] # {} => sweeper[m] = "delete"
    /\ \A m \in Machines : sweeper[m] = "none" <=> pool[m] = "none"
    /\ \A r \in Requests : request[r].tries \in 0 .. SlugAttempts

\* Machines that start together apply every migration once, in order, and none
\* serves on a schema older than its binary.  ("two machines starting at once
\* must not both try to apply the same migration"; "a schema that is behind the
\* binary is a startup failure".)
MigratedOnce ==
    /\ \A i \in DOMAIN applied : applied[i] = i
    /\ \A m \in Machines : pool[m] = "open" => Len(applied) >= Latest[m]

\* On every way out of run the sweeper has returned before the pool closes.
\* ("an in-flight delete finishes against a pool that is still open")
SweptBeforeClosed ==
    \A m \in Machines : pool[m] = "closed" => sweeper[m] = "ended"

\* An event that was committed, its link handed out or about to be, is there until
\* it expires, although slugs collide and are drawn again, handlers die between
\* the commit and the answer, and two machines sweep the same rows.
LinksHold ==
    \A r \in Requests :
        request[r].slug \in Slugs => rows[request[r].slug] = r \/ r \in expired

\* A machine that was told to stop, or whose listener died, gets to its exit.
\* ("a wait that only watched ctx would turn that error into a hang")
StopsEventually ==
    \A m \in Machines :
        (signalled[m] \/ pc[m] \in {"drain", "stopPurge", "close", "exit"}) ~> pc[m] = "down"

\* What has expired is deleted in the end, as long as a machine stays up, although
\* a sweep may fail, be cut off by a restart or lose its rows to another machine's.
\* ("the README promises the data goes away when the link expires")  While all
\* are down it waits for the first sweep of the next start.
ExpiredAreDeleted ==
    \A r \in Requests : r \in expired ~> ~Here(r) \/ \A m \in Machines : pc[m] = "down"
=============================================================================
