# Overlap, in TLA+

Overlap finds a time that suits a group of people.  An organizer creates an
event with a window of possible slots; people join through a link, say for
each slot how well it suits them (by day part, slot by slot, or from an
iCalendar feed), and the solver ranks the slots and says whether it is safe to
decide now or who is worth waiting for.  A decided event can graduate into a
group that schedules again.  The backend is one Go process per machine over
PostgreSQL, the front end a Svelte app that keeps itself current over
server-sent events.

This directory holds models of the parts of that program whose behaviour is
hard to test: what happens when requests overlap, fail halfway or race the
expiry sweep; what the solver's verdict is worth while answers are
outstanding; whether a tap on the page means the same slots to the server;
what is left of a recurring calendar after a change of clocks; whether an open
page ends up showing the truth; whether the limits hold; and whether a process
that is told to stop does.  Every module is written from the source (`src/`),
line by line as `PROJECT.json` maps it.

Run a model with `tlc -workers 2 -config <run>.cfg <module>` and the proofs
with `tlapm <module>.tla`; section 3 names the module of every run.

## 1. The system

| component | state | operations | talks to |
|---|---|---|---|
| **Responses and calendar of a participant** (`server/responses.go`, `server/calendar.go`, `store/participants.go`, `store/calendar.go`) | rows of `responses` and `busy_blocks`, `calendar_source`, `responded_at` | `PUT /responses`, `POST /calendar/ics`, `DELETE /calendar` | fetchguard, icsparse, broker |
| **The answering page** (`web/src/routes/e/[slug]/+page.svelte`, `lib/dayparts.ts`) | two editors (coarse grid, fine overrides), the zone shown, the slots the calendar rules out | tap, choose a zone, submit, open, link and unlink a calendar | the handlers above |
| **Slots and day parts** (`slots`, `dayparts`) | none | `Expand`, `Of`, `Spread` | used by every handler of an event |
| **Results** (`results/results.go`) | none | `Build`: stored rows into a view, "responded" making silence a "no" | solver |
| **Solver** (`solver/solver.go`) | none | `ScoreSlot`, `RankWithHistory`, `Analyze`, `AffinityFromDecisions` | solve, decide |
| **Solve and decide handlers** (`server/solve.go`, `store/decide.go`) | `events.status`, `decided_slot_start` | `GET /solve`, `POST /decide`, `POST /reopen` | solver, store, broker |
| **Live updates** (`sse/broker.go`, `server/stream.go`, `web/src/lib/live.ts`, the results page) | subscriptions and channels; a page's EventSource, watchdog and displayed data | `Subscribe`, `Publish`, `cancel`, the stream handler, `subscribe()`, `load()` | every handler that publishes |
| **Calendar parsing** (`icsparse`) | none | `Parse`: recurrence expansion and `Merge` | |
| **Proposal search** (`proposal/proposal.go`) | none | `Best` over the members' intervals | |
| **Proposal cache and calendar fan-out** (`server/proposalcache.go`, `server/groups.go`) | answers with a cap and a TTL, the single-flight table | `Do`, `computeGroupProposal` | fetchguard, store, proposal |
| **Groups** (`server/groups.go`, `store/groups.go`) | `groups`, `group_members`, their blocks, `events.group_id`, `participants.group_member_id` | graduate, join, claim, connect and disconnect, new group event, claim a seat | store |
| **Rate limiter** (`ratelimit/ratelimit.go`, `server/middleware.go`) | buckets by address, capped | `Allow`, `evictLocked`, the sweep | |
| **Event creation, purge and process lifecycle** (`cmd/api/main.go`, `migrate`, `store/events.go`, `store/store.go`) | `events`, the schema, the advisory lock, the pool, the sweep goroutine | migrate, create with slug retry, purge, serve, drain, stop | |
| Calendar export, guarded fetching, generated queries, plumbing, the rest of the web client | little or none | formatting and I/O | |

What makes the system hard:

* **Requests of one person are not kept apart.**  `PUT /responses`, connecting
  and disconnecting each read rows with a plain query, compute a full
  replacement and write it in a READ COMMITTED transaction.  Two tabs, a retry
  or a slow feed are enough to interleave them.  What must hold: a slot has one
  tier; a save is seen whole or not at all; whoever has rows counts as having
  answered; nothing outlives the purge.  Overlapping transactions may deadlock,
  and then one of them must get through.  For a person who waits for each answer
  more holds: each request does what it says, at once, and is not refused.
* **Page and server sort slots separately.**  Both have the day parts' code,
  the page leaves out what it thinks is implied, and three zones are involved.
  What must hold: what is stored is what the editors showed, and reopening the
  link shows what is stored.
* **Clocks jump.**  Slots and recurring meetings are wall clocks; an instant is
  looked for each.  What must hold: every clock that existed, once.
* **The verdict quantifies over the future.**  `Analyze` bounds each slot
  separately instead of enumerating the answers that may still come.  What must
  hold: "decidable" means that no outstanding answer dethrones the leader, and
  the ranking beside it agrees.
* **Deciding is check-then-act.**  Participants and responses are two reads,
  the update a third step, and answers, reopening and the purge come between.
* **Messages carry nothing.**  A page must catch up although messages are
  dropped when a channel is full, a crash can come between the commit and
  the publication, a connection can die silently, and refetches overlap, with
  each other and with the ranking that the page fetches after its own lock.
* **Work is shared.**  Callers of a proposal share one computation that runs
  under one caller's context, at most eight fetches at a time, into a map
  with a cap.
* **Groups are made in several transactions** (graduation) and seats are
  claimed by a read followed by an insert.
* **Limits count in the order of a mutex** and refill by a clock read before it.
* **Machines share a database.**  Two may start at once with migrations to
  apply, sweep the same expired events, and are stopped by a signal in whatever
  they do.

`PROJECT.json` lists the hazards one by one, with the line at which each bites
and the properties that would catch it.

## 2. The modules

| module | models | uses |
|---|---|---|
| `ResponseStore` | the three handlers that rewrite one participant's answers, row by row of their transactions, with failures, deadlocks and the purge | |
| `Answers` | the abstract promise to that participant: submitting, importing, dropping are each indivisible | instantiated by `ResponseStore` with a refinement mapping |
| `ResponseStoreProofs` | inductive invariant and theorems | `ResponseStore` |
| `Solver` | `ScoreSlot`, `RankWithHistory`, `Analyze`, the verdict, as operators | |
| `Poll` | an open poll: joining, submitting, `results.Build`, and the solver's verdict after every change | `Solver` |
| `Decide` | `POST /decide` and `/reopen` from several tabs, between answers and the sweep | `Poll` |
| `DecideProofs` | what the solver computes, inductive invariant and theorems | `Decide` |
| `LiveUpdates` | broker, stream handler, EventSource with watchdog, refetching page and its own locks | |
| `LiveUpdatesProofs` | inductive invariant and theorems | `LiveUpdates` |
| `Zones` | the clock arithmetic of Go's `time` for a zone with one transition (external) | |
| `Slots` | `slots.Expand`, and `ExactGrid`, what it stands for | `Zones` |
| `Dayparts` | day parts in Go and their copy in TypeScript | `Zones` |
| `Events` | the stored window of an event and its slots | `Slots` |
| `Answering` | a person's page for an event and the rows that are stored | `Events`, `Dayparts` |
| `Calendars` | the busy intervals of a feed: recurrence and merge | `Zones` |
| `Proposal` | `proposal.Best` | `Calendars` |
| `Scheduling` | a group's event, its members' feeds and the proposal made for it | `Events`, `Proposal` |
| `EventProofs` | what the expansion of windows, recurrence and the merge compute, inductive invariants and theorems | `Answering`, `Scheduling` |
| `ProposalCache` | `proposalCache.Do`, single-flight, the bounded refresh of the members' calendars | |
| `ProposalCacheProofs` | inductive invariant and theorems | `ProposalCache` |
| `Groups` | graduation, roster, memberships and their calendars, seats in a group's events | |
| `GroupsProofs` | inductive invariant and theorems | `Groups` |
| `RateLimiter` | `Limiter.Allow`, eviction, the sweep, `Retry-After` | |
| `RateLimiterProofs` | inductive invariant and theorems | `RateLimiter` |
| `Lifecycle` | the process from its start to its exit on several machines, event creation, the purge | |
| `LifecycleProofs` | inductive invariant and theorems | `Lifecycle` |
| `MC*` | values of the constants for TLC | the module they are named after |

How state and actions correspond to the code:

* **ResponseStore.**  `table`, `blocks`, `source`, `responded`, `alive` are the
  committed rows.  A handler is a program counter `pc[r]` and its locals: `rs`
  is the slice it computes.  A transaction is a run of actions.
  `ClearResponses` takes the snapshot of the DELETE, `seen`; each `DeleteRow`
  locks one of its rows, `held`, or passes over one that is gone, and each
  `InsertRow` takes one key, `put`, in the order of the slice, which every handler
  has sorted by slot.  Both wait while another open transaction has the row or
  key, and keep what they have meanwhile.  `CheckForeignKey` is the share of the
  participant's row that an INSERT takes at its end, `CommitResponses` makes
  everything visible, and `EndTransaction` releases it.  The sweep is such a
  transaction too: `SweepParticipant` takes the participant's row, which waits for
  saves that have a share of it and makes others wait, and its cascade deletes
  row by row.  Whoever is on a circle of `WaitsFor` may be aborted
  (`AbortRequest`, `SweepFails`), as PostgreSQL does with one of them (40P01).
  That is READ COMMITTED as the code uses it; `Undecided`, `InUse` and `ForeignKey`
  are the schema's constraints.
  `row.by` is the version of a row; `row.said` stands for the tier by naming
  the request that stated it, so that two equal tiers typed at different times
  stay apart.  `patient` is history: the person has so far waited for each
  answer before asking again.  `Answers` is what such a person is promised.
* **Solver, Poll.**  A view `g` maps a participant and a slot to a tier or
  `Unknown`.  Scores are exact fractions `[num, den]` where the code has
  float64 and an epsilon against rounding, and sums over people are counts
  of those with each tier, a required person twice.  `RankWithHistory` is an insertion
  sort because `sort.SliceStable` is one up to twenty elements, and the comparison
  is not transitive, so the algorithm matters.  `Affinity` is the decayed
  history as an arbitrary number per slot.
* **Decide.**  `ReadPeople`, `Check`, `Lock` are the three places where the
  handler touches the database; `people[d]` is what the first read returned.
  `standing[d]` is history: the vetoes that were stored ever since.
* **LiveUpdates.**  The committed state of the event is a number `version`; a
  page shows two of them, of the event and of the ranking, because `load()`
  makes two requests.  A stream has a server side (`phase`, `registered`,
  `channel`), a network (`link`, `wire`) and at most one page (`current`).
  The 45 s watchdog and the browser's own error report are one condition,
  `Silent`: no ping will come on this stream.  `loads` are the requests under way
  in the order they were made; one of `lock()` or `unlock()`, begun by `Lock`, is
  a ranking only (`OwnSolve`).  They are answered and arrive in any order.
  `missed` is history: something happened of which no message tells the page (a
  join, a lost load, an older answer that arrived after the last), and no load has
  begun since.
* **Zones, Slots, Dayparts.**  Time is counted in half hours from a midnight.
  A zone is an offset with one transition; `DateIn` is `time.Date`, and which of
  two instants it takes is a parameter of the zone because its documentation
  leaves it open.  `Clocks` are the clocks the two nested loops of `Expand` visit,
  `Emit` is one turn and `StartsOf` all of them.
* **Events, Answering.**  `grid` is what every handler expands the stored window
  into; both modules about people and their calendars share it.
  `coarse`, `fine`, `busySlots` and `timezone` are the page's variables of these
  names; `TapCell`, `TapSlot`, `Submit`, `Open` (`load`), `LinkCalendar`,
  `UnlinkCalendar` its functions together with the handler they call, one
  request at a time.  `BuildResponses`, `MergeCalendarRows` and `ApplyCalendar`
  are the server's pure functions, `Hydrate`, `Overrides` and `TierFor` the page's.
  `editors` says where the editors' content comes from.
* **Calendars, Proposal, Scheduling.**  An event of a feed is a record of what
  `vevent` keeps.  `Cursor` is the loop variable of the expansion, `Jumped` its
  fast-forward, `NamedStarts` the BYDAY branch, `Join` one turn of `Merge`.  In `Scheduling` the refresh of all
  members and the search are one step (`ProposalCache` has their concurrency);
  `RuleClocks` and `Occurrences` say, independently of the loop, what a rule means.
* **ProposalCache.**  `values` is the map, `flight` the single-flight table,
  `pc` where a caller is.  An answer is whose calendars it considered and since
  when.  The goroutines of the fan-out are the sets `todo` and `busy`.  `gone`
  is a cancelled request context: from then on every fetch of that
  computation can only fail, also for those who share it.
* **Groups.**  A seat is a row of `participants`, a member a row of
  `group_members`; `holder` is whose token a membership has, `wallet` what a
  browser has stored.  Claims are a lookup followed by a rotation or an insert;
  connecting a calendar is a transaction that deletes the blocks its snapshot saw
  (`ClearBlocks`, `LockBlocks`) and then writes the source and the new ones.
  `overlapped` and `mixed` are history: saves that overlapped, and memberships
  whose calendar was last saved by one of them.
* **RateLimiter.**  `Read` is `time.Now()`, and `Overflow`, `Spend` and `Refuse`
  the outcomes of the section under the mutex.  Tokens are integers, `Cost` of
  them a request's.  `Skew` bounds the time between the two.
* **Lifecycle.**  `pc` is where `run()` stands, from the migration lock to the
  unwinding of its defers; `sweeper` is the goroutine of `startPurge`; `Gone` is
  what any exit leaves.  `SelectBatch` and `DeleteBatch` are one SQL statement in
  two steps, since the rows it picks are not locked.  `TrySlug` is one
  transaction of `CreateEvent`'s retry loop, `Reply` the answer with the link,
  and `RequestFails` everything that can prevent either, at any moment.  The
  pool refuses connections from `ClosePool` on, and `Exit` waits for those in use.

## 3. The runs

States are TLC's distinct states.  Every property of a passing run is broken
by a mutant of the code it is about (`PROJECT.json`, "mutants").

| run | module | instance | states | what it shows |
|---|---|---|---|---|
| `ResponseStore` | `MCResponseStore` | 2 slots, 3 requests, 4 submissions, 3 feeds, any overlap | 1.1 M | `NoTornSave`, `NothingAfterPurge`, `RefusedByOverlapOnly` whatever overlaps, deadlocks, fails or expires; for a person who waits, `DisconnectIsFinal` and `ImplementsAnswers`: the handlers implement `Answers` |
| `PollHistory` | `MCPoll` | 4 people, 3 slots, a habit | violation | history may lift a slot over one that scores better by more than the tolerance |
| `PollUnsociable` | `MCPoll` | 1 slot of 2 at unsociable hours | violation | "decidable" is then not safe: better answers can lower a score |
| `DecideRaces` | `MCDecide` | 3 people, 1 required, 1 tab, 2 slots, 3 submissions, history | 37 k | `StandingVetoRespected`: without force, a slot one required person has ruled out throughout is never locked, although the handler mixes two moments; `DecidableIsExact`, `WinnersArePossible`: the per-slot bounds agree with enumerating every completion; `RankingFitsVerdict`: the ranked list agrees with the verdict up to the tolerance, also where the habit puts another slot than the leader first |
| `LivePage` | `MCLiveUpdates` | 2 streams, channel of 1, 3 versions, 2 loads, 1 fault (join, restart, severed or rejected connection, lost load) | 1.0 M | `SettledPageIsFresh`, `EventuallyFresh` |
| `ProposalShared` | `MCProposalCache` | 2 callers, 2 events, 2 members, cap 1, 1 fetch at a time | 476 k | `OutboundBounded`, `NoNeedlessFanOut`, `AnswersAreRecent`, `WaitersAreAnswered` |
| `GroupSeats` | `MCGroups` | 2 people of one name, a device each, 4 requests | 136 k | `OneSeatPerMember`, `BlocksMatchFeed`, `CallerIsHandedOwnSeat` |
| `RateLimits` | `MCRateLimiter` | 2 addresses, cap 1, 5 calls, burst 2, 6 s, skew 1 s | 393 k | `WithinBudget`: eviction, the cap and late clocks give a key no more than they are worth; `RetryAfterIsEnough` |
| `Answering` | `MCAnswering` | 28 windows, 12 kinds of transition, 2 zones, 1 feed, 4 taps | 143 k | `GridIsExact`, `SavedAsEdited`, `ReopenKeepsAnswers` |
| `Scheduling` | `MCScheduling` | 6 zones, some 400 calendars, a 4-day window weeks after they begin, an unreachable member | 5.2 k | `FeedIsCovered`: the stored intervals are the time the feed takes, up to the BYDAY days below; `ProposalIsEarliest` |
| `SchedulingWeekEnd` | `MCScheduling` | the same | violation | the days of a BYDAY rule's last week are lost |
| `Lifecycle` | `MCLifecycle` | an old and a new binary, 2 requests, 1 slug, 1 fault besides failed requests and sweeps | 150 k | `MigratedOnce`, `SweptBeforeClosed`, `LinksHold`, `StopsEventually`, `ExpiredAreDeleted` |

Why these bounds are enough to be interesting:

* Two slots let a save replace one row, insert another and collide on a third
  party's, and two saves hold one key each and wait for the other's; three
  requests are one of each kind, two that race and one that comes after, or the
  three that make a deadlock out of deleted and inserted rows: two hold and wait,
  the third put in between what one of them deletes.  The sweep is a fourth.
* Two slots, a required person and two optional ones make a leader, a rival and
  somebody outstanding whose answer can go either way.  The submissions prefer
  the first slot, take it only if needed, and leave it out; the optional people
  who give the first two rate the slots 65 and 70 on average, which is within the
  tolerance, and the habit is for the worse one: so the ranking begins with a slot
  that is not the verdict's leader.  Completions range over all tiers.  What they
  show about the verdict is proved for any number of people and slots.  A decide
  request shares nothing with those of other tabs but what it reads and writes in
  the database, and a reopening in between is an action of its own; the theorem
  is for any number of tabs.
* A channel of one fills with the second message; two streams are an old one not
  yet torn down and its successor; three versions are a change before, during
  and after a reconnect.  Two loads overtake each other, and a lock's ranking races
  the refetch its message causes.  A fault is one of five: a restart, say, and what
  it leaves are shown, and two faults together are left to the theorem.
* A cap of one on the cached answers is full as soon as the second event is asked
  about, and one fetch at a time with two members makes the semaphore block.
* Four group requests are a graduation or a creation, two claims that race, and
  a retry, or two calendar saves of one member.
* One bucket for two addresses makes the second one evict or pass unrecorded; a
  refill of two thirds of a token per second makes the rounding of `Retry-After`
  matter; five calls exceed a burst of two with what refills in between.
* The windows cross a jump of half an hour, an hour and two hours either way, at
  half-hour slots, and the boundaries of all day parts; `MaxSlots` 6 refuses some
  of them.  Four taps mark a cell, mark a second or change it, and correct slots.
* The calendars begin 35 and 7 days, or hours, before the window, so that a series
  is fast-forwarded, is exhausted by COUNT or UNTIL before, in or after the
  window, and steps over a transition on the way.  `MaxOccurrences` is 45 in the
  instance (the code's is 2000), more than a daily series needs from its
  beginning to the end of the window: what happens beyond the limit is in section 5.
* Two machines contend for the migration lock with one and two migrations to
  apply; a batch of one makes a full batch be followed by another; a single slug
  makes every second draw a collision, up to the last attempt.  The fault is a
  signal, a crash, or an error that ends a process; requests and sweeps may fail
  at any time beside it, and what two faults add to the safety properties is
  proved.

Deadlock is checked wherever somebody can always go on: the proposal,
the answering page, scheduling and the lifecycle (a machine that is down may be
started again).  The other configurations say `CHECK_DEADLOCK FALSE`
because their instances do come to rest: the requests are used up, the event
has expired, the page has been left.

**Fairness.**  Three specifications have it.
`LiveUpdates!FairSpec`: a handler that can go on does (the goroutine is
scheduled; a write into a dead connection fails at the latest when the ping
does), the publication after a commit is made unless the process dies first, the
watchdog's interval fires and redials, requests under way are answered.  Nobody
has to change the event, look at the page, lock it or leave it, and faults need
not happen.  A notice on the stream is heard under strong fairness: the page hears
it at once, and only the model's bound on simultaneous loads may make it wait for
one to end.
`ProposalCache!FairSpec`: every caller's handler goes on, and a fetch ends at
the latest when its client's time-out does.  Nobody has to ask, and clients may
leave at any time.
`Lifecycle!Spec`: on each machine the main goroutine goes on when it can (the
lock wait and the drain are bounded by time-outs) and so does the sweep (its
ticker fires; a statement returns or is cancelled), and so do the open
transactions of event creation, for which the pool's `Close` waits.  Strongly, the
sweep goroutine ends if its context is cancelled again and again while it waits,
because a `select` with two ready cases picks at random: weak fairness would let
it take the ticker for ever.  Strongly too, of sweeps that are tried again and
again not every one fails.  Nothing makes anybody start a machine that is down:
`render.yaml`'s free plan lets the process sleep until somebody visits, and only
`fly.toml` keeps one running.  `ExpiredAreDeleted` is therefore about data that
has expired while some machine stays up.

## 4. What is proved

The theorems hold for every value of the constants under the named ASSUMEs of
the modules (finite sets where a cardinality is taken, positive caps, a
placeholder outside the set it stands beside), which the runs evaluate.  Where a
theorem needs more, the hypothesis stands in the theorem and is named below;
the passing runs meet each of them.  For every property of a passing run except
the liveness properties there is a theorem that states it.

**`ResponseStoreProofs`**, for any slots, requests, submissions and feeds, and
for overlapping and patient people alike: `TypeCorrect`, `AtMostOneTier`,
`SavesAreWhole`, `StoredMeansResponded`, `PurgeIsFinal`, `RefusalsHaveRivals`; for
the patient, `DisconnectHolds` and the refinement `AnswersAreImplemented`.
That a slot has one tier (`OneTierPerSlot`) is not inductive: a row must
already fit when it is inserted, not only when it is committed.  `Inv` therefore
says what a transaction in flight holds: the rows it has deleted are still in the
table and nobody else's (`Locked`), the keys it has taken collide neither with
what will remain nor with each other's (`KeysReserved`), what its DELETE saw it
saw whole, what it has deleted since included (`WholeSnapshots`), what is stored
was written by finished requests (`RowsAreSaved`, `WholeSaves`), while the sweep
has the participant it has seen all that is stored and no save has a share of the
row (`Cascade`), and after the purge no open transaction has anything to insert
(`Expired`).  Each kind of step has its lemma (`ClearStep`, `DeleteRowStep`,
`InsertStep`, `CommitStep`, `PurgeSaves`, `QuietStep`).
Saves do deadlock: one has inserted a and waits for b, which another has deleted
and which will not go on before it has inserted an a of its own.  What is proved of that is that a
refusal always has somebody to blame (`Blamed`): the key that was taken is that of
a save that went through (`ConflictHasOwner`), and on a circle of transactions
that wait for each other the victim is not alone (`VictimHasRival`).
For a patient person `PatientInv` adds that there is one request at a time,
that what it holds in memory is what its handler makes of the rows stored now,
and that its DELETE has seen all of them (`OneAtATime`); that no tier of a
calendar is left, stored or in memory, once one is disconnected
(`Disconnected`); and that nothing was refused unless the sweep had begun
(`Unrefused`).  So its commit is the abstract step on the state in which it
commits (`PromiseStep`), and all its other steps stutter.

**`EventProofs`**, about `Answering`, for any windows, zones, feeds and number of taps:
`AnsweringTypes`, `SubmissionKeepsEdits`, `ReopeningKeepsAnswers`, and
`GridIsExactAlways`.  The last has the hypothesis `Probed`, that the zones of the
windows move by what `resolve` probes; `slots.go` claims no more.  It is about
the two loops of `Expand`: their clocks ascend (`ClocksAscend`) and are the daily
grid's, window past midnight and day of its end included (`ClocksAreGrid`);
each is resolved to the first time it is shown, or dropped (`ResolvesFirst`);
of two clocks that are shown, the later is first shown later (`LaterIsLater`);
so every turn appends, and after any number of turns the slots are the
first readings so far (`LoopInvariant`, `ExpandsExactly`).
The other two rest on what the stored rows have in common whoever wrote them:
a calendar only refuses and day parts only offer (`RowsFit`), and with one row of
a day part are stored those of the whole part, as the zone of the submission
divides the day, but for slots that were stated singly (`PartsFit`).  Without
the second part of that, reopening could not rebuild a cell from its rows.
`OpenedFits` keeps an opened page equal to what `hydrate` makes of the rows for
as long as nothing is tapped.

About `Scheduling`, for any windows, members and finite calendars:
`SchedulingTypes`, and, where the calendars are regular, `FeedIsCoveredAlways` and
`ProposalIsEarliestAlways` (the latter in probed zones, as above).  The inductive
invariant `SInv` only says that the last proposal is the one that the event and
the calendars would make again, or that there is none; the content is in what
that one is.

* `MergeIsExact`: merging any finite set of intervals leaves them in order, apart,
  and covering the same time.  What is still to come begins no earlier than the
  last interval kept, so that looking at that one alone is enough (`Merging`).
* `FeedIsCoveredAlways`: the loop of a series stands at the dates of equally
  spaced clocks, although each step is taken from the last (`CursorTicks`); the
  fast-forward lands on one of the same clocks (`JumpLands`), and what it passes
  over is over before the window (`JumpedIsOver`).  COUNT counts the steps, or with BYDAY
  the named days in the order of the list, and the rule counts clocks: the two agree
  because the map from one to the other ascends (`PlainCount`, `NamedCount`).  So
  a step is made for every occurrence that matters (`PlainCovers`, `NamedCovers`);
  with BYDAY only if the series' own weekday of that week comes before the window
  and UNTIL end (`OwnDay`), which is where the days that `SchedulingWeekEnd` shows
  are lost, and no others.
* `ProposalIsEarliestAlways`: since the stored intervals cover what is taken, an
  interval overlaps a slot exactly if some half hour of it is taken (`FreeIsClear`),
  and the first clear one in the ascending grid is the earliest (`AscendingBounds`).
* `FastForwardSuffices`: an uncounted daily or weekly series that never stands at a
  skipped clock reaches the end of a window shorter than `MaxOccurrences` - 6 days
  without being cut off, however old it is.

`Regular` is the hypothesis about an event of a calendar, and `MCFeedsAreRegular` has
TLC evaluate it on the instance.  It leaves out what section 5 lists under
recurrence: a series that would stand at a clock its zone skipped, on the days
from its beginning on and, with BYDAY, also on the Sunday before (`Since`), from
which the code finds the days of the first week (`NamedOnWeek`); occurrences
that last over three periods, if the series is fast-forwarded; a series that
`MaxOccurrences` cuts off; DAILY with BYDAY, and COUNT with days named out of order.
Besides, the zone of a series must move by less than a day.  A single event is
always regular.

**`DecideProofs`**, for any people, slots, submissions, tabs and habits.
About the solver, for every view a poll can have:
`VerdictIsExact` and `WinnersAreExact`, that bounding each slot separately between
everybody's worst and best answer agrees with enumerating all answers to come.
A better answer never lowers a score (`ScoreGrows`), so the bounds are
attained, each slot's by answers to that slot alone (`SameColumn`), and the worst
answers for one slot and the best for another are one completion
(`MixedIsCompletion`).  Their hypothesis `Sociable`, that nobody is asked
outside working hours, is what `ScoreGrows` needs, and `PollUnsociable` shows
that it cannot be left out.
`RankingHolds`, that the ranking has every slot, and none that stands
directly behind one it beats by more than the tolerance, although the
comparison is not transitive (`InsertKeepsOrder`); hence `RankingFits`, that its
head is as good as the leader of the verdict up to one tolerance per place the
leader is behind (`TolerancesAddUp`, `FirstIsClose`).  One tolerance for all,
which the comments promise, is too much: `PollHistory`.
About deciding: `DecideTypes` and `VetoIsRespected`.  A decide request reads who
has responded and, later, their answers.  The invariant says of each veto that
has stood since the request began that it is stored and that its owner had
responded at the first read (`StandingIsStored`), so that the check sees it
whatever else it sees.

**`LiveUpdatesProofs`**, for any number of streams, versions, loads and faults and
any size of a channel: `NoSubscriberLeaks` and `PageAtRest`, whatever the order in
which requests are answered.  The invariant behind `PageAtRest` is `Promised`:
while the page hears its stream and nothing was missed, it is up to date or
something is still under way that will make it so: a publication owed for a
commit, a message in the channel, a notice on the wire, or a load (`Coming`).
A load will do if it and all that was asked after it read the newest version:
should one of the younger ones arrive first and the load itself last, it is
among those that are right, and should an older one arrive after all of them,
that is what `missed` records.  The ranking that follows a lock is not enough
by itself, since it leaves the event as it was; but it never undoes what a load
of the newest version has shown.

**`GroupsProofs`**, for any people, devices and requests: `GroupTypes`, `OneSeat`,
`OwnRow`, `CalendarMatches`.  `OneSeat` takes the unique index for linked seats
(`Unique`) together with the row that the creator of an event has in it whether
linked or not: it needs that a membership being worked for exists
(`MemberKnown`), that the seat about to be linked is the only one of its id
(`OwnSeat`), and that a creating request is through only when it has linked it,
which no earlier claim of the creator survives (`Linking`).  `OwnRow` needs that
the organizer's row is the first of an event and of what a graduation has read of
it, whoever joined under that name (`OldestRow`); `CalendarMatches`, that the
snapshot of a save which nothing overlaps is exactly what is on file, whatever
earlier saves that overlapped have left there (`SavesAlone`).

**`RateLimiterProofs`**, for any rate, burst, cap, addresses, and wait for the
mutex: `MapIsCapped`, `BudgetHolds`, `WaitIsEnough`.  The budget is an account
(`Accounted`): since any moment, what a key was granted together with what
its bucket still holds is at most one full bucket, the refills since, and an
allowance for readings of the clock that came late to the mutex; and if the
bucket has been dropped, its grants are paid for by refills alone, which is
what makes it safe to start the next one full.  It needs that readings are
recent and buckets of the past (`ReadingsAreRecent`, `BucketsAreOfThePast`).

**`ProposalCacheProofs`**, for any callers, events, members, cooldown,
time-out and caps: `TypeCorrect`, `CacheStaysBounded`, `OutboundStaysBounded`,
`FanOutIsNeeded`, `AnswersStayRecent`.  The bound on outbound connections rests
on `SingleFlight` (whoever computes for an event holds its flight, so at most
one caller does) and `FetchesBounded` (the semaphore): the fetches of one event
inject into the busy set of that one caller.  `SingleFlight` also gives
`NoNeedlessFanOut`: an answer that appears for an event was stored by the only
caller that could be refreshing for it.  The age of an answer needs `Ordered`
and `Young`, which follow it from the start of the refresh through the map to
the caller; `StoredFacts` is what `store` does to the map, cap included.

**`LifecycleProofs`**, for any machines with whatever migrations in their
binaries, any requests and slugs, and any bound on faults: `TypeCorrect`,
`MigrationsAreSerial`, `PoolOutlivesSweeper`, `LinksStayGood`.  The first of the
safety properties needs `Schema`: who migrates holds the lock and has read the
version since, so that what it appends is next; and whoever is past migrating
is not ahead of the schema.  The second needs `Unwinding`, which ties the
pool and the sweep to where `run()` stands; the third `Batches`, that only what
has expired is ever selected, and that the unique index lets nobody take a slug
in use; it speaks of an event from its commit on, answered or not.  Every way out of a process is one step, `Gone`, and one lemma.
Liveness and its fairness play no part in these.

Four proved invariants, `OneTierPerSlot`, `RowsImplyResponded`, `CacheBounded`
and `RankingIsOrdered`, have no run: what they say is for every instance already.

The library's induction theorems take the claim as an operator, which the
provers cannot instantiate.  What goes wrong for some number therefore goes
wrong for a least one (`LeastNat`, from the well-foundedness of the naturals),
and that one is refuted: so the loops of `Expand` and of `Merge`, the sort of the
ranking, and the extremes and cardinalities of finite sets are reasoned about.
Loops are recursive functions and folds; no module declares a RECURSIVE operator.

Only model-checked: all liveness (`EventuallyFresh`, `WaitersAreAnswered`,
`StopsEventually`, `ExpiredAreDeleted`), which is out of the prover's reach, as is
anything with ENABLED.  What becomes of calendars that are not regular is neither
proved nor checked; section 5 describes it.

## 5. Where program and documentation part

Three runs show a disagreement between the code and what its comments say
(`PROJECT.json`, "findings"): with unsociable hours, "decidable" does not
mean that the leader cannot be dethroned, since a better answer can lower a
score; history can rank a slot above one that scores better by more than the
tolerance; and the recurrence loop stops at the series' own weekday although
other named days of that week come before it.  The models show more behaviour that a
reader may not expect; each item bounds what the properties above claim.

Answers and calendars:

* Connecting or disconnecting a calendar alone marks the person as having
  answered (`participants.go:47` against `:217`).
* Overlapping requests of one person keep the store consistent but not the
  person's intent: a submission in flight brings inferred rows back after a
  disconnect, and a calendar request in flight writes an older typed answer over
  a newer one.  `DisconnectIsFinal` and `ImplementsAnswers` are about a person who
  waits.
* Overlapping saves, or a save and the purge, can deadlock: a save has inserted
  one key and waits for a second, which another has deleted, while that other waits
  for the first; or it holds rows the purge's cascade is to delete, while the purge
  has the participant's row that the save must check or update.  PostgreSQL aborts one of them, and the handler answers
  500 as it does for a key that is taken; nothing is retried.
* Connecting stores the blocks and the derived answers in two transactions, and
  disconnecting removes them in two.  A failure in between leaves blocks nothing
  was derived from, or derived answers without blocks, until the next save or
  calendar request; `Answers` promises only what is said of the slots.  Overlapping
  calendar requests can leave the blocks of both.
* A fine correction survives untapping its day part: it is no longer on the
  screen and is submitted all the same, although the page then says that none of
  these times work for you (`+page.svelte:577`, filter at 245-252).
* `req.timezone` is used to read a submission and never stored.
  `ReopenKeepsAnswers` is therefore about answers given in the zone the person
  joined with; others come back under the day parts of that zone.
* Linking or unlinking a calendar rebuilds the editors, discards what was
  tapped and not submitted, and does so in the joined zone whatever zone the
  page shows.
* A day part in which only single slots were stated, and one of them not
  refused, comes back as "ok"; `Implied` leaves its other slots out.
* Slots longer than the hour a clock skips may overlap by it, since each start
  is resolved by itself.

Solver and deciding:

* A person not named as relevant can still change who leads
  (`solver.go:419`, `solve.go:67`): relevance is about the field of possible
  winners.
* The ranked list is ordered with history and the verdict without, so the head
  of the list need not be the leader; with three slots or more, because the
  comparison is not transitive, history can lift a slot above one that scores
  better by more than the epsilon (`PollHistory`), though by no more than one
  epsilon per place between them (`RankingFits`).
* A veto that arrives after the check of a decide request and before its
  update is locked over; `StandingVetoRespected` is about vetoes present
  throughout.

Live page:

* Nothing orders overlapping loads.  An older one that is answered last stays on
  the page if no younger `load()` is still to come, and so does an old ranking that
  `lock()` or `unlock()` fetched (`+page.svelte:137`, `:153`) unless a load is under way.
* Joining publishes nothing, and a refetch that fails is not retried: an
  open page stays behind until something else changes or it is looked at again.
  `missed` leaves these three out of the freshness properties until the next load
  begins.

Groups and proposals:

* An answer that leaves out members whose refresh failed is cached for the
  whole cooldown, although `proposalcache.go:78` says that failures are not.
* The proposal an event's creation makes for itself
  (`handleCreateGroupEvent`) calls `computeGroupProposal` directly, outside the
  cache and its single-flight: `OutboundBounded` counts `GET /proposal` only.
* A participant of a graduated event is not linked to the membership made of
  them, so claiming a seat there gives the person a second one.  The creator of
  a group event ends up with two seats if their own claim from another
  device comes before the link, or after a link that failed, which is only
  logged; the comment at `groups.go:397-399` promises one.  `OneSeatPerMember`
  names exactly that case.
* A page that claims a group seat saves its token before it reads the event
  again (`+page.svelte:127-130`).  If that read fails, it asks for a name after
  all, and joining makes a second participant.
* Of two claims of one member that race, the loser gets a 500 and the page
  falls back to asking for a name; a retry finds the seat.
* Graduating twice makes two groups and relinks the event to the second; a
  graduation that fails halfway leaves a group nobody has a link to.
* Disconnecting a member's calendar leaves `calendar_source` at `ics` without a
  URL while the answer says there is none.
* Of two overlapping saves of one member's calendar, the second deletes what its
  snapshot saw, not what the first has inserted while it waited: the blocks of
  both stay beside the address of the last, until the next save.
  `BlocksMatchFeed` is about calendars that a save without overlap wrote last.

Recurrence, beyond the lost days:

* A series whose occurrences last several of its periods misses those that
  began more than three periods before the window; one that has an UNTIL in
  between is given up there.
* COUNT counts from the beginning of the series, and a series with COUNT is
  not fast-forwarded: past `maxOccurrences` steps it is cut off.
* A step onto a clock that was skipped moves the series for good.
* A BYDAY rule finds the Sunday of a week by `AddDate` at the series' clock.  If
  that clock was skipped on that Sunday, at midnight, and `time.Date` takes the
  earlier reading, the day before comes out, and every named day of the week is
  one early: America/Santiago, 00:30, MO and WE, begun on the Monday after the
  change, loses that Monday (as before its beginning) and is busy on the Tuesday
  instead of the Wednesday.  For a later week `Regular` excludes it as a skipped
  clock of the series, for its first by looking at that Sunday as well (`Since`).
* With BYDAY, a DAILY rule repeats a week's days at each step and COUNT counts
  the repetitions; weeks start on Sunday whatever WKST says.

Lifecycle:

* `BaseContext` hands requests the signal's context, so SIGTERM cancels the
  requests under way although `main.go:42-43` says that a rolling restart does
  not drop them.
* A crash or an error between the commit of an event and its answer leaves an
  event nobody has the link to, until it expires.
* What has expired is deleted by the first sweep of a running process.  On
  Render's free plan (`render.yaml`) an idle process is put to sleep and nothing
  sweeps until the next visit: that "the data goes away when the link expires"
  (`events.sql:40`) then waits for it.

## 6. Not modelled

Formatting, parsing of input syntax, routing, logging, HTML.  `fetchguard` is a
fetch that succeeds, fails or times out.  The syntax of a feed, and MONTHLY and
YEARLY rules.  `AffinityFromDecisions`, which is arbitrary here.  The rounding
of float64 in scores.  Slots beyond twenty, where `sort.SliceStable` merges
blocks.  Switching identities on one device, and exporting an `.ics` file.
`Lifecycle` assumes that migrations and the purge are switched on, as the
deployment has them.  Broker, cache and limiter are each per process, and
modelled for one.  Which transaction of a deadlock PostgreSQL aborts, and when: any
on the circle, at any time.  A page whose `load()` fails half-way.  The code `sqlc` generates, through the
statements that use it.  "components" in `PROJECT.json` gives the reason for
each part that has no module.

## 7. Plan

Done: the participant's answers with their abstract specification, the
answering page over slots and day parts, the solver's verdict, deciding, live
updates, calendars and proposals, the proposal cache, groups with calendars and
seats, the rate limiter, the lifecycle; each with proofs of its safety
properties, and the answers with their refinement.

Next, in this order:

1. `AffinityFromDecisions` in place of the constant `Affinity`.
2. MONTHLY and YEARLY rules, whose steps land on days a month does not have.
