# A verification project for exportarr

exportarr turns the APIs of Sonarr, Radarr, Lidarr, Prowlarr, Bazarr and SABnzbd
into Prometheus metrics.  One
process serves one target (`exportarr sonarr ...`) or many
(`exportarr serve`).  Every scrape of `/metrics` makes the collectors call the
upstream APIs, so the interesting behaviour of this program is what happens when
scrapes, collections and upstream calls overlap, fail, or take longer than
Prometheus waits.

This directory holds TLA+ modules of those parts, the TLC configurations that
check them, and proofs checked by TLAPS.  Every definition is a translation of
the Go source under `internal/`; `PROJECT.json` maps each one to its lines.

## 1. Inventory

### 1.1 Components, their state and their operations

| Part | Source | State | Operations |
|------|--------|-------|------------|
| Upstream slot pool | `client/limiter.go` | a reserved channel per target, one shared channel, the in-flight gauge | `Acquire`, `release` |
| Upstream transport | `client/transport.go`, `client/client.go` | per call: attempt, response, open body | authenticate, attempt, retry, back off, drain, return |
| Form login | `arr/client/auth.go` | a mutex and a session cookie per target | `Auth` |
| Scrape stack | `commands/root.go`, `commands/serve.go` | scrapes admitted, the gather in flight (singleflight) | scrape, gather, time out |
| *arr library walks | `arr/collector/sonarr.go`, `lidarr.go` | a mutex per collector, the totals of one collection | collect, fan out, publish |
| Sequential collectors | `arr/collector/radarr.go`, `history.go`, `health.go`, `rootfolder.go`, `diskspace.go`, `status.go` | none between collections | fetch, publish |
| Queue collector | `arr/collector/queue.go` | pages read so far | fetch the next page, stop |
| Bazarr collector | `arr/collector/bazarr.go` | a mutex, two levels of workers | collect, batch, publish |
| Prowlarr statistics | `arr/collector/prowlarr.go`, `statcache.go` | accumulated statistics, last update | fetch the interval since, accumulate |
| SABnzbd statistics | `sabnzbd/collector/*.go`, `sabnzbd/model/model.go` | per server: total, history, today | collect, `Update`, read |
| Deadlines | `config/config.go`, `collector/helpers.go`, `commands/root.go` | none | collect, scrape and write timeout, one from the other |
| Targets and configuration | `targets/*.go`, `*/config/*.go`, `commands/serve.go` | the targets parsed so far, names and URLs seen, problems found; none after start | scan, parse, validate, resolve, build |
| HTTP server | `commands/root.go` | listening, draining, stopped; a signal, an error, scrapes on their connections | serve, shut down |

### 1.2 How they interact

A scrape of a target enters through the metrics handler, which admits two at a
time and answers 503 to the rest; the admitted ones share one *gather*
(singleflight).  A gather runs the target's collectors concurrently; each
collector makes upstream calls, the large ones through a pool of workers, under
one collection deadline shorter than the scrape's.  A call is made through a
client whose transport authenticates it, sends up to three attempts, and takes a
slot of the process-wide pool for each of them (and for the login).  The slot is
held until the body of the response is closed.  Nothing is persisted: state that
outlives a scrape is the session cookie, the Prowlarr and SABnzbd caches, the
collectors' mutexes and the pool.

### 1.3 What is hard, and what correct means

* **Slot pool.** Attempts of many targets compete; contexts end at any time.
  Correct: never more attempts in flight than the cap, room for one attempt of
  every target, no token lost, no waiter beside a free slot, progress for a
  target that answers whatever another does.
* **Transport and login.** A mutex that ignores contexts, slots, backoffs and
  deadlines meet in one call.  Correct: what waits holds no slot, every path
  returns what it took, one login at a time, every call returns.
* **Scrape stack.** Prometheus gives up, the handler goroutine does not.
  Correct: at most one gather per target, a collection is never joined by a
  second one, an answer belongs to the scrape.
* **Library walks.** A deadline or an error in the middle of a fan-out.
  Correct: totals are published only when every item was counted, otherwise the
  error gauge is raised.
* **SABnzbd and Prowlarr caches.** Days roll over, scrapes are missed, samples
  come late.  Correct: an exported counter does not go down or count twice.
* **Queue pages.** The queue changes between two requests, the target claims any
  number of pages.  Correct: bounded requests, nothing counted twice.
* **Bazarr.** Eight fetches in five goroutines, errors and panics.  Correct: what
  is missing is announced, totals are whole.
* **Startup.** Blocks of environment variables that clash, inherit, or are wrong in
  several ways at once, checked in several passes.  Correct: what is served was sound
  as a whole, a refusal names every block at fault, a target runs with its own settings.
* **Deadlines and lifecycle.** One server for targets with timeouts of their own; a
  scrape that joins a gather which somebody else began; signals, listener errors and
  scrapes that hang.  Correct: an answer before the scrape and the connection time
  out, and an exit whatever hangs.

## 2. Plan

| Step | Module | What it models | Depends on | State |
|------|--------|----------------|------------|-------|
| 1 | `SlotPool`, `UpstreamCap` | the process-wide cap and its abstract promise | - | modelled, checked, proved |
| 2 | `Transport` | one upstream call with its login and retries | `SlotPool` | modelled, checked, proved |
| 3 | `ScrapeStack` | admission, timeout, singleflight, TryLock | - | modelled, checked, proved |
| 4 | `LibraryWalk` | the fan-out of Sonarr and Lidarr, the collectors that only fetch | - | modelled, checked, proved |
| 5 | `ServerStats` | a SABnzbd collection and its counters | - | modelled, checked, proved |
| 6 | `ProwlarrStats` | the statistics window: read, fetch, accumulate; rounding to seconds | - | modelled, checked, proved |
| 7 | `BazarrCollect` | badges, two walks, system metrics; what a failure or a panic leaves to publish | - | modelled, checked, proved |
| 8 | `QueuePages` | the page loop against a queue that changes | - | modelled, checked, proved |
| 9 | `Deadlines`, `Startup` | the time limits as operators; from the environment to the targets served | - | modelled, checked, proved |
| 10 | `Serve` | the process: startup, listener, scrapes under their time limits, signal, graceful shutdown | `Startup`, `Deadlines` | modelled, checked, proved |

What a next step could be: the walks of several targets over one `Transport`, with their
deadlines.  Its promise is put together here from parts: `DeadlinesEndCalls` (a call ends
after its deadline), `CollectionEnds` and `BazarrEnds` (a collection ends when its calls
do), `AnsweredInTime` (a gather that ends by then is answered in time).

Abstract specifications: `UpstreamCap` for the pool, which `SlotPool` implements and
`Transport` uses through its interface (`UsesPool`); `Startup` for `Serve`
(`ServesAsStarted`).  Every safety property of the passing runs is a theorem (section 7).

## 3. What is modelled

### 3.1 `SlotPool` and `UpstreamCap` (`internal/client/limiter.go`)

`UpstreamCap` is the promise in one variable, the set of requests that hold a
slot: a step takes one slot, gives one back, or hands one over, within the cap
and such that one more attempt of every idle target would still fit.

`SlotPool` is the code.  `reserved[t]` and `shared` count the tokens in the
channels; `pc` says where a request is in `Acquire` or `release`; `slot` which
channel its token is in; `parked` is the order of the senders blocked in the
second `select`; `inFlight` is the exported gauge.

| Action | Code |
|--------|------|
| `AcquireFast`, `AcquireMiss` | the first `select`, with its `default` |
| `AcquireSlow`, `Park` | the second `select`: a send that can proceed, or blocking |
| `GiveUpAtOnce`, `GiveUpParked` | its `ctx.Done()` case |
| `Hold` | the gauge goes up (`hold`) |
| `Release`, `FirstCall` | `once.Do`, the gauge goes down |
| `FreeToParked`, `FreeToPool` | the receive from the channel: a parked sender completes, or the room stays |

Channel semantics (FIFO of parked senders, direct hand-over) are Go's and are
marked external.  The context is not a variable: giving up is possible wherever
the code listens for it.

### 3.2 `Transport` (`client/transport.go`, `client/client.go`, `arr/client/auth.go`)

One call per goroutine, over an instance of `SlotPool`.  `stage` follows the call:
waiting for the login mutex, logging in, sending, draining, backing off, with an
open body, closed.  The actions are the segments between two points where another
goroutine or the network can get in: `AuthCached`/`AuthLocked` (mutex and cookie),
`LoginAnswer`/`LoginAbandoned`, `AttemptAnswered`/`AttemptFails`/`AttemptAbandoned`,
`DrainBody`, `Retry`, `Sleep`, `WakeAndSend`/`WakeAndBreak`, `Fail`/`Succeed`,
`CloseBody`, `Return`.  A response is one of four outcomes (transport error, server
error, refused, ok); its content is not modelled.  `Expire` ends a context at any
instant.

### 3.3 `ScrapeStack` (`commands/root.go`, `commands/serve.go`)

`request` is what the client sees, `handler` is the goroutine behind it: they part
when the scrape times out.  `Admit`/`Refuse` are promhttp's in-flight semaphore,
`Lead`/`Join`/`Deliver` are `sharedGatherer.Gather`, `Collect`/`CollectEnds` the
TryLock and the deferred unlock of one collector.  promhttp, `TimeoutHandler`, the
registry and singleflight are libraries, modelled as `root.go` uses them; in
particular the timeout wraps the semaphore, so a scrape that timed out keeps its
place until its gather is over.

### 3.4 `LibraryWalk` (`arr/collector/sonarr.go`, `lidarr.go`, `radarr.go`, `helpers.go`)

One module for the collectors that publish at their end: they differ in `Before` and
`After`, the fetches around the walk.  Radarr and the collectors of one endpoint are
walks without lookups.  `conf` is chosen among the configurations at start.  The loop is
in two steps, because the code is: `NextItem` looks at the group's context, `Go` blocks on
the group's limit and does not.  `counted` holds, for each kind of total, the items in it,
so "the total is complete" can be said without numbers; `late` counts what was launched
after the group had ended.  The outcome of a call is decided when it is sent: a call that
is in flight when its context ends may succeed or fail, and the model allows both orders.

### 3.5 `ServerStats` (`sabnzbd/collector/collector.go`, `cache.go`, `sabnzbd/model/model.go`)

`listed` is what SABnzbd would answer, `cache` is `serverStatCache`, `published` the
exported counters.  A collection (`Begin` to `Publish` or `CollectFails`) runs its two requests side
by side: the one for the statistics fetches and updates the cache, the one for the queue
can fail when that has already happened.  `Article`, `Midnight` and `Wipe` are SABnzbd,
external and free to happen in any order at any time.  `sampled` is a history variable:
the last sample of each day, from which `CountsEachDayOnce` computes what the counters
should be; `PublishedFollows` says what a scrape tells of them, and when.

### 3.6 `ProwlarrStats` (`arr/collector/prowlarr.go`, `statcache.go`)

Time is counted in ticks, `Second` of them to a second, because the code keeps the ends
of a window exact and sends them in whole seconds.  `Ask` takes `statsMu` and fixes the
window, `Answer` is Prowlarr's answer at some later tick, `Accumulate` adds it up and moves
`lastStatUpdate`, `Fail` leaves without.  An event is the tick at which it happens and a
statistic is how often an event was added, so "counted once" needs no reference count.
Two things are taken for granted, as the code does: Prowlarr's windows include their start
and not their end, and there is one clock which does not go back.

### 3.7 `BazarrCollect` (`arr/collector/bazarr.go`)

`at` says where each of the five goroutines is: `Collect` itself, the one that walks, the
two it starts for episodes and movies, and the system endpoints.  Workers are in `running`
from `Launch` to `Work`.  Every fetch can succeed, fail or panic.  A panic of a worker is an
error of its group, a panic elsewhere raises the gauge and ends the goroutine there: for
the episodes that means that the assignment at line 213 is not reached and the stats stay
as they were made.  `published` is the set of metric groups sent.  A worker that outlives
its collection is waited for before the next one begins: each collection has stats of its
own, so they would share nothing.

### 3.8 `QueuePages` (`arr/collector/queue.go`)

The queue is a sequence that changes between two page requests: items leave, enter at the
end, or are reordered (external, all three).  `target` says whether it pages, ignores the
page parameter, or lies about totals and page size; `identified`, whether its records carry
an id.  `changes` counts, for each kind of change, what happened since the first page, and the properties promise as
much as it allows: after a reordering nothing can be promised.

### 3.9 `Deadlines`, `Startup` (`config/config.go`, `targets/*.go`, `commands/serve.go`)

`Deadlines` has the arithmetic: `CollectTimeout` of a scrape timeout (with Go's integer
division), `WriteTimeout`, and `LongestOf` the targets.

`Startup` goes from the environment to the targets that are served, `phase` says how far.
`PreRun` and `CheckProcessConfig` are about the process; `Scan`, `ParseTarget`,
`ValidateTarget` and `NoTargets` are `targets.Load`, a step per target; `Decide` is what
`runServe` makes of the problems; `BuildTarget` resolves a target's settings and runs its
application's own validation.  A block is reduced to what the code decides on: whether its
name is valid and which it is, the key of its URL, the settings it has of its own.  One
setting stands for each kind: one that any target may have (the scrape timeout), one that
some applications refuse, one that belongs to an application alone.  Where a value has a
syntax (names, URLs, dates, keys), the model has its verdict.  `exposed` are the blocks whose
secrets are still in `os.Environ`.  `HandOver` forgets all that, as `runServe` does.

### 3.10 `Serve` (`commands/root.go`)

The steps of `Startup`, then `serveHTTP`.  `Listen` keeps of each target its two timeouts;
`AcceptFails`, `Signal` and the two `Select` actions are the listener, the signal channel
with its one place, and the `select` that takes either when both are ready; `ShutdownDone`
and `ShutdownFails` are the graceful shutdown under its timeout.  A scrape leads a gather
of its target or joins the one in flight (`Arrive`), is answered with it (`GatherEnds`) or
times out (`TimeOut`).  `Tick` is a unit of time: a timer that is due fires before the next.
A gather takes any time up to `Slack` after its collectors' deadline, and any time at all
when there is none.  Admission is `ScrapeStack`'s: the two connections here stay within it.

## 4. What is checked

Every passing run checks deadlock.  The bounds are named constants of the modules.

| Run | Instance | Shows | States |
|-----|----------|-------|--------|
| `SlotPool` | 6 requests, 3 targets, cap 5 | room for every target, tokens and gauge, nobody waits beside a free slot; implements `UpstreamCap` | 125k |
| `Transport_safety` | 3 calls, 2 targets, cap 3, 2 retries | what holds a slot when, one login, use of the pool | 1.4M |
| `Transport_hung` | 4 calls, 2 targets, cap 3, 1 retry; one target never answers and has no deadline | calls to the other return, over their slot, mutex and backoff; one that is never answered returns by its deadline | 88k |
| `ScrapeStack` | 3 scrapes, 2 admitted, 2 collectors | one gather, no skip, fresh answers, places come back | 112k |
| `LibraryWalk` | 3 items, 2 workers, 29 configurations | all or nothing, no worker left, bounded launching, end | 31k |
| `LibraryWalk_lidarr` | 3 items, 2 workers, Lidarr without wanted metrics | **violated**, see section 6 | - |
| `ServerStats` | 1 server, 4 days, 2 articles a day | each day once, counters follow the scrape's own sample | 3.3M |
| `ProwlarrStats` | 2 collections, 3 seconds of 2 ticks | each event added once, updates advance | 22k |
| `QueuePages` | 7 items, pages of 2, 3 pages, 2 changes | bounded requests, nothing twice, few missed | 58k |
| `BazarrCollect` | 3 batches, 2 workers, errors and panics | what is missing is flagged, totals whole, end | 42k |
| `BazarrCollect_status` | 2 batches, errors only | **violated**, see section 6 | - |
| `Serve` | 1594 environments of up to 3 blocks, 2 scrapes | served if and only if sound, every culprit named, own settings, answers in time, exit when asked | 65k |

Why these bounds are enough to be interesting.  *Pool:* three
requests of one target take its reserved slot and both shared ones, so that the two of the
second compete for theirs and park, and the third target comes late to its own.  *Transport:* two calls of a target with a form login contend for its
mutex, a third call contends for the pool; `MaxRetries` is the code's 2 in the safety run,
1 where liveness makes the graph expensive.  *Scrape stack:* one scrape more than are
admitted.  *Walk:* one item more than workers, so the loop blocks on a full group with an
item still to come.  *ServerStats:* four days give a rollover, a missed day, a lost history
and a restart.  *ProwlarrStats:* two ticks to a second put an update between two seconds;
there is time for three windows, of which one fails.  *QueuePages:* seven items make one
page more than are read, and the last one partial; two changes can hit two different page
boundaries.  *BazarrCollect:* three batches and a history for two places: the loop blocks
with work left.  *Serve:* the blocks of `MCServe` have each fault alone and next to a sound
or another faulty block, gaps before and after, names and URLs that clash with sound and
with refused blocks, and timeouts below, at and above the grace of the collect deadline,
the longest not the default; two scrapes are one that leads a gather and one that joins it.

Each property has a mutant in `PROJECT.json`: a plausible mistake in one mapped
definition (a dropped guard, an unlock that is not deferred, an early slot) under
which the same run finds it violated.

## 5. Fairness

* A goroutine that can run, runs: weak fairness of the actions of the code.
* Go's channels serve parked senders in order, so no strong fairness is needed for a
  slot; `sync.Mutex` hands over to a starving waiter, modelled as strong fairness of
  taking the login mutex.
* A target answers only where a run says so (`Fairness(Answered)` of `Transport`): in
  `Transport_hung` one target never does, of the other's two calls one is answered.  A
  request whose context ended is given up by `http.Transport`, whatever the target does.
* A context need end only where the run is about deadlines (`Deadlines(R)` of `Transport`:
  each client has a `Timeout`).  `Expire` in `LibraryWalk` and `TimeOut` in `ScrapeStack` have
  no fairness: nothing relies on them.
* In `ScrapeStack` a collection ends, which `LibraryWalk` (`CollectionEnds`) shows from
  calls that end, which `Transport` (`DeadlinesEndCalls`) shows from deadlines.
* In `Serve` the process runs and time passes; a gather with a deadline ends when its time
  is up, one without need never end.  No scrape has to come, nor to leave; timed-out
  handlers answer (`TimeOut`).  A signal need not come: `StopsWhenAsked` starts from one.

## 6. Findings

**Lidarr can publish partial totals without its error gauge**
(`arr/collector/lidarr.go:146`).  The README says of every collector that it "abandons
its requests shortly before that deadline and raises its error gauge".  The loop over
the artists stops when the group's context has ended, and relies on a failed worker to
make `eg.Wait` return an error.  When the deadline ends while no worker has a lookup in
flight, none fails; `Wait` returns nil.  Sonarr, and Lidarr with its wanted metrics, make
another call with the ended context and fail there.  With `DISABLE_WANTED_METRICS` Lidarr
makes none and publishes the totals of the artists it got to.  The trace of
`LibraryWalk_lidarr` shows it with a single artist.  Returning `egCtx.Err()` (or
checking `ctx.Err()`) after the wait would close it.

**An unreachable Bazarr has no `bazarr_system_status`** (`arr/collector/bazarr.go:491`).
The README tells users to alert on `<app>_system_status`, "`0` when it doesn't" answer.  For
Bazarr the status is asked for after the health endpoint, in the same function, which
returns when health fails.  When Bazarr is down the series disappears instead of becoming 0;
only `bazarr_collector_error` tells.  `BazarrCollect_status` shows it.

**The README still describes skipped scrapes** (`README.md:310`).  It says that a scrape that
arrives while another one is running is skipped and raises the error gauge; line 378 says
that it waits and is served the same result.  The code does the latter (`NobodyIsSkipped`,
and the theorem `TryLockSucceeds`); the sentence is older than the shared gather.

**"Reports every problem at once" is three times** (`README.md:163-171`).  What the
environment's process settings get wrong ends the program in `PersistentPreRunE`, alone; what
`targets.Load` finds is reported together (`NamesEveryCulprit`); what the applications'
validations would reject is found only when all that is in order (`serve.go:48` returns before
`buildTargets`).  Nothing is served in any of the cases; one may have to start three times.

## 7. What is proved

`SlotPoolProofs`, from `PoolAssumption` alone (finite sets of targets and requests, a
capacity that leaves a shared slot): type correctness, the cap with its reservations,
the gauge, the absence of leaks, work conservation, and the refinement of `UpstreamCap`,
for any number of targets and requests.

The properties are not inductive by themselves.  The invariant `IInv` adds who owns what:
each reserved token belongs to one request of its target, the shared counter is the
number of requests marked shared, the gauge is the number of requests between `hold` and
`release`, the queue holds the parked requests once each, and both kinds of slot are taken
while any request is parked that could use them.  The cap then follows by counting: the
requests that hold a slot are the reserved and the shared holders, at most one of the
former for each busy target.  Each action is one step of `NextIInv`; the facts about
`RemoveAt` and about counting are lemmas.

`ScrapeStackProofs`, from `StackAssumption` (a set of scrapes, a positive limit): one
gather at a time, no collector ever skipped, answers no older than the scrape, and the
admission limit, for any number of scrapes and collectors.  The invariant says that the
handler that leads is the one in flight, that those that join wait for it, and that a
mutex is held exactly by a started collection of the gather in flight.  The gather that
runs `TryLock` is the one in flight, so a taken mutex would be its own.  The consequence
is worth knowing: with singleflight in front, the `TryLock` branch of the collectors is a
second line of defence that this stack never reaches.

`StatisticsProofs` is about both statistics caches.  *Prowlarr*, from `ProwlarrAssumption` (a
positive number of ticks to a second, a start within the time): every event is added once, and
every update moves forward.  `ProwlarrInv` adds that `statsMu` belongs to the collection that is not idle, that its window
starts at the last update, and that its answer is what Prowlarr would still answer.  The
last part survives new events because a window never ends after the time it is sent, and
rounding goes down (`InSecondsBelow`); rounding keeps the order (`InSecondsMonotone`), so the
rounded windows follow each other without gap or overlap.

*SABnzbd*, from `StatsAssumption` (at least one day and one article; any servers): the counters
are the sum of each day's last sample (`DaysCountedOnce`), a counter drops only after a loss at
SABnzbd, a collection tells its own sample (`CountersFollow`), and the totals stay within what
was tried on all days (`StatsTypeCorrect`).  The property says nothing of what a step will add,
so `StatsInv` needs more.  `Samples`: the cached day is the last one sampled, and `triedToday`
is its last sample - otherwise a rollover would add a day that is still to be replaced.
`Listings`: a server lists no day before the cached one, so that a new day had no sample
before.  `InHand`: SABnzbd does not move between its answer and the end of the collection.
`Behind`: what was published is behind the cache and the cache behind the listing, for every
server that lost nothing since.  One sample then changes one day of the sum
(`DayCounted`, `SampleCounted`).  The sum is the community modules' `SumFunction`, a fold: that
it is a sum at all - that it changes by what one value changes (`SumChanges`), grows with the
values (`SumGrows`) and is a product for equal ones - is proved first.  The induction
theorems of the library take an operator, which the provers cannot instantiate; the lemmas take
sets instead (`InductionOverNat`, from the well-foundedness of `<`, and `SubsetInduction`).

`QueuePagesProofs`, from `PagesAssumption` (positive bounds): no more than `MaxQueuePages`
requests (`FewRequests`), no item counted twice (`NoneTwice`), and no more items missed than
others left (`FewMissed`), for any page size, any number of pages, items and changes.  While a
target keeps its order the queue is increasing (`Line`), which gives "before" and "after" a
meaning that survives removals and additions.  `Ahead`: what was counted comes before
everything on the pages still to read, so a page adds only items that were not counted.
`Behind`: an item that was passed uncounted stands on a position that was read, and there are
no more of those than removals - a removal moves at most one item over the boundary, by
bringing the first one behind it onto it.  Of a target that sends the same page again,
`Ahead` says that the page before was that page, so its identified records end the loop.

`BazarrCollectProofs`, from `BazarrAssumption` (a positive limit, batches that are not the
names of other fetches): what is missing is flagged, totals are whole, and only the movie
history can be left running.  `IInv` has one part for each goroutine: where it has ended, its
share is published, counted or assigned, or the gauge is raised.  `EpisodesInHand` carries the
fan-out: what the group was given is waiting, running or counted unless the group has failed.

`TransportProofs`, from `TransportAssumption` (the pool's assumption, and a value for a free
mutex that is no goroutine).  First, every step of a call is a step of the pool's interface or
leaves the pool alone (`CallsUsePool`), so that what `SlotPoolProofs` proves of the pool holds
of the calls (`PoolInvariant`, by instantiation).  On top of it `CallInv` says for each stage of
a call how far it can be with its slot, which is what the promises need: a slot that was asked
for is held, being freed or free before the call goes on to wait for anything else.  The pool's
invariant is used once, where a slot that comes free is handed to a parked request: it is
parked, hence in a stage that waits.

`LibraryWalkProofs`, from `WalkAssumption` (a positive limit): the types, that no worker is left
when the totals are read, and that the totals are complete - the last one for collectors all of
whose configurations fetch something after their walk (`FetchesFollow`), which is the very
condition that the finding of section 6 lacks; `SonarrFollows` shows that Sonarr meets it.  The
invariant's `Covered` says that an item the loop has reached is counted, with a worker, or the
group failed; `Betrayed`, that items which were skipped leave a fetch that must fail.

`ServeProofs` first proves startup, from `StartupAssumption` (names that are not "invalid", environments that are
finite lists of blocks) and `DurationAssumption`: `FailsClosed`, `NamesEveryCulprit` and
`RunsAsWritten` for every environment with any number of blocks.  The invariant says what each
pass leaves for the next: the blocks before `at` are parsed as written, their names and URLs
are the ones seen, a block at fault among them is named, and no problem is reported without
one.  "If and only if" needs both halves: what is refused was at fault, and what is at fault is
refused.  `DeadlineLeavesTime` is the arithmetic of the time limits, for every timeout.

Then the process, from these and `ServeAssumption`: scrapes are answered in time, for any targets,
timeouts and number of connections.  The invariant `Timed` is what makes it inductive: whoever
waits for a gather is no older than the gather, so that his age and what the gather has left
stay within the collectors' deadline plus `Slack`.  That a gather does end by then is what
`Serve` assumes of collectors.  `ServesAsStarted` says that serving adds nothing to startup's
own steps, so the theorems about startup hold of the whole process.

Only model-checked: the liveness properties (`IsolatedCallsReturn`, `DeadlinesEndCalls`,
`PlacesComeBack`, `CollectionEnds`, `BazarrEnds`, `StopsWhenAsked`).  They rest on fairness, hence on
`ENABLED`, which is out of the prover's reach.

## 8. What is not modelled

* A wall clock that is set back, which would make Prowlarr's windows overlap.
* The system status collector, which publishes 0 instead of the error gauge, and what Prowlarr's
  collector does beside its statistics: fetch, publish.
* The single-target subcommands: they build one target with the same functions and call the same
  `serveHTTP`.  Flags and their precedence over the environment.
* In `serveHTTP`: branches that this program cannot reach (a registry that refuses a collector, an
  application without a builder; `NewSlotPool`'s own checks, which `FailsClosed` implies).  A
  signal before `notifySignals` kills the process, as any does.
* A scrape timeout of one unit halves to zero, which is no collect deadline; the client's own
  timeout still ends its calls.  The properties leave such timeouts out (`Leaves`).
* The syntax of names, URLs, dates and keys, files for secrets (an unreadable one is treated as a
  value that does not parse), and the wording of the errors.
* The content of responses, JSON models, metric names and labels, logging.
* The histograms and counters of the pool and of the scrapes: written, never read back.
* Test support (`fixtures`, `assert`, `tools/covercheck`).

## 9. Running

    tlc -workers 2 -config SlotPool.cfg MCSlotPool
    tlapm SlotPoolProofs.tla

and likewise for the other runs and proofs listed in `PROJECT.json`.
