# A TLA+ model of openByte

openByte is an HTTP speed-test server written in Go (`cmd/openbyte`,
`internal/`) with a browser client (`web/*.js`). The server limits and streams
transfers and keeps shared results in SQLite; the client measures latency,
ramps up parallel transfers in a worker, shows the results and shares them.
This directory models the parts whose correctness depends on the order of
events, checks them with TLC on small instances, and proves their safety
properties, and the refinements of three abstract specifications, with TLAPS for
every instance.

Paths below are relative to the repository (`src/`).

## Inventory

| Part | State | Operations | What is hard | What makes it correct |
| --- | --- | --- | --- | --- |
| Transfer limits (`internal/api/speedtest.go`, `speedtest_handlers.go`) | two atomic counters, a map address -> counts under `ipMu` | acquire in two steps, undo, release in two steps | the two halves have no common lock; five ways to return | exact counters, both limits, no leaked map entry |
| Transfer streaming (`speedtest_upload.go`, `speedtest_download.go`, `speedtest_deadline.go`, `internal/httpbody`) | read and write deadlines, body, buffer pool | read or write loop, renewed idle deadline, closing goroutine, abort, drain | deadlines race with progress, cancellation and each other | ends by the absolute deadline; a stalled peer is cut, an active one never |
| Client address (`clientip.go`) | none after construction | walk of `X-Forwarded-For` from the right | which hop is believed | first untrusted hop from the right, or the peer |
| Rate limiter (`ratelimit.go`, shared-result routes) | global bucket, map of buckets, last cleanup | `Allow` under one mutex | lazy refill, rounding, bounded table, eviction | equals continuously filled buckets |
| Results store (`internal/results`) | SQLite table, cleanup goroutine, stop channel | `Save`, `Get`, cleanup, `Close` | busy retries, cancellation, id collisions, cleanup beside saves, crash | no result lost early, none stored by a refused save, own id answered |
| Result handlers (`results_handler.go`) | none | validate, save, get, map errors | one-object bodies, limits | statuses follow the store's errors |
| Process (`cmd/openbyte`) | listener, store | start, signal, `Shutdown(30 s)`, `Store.Close` | handlers outlive the shutdown | cleaner ends before the database is closed; the process goes down |
| Router, static files, branding, legal pages, configuration, TLS, pprof | embedded files, one mutex-guarded gzip cache | headers, redirects, parsing | little: no interaction between requests | - |
| Run controller (`web/openbyte.js`, `speedtest.js`) | `state.js`: phase, abort controller, generation, results | start, cancel, phases, worker messages, latency probe, share | every `await` may be answered after a cancel and a new run | one run owns the page; nothing of one run is seen in another |
| Readiness and addresses (`web/network.js`) | online flag, addresses, skip list | probes at load, recheck when idle | late replies | a result's addresses do not change under it |
| Adaptive ramp (`speedtest-adaptive.js`, `speedtest-worker.js`, `runWorkerSpeedTest`) | the worker's best window, its messages, the page's progress model | ramp, measure, report, settle | windows fail or report nothing; messages arrive late, beside a timer that draws the bar | best count measured, the ramp stops for a reason, the bar never goes back |
| Transfer windows (`speedtest-http-*.js`) | streams, bytes, two flags, warm-up and early-stop detectors, the end time | request, read, retry, fall back to smaller chunks, verdict | concurrent streams share counters, flags and the end time, and may outlive the window | no time credited twice, nothing counted long after the end, a verdict that fits what was met, an end |
| History, preferences, shared-result page, i18n, theme (`web/*.js`) | local storage | read-modify-write, rendering | several tabs | at most ten entries, newest first |
| Deployment scripts | - | compose up, roll back | partial failure | not part of the program |

Interactions: `Router` runs `applyRateLimit` before the result handlers, which
call the store; transfers bypass the rate limiter and take a slot instead; both
key on the same resolved address. The page starts a worker per direction and
talks to it by messages (`progress`, `phase`, `measureStart`, `result`,
`error`); during the measured part a latency probe pings beside it; sharing
POSTs what `state` holds. `main` owns the store and closes it after the HTTP
server was told to stop.

PROJECT.json lists the hazards by line, with the properties that cover them.

## Modules

| Module | Models | Role |
| --- | --- | --- |
| `TransferAdmission` | - | abstract: requests are admitted or refused in one step, never more admitted than either limit, a refusal only under a load that explains it |
| `SpeedtestSlots` | `speedtest.go`, the frame of `speedtest_handlers.go` | one action per atomic step of acquisition and release; refines `TransferAdmission` |
| `TokenBuckets` | - | abstract: ideal buckets filled at every tick |
| `RateLimiter` | `ratelimit.go`, `router_middleware_ratelimit.go` | `Allow` by its outcomes; refines `TokenBuckets` |
| `ResultsStore` | `internal/results`, `run.go`, `runtime.go` | saves, cleaner, main, clock, crash and restart |
| `TransferStream` | the loops of `speedtest_upload.go` and `speedtest_download.go`, `speedtest_deadline.go`, `internal/httpbody` | one transfer, or one refused upload, against the clock |
| `BrowserRun` | `openbyte.js`, `speedtest.js`, `network.js`, `fetchWithTimeout` | one page, its runs, its share POSTs and its probes |
| `DirectionPhase` | - | abstract: a bar that never goes back and leaves the ramp's portion only for a measurement, a result only after one, and an end |
| `AdaptiveRamp` | `speedtest-adaptive.js`, `speedtest-worker.js`, `runWorkerSpeedTest` and the progress model of `speedtest.js` | one direction: worker, messages and page; refines `DirectionPhase` |
| `TransferWindow` | `speedtest-http-shared.js`, `speedtest-http-download.js`, `speedtest-http-upload.js`, `fetchWithTimeout` | one window of either direction, its streams interleaved at every await |
| `*_proofs` | - | the theorems about a component: one module each for the seven components |
| `AdmittedRate` | `ratelimit.go` | `RateLimiter` with history variables that count admitted requests, and the bound on them |
| `MC*` | - | symmetry sets; the constants are in the `.cfg` files |

`SpeedtestSlots` composes with nothing but its abstraction: the transfer
between acquisition and release touches neither counter, so it is the single
action `EndTransfer`. `TransferStream` is what happens inside that action; it
starts with the slot taken or refused and ends where the deferred release
begins. `BrowserRun` sees the server's store only through
`ServerStores`, an external action that may happen whether or not its answer
reaches the page.

The browser's modules nest. The worker that `BrowserRun` starts, and sees settle
in one step, is `AdaptiveRamp`; a window that `AdaptiveRamp` takes in one step is
`TransferWindow`; a request of `TransferWindow` meets `SpeedtestSlots` (a 503 ends
in its `Overloaded`) and `TransferStream`. `BrowserRun`'s fairness of workers is the
end that `DirectionPhase` promises. `AdaptiveRamp`'s fairness of windows is
`WindowEnds` only as far as the bodies of responses end: `TransferWindow` assumes
nothing of them, and a body that stalls for ever holds its window. What ends a
body is the server's `EndsInTime`, as far as the network tells the browser of it.

### How state and actions correspond

*SpeedtestSlots.* `active` is `activeDownloads` and `activeUploads`; `ipKeys`
and `ipCount` are the keys and values of `activeByIP`; `pc` is a handler's
place. `AddCounter` is the atomic increment with its comparison, `UndoCounter`
the compensating decrement of either refusal, `AcquirePerIP`/`RefusePerIP` the
critical section of `tryAcquirePerIP`, `SubCounter` and `ReleasePerIP` the two
halves of the deferred release. A per-address limit of 0 switches the map off,
as in the code. The resolver never yields an empty address (`ipString` answers
`unknown`), so the code's branches for one are not modelled.

*TransferStream.* One handler, its peer and a clock. `pc` is the handler's place
in its loop, `deadline` that of the connection, `ctx` is `readCtx` (or the
request's context of a download), `total` is `totalBytes`, `left` what
`writeChunkFromSource` still has to write. `Refresh` is the renewal at the head
of both loops. `Clock` only ticks while the handler is blocked: computing and
firing a timer take much less than a tick, so at one tick the renewal, the
timers, the closing goroutine, the data and the disconnection come in any order.
In particular a read that is blocked at the absolute deadline may fail (500) or
be followed by the check that ends the loop (200). `Abort` sets a past deadline
and closes the body, which shows here as `fate`: an aborted connection carries
no further request. A drain that reached EOF may still abort, when resetting the
deadline or closing the body fails. A socket buffer is a `Window` of units, so a write can block
in the middle of a chunk. A body is always present; without one both clean-up
helpers return at once.

*RateLimiter.* `Allow` holds the mutex from reading the clock to the verdict,
so each outcome is one action: `GlobalExhausted`, `TableFull`, `IPExhausted`,
`Allowed`; the refill and the periodic cleanup are part of each as in the code.
Time is in ticks, and a token must be a whole number of them: the code's tick
is a nanosecond and it drops what is smaller, an error this model does not
show. Between `Call` and the verdict the clock may run, as it does while a
handler waits for the mutex.

*ResultsStore.* `saver` holds the locals of each `Save` (`at` is `now`,
`attempt` is `busyAttempt`, `collided` counts duplicate ids), `cleaner` the
goroutine with its `cutoff`, `phase` the place of `main`. A statement is one
action with the outcomes SQLite has: done, busy, duplicate key, another error,
or interrupted because the request went away, in which case the row may or may
not have been committed. A busy cleanup statement is retried for its whole
budget; the model shows only its end, done or given up. `New` runs one cleanup
before the server serves. `Stop` is the end of the process, by `Exit` or by
`Crash`; `rows` survives it. Handlers may outlive `Shutdown`, so a save may
also begin while the server drains, while the store closes and afterwards
(`Handling`), `CloseStop` waits for none of them, and `InsertFailed` is what they
meet once the database is closed. Only writes are modelled; `Get` changes nothing.

*BrowserRun.* JavaScript runs to completion, so an action is what happens
between two awaits. A run is the number of its `AbortController`; `run[r].pc`
says what its `startTest` awaits: the pings, the frame before a direction, the
worker, or the probe's `stop()`. Measured values are represented by the run
that measured them, which is all the properties need. `Aborted` is what
`abort()` does at once to the run's worker and probe. `Settle` is the whole
continuation of a share POST: `saveAndEnableShare`, its `finally` and
`handleShare`'s. The button can be pressed at most once per view while a POST is
pending because it is disabled; `shareSavePromise` is kept to show that it agrees.
`copyShareUrl` prompts the link in the same step or starts a hand-over: `handing` counts the pending `writeText`
and `share` calls of each link. `LinkArrives` is the end of one, in the clipboard,
in another application or, after a refusal, in a prompt; it looks neither at the
phase nor at the generation. In `LinkDropped` the share sheet was dismissed. The
address probes of IPv4 and IPv6 answer separately, each at any time.

*AdaptiveRamp.* `worker` holds the locals of `runAdaptiveHTTPTest` (`streams` is
`currentStreams`, `cap` is `maxStreams`), `queue` the messages that were posted
and not yet handled, `model` is `createDirectionProgressModel`'s. `tried` is a
history of the windows. The worker's signal is that of a controller nobody else
has, so cancelling is `Interrupted`: the page terminates the worker and settles
once, with no listener left. `ProgressTick` is the interval that draws the bar,
in whole percent, with the time since the last message in halves; it may fire
between any two messages, also before the first, when the bar believes in a ramp
of one window and may fill the ramp's portion while the worker loads. Byte counts
and the speed shown meanwhile are left out, as are the durations of windows.

*TransferWindow.* A tick is 500 ms, the width of a detector's window; the window
starts at 1 because the code reads a time of 0 as "not set". `stream[s].pc` is
what a stream awaits: a delay or pause (`wait`), the headers of a response while
the time-out is armed (`request`), the text of an answer to an upload
(`answered`), of a 503 or 429 (`busy`) or of another refusal (`refused`), a read of
a download's body (`read`), the cancelling of the rest (`cancel`), or the pause
before it gives up (`quit`). `fetchWithTimeout` drops its timer when the headers
come (`Headers`, `BodyOpens`), so `TimesOut` ends only a `request`. The last tick
stands for all later times, in which every armed timer fires. `begun` is the time the code
took before the await: of an upload its request's start, of a download the `now`
that it hands to the detectors only after the read, when others may have moved
on. `WarmUps` and `EarlyStops` are the detectors; once there are enough windows
speeds may or may not be stable, and the grace period decides otherwise. Less
than a tick is a choice: an upload whose measured overlap rounds to zero may count
some bytes or none. `UploadBreaks` ends the window for an upload stream without
retries left, because `Promise.all` rejects, while the others continue, credit
time and stop by themselves. `warmUp`, `earlyStop`, `measureStart` and `endTime` are
the shared variables of the code; `saw` is `streamState` with the question
whether `totalBytes` is positive. Left out: amounts of data, the sizes of chunks
and payloads, the read buffer, and exceptions of an upload that are neither a status nor a network error.

## Runs

| Run | Instance | States | Shows |
| --- | --- | --- | --- |
| `slots` | 4 requests, 2 addresses, limits 3 and 2 | 24 456 | ledgers, no stale entry, refinement |
| `store` | 2 saves, 2 ids, 1 kept row, retention 3, budget 2, 4 ticks, 1 restart | 945 599 | safety of the store |
| `store_live` | 1 save, 1 id, 5 ticks, 1 restart, fair | 22 161 | saves end, expired rows go, shutdown ends |
| `store_conflict` | as `store` | violated | first finding below |
| `rate_limiter` | 3 addresses, table of 2, 2 and 4 requests a minute of 4 ticks, 13 ticks | 365 700 | refinement, recent table |
| `transfer_stream` | idle 10, refresh 2, grace 2, limit up to 14 (half seconds), 3 units | 268 411 | deadlines of transfers and of the drain |
| `upload_idle` | as above | violated | third finding below |
| `browser_run` | 3 runs, 2 POSTs, 1 pending check, 1 pending hand-over of each link | 2 494 000 | safety of the page |
| `browser_run_live` | 2 runs, 2 POSTs, 1 check, 1 hand-over, fair | 142 444 | runs and shares end |
| `browser_run_stall` | as above, nothing assumed of probe bodies | violated | second finding below |
| `adaptive_ramp` | at most 64 streams, 6 with HTTP/1.x, four values of `?maxStreams=`, five speeds around the 8 % gain | 544 645 | the best count, the ramp's end, the bar; refinement |
| `transfer_window` | 2 streams, window of 4 ticks, time-out 1 more, 1 retry, 2 chunk sizes, 1 and 2 detector windows, 6 ticks, fair | 1 475 640 | credit, late counts, verdict, the window's end |

Bounds. Four requests are enough for two in flight on one address, one on the
other and a refusal that inflates the counter meanwhile; the proofs cover every
other number. In `store`, two saves with two ids make every collision and every
age order, and one kept row makes the trim delete; a restart puts a start-up
cleanup after a crash in any state; retention exceeds the retry budget, as 90
days exceed 20 s. `rate_limiter` runs past two cleanup intervals and one
lifetime of an entry with a table smaller than the set of addresses. One caller
suffices there: a call is a single step, and a second one changes nothing in
the limiter's state that a later call of the first does not. In
`transfer_stream` a tick is half a second, so idle timeout, refresh period and
grace have their real values; the limit exceeds the idle timeout, so a transfer
can be cut by either, and a download by both in turn; a drain's 100 ms are
rounded up to one tick. Three units let a drain exceed its limit and a pause
fall between any two reads; a chunk is larger than the window. In `browser_run`
three runs give a stale run, a cancelled one and a current one; one run's late
answers can meet the second and the third. One pending hand-over of each link
suffices: its end looks at nothing, so a second one of the same link could only
repeat it, and two links can be under way at once. `adaptive_ramp` has the
real limits of the code; its speeds contain nothing, a gain below the threshold,
one just above it and a large one, and pairs in either order. In
`transfer_window` two streams suffice for every pair of a stream that settles,
stops early, is turned away or breaks and one that awaits something meanwhile;
the window leaves room for a warm-up, two detector windows and the late answers
after an early stop, and the clock runs one tick past the end, to the first
request's time-out; that tick stands for all times from then on. The proofs cover
other numbers.
`MaxBytes`, `MaxTime`, `MaxRestarts`, `MaxRuns`,
`MaxShares`, `MaxCopies` and `MaxChecks` are the only bounds, each named where it is used.
`CHECK_DEADLOCK FALSE` is set where the system really stops: the store when it
is down for the last time, a handler when it is done, the page when its bounded inputs are used up, a direction or a window when it is over.

Each property also has a planted bug in PROJECT.json (an action or helper
changed the way the code could plausibly be wrong) that the run detects.

### Findings

1. *A duplicate result id is not retried* (`store_conflict`). `Save` promises
   `maxIDRetries` attempts ("failed to generate unique ID after %d attempts",
   `store_crud.go:46`). `id` is the primary key, whose violation carries the
   extended code `SQLITE_CONSTRAINT_PRIMARYKEY`; `isUniqueViolation` accepts only
   `SQLITE_CONSTRAINT_UNIQUE`, so the save fails with 500 at its first
   collision. Were the code accepted, `insertResultWithRetry` would return
   `(true, nil)` and `Save`, which looks at the nil error first, would answer
   with the id of the other row: `OwnID` holds only because of the first
   mistake, and its planted bug is to repair that one alone.
2. *A stalled latency probe holds a finished run* (`browser_run_stall`).
   `basic.spec.js:187` is titled "loaded latency probe aborts hung ping during
   completion" and hangs the ping before its headers. After the headers
   `fetchWithTimeout` has dropped its timer and its abort listener
   (`utils.js:82-87`), so a ping whose body stalls is not aborted by `stop()`,
   and `runTest` waits in its `finally` until the user cancels. The texts of answers
   and refusals in `speedtest-http-upload.js` and `speedtest-http-download.js`, and
   the bodies of downloads, are awaited in the same way: `WindowEnds` names them
   as the only thing that can hold up a window.
3. *A pausing upload is cut* (`upload_idle`). `api/openapi.yaml:92` and
   `ARCHITECTURE.md:39` say that an upload is read until EOF or the configured
   deadline. The code renews a deadline of at most 5 s (`speedtest_deadline.go:9`),
   so an upload that pauses that long ends in 500. The same renewal
   happens once per chunk of a download: `ActiveNotCut` can only say that a
   downloader is not cut if it takes a whole chunk (up to 4 MiB) within the idle
   timeout less one refresh period, not that any reading client survives.

### Fairness

`FairSpec` of `ResultsStore`: goroutines are scheduled and timers fire (weak
fairness of each save, the cleaner, the ticker, `main` and the clock); a DELETE
that is attempted again and again succeeds at last (strong fairness of
`DeleteExpired`), which is what retrying for 20 s every hour relies on.
Arrivals, cancellations, signals, crashes and restarts are never forced. `SaveTerminates`
needs no luck with SQLite: inserts may be busy for ever.

`SettlingSpec` of `BrowserRun`: pings of the idle measurement, frames, workers
and share POSTs settle. The page gives the first and the last no timeout, a
hidden tab gets no frames, and a transfer's body is read without one, so these
are assumptions about network, browser and server, not consequences of the code.
`FairSpec` adds that the body of a latency probe ends; `browser_run_stall`
shows that `RunEnds` needs it.

`Spec` of `AdaptiveRamp`: modules load or fail to, windows end, posted messages
are delivered; nothing is assumed of the interval that draws the bar or of the
user. `Spec` of `TransferWindow`: time passes and the page's own timers fire, the
time-out of a request whose headers do not come among them; cancelling a body
waits for nobody. Nothing is assumed of the network: headers, data and texts
may come late or never, and every request may break. `WindowEnds` then says that the
window comes to its verdict by its retries being used up or by the clock, unless a
stream awaits the body of a response for ever. `BrowserRun` assumes nothing of the
clipboard either: no run waits for it.

## Proofs

`SpeedtestSlots_proofs`, for every finite set of requests, every set of
addresses, every positive server-wide limit and every per-address limit
(`LimitAssumption`, which configuration and constructor guarantee):

- `InvariantHolds`: the inductive invariant `IInv`, the conjunction of
  `TypeOK`, `CounterLedger`, `PerIPLedger`, `NoStaleEntry`, `GlobalBound` (per
  direction at most `MaxConcurrent` requests are past the counter and not
  refused) and `PerIPBound` (no entry exceeds the per-address limit). The ledgers are what makes it
  inductive: that a decrement stays in `Nat`, and that an entry exists when its
  transfer is released, follow only from knowing that the releasing request is
  itself among those counted. Each action moves one request across the border
  of at most one counted set, so the proof rests on lemmas on the cardinality
  of `At` and `AtIP` when one request enters, leaves or stays.
- `TypeCorrect`, `CountersBalance`, `AddressesBalance`, `MapStaysSmall`: its parts.
- `RefinesAdmission`: `SpeedtestSlots` implements `TransferAdmission`. The
  bound on admitted transfers comes from the ledgers, since a request is
  admitted in the abstract system only when it takes its place in the map, long
  after it passed the counter.

`TransferWindow_proofs`, for any number of streams, any duration, time-out,
number of retries and of chunk sizes, and any detector widths
(`WindowAssumption`), in both directions. The fifteen actions of a stream are
first reduced to what the invariants see of them: each moves one stream that is
not done (`QuietMoves`, `ReadDataMoves`, `UploadedMoves`), only two touch what
is counted, and what these do to the detectors is `Ticked`. The invariant `IInv`
then has three independent parts beside `TypeOK`:

- `LateOnce`, for `LateAtMostOnce`: a stream that counted after the end time does
  not read again. An upload is done; a download cancels what is left, and if that
  fails and it asks again, it cancels the next body unread. It holds because the
  end is only ever brought forward, so a stream that finds itself late when it
  counts is still late at the top of its loop, and at any later one.
- `CreditInv`, for `CreditFitsWindow`: a stream's credit fits the measured
  time up to the start of the request whose headers or text it awaits
  (`CreditLedger`). The property
  itself is not inductive, since nothing in it says that the request's own time has
  not been credited yet. `NoCredit` says that nothing was counted before the
  warm-up settled, so the start of the measurement moves at zero credit only.
- `HistoryInv`, for `VerdictFits`: the two shared flags are tied to the streams
  that raised them (one that was turned away is pausing or has ended so), and
  `SuccessSeen` ties the third to what the streams show of a success, which for
  uploads is that the warm-up was started (`WarmUpBegun`); and an outcome belongs
  to an exhausted stream or to streams that are all done.

`TypeCorrect` is its first part.

`RateLimiter_proofs`, for any addresses, handlers, table size and intervals, and
for limits that divide the minute (`RateAssumption`):

- `LazyBucketsAreIdeal`: `RateLimiter` implements `TokenBuckets`. What a bucket
  holds is counted in the units of the abstract one (`Units`). `RefillCases` says
  what a refill may do: nothing, with less than the slack due, or a whole number
  of tokens for just the time that made them; `RefillSettles` concludes that it
  loses at most what is above a full bucket. `IdleIsBrimful` says why eviction
  is not seen: whoever was idle for the TTL is full to the brim, because the TTL
  is at least two minutes. `TableFullIsLimit` shows that a caller whose entry is
  dropped by the very call always finds room, so a refusal for a full table
  is one of an unknown address.
- `NewcomersYieldToRecent` (`FullTableIsRecent`) needs `EntriesWereFresh`: no entry
  that survived the last cleanup had been idle for the TTL by then.
- `TypeCorrect` is the rest of `IInv`.
- `RefillGainsLessThanATick` covers limits that do not divide the minute, which
  the assumption leaves out: the rounding of `refillTokens` puts a bucket ahead by
  less than one tick's worth at each refill. `ImplementsBuckets` itself holds for
  them only up to that error, of less than a nanosecond in the code.

`AdmittedRate` draws the consequence a user of the limits cares about, under the
same assumption. `AdmitsAtMostTheRate`: in any stretch of time the requests
admitted, of everybody together and of each address, are fewer than the limit, plus
one (or the limit's share of a second, if that is more), plus the limit for every
minute of the stretch; dropping and making table entries in between does not help
an address. The history variables count from a moment that `StartCounting` may
move at any time, so the theorem covers every stretch; `CountingOnlyWatches`
shows that they do not disturb the limiter. Its invariant `HInv` says that
what was admitted is missing from the buckets (`Missing`), and its steps are those
of the refinement: `AllowedIsAdmit` takes a request from both buckets, no refusal
adds to one, and a tick pours a tick's worth.

`TransferStream_proofs`, for any durations, sizes and windows with a refresh
period and a drain time-out no longer than the idle time-out
(`StreamAssumption`: 1 s and 100 ms against 5 s in the code). None of
`HandlersEndInTime` (`EndsInTime`), `StalledPeersAreCut` (`StalledIsCut`) and
`ActivePeersAreNotCut` (`ActiveNotCut`) is inductive: each speaks of the clock, and
what stops a handler is the connection's deadline. `DeadlineInForce` says that the
deadline lies ahead and at most an idle time-out after the last movement,
`RefreshIsYoung` that a read or a chunk is begun under a deadline
that was renewed less than a refresh period ago. `ConnectionsKeptAtEOF`
(`KeptOnlyAtEOF`) needs `EndStillTrue`: what ended the loop still holds when the
connection's fate is decided. `InItsLoop` keeps the three handlers apart.

`ResultsStore_proofs`, for any number of saves, ids, retries, rows kept and
restarts, and any retention longer than the retry budget (`StoreAssumption`):

- `RefusedSavesLeaveNothing` and `CloseWaitsForTheCleaner` follow from
  `RowsAreOfEndedSaves` (a row's save was told so, or went away) and
  `CleanerInItsTime`.
- `RowsStayTheirTime` (`NoEarlyDeletion`): a cutoff is never younger than the
  retention period, since the clock only moves on after it was computed, and
  the trim deletes a row only below `MaxResults` newer ones.
- `ToldTheIDOfItsOwnRow` (`OwnID`) assumes `"UNIQUE" \notin ConflictCodes`, that the
  driver does not report a duplicate key with the one code `isUniqueViolation`
  knows. That is what the first finding says of the code; without the
  assumption the theorem is false, as the planted bug shows.
- `TypeCorrect` needs `SavesInTime`: a save has an attempt left, and was begun
  early enough to end before the clock's bound.

`BrowserRun_proofs`, for any number of runs, share POSTs and readiness checks:

- `OneRunOwns` is `RunsFitPage`: the current run is where the page says it is, and
  any other has ended or was aborted.
- `ResultsAreOfOneRun`, `AbortedRunsLeaveNoTrace`: `PageOfPhase` says for each phase
  what the page shows, namely what the run that owns it has measured so far;
  `HistoryOfCompleted` and `PostsOfCompleted` carry that to the history and the POSTs.
- `ButtonFollowsPost`, `LinksAreOfShownResults`: `GenerationsCounted` ties
  `runGeneration` to the number of runs started and the phase, so that equal
  generations mean the same view; `ViewKnowsItsPosts` says what the view's button,
  promise and id know of the POSTs made from it. The second theorem is about the
  moment a link is asked for; a hand-over that ends later shows only a link that was
  asked for then.
- `StoredOnce` (`StoredOncePerFailure`) counts: by `OneUnfailedPost` at most one POST
  of the same results has not failed.
- `AddressesStay` (`AddressesFrozen`) is an action property, from the guards of
  the late replies and `RunsFitPage`.

`AdaptiveRamp_proofs`, for any limits up to 64 streams, any gain threshold,
portion, values of `?maxStreams=` and speeds (`RampAssumption`; 64 is the code's
`ADAPTIVE_MAX_STREAMS`):

- `TypeCorrect` holds that the announced number of windows is never exceeded:
  `CountOfWindow` says that window `i` runs more than `2^(i-1)` streams and that a
  count below the cap is a full doubling, and `IndexBelowWindows` compares that
  with the powers that enclose the cap.
- `MeasuresTheBest`: `BestSoFar` says that `best` is the first of the fastest
  windows, or that nothing was ever moved, in which case the first is measured.
- `RampEndsForAReason`: by `RampSoFar` no window so far gave a reason to stop, and
  `previous` is the last one's speed; `TooSlowSeen` shows that the worker's test,
  in percent, is the one the property states.
- `BarKeepsItsPromise`: worker, messages and page implement the safety part of
  `DirectionPhase`. `MessagesInOrder` says that a result is always behind the news
  of a measurement, in the queue or on the page, and `BarInItsPortion` that the
  bar does not leave the ramp's portion before. `PercentInRange` bounds what is drawn.

Each of these invariants was first checked by TLC on the instance of the
component's runs.

Only model-checked: liveness, which the prover cannot do (`SaveTerminates`,
`ExpiredPurged` and `ShutdownCompletes` of `ResultsStore`, `RunEnds` and
`ShareSettles` of `BrowserRun`, `WindowEnds` of `TransferWindow`, and the fairness
of `DirectionPhase` in `ImplementsDirection`), and the three findings, which are
counterexamples. Every invariant and every other action property of the passing
runs is a theorem.

## Plan

Done: the server's and the page's components (first stage); the transfers of the
browser down to a stream's awaits, and theorems about them (second stage); the
safety of all seven components proved (third stage).

Left: if the code changes there, `History` with two tabs.

### Observations

Not properties, since the repository promises nothing about them, but met while
modelling the transfers:

- Uploads count when a request is answered and the warm-up had settled before. On a
  slow link no request may fit, and the window reports 0 Mbit/s for
  bytes that were sent (`Verdict` is `zero`), or `noStreams`.
- A link is handed over by calls that nobody waits for. It may be copied, or
  prompted after a refusal (`openbyte.js:238-240`, `:292-294`), when the page is idle
  again or the next run is under way.
- A download whose headers come at the end of the window or later is cancelled
  unread and counts as a success, so a window may report 0 Mbit/s although nothing
  was transferred.
- A download's early stop takes the time from before its read, so the end time
  may move into the past; what other streams counted since stays counted,
  and with several streams it may lie before the measurement's start.
- The streams left over by a failed upload window keep sending, and posting
  progress, beside the window that follows.

## Not modelled

`ClientIP` is a pure function for which unit tests are the better tool; the models
take its answer as an arbitrary address. `History` may lose one of two entries that two tabs
write at the same moment, which the code accepts. The shared-result page is one
sequential loop.
Also left out: routing, static files, branding, legal pages, configuration, TLS,
pprof, rendering and deployment. They keep no state that concurrent events
share, apart from the gzip cache, whose mutex spans the whole computation, and
their rules are tables of strings for which unit tests are the better tool.
