---------------------------- MODULE TransferWindow ----------------------------
(***************************************************************************)
(* One window of the browser's transfers: runDownloadWindow or             *)
(* runUploadWindow with its streams, their retries, the warm-up, the early *)
(* stop and the verdict.  Streams share all of it and interleave at every  *)
(* await.  A tick is 500 ms, the width of a detector's window; timers may  *)
(* be late and what takes less than a tick happens within one.  Amounts of *)
(* data and the stability of speeds are left open.  The signal is never    *)
(* aborted: a cancelled run terminates the worker (AdaptiveRamp).          *)
(***************************************************************************)
EXTENDS Integers

CONSTANTS NStreams,
          Duration,         \* of the window
          Buffer,           \* HTTP_TIMEOUT_BUFFER_MS
          RequiredWindows,  \* WARMUP_REQUIRED_WINDOWS
          GraceLimit,       \* WARMUP_MAX_GRACE_MS
          StableWindows,    \* EARLY_STOP_STABLE_WINDOWS
          MaxRetries,       \* MAX_NETWORK_RETRIES
          Attempts,         \* chunk sizes a download tries
          MaxTime           \* bound: the last tick, for all times from then on

ASSUME WindowAssumption ==
  /\ {NStreams, Duration, RequiredWindows, StableWindows, Attempts} \subseteq Nat \ {0}
  /\ {Buffer, GraceLimit, MaxRetries} \subseteq Nat
  /\ MaxTime \in Nat /\ MaxTime > Duration + Buffer

Streams == 1 .. NStreams
StartTime == 1                     \* 0 stands for "not set", as in the code

Lesser(a, b) == IF a < b THEN a ELSE b
Greater(a, b) == IF a > b THEN a ELSE b

\* WARMUP_MAX_GRACE_RATIO of the window, within a limit.
MaxGrace == Lesser((3 * Duration) \div 10, GraceLimit)

VARIABLES
  now,
  direction, isRamp,
  stream,       \* what each stream awaits
  endTime,      \* endTimeRef.value
  warmUp, earlyStop,
  measureStart, \* measureStartTime
  saw,          \* streamState, and whether totalBytes is positive
  credited,     \* history: ticks each stream's uploads were counted for
  late,         \* history: what each stream counted after the end time
  outcome

detectors == <<endTime, warmUp, earlyStop, measureStart>>
vars == <<now, direction, isRamp, stream, detectors, saw, credited, late, outcome>>

\* The times of a detector are 0 until something is recorded.
WarmUpDetector == [start |-> 0, windowStart |-> 0, windows |-> 0, settled |-> FALSE]
EarlyStopDetector == [windowStart |-> 0, windows |-> 0]

\* A stream that has not asked for anything.
Rest == [pc |-> "wait", begun |-> 0, errors |-> 0, attempt |-> 1, end |-> "none"]

\* streamState: nothing was met, nothing was measured.
Nothing == [network |-> FALSE, overload |-> FALSE, success |-> FALSE, bytes |-> FALSE]

Init ==
  /\ now = StartTime
  /\ direction \in {"download", "upload"} /\ isRamp \in BOOLEAN
  /\ stream = [s \in Streams |-> Rest]
  /\ endTime = StartTime + Duration
  /\ warmUp = WarmUpDetector /\ earlyStop = EarlyStopDetector /\ measureStart = 0
  /\ saw = Nothing
  /\ credited = [s \in Streams |-> 0] /\ late = [s \in Streams |-> 0]
  /\ outcome = "none"

-----------------------------------------------------------------------------
(* createWarmUpDetector and createEarlyStopDetector.                       *)

Started(time, t) == IF time = 0 THEN t ELSE time

Opened(d, t) == [d EXCEPT !.windowStart = Started(@, t)]

WindowFull(d, t) == t - Opened(d, t).windowStart >= 1

\* The next window, in which at most n windows are told apart.
NextWindow(d, t, n) ==
  [Opened(d, t) EXCEPT !.windowStart = t, !.windows = Lesser(@ + 1, n)]

\* What record may make of the warm-up: speeds may be stable once there are
\* enough of them, and the grace period settles it anyway.
WarmUps(t) ==
  LET begun == [warmUp EXCEPT !.start = Started(@, t)]
      w     == NextWindow(begun, t, RequiredWindows)
  IN  IF ~ WindowFull(warmUp, t) THEN {Opened(begun, t)}
      ELSE {[w EXCEPT !.settled = b] :
             b \in IF t - w.start > MaxGrace THEN {TRUE}
                   ELSE {FALSE, w.windows >= RequiredWindows}}

\* Whether record may answer TRUE, and the detector it leaves.
EarlyStops(t) ==
  IF ~ WindowFull(earlyStop, t) THEN {<<FALSE, Opened(earlyStop, t)>>}
  ELSE LET e == NextWindow(earlyStop, t, StableWindows)
       IN  {<<b, e>> : b \in {FALSE, e.windows >= StableWindows}}

RecordEarlyStop(t) ==
  \E stop \in EarlyStops(t) :
    /\ earlyStop' = stop[2]
    /\ endTime' = IF stop[1] THEN Lesser(t, endTime) ELSE endTime

RecordWarmUp(t) ==
  /\ warmUp' \in WarmUps(t)
  /\ measureStart' = IF warmUp'.settled THEN t ELSE measureStart
  /\ UNCHANGED <<endTime, earlyStop>>

CountLate(s) == late' = [late EXCEPT ![s] = IF now >= endTime THEN @ + 1 ELSE @]

-----------------------------------------------------------------------------
(* Both directions. *)

Running == outcome = "none"
At(s, pc) == stream[s].pc = pc
AllDone == \A s \in Streams : stream[s].pc = "done"
Put(s, rec) == stream' = [stream EXCEPT ![s] = rec]
Over(how) == [Rest EXCEPT !.pc = "done", !.end = how]
Ask(rec) == [rec EXCEPT !.pc = "request", !.begun = now]
Pause(rec) == [rec EXCEPT !.pc = "wait", !.begun = 0, !.errors = @ + 1]
Fixed == <<now, direction, isRamp, outcome>>
Counts == <<detectors, credited, late>>

RetryOnceMore(rec) == rec.errors <= MaxRetries

MayRetry(rec) == rec.errors < MaxRetries

\* The headers of a refusal (503 or 429, or another status), or of the answer to
\* an upload.  fetchWithTimeout clears its timer; the text is still awaited.
Headers(s) ==
  /\ At(s, "request")
  /\ \/ Put(s, [Rest EXCEPT !.pc = "busy"])
     \/ Put(s, [stream[s] EXCEPT !.pc = "refused", !.begun = 0])
     \/ direction = "upload" /\ Put(s, [stream[s] EXCEPT !.pc = "answered"])
  /\ UNCHANGED <<Fixed, Counts, saw>>

\* The text of a 503 or 429 is read: the stream sleeps and gives up.
Overloaded(s) ==
  /\ At(s, "busy")
  /\ Put(s, [Rest EXCEPT !.pc = "quit"])
  /\ saw' = [saw EXCEPT !.overload = TRUE]
  /\ UNCHANGED <<Fixed, Counts>>

Quit(s) ==
  /\ At(s, "quit")
  /\ Put(s, Over("overloaded"))
  /\ UNCHANGED <<Fixed, Counts, saw>>

\* fetchWithTimeout aborts a request whose headers do not come.
TimesOut(s) ==
  /\ At(s, "request")
  /\ now >= stream[s].begun + Duration + Buffer \/ now = MaxTime
  /\ Put(s, Over("aborted"))
  /\ UNCHANGED <<Fixed, Counts, saw>>

-----------------------------------------------------------------------------
(* runDownloadStream and downloadStream. *)

RetryForever(rec) == Ask([rec EXCEPT !.errors = 0])

\* A download goes on with the next chunk size at once.
NextAttempt(rec) ==
  IF rec.attempt < Attempts
  THEN Ask([rec EXCEPT !.attempt = @ + 1, !.errors = 0])
  ELSE Over("failed")

\* A stream's delay or its pause is over; it asks even when the window is.
DownloadWakes(s) ==
  /\ direction = "download" /\ At(s, "wait")
  /\ Put(s, Ask(stream[s]))
  /\ UNCHANGED <<Fixed, Counts, saw>>

\* The text of another status is read.
DownloadRefused(s) ==
  /\ direction = "download" /\ At(s, "refused")
  /\ Put(s, NextAttempt(stream[s]))
  /\ UNCHANGED <<Fixed, Counts, saw>>

\* fetch, read or cancel rejects; the await of a text does not.
DownloadBreaks(s) ==
  LET rec == stream[s]
  IN  /\ direction = "download" /\ rec.pc \in {"request", "read", "cancel"}
      /\ saw' = [saw EXCEPT !.network = TRUE]
      /\ Put(s, IF MayRetry(rec) THEN Pause(rec) ELSE NextAttempt(rec))
      /\ UNCHANGED <<Fixed, Counts>>

ReadWhileBegunInTime(rec, end) ==
  IF rec.begun < end THEN [rec EXCEPT !.pc = "read", !.begun = now]
  ELSE [rec EXCEPT !.pc = "cancel", !.begun = 0]

\* The top of a download's read loop: it reads on, or cancels what is left.
NextRead(rec, end) ==
  IF now < end THEN [rec EXCEPT !.pc = "read", !.begun = now]
  ELSE [rec EXCEPT !.pc = "cancel", !.begun = 0]

BodyOpens(s) ==
  /\ direction = "download" /\ At(s, "request")
  /\ Put(s, NextRead(stream[s], endTime))
  /\ UNCHANGED <<Fixed, Counts, saw>>

\* The time t was taken before the read.
applyHttpMeasureTick(t) ==
  IF warmUp.settled
  THEN RecordEarlyStop(t) /\ UNCHANGED <<warmUp, measureStart>>
  ELSE RecordWarmUp(t)

ReadData(s) ==
  /\ direction = "download" /\ At(s, "read")
  /\ applyHttpMeasureTick(stream[s].begun)
  /\ CountLate(s)
  /\ Put(s, NextRead(stream[s], endTime'))
  /\ saw' = [saw EXCEPT !.bytes = @ \/ warmUp.settled]
  /\ UNCHANGED <<Fixed, credited>>

Succeed(s) ==
  /\ Put(s, Over("success"))
  /\ saw' = [saw EXCEPT !.success = TRUE]
  /\ UNCHANGED <<Fixed, Counts>>

BodyEnds(s) == direction = "download" /\ At(s, "read") /\ Succeed(s)

\* reader.cancel resolves; it waits for nobody.
Cancelled(s) == direction = "download" /\ At(s, "cancel") /\ Succeed(s)

-----------------------------------------------------------------------------
(* runSingleUploadStream. *)

\* The top of the loop.
NextRequest(rec, end) == IF now < end THEN Ask(rec) ELSE Over("over")

UploadWakes(s) ==
  /\ direction = "upload" /\ At(s, "wait")
  /\ Put(s, NextRequest(stream[s], endTime))
  /\ UNCHANGED <<Fixed, Counts, saw>>

\* The text of another status is read.
UploadRefused(s) ==
  LET rec == stream[s]
  IN  /\ direction = "upload" /\ At(s, "refused")
      /\ Put(s, IF MayRetry(rec) THEN Pause(rec) ELSE Over("failed"))
      /\ UNCHANGED <<Fixed, Counts, saw>>

\* fetch rejects.  A stream that has no retry left throws, and Promise.all with it: the window
\* fails at once, and the other streams go on.
UploadBreaks(s) ==
  LET rec == stream[s]
  IN  /\ direction = "upload" /\ At(s, "request")
      /\ saw' = [saw EXCEPT !.network = TRUE]
      /\ IF MayRetry(rec)
         THEN Put(s, Pause(rec)) /\ UNCHANGED outcome
         ELSE Put(s, Over("exhausted")) /\ outcome' = "network"
      /\ UNCHANGED <<now, direction, isRamp, Counts>>

OverlapToTheEnd(begun) == now - Greater(begun, measureStart)

\* measuredIntervalBytes: how much of a request's life was measured.
Overlap(begun) == Lesser(now, endTime) - Greater(begun, measureStart)

\* Of an overlap that rounds to zero ticks some bytes may be counted, or none.
Counted(begun) ==
  IF ~ warmUp.settled \/ Overlap(begun) < 0 THEN {FALSE}
  ELSE {Overlap(begun) > 0, TRUE}

applyHttpMeasureIntervalTick(s, counted) ==
  /\ credited' = [credited EXCEPT
       ![s] = IF counted THEN @ + Overlap(stream[s].begun) ELSE @]
  /\ \/ ~ warmUp.settled /\ RecordWarmUp(now)
     \/ warmUp.settled /\ counted /\ RecordEarlyStop(now) /\ UNCHANGED <<warmUp, measureStart>>
     \/ warmUp.settled /\ ~ counted /\ UNCHANGED detectors

\* The text of the answer to an upload is read, or its read fails.
Uploaded(s) ==
  /\ direction = "upload" /\ At(s, "answered")
  /\ \E counted \in Counted(stream[s].begun) :
       /\ applyHttpMeasureIntervalTick(s, counted)
       /\ saw' = [saw EXCEPT !.success = TRUE, !.bytes = @ \/ counted]
  /\ CountLate(s)
  /\ Put(s, NextRequest([stream[s] EXCEPT !.errors = 0], endTime'))
  /\ UNCHANGED Fixed

-----------------------------------------------------------------------------
\* The failures are told apart in this order.
Failure ==
  IF saw.network THEN "network"
  ELSE IF saw.overload THEN "overloaded"
  ELSE IF ~ saw.success THEN "noStreams"
  ELSE "none"

\* What a window without a measured byte fails with.
throwIfZeroBytes == IF saw.bytes THEN "none" ELSE Failure

Reported == IF saw.bytes THEN "speed" ELSE "zero"

FailuresFirst == IF Failure # "none" THEN Failure ELSE Reported

Verdict ==
  IF throwIfZeroBytes # "none" THEN throwIfZeroBytes
  ELSE IF isRamp /\ saw.overload THEN "overloaded"
  ELSE Reported

\* Promise.all resolves.
FinishWindow ==
  /\ Running /\ AllDone
  /\ outcome' = Verdict
  /\ UNCHANGED <<now, direction, isRamp, stream, Counts, saw>>

Tick ==
  /\ ~ AllDone /\ now < MaxTime
  /\ now' = now + 1
  /\ UNCHANGED <<direction, isRamp, stream, Counts, saw, outcome>>

\* What a stream awaits of its own timers, or of nobody.
OwnStep(s) ==
  TimesOut(s) \/ Quit(s) \/ DownloadWakes(s) \/ UploadWakes(s) \/ Cancelled(s)

\* What a stream awaits of the network.
NetworkStep(s) ==
  \/ Headers(s) \/ Overloaded(s)
  \/ BodyOpens(s) \/ ReadData(s) \/ BodyEnds(s) \/ DownloadRefused(s) \/ DownloadBreaks(s)
  \/ Uploaded(s) \/ UploadRefused(s) \/ UploadBreaks(s)

StreamStep(s) == OwnStep(s) \/ NetworkStep(s)

Next == Tick \/ FinishWindow \/ \E s \in Streams : StreamStep(s)

\* Time passes and the page's own timers fire.  Nothing is assumed of the
\* network: headers, data and texts may come or never come.
Spec ==
  /\ Init /\ [][Next]_vars
  /\ WF_vars(Tick) /\ WF_vars(FinishWindow)
  /\ \A s \in Streams : WF_vars(OwnStep(s))

-----------------------------------------------------------------------------
(* Properties. *)

Times == 0 .. MaxTime
Ends == {"none", "success", "overloaded", "failed", "aborted", "over", "exhausted"}

StreamType == [pc : {"wait", "request", "answered", "refused", "busy",
                     "read", "cancel", "quit", "done"}, begun : Times,
               errors : 0 .. MaxRetries, attempt : 1 .. Attempts, end : Ends]
WarmUpType ==
  [start : Times, windowStart : Times, windows : 0 .. RequiredWindows, settled : BOOLEAN]
EarlyStopType == [windowStart : Times, windows : 0 .. StableWindows]

\* Types, with the retries of runDownloadStream and runSingleUploadStream
\* within their limit.
TypeOK ==
  /\ now \in Times /\ direction \in {"download", "upload"} /\ isRamp \in BOOLEAN
  /\ stream \in [Streams -> StreamType]
  /\ warmUp \in WarmUpType /\ earlyStop \in EarlyStopType
  /\ endTime \in Times /\ measureStart \in Times
  /\ saw \in [network : BOOLEAN, overload : BOOLEAN, success : BOOLEAN, bytes : BOOLEAN]
  /\ credited \in [Streams -> Int] /\ late \in [Streams -> Nat]
  /\ outcome \in {"none", "speed", "zero", "network", "overloaded", "noStreams"}

\* A stream's uploads are never counted for more time than the window was
\* measured for, wherever the warm-up settled and the early stop cut it, so
\* that no stream's speed is overstated (applyHttpMeasureIntervalTick).
CreditedTimeBounded ==
  \A s \in Streams :
    credited[s] <= Greater(0, Lesser(now, endTime) - measureStart)

\* Once the end time has passed, or was moved into the past by another
\* stream, a stream counts what it awaited then and nothing after it.
OneLateCount == \A s \in Streams : late[s] <= 1

EndedWith(how) == \E s \in Streams : stream[s].end = how

\* Has a stream succeeded?  A download did that ended its body or cancelled
\* it; uploads go on, but their first success starts the warm-up.
Succeeded == IF direction = "download" THEN EndedWith("success") ELSE warmUp.start # 0

\* A window that measured bytes reports a speed unless it is a ramp window
\* in which a stream was turned away, or an upload stream used up its
\* retries; a window is overloaded only if a stream was turned away; it has
\* noStreams only if none succeeded; and it reports a speed of zero only if
\* one did and none was turned away.  A success need not be a transfer: a
\* download whose headers come at the end time or later is cancelled unread.
MeasuredIsReported ==
  Running \/
    /\ outcome = "speed" <=>
         saw.bytes /\ ~ EndedWith("exhausted") /\ ~ (isRamp /\ EndedWith("overloaded"))
    /\ outcome = "overloaded" => EndedWith("overloaded")
    /\ outcome = "noStreams" => ~ Succeeded /\ ~ EndedWith("overloaded")
    /\ outcome = "zero" => Succeeded /\ ~ EndedWith("overloaded")

\* The headers are there, and with them the timer and the signal are gone.
AwaitsBody(s) == stream[s].pc \in {"read", "answered", "refused", "busy"}

\* The window comes to a verdict, and the streams that outlive a failed
\* upload's window stop too, although headers may never come and requests may
\* break at any time.  Only the body of a response, which the page awaits
\* without a time-out, can hold a window up for ever.
WindowEnds ==
  \/ <>(~ Running /\ AllDone)
  \/ \E s \in Streams : <>[]AwaitsBody(s)
=============================================================================
