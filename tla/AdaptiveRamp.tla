----------------------------- MODULE AdaptiveRamp -----------------------------
(***************************************************************************)
(* One direction of a test: the worker doubles its streams from one ramp   *)
(* window to the next and measures with the best count                     *)
(* (speedtest-adaptive.js, speedtest-worker.js); the page draws a bar from *)
(* its messages and settles once (runWorkerSpeedTest, runTest).  A window  *)
(* is one step here; TransferWindow looks inside.  Bytes in flight and the *)
(* durations are left out; the bar is counted in whole percent.            *)
(***************************************************************************)
EXTENDS Integers, Sequences

CONSTANTS MinStreams, MaxStreams, Http1MaxStreams,
          GainThreshold,  \* percent
          RampPortion,    \* RAMP_PROGRESS_PORTION in percent
          Params,         \* what ?maxStreams= may be; NotANumber stands for the rest
          NotANumber,
          Speeds          \* Mbit/s a window may report

ASSUME RampAssumption ==
  /\ MinStreams \in Nat \ {0} /\ MaxStreams \in Nat /\ Http1MaxStreams \in Nat
  /\ MinStreams <= Http1MaxStreams /\ Http1MaxStreams <= MaxStreams
  /\ MaxStreams <= 64   \* ADAPTIVE_MAX_STREAMS is 64
  /\ GainThreshold \in Nat /\ RampPortion \in 0 .. 100
  /\ Params \subseteq Int \cup {NotANumber} /\ Speeds \subseteq Nat

VARIABLES
  config,   \* resolved by the page and posted to the worker
  worker,   \* the locals of runAdaptiveHTTPTest
  tried,    \* history: the ramp windows that ended, in order
  queue,    \* messages from the worker, in the order they were posted
  outcome,  \* what runWorkerSpeedTest settled with
  model     \* the page's progress model

vars == <<config, worker, tried, queue, outcome, model>>

\* nextHopProtocol: not known yet, HTTP/1.x, or a newer one.
Protocols == {"", "http/1.1", "h2"}
Failed == -1

-----------------------------------------------------------------------------
Lesser(a, b) == IF a < b THEN a ELSE b
Greater(a, b) == IF a > b THEN a ELSE b

parseIntegerParam(raw, fallback, min, max) ==
  IF raw = NotANumber THEN fallback ELSE Lesser(max, Greater(min, raw))

protocolStreamCap(protocol, maxStreams) ==
  IF protocol = "http/1.1" THEN Lesser(maxStreams, Http1MaxStreams) ELSE maxStreams

nextStreamCount(current, maxStreams) == Lesser(maxStreams, current * 2)

StopsAtZero(previous, current) ==
  current <= 0 \/ (current - previous) * 100 < GainThreshold * previous

\* No window before the first useful one can be a reason to stop.
shouldStopRamping(previous, current) ==
  /\ previous > 0
  /\ \/ current <= 0
     \/ (current - previous) * 100 < GainThreshold * previous

\* 2 ^ k is PowersOfTwo[k + 1].
PowersOfTwo == <<1, 2, 4, 8, 16, 32, 64>>

maxWindowsRoundedDown(n) ==
  CHOOSE k \in 1 .. 7 : PowersOfTwo[k] <= n /\ (k < 7 => n < PowersOfTwo[k + 1])

\* Math.ceil(Math.log2(n)) + 1.
maxWindows(n) ==
  CHOOSE k \in 1 .. 7 : n <= PowersOfTwo[k] /\ (k > 1 => PowersOfTwo[k - 1] < n)

resolveAdaptiveConfig(protocol, raw) ==
  [protocol |-> protocol,
   maxStreams |-> parseIntegerParam(raw, MaxStreams, MinStreams, MaxStreams)]

\* What a ping can tell of a protocol the page does not know.
detectNextHopProtocol == Protocols

createDirectionProgressModel ==
  [windowIndex |-> 0, maxWindows |-> 1, measuring |-> FALSE,
   elapsed |-> 0, highWaterMark |-> 0]

Init ==
  /\ \E p \in Protocols, raw \in Params : config = resolveAdaptiveConfig(p, raw)
  /\ worker = [pc |-> "loading", cap |-> MinStreams, streams |-> MinStreams,
               windowIndex |-> 0, previous |-> 0,
               best |-> [streams |-> MinStreams, mbps |-> 0]]
  /\ tried = <<>> /\ queue = <<>> /\ outcome = "none"
  /\ model = createDirectionProgressModel

-----------------------------------------------------------------------------
(* The worker: runSpeedTest around runAdaptiveHTTPTest.  Nobody aborts its *)
(* signal: it is a new controller's.                                       *)

Phase(w) == [type |-> "phase", windowIndex |-> w.windowIndex,
             maxWindows |-> maxWindows(w.cap)]
Message(type) == [type |-> type]

WorkerAt(pc) == outcome = "none" /\ worker.pc = pc
Page == <<config, outcome, model>>

\* The direction's module is there and the protocol is known or was looked for.
StartRamping ==
  /\ WorkerAt("loading")
  /\ \E p \in IF config.protocol = "" THEN detectNextHopProtocol ELSE {config.protocol} :
       worker' = [worker EXCEPT !.pc = "ramping",
                                !.cap = protocolStreamCap(p, config.maxStreams)]
  /\ queue' = Append(queue, Phase(worker'))
  /\ UNCHANGED <<tried, Page>>

Throw ==
  /\ worker' = [worker EXCEPT !.pc = "done"]
  /\ queue' = Append(queue, Message("error"))

LoadingFails == WorkerAt("loading") /\ Throw /\ UNCHANGED <<tried, Page>>

Tried(mbps) == tried' = Append(tried, [streams |-> worker.streams, mbps |-> mbps])

\* The ramp is over; the window that counts has the best count so far.
StartMeasuring(best) ==
  /\ worker' = [worker EXCEPT !.pc = "measuring", !.best = best,
                              !.streams = best.streams]
  /\ queue' = queue \o <<Phase(worker), Message("measureStart")>>

BetterOrEqual(mbps) ==
  IF mbps >= worker.best.mbps
  THEN [streams |-> worker.streams, mbps |-> mbps] ELSE worker.best

Best(mbps) ==
  IF mbps > worker.best.mbps
  THEN [streams |-> worker.streams, mbps |-> mbps] ELSE worker.best

RampWindowEnds(mbps) ==
  LET next == nextStreamCount(worker.streams, worker.cap)
  IN  /\ WorkerAt("ramping")
      /\ Tried(mbps)
      /\ IF shouldStopRamping(worker.previous, mbps) \/ next = worker.streams
         THEN StartMeasuring(Best(mbps))
         ELSE /\ worker' = [worker EXCEPT !.best = Best(mbps), !.previous = mbps,
                                          !.streams = next, !.windowIndex = @ + 1]
              /\ queue' = Append(queue, Phase(worker'))
      /\ UNCHANGED Page

RampWindowFails ==
  /\ WorkerAt("ramping")
  /\ Tried(Failed)
  /\ IF worker.best.mbps > 0 THEN StartMeasuring(worker.best) ELSE Throw
  /\ UNCHANGED Page

MeasureEnds ==
  /\ WorkerAt("measuring")
  /\ worker' = [worker EXCEPT !.pc = "done"]
  /\ queue' = Append(queue, Message("result"))
  /\ UNCHANGED <<tried, Page>>

MeasureFails == WorkerAt("measuring") /\ Throw /\ UNCHANGED <<tried, Page>>

-----------------------------------------------------------------------------
(* The page: onMessage, the interval that draws the bar, and settle. *)

progressPercent(m) ==
  IF m.measuring
  THEN RampPortion + ((100 - RampPortion) * m.elapsed) \div 2
  ELSE (RampPortion * Lesser(2 * m.windowIndex + m.elapsed, 2 * m.maxWindows))
          \div (2 * m.maxWindows)

PercentAsIs(m) == progressPercent(m)

directionProgressPercent(m) == Greater(m.highWaterMark, progressPercent(m))

\* The interval fires; elapsed is the time since the window's or the
\* measurement's start, in halves of its duration and never more than all.
ProgressTick ==
  /\ outcome = "none"
  /\ \E e \in model.elapsed .. 2 :
       LET m == [model EXCEPT !.elapsed = e]
       IN  model' = [m EXCEPT !.highWaterMark = directionProgressPercent(m)]
  /\ UNCHANGED <<config, worker, tried, queue, outcome>>

\* cleanup: no listener is left and the worker is gone.
Settle(how) ==
  /\ outcome' = how
  /\ worker' = [worker EXCEPT !.pc = "terminated"]
  /\ queue' = <<>>
  /\ UNCHANGED <<config, tried>>

noteRampWindow(info) ==
  model' = [model EXCEPT !.windowIndex = info.windowIndex,
                         !.maxWindows = info.maxWindows, !.elapsed = 0]

noteMeasureStart == model' = [model EXCEPT !.measuring = TRUE, !.elapsed = 0]

onMessage ==
  /\ outcome = "none" /\ queue # <<>>
  /\ \/ /\ Head(queue).type \in {"phase", "measureStart"}
        /\ IF Head(queue).type = "phase"
           THEN noteRampWindow(Head(queue)) ELSE noteMeasureStart
        /\ queue' = Tail(queue)
        /\ UNCHANGED <<config, worker, tried, outcome>>
     \/ /\ Head(queue).type = "result"
        /\ Settle("ok")
        /\ model' = [model EXCEPT !.highWaterMark = 100]
     \/ /\ Head(queue).type = "error"
        /\ Settle("failed")
        /\ UNCHANGED model

\* The run is cancelled, the worker fails, or a message cannot be read.
Interrupted ==
  /\ outcome = "none"
  /\ Settle("failed")
  /\ UNCHANGED model

WorkerStep ==
  \/ StartRamping \/ LoadingFails \/ RampWindowFails \/ MeasureEnds \/ MeasureFails
  \/ \E mbps \in Speeds : RampWindowEnds(mbps)

Next == WorkerStep \/ ProgressTick \/ onMessage \/ Interrupted

\* Modules load or fail to, windows end (WindowEnds of TransferWindow), and
\* posted messages are delivered.
Spec == Init /\ [][Next]_vars /\ WF_vars(WorkerStep) /\ WF_vars(onMessage)

-----------------------------------------------------------------------------
(* Properties. *)

Streams == MinStreams .. MaxStreams
Messages ==
  [type : {"phase"}, windowIndex : Nat, maxWindows : Nat]
    \cup [type : {"measureStart", "result", "error"}]
Locals ==
  [pc : {"loading", "ramping", "measuring", "done", "terminated"},
   cap : Streams, streams : Streams, windowIndex : Nat, previous : Nat,
   best : [streams : Streams, mbps : Nat]]
Windows == [streams : Streams, mbps : Nat \cup {Failed}]
Bar == [windowIndex : Nat, maxWindows : Nat, measuring : BOOLEAN,
        elapsed : 0 .. 2, highWaterMark : 0 .. 100]

\* Types; and however late the page hears of it, the window shown is one of
\* the announced number, which is what keeps the bar inside the ramp's portion.
TypeOK ==
  /\ config \in [protocol : Protocols, maxStreams : Streams]
  /\ worker \in Locals
  /\ worker.windowIndex < maxWindows(worker.cap)
  /\ tried \in Seq(Windows)
  /\ queue \in Seq(Messages)
  /\ outcome \in {"none", "ok", "failed"}
  /\ model \in Bar
  /\ model.windowIndex < model.maxWindows

\* The measured window runs with the count of the fastest ramp window, the
\* one with the fewest streams among equals, although windows may fail or
\* report nothing in between (runAdaptiveHTTPTest's best).
MeasuresBest ==
  worker.pc = "measuring" =>
    \E i \in DOMAIN tried :
      /\ worker.streams = tried[i].streams
      /\ \A j \in DOMAIN tried :
           /\ tried[j].mbps <= tried[i].mbps
           /\ j < i => tried[j].mbps < tried[i].mbps

\* Why a ramp may end after its i-th window.
Capped(i) == tried[i].streams = worker.cap
GainTooSmall(i) ==
  /\ i > 1 /\ tried[i - 1].mbps > 0
  /\ tried[i].mbps * 100 < tried[i - 1].mbps * (100 + GainThreshold)
FailedAfterSuccess(i) ==
  tried[i].mbps = Failed /\ \E j \in 1 .. i - 1 : tried[j].mbps > 0

\* The ramp ends with the first window that reached the cap, gained too
\* little, or failed after a useful one; and until then it doubled.
RampStopsForAReason ==
  worker.pc = "measuring" =>
    \A i \in DOMAIN tried :
      /\ i = Len(tried) <=> Capped(i) \/ GainTooSmall(i) \/ FailedAfterSuccess(i)
      /\ i > 1 => tried[i].streams = Lesser(worker.cap, 2 * tried[i - 1].streams)

Stage ==
  IF outcome # "none" THEN outcome
  ELSE IF model.measuring THEN "measuring"
  ELSE "ramping"

Direction ==
  INSTANCE DirectionPhase WITH stage <- Stage, progress <- model.highWaterMark

\* Worker and page together keep the promise of DirectionPhase: the bar,
\* drawn from late messages, never goes back or leaves the ramp's portion
\* early, a result follows a measurement, and the direction ends.
ImplementsDirection == Direction!Spec
=============================================================================
