------------------------- MODULE TransferWindow_proofs -------------------------
(***************************************************************************)
(* Proofs about TransferWindow: its four invariants, for any number of     *)
(* streams, retries and chunk sizes, any duration and any detectors.       *)
(***************************************************************************)
EXTENDS TransferWindow, TLAPS

Detected ==
  /\ warmUp \in WarmUpType /\ earlyStop \in EarlyStopType
  /\ endTime \in Times /\ measureStart \in Times

LEMMA StartedTyped ==
  ASSUME NEW time \in Times, NEW t \in Times
  PROVE  Started(time, t) \in Times
BY DEF Started

LEMMA WindowsTyped ==
  ASSUME NEW n \in Nat \ {0}, NEW k \in 0 .. n
  PROVE  Lesser(k + 1, n) \in 0 .. n
BY DEF Lesser

\* A warm-up's detector stays one when a window is opened or ends.
LEMMA WarmUpWindows ==
  ASSUME NEW d \in WarmUpType, NEW t \in Times
  PROVE  /\ Opened(d, t) \in WarmUpType
         /\ NextWindow(d, t, RequiredWindows) \in WarmUpType
         /\ [d EXCEPT !.start = Started(@, t)] \in WarmUpType
         /\ \A b \in BOOLEAN : [d EXCEPT !.settled = b] \in WarmUpType
<1>1. d.windowStart \in Times /\ d.windows \in 0 .. RequiredWindows /\ d.start \in Times
  BY DEF WarmUpType
<1>2. /\ Started(d.windowStart, t) \in Times /\ Started(d.start, t) \in Times
      /\ Lesser(d.windows + 1, RequiredWindows) \in 0 .. RequiredWindows
  BY <1>1, StartedTyped, WindowsTyped, WindowAssumption
<1>3. Opened(d, t) \in WarmUpType /\ Opened(d, t).windows = d.windows
  BY <1>2 DEF Opened, WarmUpType
<1>4. NextWindow(d, t, RequiredWindows) \in WarmUpType
  BY <1>2, <1>3 DEF NextWindow, WarmUpType
<1>. QED  BY <1>2, <1>3, <1>4 DEF WarmUpType

\* An early stop's detector stays one, too.
LEMMA EarlyStopWindows ==
  ASSUME NEW d \in EarlyStopType, NEW t \in Times
  PROVE  /\ Opened(d, t) \in EarlyStopType
         /\ NextWindow(d, t, StableWindows) \in EarlyStopType
<1>1. /\ Started(d.windowStart, t) \in Times
      /\ Lesser(d.windows + 1, StableWindows) \in 0 .. StableWindows
  BY StartedTyped, WindowsTyped, WindowAssumption DEF EarlyStopType
<1>2. Opened(d, t) \in EarlyStopType /\ Opened(d, t).windows = d.windows
  BY <1>1 DEF Opened, EarlyStopType
<1>. QED  BY <1>1, <1>2 DEF NextWindow, EarlyStopType

\* What record makes of the warm-up is a warm-up, and the measurement starts
\* at the time given when it settles.
LEMMA WarmUpRecorded ==
  ASSUME Detected, NEW t \in Times, RecordWarmUp(t)
  PROVE  /\ Detected' /\ endTime' = endTime
         /\ measureStart' = IF warmUp'.settled THEN t ELSE measureStart
         /\ warmUp'.start = Started(warmUp.start, t)
<1> DEFINE begun == [warmUp EXCEPT !.start = Started(@, t)]
           w == NextWindow(begun, t, RequiredWindows)
<1>1. begun \in WarmUpType
  BY WarmUpWindows DEF Detected
<1>2. Opened(begun, t) \in WarmUpType /\ w \in WarmUpType
  BY <1>1, WarmUpWindows
<1>3. \A b \in BOOLEAN : [w EXCEPT !.settled = b] \in WarmUpType
  BY <1>2, WarmUpWindows
<1>4. WarmUps(t) \subseteq {Opened(begun, t)} \cup {[w EXCEPT !.settled = b] : b \in BOOLEAN}
  <2> DEFINE may == IF t - w.start > MaxGrace THEN {TRUE}
                    ELSE {FALSE, w.windows >= RequiredWindows}
  <2>1. WarmUps(t) = IF ~ WindowFull(warmUp, t) THEN {Opened(begun, t)}
                     ELSE {[w EXCEPT !.settled = b] : b \in may}
    BY Zenon DEF WarmUps
  <2>2. may \subseteq BOOLEAN
    <3>1. w.windows \in Int /\ RequiredWindows \in Int
      BY <1>2, WindowAssumption DEF WarmUpType
    <3>2. {FALSE, w.windows >= RequiredWindows} \subseteq BOOLEAN
      <4> HIDE DEF w
      <4>. QED  BY <3>1
    <3>. QED  BY <3>2, Zenon
  <2> HIDE DEF may, begun, w
  <2>. QED  BY <2>1, <2>2
<1>5. warmUp' \in WarmUpType
  BY <1>2, <1>3, <1>4 DEF RecordWarmUp
<1>6. warmUp'.start = begun.start
  <2>1. Opened(begun, t).start = begun.start
    BY <1>1 DEF Opened, WarmUpType
  <2>2. w.start = begun.start
    BY <1>2, <2>1 DEF NextWindow, WarmUpType
  <2>3. \A b \in BOOLEAN : [w EXCEPT !.settled = b].start = begun.start
    BY <1>2, <2>2 DEF WarmUpType
  <2>. QED  BY <1>4, <2>1, <2>3 DEF RecordWarmUp
<1>7. begun.start = Started(warmUp.start, t)
  BY DEF Detected, WarmUpType
<1>. QED  BY <1>5, <1>6, <1>7 DEF Detected, RecordWarmUp

\* The early stop may only bring the end forward, to the time given.
LEMMA EarlyStopRecorded ==
  ASSUME Detected, NEW t \in Times, RecordEarlyStop(t), UNCHANGED <<warmUp, measureStart>>
  PROVE  /\ Detected' /\ endTime' <= endTime
         /\ endTime' = endTime \/ endTime' = Lesser(t, endTime)
<1>1. PICK stop \in EarlyStops(t) :
        /\ earlyStop' = stop[2]
        /\ endTime' = IF stop[1] THEN Lesser(t, endTime) ELSE endTime
  BY DEF RecordEarlyStop
<1>2. stop[2] \in {Opened(earlyStop, t), NextWindow(earlyStop, t, StableWindows)}
  <2>1. CASE ~ WindowFull(earlyStop, t)
    BY <2>1 DEF EarlyStops
  <2>2. CASE WindowFull(earlyStop, t)
    <3> DEFINE e == NextWindow(earlyStop, t, StableWindows)
               may == {FALSE, e.windows >= StableWindows}
    <3>1. stop \in {<<b, e>> : b \in may}
      BY <2>2, Zenon DEF EarlyStops
    <3> HIDE DEF e, may
    <3>2. stop[2] = e
      BY <3>1
    <3>. QED  BY <3>2 DEF e
  <2>. QED  BY <2>1, <2>2
<1>3. earlyStop' \in EarlyStopType
  BY <1>1, <1>2, EarlyStopWindows DEF Detected
<1>4. endTime' = endTime \/ endTime' = Lesser(t, endTime)
  BY <1>1
<1>5. endTime' \in Times /\ endTime' <= endTime
  BY <1>4, WindowAssumption DEF Detected, Lesser, Times
<1>. QED  BY <1>3, <1>4, <1>5 DEF Detected

-----------------------------------------------------------------------------
\* What a stream may become.
LEMMA StreamsTyped ==
  ASSUME TypeOK, NEW rec \in StreamType, NEW end \in Times
  PROVE  /\ Rest \in StreamType /\ [Rest EXCEPT !.pc = "quit"] \in StreamType
         /\ \A how \in Ends : Over(how) \in StreamType
         /\ Ask(rec) \in StreamType
         /\ MayRetry(rec) => Pause(rec) \in StreamType
         /\ NextAttempt(rec) \in StreamType
         /\ NextRead(rec, end) \in StreamType
         /\ NextRequest(rec, end) \in StreamType
         /\ [rec EXCEPT !.errors = 0] \in StreamType
         /\ [Rest EXCEPT !.pc = "busy"] \in StreamType
         /\ [rec EXCEPT !.pc = "refused", !.begun = 0] \in StreamType
         /\ [rec EXCEPT !.pc = "answered"] \in StreamType
<1>1. 0 \in Times /\ now \in Times /\ 0 \in 0 .. MaxRetries /\ 1 \in 1 .. Attempts
  BY WindowAssumption DEF TypeOK, Times
<1>2. Rest \in StreamType /\ [Rest EXCEPT !.pc = "quit"] \in StreamType
  BY <1>1 DEF Rest, StreamType, Ends
<1>3. \A how \in Ends : Over(how) \in StreamType
  BY <1>1 DEF Over, Rest, StreamType
<1>4. \A r \in StreamType : Ask(r) \in StreamType
  BY <1>1 DEF Ask, StreamType
<1>5. MayRetry(rec) => Pause(rec) \in StreamType
  <2>1. MayRetry(rec) => rec.errors + 1 \in 0 .. MaxRetries
    BY WindowAssumption DEF MayRetry, StreamType
  <2>. QED  BY <1>1, <2>1 DEF Pause, StreamType
<1>6. [rec EXCEPT !.errors = 0] \in StreamType
  BY <1>1 DEF StreamType
<1>7. NextAttempt(rec) \in StreamType
  <2>1. rec.attempt < Attempts =>
          [rec EXCEPT !.attempt = @ + 1, !.errors = 0] \in StreamType
    <3>1. rec.attempt < Attempts => rec.attempt + 1 \in 1 .. Attempts
      BY WindowAssumption DEF StreamType
    <3>. QED  BY <1>1, <3>1 DEF StreamType
  <2>2. "failed" \in Ends
    BY DEF Ends
  <2>. QED  BY <2>1, <2>2, <1>3, <1>4 DEF NextAttempt
<1>8. NextRead(rec, end) \in StreamType
  BY <1>1 DEF NextRead, StreamType
<1>9. NextRequest(rec, end) \in StreamType
  BY <1>3, <1>4 DEF NextRequest, Ends
<1>10. /\ [Rest EXCEPT !.pc = "busy"] \in StreamType
       /\ [rec EXCEPT !.pc = "refused", !.begun = 0] \in StreamType
       /\ [rec EXCEPT !.pc = "answered"] \in StreamType
  BY <1>1 DEF Rest, StreamType, Ends
<1>. QED  BY <1>2, <1>3, <1>4, <1>5, <1>6, <1>7, <1>8, <1>9, <1>10

\* One stream is put in its place and the others stay.
LEMMA PutTyped ==
  ASSUME TypeOK, NEW s \in Streams, NEW rec \in StreamType, Put(s, rec)
  PROVE  /\ stream' \in [Streams -> StreamType]
         /\ stream'[s] = rec /\ \A p \in Streams \ {s} : stream'[p] = stream[p]
BY DEF TypeOK, Put

-----------------------------------------------------------------------------
(* A stream's step, as the invariants see it: it is not done yet, it moves  *)
(* itself, and all but two actions leave the counts alone.                  *)

\* An upload that awaits the headers of an answer, or then its text.
Asking(rec) == rec.pc \in {"request", "answered"}

\* A request's start is the present ...
Fresh(rec) == rec.begun = now \/ (rec.begun = 0 /\ ~ Asking(rec))

\* ... and stays what it was when the headers come.
Kept(s, rec) == At(s, "request") /\ rec.pc = "answered" /\ rec.begun = stream[s].begun

Moves(s, rec) ==
  /\ stream[s].pc # "done" /\ rec \in StreamType /\ (Fresh(rec) \/ Kept(s, rec))
  /\ Put(s, rec) /\ UNCHANGED <<now, direction, isRamp>>

QuietStep(s) ==
  \/ Headers(s) \/ Overloaded(s) \/ Quit(s) \/ TimesOut(s)
  \/ DownloadWakes(s) \/ DownloadRefused(s) \/ DownloadBreaks(s)
  \/ BodyOpens(s) \/ BodyEnds(s) \/ Cancelled(s)
  \/ UploadWakes(s) \/ UploadRefused(s) \/ UploadBreaks(s)

SawType == [network : BOOLEAN, overload : BOOLEAN, success : BOOLEAN, bytes : BOOLEAN]

Moved(s) == \E rec \in StreamType : Moves(s, rec)

\* What a stream asks for, it asks for now.
LEMMA FreshSteps ==
  ASSUME TypeOK, NEW rec \in StreamType, NEW end \in Times
  PROVE  /\ Fresh(Rest) /\ Fresh([Rest EXCEPT !.pc = "quit"])
         /\ \A how \in Ends : Fresh(Over(how))
         /\ Fresh(Ask(rec)) /\ Fresh(Pause(rec))
         /\ Fresh(NextAttempt(rec)) /\ Fresh(NextRead(rec, end)) /\ Fresh(NextRequest(rec, end))
         /\ Fresh([Rest EXCEPT !.pc = "busy"])
         /\ Fresh([rec EXCEPT !.pc = "refused", !.begun = 0])
<1>1. /\ Fresh(Rest) /\ Fresh([Rest EXCEPT !.pc = "quit"]) /\ Fresh([Rest EXCEPT !.pc = "busy"])
      /\ Fresh([rec EXCEPT !.pc = "refused", !.begun = 0])
  BY DEF Rest, StreamType, Fresh, Asking
<1>2. \A how : Fresh(Over(how))
  BY DEF Over, Rest, Fresh, Asking
<1>3. \A r \in StreamType : Fresh(Ask(r))
  BY DEF Ask, StreamType, Fresh
<1>4. Fresh(Pause(rec))
  BY DEF Pause, StreamType, Fresh, Asking
<1>5. Fresh(NextAttempt(rec))
  <2>1. Fresh(Ask([rec EXCEPT !.attempt = @ + 1, !.errors = 0]))
    BY DEF Ask, StreamType, Fresh
  <2>. QED  BY <2>1, <1>2 DEF NextAttempt
<1>6. Fresh(NextRead(rec, end))
  BY DEF NextRead, StreamType, Fresh, Asking
<1>7. Fresh(NextRequest(rec, end))
  BY <1>2, <1>3 DEF NextRequest
<1>. QED  BY <1>1, <1>2, <1>3, <1>4, <1>5, <1>6, <1>7

LEMMA QuietMoves ==
  ASSUME TypeOK, NEW s \in Streams, QuietStep(s)
  PROVE  /\ Moved(s) /\ UNCHANGED Counts /\ saw' \in SawType
         /\ outcome' = outcome \/ outcome' = "network"
<1> DEFINE rec == stream[s]
<1>1. rec \in StreamType /\ endTime \in Times /\ saw \in SawType
  BY DEF TypeOK, SawType
<1>2. PICK next \in StreamType : Put(s, next) /\ (Fresh(next) \/ Kept(s, next))
  <2>1. CASE Overloaded(s) \/ Quit(s) \/ TimesOut(s) \/ BodyEnds(s) \/ Cancelled(s)
    BY <1>1, <2>1, StreamsTyped, FreshSteps
       DEF Overloaded, Quit, TimesOut, BodyEnds, Cancelled, Succeed, Ends
  <2>5. CASE Headers(s)
    <3>1. /\ [rec EXCEPT !.pc = "answered"].pc = "answered"
          /\ [rec EXCEPT !.pc = "answered"].begun = rec.begun
      BY <1>1 DEF StreamType
    <3>. QED  BY <1>1, <2>5, <3>1, StreamsTyped, FreshSteps DEF Headers, Kept
  <2>2. CASE DownloadWakes(s) \/ DownloadRefused(s) \/ DownloadBreaks(s)
    BY <1>1, <2>2, StreamsTyped, FreshSteps
       DEF DownloadWakes, DownloadRefused, DownloadBreaks
  <2>3. CASE BodyOpens(s) \/ UploadWakes(s)
    BY <1>1, <2>3, StreamsTyped, FreshSteps DEF BodyOpens, UploadWakes
  <2>4. CASE UploadRefused(s) \/ UploadBreaks(s)
    BY <1>1, <2>4, StreamsTyped, FreshSteps DEF UploadRefused, UploadBreaks, Ends
  <2>. QED  BY <2>1, <2>2, <2>3, <2>4, <2>5 DEF QuietStep
<1>3. /\ rec.pc # "done" /\ UNCHANGED <<now, direction, isRamp, Counts>>
      /\ outcome' = outcome \/ outcome' = "network"
  BY DEF QuietStep, Headers, Overloaded, Quit, TimesOut, BodyEnds, Cancelled, Succeed,
         DownloadWakes, DownloadRefused, DownloadBreaks, BodyOpens, UploadWakes, UploadRefused,
         UploadBreaks, At, Fixed
<1>4. saw' \in SawType
  <2>1. /\ [saw EXCEPT !.overload = TRUE] \in SawType
        /\ [saw EXCEPT !.network = TRUE] \in SawType
        /\ [saw EXCEPT !.success = TRUE] \in SawType
    BY <1>1 DEF SawType
  <2>. QED
    BY <1>1, <2>1
    DEF QuietStep, Headers, Overloaded, Quit, TimesOut, BodyEnds, Cancelled, Succeed,
        DownloadWakes, DownloadRefused, DownloadBreaks, BodyOpens, UploadWakes, UploadRefused,
        UploadBreaks
<1>. QED  BY <1>2, <1>3, <1>4 DEF Moved, Moves
\* Both detectors leave times behind; only the warm-up moves the start of the
\* measurement, only the early stop moves the end, and only forward.
Ticked(t) ==
  \/ ~ warmUp.settled /\ RecordWarmUp(t)
  \/ warmUp.settled /\ RecordEarlyStop(t) /\ UNCHANGED <<warmUp, measureStart>>
  \/ warmUp.settled /\ UNCHANGED detectors

LEMMA TicksTyped ==
  ASSUME Detected, NEW t \in Times, Ticked(t)
  PROVE  /\ Detected' /\ endTime' <= endTime
         /\ endTime' = endTime \/ endTime' = Lesser(t, endTime)
         /\ warmUp.settled => UNCHANGED <<warmUp, measureStart>>
<1>1. CASE ~ warmUp.settled /\ RecordWarmUp(t)
  <2>1. Detected' /\ endTime' = endTime
    BY <1>1, WarmUpRecorded
  <2>. QED  BY <1>1, <2>1 DEF Detected, Times
<1>2. CASE warmUp.settled /\ RecordEarlyStop(t) /\ UNCHANGED <<warmUp, measureStart>>
  BY <1>2, EarlyStopRecorded
<1>3. CASE warmUp.settled /\ UNCHANGED detectors
  BY <1>3 DEF Detected, detectors, Times
<1>. QED  BY <1>1, <1>2, <1>3 DEF Ticked

LEMMA CountLateTyped ==
  ASSUME TypeOK, NEW s \in Streams, CountLate(s)
  PROVE  late' \in [Streams -> Nat]
<1>1. late[s] \in Nat /\ late[s] + 1 \in Nat
  BY DEF TypeOK
<1>. QED  BY <1>1 DEF CountLate, TypeOK

LEMMA ReadDataMoves ==
  ASSUME TypeOK, NEW s \in Streams, ReadData(s)
  PROVE  /\ Moves(s, NextRead(stream[s], endTime')) /\ UNCHANGED <<outcome, credited>>
         /\ Ticked(stream[s].begun) /\ Detected' /\ saw' \in SawType
         /\ late' \in [Streams -> Nat] /\ direction = "download"
<1>1. stream[s] \in StreamType /\ stream[s].begun \in Times /\ Detected
  BY DEF TypeOK, StreamType, Detected
<1>2. Ticked(stream[s].begun)
  <2>1. applyHttpMeasureTick(stream[s].begun)
    BY DEF ReadData
  <2>2. CASE warmUp.settled
    BY <2>1, <2>2 DEF applyHttpMeasureTick, Ticked
  <2>3. CASE ~ warmUp.settled
    BY <2>1, <2>3 DEF applyHttpMeasureTick, Ticked
  <2>. QED  BY <2>2, <2>3
<1>3. Detected'
  BY <1>1, <1>2, TicksTyped
<1>4. Moves(s, NextRead(stream[s], endTime'))
  <2>1. endTime' \in Times
    BY <1>3 DEF Detected
  <2>2. NextRead(stream[s], endTime') \in StreamType /\ Fresh(NextRead(stream[s], endTime'))
    BY <1>1, <2>1, StreamsTyped, FreshSteps
  <2>. QED  BY <2>2 DEF ReadData, Moves, At, Fixed
<1>5. saw' \in SawType
  <2>1. warmUp.settled \in BOOLEAN /\ saw \in SawType
    BY DEF TypeOK, WarmUpType, SawType
  <2>. QED  BY <2>1 DEF ReadData, SawType
<1>. QED  BY <1>2, <1>3, <1>4, <1>5, CountLateTyped DEF ReadData, Fixed

LEMMA OverlapTyped ==
  ASSUME TypeOK, NEW s \in Streams
  PROVE  Overlap(stream[s].begun) \in Int
BY WindowAssumption DEF TypeOK, StreamType, Overlap, Lesser, Greater, Times

LEMMA UploadedMoves ==
  ASSUME TypeOK, NEW s \in Streams, Uploaded(s)
  PROVE  /\ Moves(s, NextRequest([stream[s] EXCEPT !.errors = 0], endTime'))
         /\ UNCHANGED outcome
         /\ \/ UNCHANGED credited
            \/ /\ warmUp.settled /\ Overlap(stream[s].begun) >= 0
               /\ credited' = [credited EXCEPT ![s] = @ + Overlap(stream[s].begun)]
         /\ Ticked(now) /\ Detected' /\ saw' \in SawType
         /\ credited' \in [Streams -> Int] /\ late' \in [Streams -> Nat]
<1>1. /\ stream[s] \in StreamType /\ now \in Times /\ Detected
      /\ warmUp.settled \in BOOLEAN /\ saw \in SawType
  BY DEF TypeOK, StreamType, Detected, WarmUpType, SawType
<1>2. PICK counted \in Counted(stream[s].begun) :
        /\ applyHttpMeasureIntervalTick(s, counted)
        /\ saw' = [saw EXCEPT !.success = TRUE, !.bytes = @ \/ counted]
  BY DEF Uploaded
<1>3. Overlap(stream[s].begun) \in Int
  BY OverlapTyped
<1>4. /\ counted \in BOOLEAN
      /\ counted => warmUp.settled /\ Overlap(stream[s].begun) >= 0
  <2> DEFINE o == Overlap(stream[s].begun)
  <2>1. counted \in IF ~ warmUp.settled \/ o < 0 THEN {FALSE} ELSE {o > 0, TRUE}
    BY <1>2 DEF Counted
  <2> HIDE DEF o
  <2>2. o \in Int
    BY <1>3 DEF o
  <2>3. CASE ~ warmUp.settled \/ o < 0
    BY <2>1, <2>3
  <2>4. CASE warmUp.settled /\ ~ (o < 0)
    <3>1. o >= 0 /\ (o > 0) \in BOOLEAN
      BY <2>2, <2>4
    <3>2. counted \in {o > 0, TRUE}
      BY <2>1, <2>4, Zenon
    <3>3. counted \in BOOLEAN
      BY <3>1, <3>2, Zenon
    <3>. QED  BY <3>1, <3>3, <2>4 DEF o
  <2>. QED  BY <2>3, <2>4
<1>5. Ticked(now)
  BY <1>2 DEF applyHttpMeasureIntervalTick, Ticked
<1>6. Detected'
  BY <1>1, <1>5, TicksTyped
<1>7. Moves(s, NextRequest([stream[s] EXCEPT !.errors = 0], endTime'))
  <2> DEFINE rec == [stream[s] EXCEPT !.errors = 0]
  <2>1. endTime' \in Times /\ rec \in StreamType
    BY <1>1, <1>6, StreamsTyped DEF Detected
  <2>2. NextRequest(rec, endTime') \in StreamType /\ Fresh(NextRequest(rec, endTime'))
    BY <2>1, StreamsTyped, FreshSteps
  <2>. QED  BY <2>2 DEF Uploaded, Moves, At, Fixed
<1>8. \/ UNCHANGED credited
      \/ /\ warmUp.settled /\ Overlap(stream[s].begun) >= 0
         /\ credited' = [credited EXCEPT ![s] = @ + Overlap(stream[s].begun)]
  <2>1. CASE counted
    BY <1>2, <1>4, <2>1 DEF applyHttpMeasureIntervalTick
  <2>2. CASE ~ counted
    BY <1>2, <2>2 DEF applyHttpMeasureIntervalTick, TypeOK
  <2>. QED  BY <2>1, <2>2
<1>9. credited' \in [Streams -> Int]
  <2>1. credited[s] + Overlap(stream[s].begun) \in Int
    BY <1>3 DEF TypeOK
  <2>. QED  BY <1>8, <2>1 DEF TypeOK
<1>10. saw' \in SawType
  BY <1>1, <1>2, <1>4 DEF SawType
<1>. QED  BY <1>5, <1>6, <1>7, <1>8, <1>9, <1>10, CountLateTyped DEF Uploaded, Fixed
LEMMA VerdictTyped ==
  ASSUME TypeOK
  PROVE  Verdict \in {"speed", "zero", "network", "overloaded", "noStreams"}
BY DEF Verdict, throwIfZeroBytes, Failure, Reported

LEMMA StepsAre ==
  ASSUME NEW s \in Streams, StreamStep(s)
  PROVE  QuietStep(s) \/ ReadData(s) \/ Uploaded(s)
BY DEF StreamStep, OwnStep, NetworkStep, QuietStep

LEMMA TypesInitially == Init => TypeOK
<1> SUFFICES ASSUME Init PROVE TypeOK
  OBVIOUS
<1>1. 0 \in Times /\ StartTime \in Times /\ StartTime + Duration \in Times
  BY WindowAssumption DEF Times, StartTime
<1>2. Rest \in StreamType
  BY <1>1, WindowAssumption DEF Rest, StreamType, Ends
<1>3. WarmUpDetector \in WarmUpType /\ EarlyStopDetector \in EarlyStopType
  BY <1>1, WindowAssumption
     DEF WarmUpDetector, EarlyStopDetector, WarmUpType, EarlyStopType
<1>. QED  BY <1>1, <1>2, <1>3 DEF Init, TypeOK, Nothing

\* Every step keeps the types.
LEMMA TypesKept == TypeOK /\ [Next]_vars => TypeOK'
<1> SUFFICES ASSUME TypeOK, [Next]_vars PROVE TypeOK'
  OBVIOUS
<1>1. CASE Tick
  <2>1. now' \in Times
    BY <1>1, WindowAssumption DEF Tick, TypeOK, Times
  <2>. QED  BY <1>1, <2>1 DEF Tick, TypeOK, Counts, detectors
<1>2. CASE FinishWindow
  BY <1>2, VerdictTyped DEF FinishWindow, TypeOK, Counts, detectors
<1>3. ASSUME NEW s \in Streams, StreamStep(s) PROVE TypeOK'
  <2>1. CASE QuietStep(s)
    <3>1. /\ Moved(s) /\ UNCHANGED Counts /\ saw' \in SawType
          /\ outcome' = outcome \/ outcome' = "network"
      BY <2>1, QuietMoves
    <3>2. stream' \in [Streams -> StreamType] /\ UNCHANGED <<now, direction, isRamp>>
      BY <3>1, PutTyped DEF Moved, Moves
    <3>. QED  BY <3>1, <3>2 DEF TypeOK, Counts, detectors, SawType
  <2>2. CASE ReadData(s)
    <3>1. /\ Moves(s, NextRead(stream[s], endTime')) /\ UNCHANGED <<outcome, credited>>
          /\ Detected' /\ saw' \in SawType /\ late' \in [Streams -> Nat]
      BY <2>2, ReadDataMoves
    <3>2. stream' \in [Streams -> StreamType] /\ UNCHANGED <<now, direction, isRamp>>
      BY <3>1, PutTyped DEF Moves
    <3>. QED  BY <3>1, <3>2 DEF TypeOK, Detected, SawType
  <2>3. CASE Uploaded(s)
    <3>1. /\ Moves(s, NextRequest([stream[s] EXCEPT !.errors = 0], endTime'))
          /\ UNCHANGED outcome /\ Detected' /\ saw' \in SawType
          /\ credited' \in [Streams -> Int] /\ late' \in [Streams -> Nat]
      BY <2>3, UploadedMoves
    <3>2. stream' \in [Streams -> StreamType] /\ UNCHANGED <<now, direction, isRamp>>
      BY <3>1, PutTyped DEF Moves
    <3>. QED  BY <3>1, <3>2 DEF TypeOK, Detected, SawType
  <2>. QED  BY <1>3, <2>1, <2>2, <2>3, StepsAre
<1>4. CASE UNCHANGED vars
  BY <1>4 DEF vars, detectors, TypeOK
<1>. QED  BY <1>1, <1>2, <1>3, <1>4 DEF Next

-----------------------------------------------------------------------------
(* What a stream counts late. *)

\* A stream that counted late did so once and does not read again: an upload's
\* is done, a download's cancels, and if that fails it only asks and cancels.
LateOnce ==
  \A s \in Streams :
    \/ late[s] = 0
    \/ /\ late[s] = 1 /\ now >= endTime /\ ~ At(s, "read")
       /\ direction = "upload" => At(s, "done")

\* Where a step leaves a stream.
LEMMA PlacesOf ==
  ASSUME NEW rec \in StreamType, NEW end \in Times
  PROVE  /\ \A how : Over(how).pc = "done"
         /\ Ask(rec).pc = "request" /\ Pause(rec).pc = "wait"
         /\ NextAttempt(rec).pc \in {"request", "done"}
         /\ NextRead(rec, end).pc = IF now < end THEN "read" ELSE "cancel"
         /\ NextRequest(rec, end).pc = IF now < end THEN "request" ELSE "done"
<1>1. \A how : Over(how).pc = "done"
  BY DEF Over, Rest
<1>2. Ask(rec).pc = "request" /\ Pause(rec).pc = "wait"
  BY DEF Ask, Pause, StreamType
<1>3. Ask([rec EXCEPT !.attempt = @ + 1, !.errors = 0]).pc = "request"
  BY DEF Ask, StreamType
<1>4. NextRead(rec, end).pc = IF now < end THEN "read" ELSE "cancel"
  BY DEF NextRead, StreamType
<1>. QED  BY <1>1, <1>2, <1>3, <1>4 DEF NextAttempt, NextRequest

\* No quiet step starts a read when the end has passed.
LEMMA QuietReads ==
  ASSUME TypeOK, NEW s \in Streams, QuietStep(s), stream'[s].pc = "read"
  PROVE  now < endTime
<1> DEFINE rec == stream[s]
<1>1. rec \in StreamType /\ endTime \in Times /\ \A r : Put(s, r) => stream'[s] = r
  BY DEF TypeOK, Put
<1>2. CASE Headers(s) \/ Overloaded(s)
  BY <1>1, <1>2 DEF Headers, Overloaded, Rest, StreamType
<1>3. CASE Quit(s) \/ TimesOut(s) \/ BodyEnds(s) \/ Cancelled(s)
  BY <1>1, <1>3, PlacesOf DEF Quit, TimesOut, BodyEnds, Cancelled, Succeed
<1>4. CASE DownloadWakes(s) \/ DownloadRefused(s) \/ DownloadBreaks(s) \/ BodyOpens(s)
  BY <1>1, <1>4, PlacesOf DEF DownloadWakes, DownloadRefused, DownloadBreaks, BodyOpens
<1>5. CASE UploadWakes(s) \/ UploadRefused(s) \/ UploadBreaks(s)
  BY <1>1, <1>5, PlacesOf DEF UploadWakes, UploadRefused, UploadBreaks
<1>. QED  BY <1>2, <1>3, <1>4, <1>5 DEF QuietStep

\* A stream that counts when the window's end has passed stops, because the
\* end is only ever brought forward.
LEMMA LateOnceKept ==
  ASSUME TypeOK, TypeOK', LateOnce, [Next]_vars
  PROVE  LateOnce'
<1>1. CASE Tick
  BY <1>1 DEF Tick, Counts, detectors, LateOnce, At, TypeOK, Times
<1>2. CASE FinishWindow \/ UNCHANGED vars
  BY <1>2 DEF FinishWindow, vars, Counts, detectors, LateOnce, At
<1>3. ASSUME NEW s \in Streams, StreamStep(s) PROVE LateOnce'
  <2>1. CASE QuietStep(s)
    <3>1. Moved(s) /\ late' = late /\ endTime' = endTime
      BY <2>1, QuietMoves DEF Counts, detectors
    <3>2. /\ stream[s].pc # "done" /\ \A p \in Streams \ {s} : stream'[p] = stream[p]
          /\ UNCHANGED <<now, direction>>
      BY <3>1, PutTyped DEF Moved, Moves
    <3>3. stream'[s].pc = "read" => now < endTime
      BY <2>1, QuietReads
    <3>. QED  BY <3>1, <3>2, <3>3 DEF LateOnce, At, TypeOK, Times
  <2>2. ASSUME CountLate(s), endTime' <= endTime, NEW rec \in StreamType, Moves(s, rec),
               At(s, "read") \/ (direction = "upload" /\ ~ At(s, "done")),
               now >= endTime' => rec.pc # "read" /\ (direction = "upload" => rec.pc = "done")
        PROVE  LateOnce'
    <3>1. late[s] = 0
      BY <2>2 DEF LateOnce
    <3>2. \A p \in Streams \ {s} : late'[p] = late[p] /\ stream'[p] = stream[p]
      BY <2>2, PutTyped DEF CountLate, Moves, TypeOK
    <3>3. stream'[s] = rec /\ UNCHANGED <<now, direction>>
      BY <2>2, PutTyped DEF Moves
    <3>4. late'[s] = IF now >= endTime THEN 1 ELSE 0
      BY <2>2, <3>1 DEF CountLate, TypeOK
    <3>5. now >= endTime => now >= endTime'
      BY <2>2 DEF TypeOK, Times
    <3>. QED  BY <2>2, <3>2, <3>3, <3>4, <3>5 DEF LateOnce, At
  <2>3. CASE ReadData(s)
    <3> DEFINE rec == NextRead(stream[s], endTime')
    <3>1. Moves(s, rec) /\ endTime' <= endTime /\ CountLate(s)
      <4>1. Moves(s, rec) /\ Ticked(stream[s].begun) /\ CountLate(s)
        BY <2>3, ReadDataMoves DEF ReadData
      <4>2. stream[s].begun \in Times /\ Detected
        BY DEF TypeOK, StreamType, Detected
      <4>. QED  BY <4>1, <4>2, TicksTyped
    <3>2. now >= endTime' => rec.pc # "read"
      <4>1. rec.pc = IF now < endTime' THEN "read" ELSE "cancel"
        BY PlacesOf DEF TypeOK
      <4>. QED  BY <4>1 DEF TypeOK, Times
    <3>. QED  BY <2>2, <2>3, <3>1, <3>2 DEF Moves, ReadData
  <2>4. CASE Uploaded(s)
    <3> DEFINE old == [stream[s] EXCEPT !.errors = 0]
               rec == NextRequest(old, endTime')
    <3>1. Moves(s, rec) /\ endTime' <= endTime /\ CountLate(s)
      <4>1. Moves(s, rec) /\ Ticked(now) /\ CountLate(s)
        BY <2>4, UploadedMoves DEF Uploaded
      <4>. QED  BY <4>1, TicksTyped DEF TypeOK, Detected
    <3>2. rec.pc = IF now < endTime' THEN "request" ELSE "done"
      <4>1. old \in StreamType
        BY StreamsTyped DEF TypeOK
      <4>. QED  BY <4>1, PlacesOf DEF TypeOK
    <3>3. now >= endTime' => rec.pc = "done"
      BY <3>2 DEF TypeOK, Times
    <3>. QED  BY <2>2, <2>4, <3>1, <3>3 DEF Moves, Uploaded, At
  <2>. QED  BY <1>3, <2>1, <2>3, <2>4, StepsAre
<1>. QED  BY <1>1, <1>2, <1>3 DEF Next
-----------------------------------------------------------------------------
(* The time uploads are counted for. *)

InTime == \A s \in Streams : stream[s].begun <= now

\* Nothing is counted before the warm-up has settled, and nothing ever for a
\* download.
NoCredit ==
  direction = "download" \/ ~ warmUp.settled => \A s \in Streams : credited[s] = 0

\* A stream is accounted for up to the start of the request it awaits.
AccountedTo(s) == IF Asking(stream[s]) THEN stream[s].begun ELSE now

CreditLedger ==
  \A s \in Streams :
    credited[s] <= Greater(0, Lesser(AccountedTo(s), endTime) - measureStart)

CreditInv == InTime /\ NoCredit /\ CreditLedger

\* What is measured of a request fits between the start of the request, or of
\* the measurement, and the window's end.
LEMMA OverlapFits ==
  ASSUME NEW c \in Int, NEW begun \in Int, NEW t \in Int, begun <= t,
         NEW end \in Int, NEW start \in Int,
         c <= Greater(0, Lesser(begun, end) - start)
  PROVE  /\ c <= Greater(0, Lesser(t, end) - start)
         /\ Lesser(t, end) - Greater(begun, start) >= 0 =>
              c + (Lesser(t, end) - Greater(begun, start)) <= Greater(0, Lesser(t, end) - start)
BY DEF Greater, Lesser

\* The early stop's new end lies at the present or after, or where it was.
LEMMA EndMovesFreely ==
  ASSUME NEW upTo \in Int, NEW t \in Int, upTo <= t,
         NEW end \in Int, NEW start \in Int
  PROVE  Lesser(upTo, Lesser(t, end)) = Lesser(upTo, end)
BY DEF Lesser

LEMMA InTimeKept ==
  ASSUME TypeOK, InTime, [Next]_vars
  PROVE  InTime'
<1>1. CASE Tick
  BY <1>1 DEF Tick, InTime, TypeOK, StreamType, Times
<1>2. CASE FinishWindow \/ UNCHANGED vars
  BY <1>2 DEF FinishWindow, vars, InTime
<1>3. ASSUME NEW s \in Streams, StreamStep(s) PROVE InTime'
  <2>1. PICK rec \in StreamType : Moves(s, rec)
    <3>1. CASE QuietStep(s)
      BY <3>1, QuietMoves DEF Moved
    <3>2. CASE ReadData(s)
      BY <3>2, ReadDataMoves DEF Moves
    <3>3. CASE Uploaded(s)
      BY <3>3, UploadedMoves DEF Moves
    <3>. QED  BY <1>3, <3>1, <3>2, <3>3, StepsAre
  <2>2. /\ stream'[s] = rec /\ (Fresh(rec) \/ Kept(s, rec)) /\ now' = now
        /\ \A p \in Streams \ {s} : stream'[p] = stream[p]
    BY <2>1, PutTyped DEF Moves
  <2>. QED  BY <2>2 DEF InTime, Fresh, Kept, TypeOK, Times
<1>. QED  BY <1>1, <1>2, <1>3 DEF Next

\* The detector starts the measurement once, and before it nothing counts.
LEMMA NoCreditKept ==
  ASSUME TypeOK, NoCredit, [Next]_vars
  PROVE  NoCredit'
<1>1. CASE Tick \/ FinishWindow \/ UNCHANGED vars
  BY <1>1 DEF Tick, FinishWindow, vars, Counts, detectors, NoCredit
<1>2. ASSUME NEW s \in Streams, StreamStep(s) PROVE NoCredit'
  <2>1. CASE QuietStep(s)
    <3>1. Moved(s) /\ UNCHANGED Counts
      BY <2>1, QuietMoves
    <3>. QED  BY <3>1 DEF Moved, Moves, Counts, detectors, NoCredit
  <2>2. CASE ReadData(s)
    <3>1. direction = "download" /\ direction' = direction /\ credited' = credited
      BY <2>2, ReadDataMoves DEF Moves
    <3>. QED  BY <3>1 DEF NoCredit
  <2>3. CASE Uploaded(s)
    <3>1. /\ direction = "upload" /\ direction' = direction
          /\ Ticked(now) /\ now \in Times /\ Detected
      BY <2>3, UploadedMoves DEF Uploaded, Moves, TypeOK, Detected
    <3>2. CASE warmUp.settled
      BY <3>1, <3>2, TicksTyped DEF NoCredit
    <3>3. CASE ~ warmUp.settled
      BY <2>3, <3>3, UploadedMoves DEF NoCredit
    <3>. QED  BY <3>2, <3>3
  <2>. QED  BY <1>2, <2>1, <2>2, <2>3, StepsAre
<1>. QED  BY <1>1, <1>2 DEF Next
\* Time that passes, and an end that moves to the present at the earliest,
\* leave what is counted within its account.
LEMMA AccountKept ==
  ASSUME NEW c \in Int, NEW upTo \in Int, NEW next \in Int, upTo <= next,
         NEW end \in Int, NEW start \in Int,
         c <= Greater(0, Lesser(upTo, end) - start)
  PROVE  c <= Greater(0, Lesser(next, end) - start)
BY DEF Greater, Lesser

LEMMA AccountTyped ==
  ASSUME TypeOK, InTime, NEW s \in Streams
  PROVE  AccountedTo(s) \in Int /\ AccountedTo(s) <= now
BY DEF AccountedTo, Asking, TypeOK, StreamType, InTime, Times

LEMMA CreditLedgerKept ==
  ASSUME TypeOK, TypeOK', CreditInv, NoCredit', [Next]_vars
  PROVE  CreditLedger'
<1>1. CASE Tick
  <2>1. ASSUME NEW s \in Streams PROVE AccountedTo(s) <= AccountedTo(s)' /\ AccountedTo(s)' \in Int
    BY <1>1 DEF Tick, AccountedTo, Asking, TypeOK, StreamType, Times
  <2>2. UNCHANGED <<credited, endTime, measureStart>>
    BY <1>1 DEF Tick, Counts, detectors
  <2>3. ASSUME NEW s \in Streams
        PROVE  credited[s] <= Greater(0, Lesser(AccountedTo(s)', endTime) - measureStart)
    <3>1. /\ credited[s] \in Int /\ endTime \in Int /\ measureStart \in Int
          /\ AccountedTo(s) \in Int
          /\ credited[s] <= Greater(0, Lesser(AccountedTo(s), endTime) - measureStart)
      BY AccountTyped DEF TypeOK, Times, CreditInv, CreditLedger
    <3>. QED  BY <2>1, <3>1, AccountKept
  <2>. QED  BY <2>2, <2>3 DEF CreditLedger
<1>2. CASE FinishWindow \/ UNCHANGED vars
  BY <1>2 DEF FinishWindow, vars, Counts, detectors, CreditInv, CreditLedger, AccountedTo, Asking
<1>3. ASSUME \A s \in Streams : credited'[s] = 0 PROVE CreditLedger'
  <2>. SUFFICES ASSUME NEW s \in Streams
                PROVE  credited'[s] <= Greater(0, Lesser(AccountedTo(s)', endTime') - measureStart')
    BY DEF CreditLedger
  <2>1. AccountedTo(s)' \in Int /\ endTime' \in Int /\ measureStart' \in Int
    BY DEF AccountedTo, Asking, TypeOK, StreamType, Times
  <2>2. \A a, e, m \in Int : 0 <= Greater(0, Lesser(a, e) - m)
    BY DEF Greater, Lesser
  <2>3. 0 <= Greater(0, Lesser(AccountedTo(s)', endTime') - measureStart')
    BY <2>1, <2>2
  <2>. QED  BY <1>3, <2>3
<1>4. ASSUME NEW s \in Streams, StreamStep(s) PROVE CreditLedger'
  <2>1. ASSUME NEW rec \in StreamType, Moves(s, rec), measureStart' = measureStart,
               endTime' = endTime \/ endTime' = Lesser(now, endTime),
               \/ credited' = credited
               \/ /\ credited' = [credited EXCEPT ![s] = @ + Overlap(stream[s].begun)]
                  /\ At(s, "answered") /\ Overlap(stream[s].begun) >= 0
        PROVE  CreditLedger'
    <3>. SUFFICES ASSUME NEW p \in Streams
                  PROVE  credited'[p] <= Greater(0, Lesser(AccountedTo(p)', endTime') - measureStart)
      BY <2>1 DEF CreditLedger
    <3>1. /\ credited[p] \in Int /\ endTime \in Int /\ measureStart \in Int /\ now \in Int
          /\ AccountedTo(p) \in Int /\ AccountedTo(p) <= now
          /\ credited[p] <= Greater(0, Lesser(AccountedTo(p), endTime) - measureStart)
      BY AccountTyped DEF TypeOK, Times, CreditInv, CreditLedger
    <3>2. stream'[s] = rec /\ now' = now /\ \A q \in Streams \ {s} : stream'[q] = stream[q]
      BY <2>1, PutTyped DEF Moves
    <3>3. IF p = s /\ Fresh(rec) THEN AccountedTo(p)' = now
          ELSE AccountedTo(p)' = AccountedTo(p)
      BY <2>1, <3>2 DEF AccountedTo, Asking, At, Moves, Fresh, Kept
    <3>4. Lesser(AccountedTo(p)', endTime') = Lesser(AccountedTo(p)', endTime)
      BY <2>1, <3>1, <3>3, EndMovesFreely
    <3>5. CASE credited'[p] = credited[p]
      <4>1. AccountedTo(p) <= AccountedTo(p)' /\ AccountedTo(p)' \in Int
        BY <3>1, <3>3
      <4>. QED  BY <3>1, <3>4, <3>5, <4>1, AccountKept
    <3>6. CASE credited'[p] # credited[p]
      <4>1. /\ p = s /\ At(s, "answered") /\ Overlap(stream[s].begun) >= 0
            /\ credited'[s] = credited[s] + Overlap(stream[s].begun)
        BY <2>1, <3>6 DEF TypeOK
      <4>2. AccountedTo(s) = stream[s].begun /\ AccountedTo(s)' = now
        BY <2>1, <4>1, <3>3 DEF AccountedTo, Asking, At, Moves, Kept
      <4>. QED  BY <3>1, <3>4, <4>1, <4>2, OverlapFits DEF Overlap
    <3>. QED  BY <3>5, <3>6
  <2>2. CASE QuietStep(s)
    <3>1. Moved(s) /\ UNCHANGED <<credited, endTime, measureStart>>
      BY <2>2, QuietMoves DEF Counts, detectors
    <3>. QED  BY <2>1, <3>1 DEF Moved
  <2>3. CASE ReadData(s)
    <3>1. direction' = "download"
      BY <2>3, ReadDataMoves DEF Moves
    <3>. QED  BY <1>3, <3>1 DEF NoCredit
  <2>4. CASE Uploaded(s)
    <3>1. /\ Ticked(now) /\ now \in Times /\ Detected
          /\ Moves(s, NextRequest([stream[s] EXCEPT !.errors = 0], endTime'))
          /\ At(s, "answered")
      BY <2>4, UploadedMoves DEF TypeOK, Detected, Uploaded
    <3>2. CASE warmUp.settled
      <4>1. /\ measureStart' = measureStart
            /\ endTime' = endTime \/ endTime' = Lesser(now, endTime)
        BY <3>1, <3>2, TicksTyped
      <4>. QED  BY <2>1, <2>4, <3>1, <4>1, UploadedMoves DEF Moves
    <3>3. CASE ~ warmUp.settled
      <4>1. \A p \in Streams : credited[p] = 0
        BY <3>3 DEF CreditInv, NoCredit
      <4>2. credited' = credited
        BY <2>4, <3>3, UploadedMoves
      <4>. QED  BY <1>3, <4>1, <4>2
    <3>. QED  BY <3>2, <3>3
  <2>. QED  BY <1>4, <2>2, <2>3, <2>4, StepsAre
<1>. QED  BY <1>1, <1>2, <1>4 DEF Next
-----------------------------------------------------------------------------
(* What the streams met, and the verdict. *)

EndsDone == \A s \in Streams : stream[s].end = "none" \/ stream[s].pc = "done"

\* streamState.overload stands for a stream that was turned away.
OverloadSeen ==
  saw.overload <=> \E s \in Streams : At(s, "quit") \/ stream[s].end = "overloaded"

\* A settled warm-up of uploads was started by a success.
WarmUpBegun ==
  now >= StartTime /\ (direction = "upload" /\ warmUp.settled => warmUp.start # 0)

SuccessSeen == saw.success <=> Succeeded

\* A window fails early for an exhausted stream, or is over when all are done.
Decided ==
  /\ EndedWith("exhausted") => outcome = "network"
  /\ ~ Running => EndedWith("exhausted") \/ (AllDone /\ outcome = Verdict)

HistoryInv == EndsDone /\ OverloadSeen /\ WarmUpBegun /\ SuccessSeen /\ Decided

\* What a stream's step adds to the history.
Meets(s, rec) ==
  /\ rec.end = "none" \/ rec.pc = "done"
  /\ \/ /\ saw'.overload = saw.overload /\ ~ At(s, "quit")
        /\ rec.pc # "quit" /\ rec.end # "overloaded"
     \/ saw'.overload = TRUE /\ rec.pc = "quit"
     \/ saw'.overload = saw.overload /\ At(s, "quit") /\ rec.end = "overloaded"
  /\ direction = "download" => (saw'.success <=> saw.success \/ rec.end = "success")
  /\ direction = "upload" =>
       \/ saw'.success = saw.success /\ warmUp' = warmUp
       \/ saw'.success /\ warmUp'.start # 0
  /\ rec.end = "exhausted" => outcome' = "network"
  /\ outcome' = outcome \/ (outcome' = "network" /\ rec.end = "exhausted")

\* How a stream that was under way ends, if it does.
LEMMA EndsOfSteps ==
  ASSUME NEW rec \in StreamType, rec.end = "none", NEW end \in Times
  PROVE  /\ \A how : Over(how).pc = "done" /\ Over(how).end = how
         /\ [Rest EXCEPT !.pc = "quit"].pc = "quit" /\ [Rest EXCEPT !.pc = "quit"].end = "none"
         /\ Ask(rec).pc = "request" /\ Ask(rec).end = "none"
         /\ Pause(rec).pc = "wait" /\ Pause(rec).end = "none"
         /\ \/ NextAttempt(rec).pc = "request" /\ NextAttempt(rec).end = "none"
            \/ NextAttempt(rec).pc = "done" /\ NextAttempt(rec).end = "failed"
         /\ NextRead(rec, end).pc \in {"read", "cancel"} /\ NextRead(rec, end).end = "none"
         /\ \/ NextRequest(rec, end).pc = "request" /\ NextRequest(rec, end).end = "none"
            \/ NextRequest(rec, end).pc = "done" /\ NextRequest(rec, end).end = "over"
<1>1. \A how : Over(how).pc = "done" /\ Over(how).end = how
  BY DEF Over, Rest
<1>2. [Rest EXCEPT !.pc = "quit"].pc = "quit" /\ [Rest EXCEPT !.pc = "quit"].end = "none"
  BY DEF Rest
<1>3. Ask(rec).pc = "request" /\ Ask(rec).end = "none"
  BY DEF Ask, StreamType
<1>4. Pause(rec).pc = "wait" /\ Pause(rec).end = "none"
  BY DEF Pause, StreamType
<1>5. LET next == Ask([rec EXCEPT !.attempt = @ + 1, !.errors = 0])
      IN  next.pc = "request" /\ next.end = "none"
  BY DEF Ask, StreamType
<1>7. \/ NextAttempt(rec).pc = "request" /\ NextAttempt(rec).end = "none"
      \/ NextAttempt(rec).pc = "done" /\ NextAttempt(rec).end = "failed"
  BY <1>1, <1>5 DEF NextAttempt
<1>8. NextRead(rec, end).pc \in {"read", "cancel"} /\ NextRead(rec, end).end = "none"
  BY DEF NextRead, StreamType
<1>9. \/ NextRequest(rec, end).pc = "request" /\ NextRequest(rec, end).end = "none"
      \/ NextRequest(rec, end).pc = "done" /\ NextRequest(rec, end).end = "over"
  BY <1>1, <1>3 DEF NextRequest
<1>. QED  BY <1>1, <1>2, <1>3, <1>4, <1>7, <1>8, <1>9

\* The first success starts the warm-up, which is never started anew.
LEMMA UploadStarts ==
  ASSUME TypeOK, WarmUpBegun, NEW s \in Streams, Uploaded(s)
  PROVE  warmUp'.start # 0
<1>1. Ticked(now) /\ Detected /\ now \in Times /\ now # 0 /\ direction = "upload"
  <2>1. Ticked(now) /\ direction = "upload"
    BY UploadedMoves DEF Uploaded
  <2>2. now \in Times /\ now # 0
    BY DEF TypeOK, Times, WarmUpBegun, StartTime
  <2>. QED  BY <2>1, <2>2 DEF TypeOK, Detected
<1>2. CASE warmUp.settled
  BY <1>1, <1>2, TicksTyped DEF WarmUpBegun
<1>3. CASE ~ warmUp.settled
  BY <1>1, <1>3, WarmUpRecorded DEF Ticked, Started
<1>. QED  BY <1>2, <1>3

LEMMA StepMeets ==
  ASSUME TypeOK, TypeOK', EndsDone, WarmUpBegun, NEW s \in Streams, StreamStep(s)
  PROVE  \E rec \in StreamType : Moves(s, rec) /\ Meets(s, rec)
<1> DEFINE old == stream[s]
<1>1. PICK rec \in StreamType : Moves(s, rec)
  <2>1. CASE QuietStep(s)
    BY <2>1, QuietMoves DEF Moved
  <2>2. CASE ReadData(s)
    BY <2>2, ReadDataMoves DEF Moves
  <2>3. CASE Uploaded(s)
    BY <2>3, UploadedMoves DEF Moves
  <2>. QED  BY <2>1, <2>2, <2>3, StepsAre
<1>2. stream'[s] = rec
  BY <1>1, PutTyped DEF Moves
<1>3. /\ old \in StreamType /\ old.end = "none" /\ saw \in SawType
      /\ endTime \in Times /\ endTime' \in Times
  BY <1>1 DEF Moves, EndsDone, TypeOK, SawType
<1>4. \A r : Put(s, r) => rec = r
  BY <1>2 DEF Put, TypeOK
<1>5. Meets(s, rec)
  <2>1. CASE Overloaded(s)
    <3>1. rec.pc = "quit" /\ rec.end = "none"
      BY <1>3, <1>4, <2>1, EndsOfSteps DEF Overloaded
    <3>2. /\ saw'.overload = TRUE /\ saw'.success = saw.success /\ outcome' = outcome
          /\ warmUp' = warmUp
      BY <1>3, <2>1 DEF Overloaded, SawType, Fixed, Counts, detectors
    <3>. QED  BY <3>1, <3>2 DEF Meets
  <2>2. CASE Quit(s)
    <3>1. rec.pc = "done" /\ rec.end = "overloaded"
      BY <1>3, <1>4, <2>2, EndsOfSteps DEF Quit
    <3>2. saw' = saw /\ outcome' = outcome /\ At(s, "quit") /\ warmUp' = warmUp
      BY <2>2 DEF Quit, Fixed, Counts, detectors
    <3>. QED  BY <3>1, <3>2 DEF Meets
  <2>3. CASE \/ Headers(s) \/ TimesOut(s) \/ DownloadWakes(s) \/ DownloadRefused(s)
             \/ DownloadBreaks(s) \/ BodyOpens(s) \/ UploadWakes(s) \/ UploadRefused(s)
    <3>1. /\ ~ At(s, "quit") /\ outcome' = outcome /\ warmUp' = warmUp
          /\ saw' = saw \/ saw' = [saw EXCEPT !.network = TRUE]
      BY <2>3 DEF Headers, TimesOut, DownloadWakes, DownloadRefused, DownloadBreaks, BodyOpens,
                  UploadWakes, UploadRefused, At, Fixed, Counts, detectors
    <3>2. saw'.overload = saw.overload /\ saw'.success = saw.success
      BY <1>3, <3>1 DEF SawType
    <3>3. \/ rec.pc \notin {"quit", "done"} /\ rec.end = "none"
          \/ rec.pc = "done" /\ rec.end \in {"aborted", "failed", "over"}
      <4>1. CASE TimesOut(s)
        BY <1>3, <1>4, <4>1, EndsOfSteps DEF TimesOut
      <4>2. CASE DownloadWakes(s)
        BY <1>3, <1>4, <4>2, EndsOfSteps DEF DownloadWakes
      <4>3. CASE DownloadRefused(s)
        BY <1>3, <1>4, <4>3, EndsOfSteps DEF DownloadRefused
      <4>4. CASE DownloadBreaks(s)
        BY <1>3, <1>4, <4>4, EndsOfSteps DEF DownloadBreaks
      <4>5. CASE UploadWakes(s)
        BY <1>3, <1>4, <4>5, EndsOfSteps DEF UploadWakes
      <4>6. CASE UploadRefused(s)
        BY <1>3, <1>4, <4>6, EndsOfSteps DEF UploadRefused
      <4>7. CASE BodyOpens(s)
        BY <1>3, <1>4, <4>7, EndsOfSteps DEF BodyOpens
      <4>8. CASE Headers(s)
        <5>1. \A pc \in {"busy", "refused", "answered"} : pc \notin {"quit", "done"}
          OBVIOUS
        <5>. QED  BY <1>3, <1>4, <4>8, <5>1 DEF Headers, Rest, StreamType
      <4>. QED  BY <2>3, <4>1, <4>2, <4>3, <4>4, <4>5, <4>6, <4>7, <4>8
    <3>. QED  BY <3>1, <3>2, <3>3 DEF Meets
  <2>4. CASE BodyEnds(s) \/ Cancelled(s)
    <3>1. /\ ~ At(s, "quit") /\ outcome' = outcome /\ direction = "download"
          /\ saw' = [saw EXCEPT !.success = TRUE] /\ Put(s, Over("success"))
      BY <2>4 DEF BodyEnds, Cancelled, Succeed, At, Fixed
    <3>2. saw'.overload = saw.overload /\ saw'.success = TRUE
      BY <1>3, <3>1 DEF SawType
    <3>3. rec.pc = "done" /\ rec.end = "success"
      BY <1>3, <1>4, <3>1, EndsOfSteps
    <3>. QED  BY <3>1, <3>2, <3>3 DEF Meets
  <2>5. CASE ReadData(s)
    <3>1. /\ ~ At(s, "quit") /\ outcome' = outcome /\ direction = "download"
          /\ saw'.overload = saw.overload /\ saw'.success = saw.success
      BY <1>3, <2>5 DEF ReadData, At, Fixed, SawType
    <3>2. rec.pc \in {"read", "cancel"} /\ rec.end = "none"
      BY <1>3, <1>4, <2>5, EndsOfSteps DEF ReadData
    <3>. QED  BY <3>1, <3>2 DEF Meets
  <2>6. CASE UploadBreaks(s)
    <3>1. /\ ~ At(s, "quit") /\ saw'.overload = saw.overload /\ saw'.success = saw.success
          /\ direction = "upload" /\ warmUp' = warmUp
      BY <1>3, <2>6 DEF UploadBreaks, At, SawType, Counts, detectors
    <3>2. \/ rec.pc = "wait" /\ rec.end = "none" /\ outcome' = outcome
          \/ rec.pc = "done" /\ rec.end = "exhausted" /\ outcome' = "network"
      BY <1>3, <1>4, <2>6, EndsOfSteps DEF UploadBreaks
    <3>. QED  BY <3>1, <3>2 DEF Meets
  <2>7. CASE Uploaded(s)
    <3> DEFINE next == [old EXCEPT !.errors = 0]
    <3>1. next \in StreamType /\ next.end = "none"
      <4>1. next \in StreamType
        BY <1>3, StreamsTyped
      <4>. QED  BY <1>3, <4>1 DEF StreamType
    <3>2. direction = "upload" /\ At(s, "answered") /\ outcome' = outcome
      BY <2>7 DEF Uploaded, Fixed
    <3>3. saw'.overload = saw.overload /\ saw'.success = TRUE
      BY <1>3, <2>7 DEF Uploaded, SawType
    <3>4. \/ rec.pc = "request" /\ rec.end = "none"
          \/ rec.pc = "done" /\ rec.end = "over"
      <4>1. rec = NextRequest(next, endTime')
        BY <1>4, <2>7 DEF Uploaded
      <4> HIDE DEF next
      <4>. QED  BY <1>3, <3>1, <4>1, EndsOfSteps
    <3>5. warmUp'.start # 0
      BY <2>7, UploadStarts
    <3>. QED  BY <3>2, <3>3, <3>4, <3>5 DEF Meets, At
  <2>. QED
    BY <2>1, <2>2, <2>3, <2>4, <2>5, <2>6, <2>7 DEF StreamStep, OwnStep, NetworkStep
<1>. QED  BY <1>1, <1>5

\* What the streams met is known for as long as it matters.
LEMMA HistoryKept ==
  ASSUME TypeOK, TypeOK', HistoryInv, [Next]_vars
  PROVE  HistoryInv'
<1>1. CASE Tick
  <2>1. WarmUpBegun'
    BY <1>1 DEF Tick, Counts, detectors, HistoryInv, WarmUpBegun, StartTime, TypeOK, Times
  <2>2. SuccessSeen'
    BY <1>1 DEF Tick, Counts, detectors, HistoryInv, SuccessSeen, Succeeded, EndedWith
  <2>. QED
    BY <1>1, <2>1, <2>2 DEF Tick, HistoryInv, EndsDone, OverloadSeen, Decided, EndedWith, AllDone,
                            Running, At
<1>2. CASE FinishWindow
  <2>1. /\ UNCHANGED <<now, stream, saw, direction, isRamp, warmUp>> /\ AllDone
        /\ outcome' = Verdict
    BY <1>2 DEF FinishWindow, Counts, detectors
  <2>2. ~ EndedWith("exhausted")
    BY <1>2 DEF FinishWindow, HistoryInv, Decided, Running
  <2>3. Verdict' = Verdict /\ AllDone' /\ ~ EndedWith("exhausted")'
    BY <2>1, <2>2 DEF Verdict, throwIfZeroBytes, Failure, Reported, AllDone, EndedWith
  <2>. QED
    BY <2>1, <2>3 DEF HistoryInv, EndsDone, OverloadSeen, WarmUpBegun, SuccessSeen, Succeeded,
                      Decided, EndedWith, At
<1>3. ASSUME NEW s \in Streams, StreamStep(s) PROVE HistoryInv'
  <2>1. PICK rec \in StreamType : Moves(s, rec) /\ Meets(s, rec)
    BY <1>3, StepMeets DEF HistoryInv
  <2>2. /\ stream'[s] = rec /\ \A p \in Streams \ {s} : stream'[p] = stream[p]
        /\ stream[s].pc # "done" /\ stream[s].end = "none"
        /\ direction' = direction /\ direction \in {"download", "upload"} /\ now' = now
    BY <2>1, PutTyped DEF Moves, HistoryInv, EndsDone, TypeOK
  <2>3. EndsDone'
    BY <2>1, <2>2 DEF HistoryInv, EndsDone, Meets
  <2>4. OverloadSeen'
    <3>1. /\ saw.overload \in BOOLEAN /\ saw'.overload \in BOOLEAN
          /\ saw.overload <=> \E p \in Streams : At(p, "quit") \/ stream[p].end = "overloaded"
      BY DEF TypeOK, HistoryInv, OverloadSeen
    <3>2. saw'.overload <=>
            \E p \in Streams : stream'[p].pc = "quit" \/ stream'[p].end = "overloaded"
      BY <2>1, <2>2, <3>1 DEF Meets, At
    <3>. QED  BY <3>2 DEF OverloadSeen, At
  <2>5. SuccessSeen'
    <3>1. EndedWith("success")' <=> EndedWith("success") \/ rec.end = "success"
      BY <2>2 DEF EndedWith
    <3>2. CASE direction = "download"
      BY <2>1, <2>2, <3>1, <3>2 DEF HistoryInv, SuccessSeen, Succeeded, Meets
    <3>3. CASE direction = "upload"
      BY <2>1, <2>2, <3>3 DEF HistoryInv, SuccessSeen, Succeeded, Meets
    <3>. QED  BY <2>2, <3>2, <3>3
  <2>6. Decided'
    <3>1. EndedWith("exhausted")' <=> EndedWith("exhausted") \/ rec.end = "exhausted"
      BY <2>2 DEF EndedWith
    <3>2. ~ AllDone
      BY <2>2 DEF AllDone
    <3>. QED  BY <2>1, <3>1, <3>2 DEF HistoryInv, Decided, Running, Meets
  <2>7. WarmUpBegun'
    BY <2>1, <2>2 DEF HistoryInv, WarmUpBegun, Meets
  <2>. QED  BY <2>3, <2>4, <2>5, <2>6, <2>7 DEF HistoryInv
<1>4. CASE UNCHANGED vars
  BY <1>4 DEF vars, detectors, HistoryInv, EndsDone, OverloadSeen, WarmUpBegun, SuccessSeen,
              Succeeded, Decided, EndedWith, AllDone, Running, At, Verdict, throwIfZeroBytes, Failure, Reported
<1>. QED  BY <1>1, <1>2, <1>3, <1>4 DEF Next

\* The history tells what the outcome must be.
LEMMA HistoryDecides == TypeOK /\ HistoryInv => MeasuredIsReported
<1> SUFFICES ASSUME TypeOK, HistoryInv, ~ Running PROVE MeasuredIsReported
  BY DEF MeasuredIsReported
<1>1. CASE EndedWith("exhausted")
  BY <1>1 DEF HistoryInv, Decided, MeasuredIsReported
<1>2. CASE ~ EndedWith("exhausted")
  <2>1. AllDone /\ outcome = Verdict
    BY <1>2 DEF HistoryInv, Decided
  <2>2. saw.overload <=> EndedWith("overloaded")
    BY <2>1 DEF HistoryInv, OverloadSeen, AllDone, At, EndedWith
  <2>3. /\ outcome = "speed" <=> saw.bytes /\ ~ (isRamp /\ saw.overload)
        /\ outcome = "overloaded" => saw.overload
        /\ outcome = "noStreams" => ~ saw.success /\ ~ saw.overload
        /\ outcome = "zero" => saw.success /\ ~ saw.overload
    BY <2>1 DEF Verdict, throwIfZeroBytes, Failure, Reported
  <2>. QED
    BY <1>2, <2>2, <2>3 DEF HistoryInv, SuccessSeen, MeasuredIsReported
<1>. QED  BY <1>1, <1>2
-----------------------------------------------------------------------------
(* The theorems. *)

IInv == TypeOK /\ LateOnce /\ CreditInv /\ HistoryInv

LEMMA InitInv == Init => IInv
<1> SUFFICES ASSUME Init PROVE IInv
  OBVIOUS
<1>1. TypeOK
  BY TypesInitially
<1>2. LateOnce
  BY DEF Init, LateOnce
<1>3. CreditInv
  <2>1. InTime /\ NoCredit
    BY DEF Init, InTime, NoCredit, Rest, StartTime
  <2>2. CreditLedger
    <3>1. \A a, e, m \in Int : 0 <= Greater(0, Lesser(a, e) - m)
      BY DEF Greater, Lesser
    <3>2. /\ endTime \in Int /\ measureStart \in Int
          /\ \A s \in Streams : credited[s] = 0 /\ AccountedTo(s) \in Int
      BY <1>1, <2>1, AccountTyped DEF Init, TypeOK, Times
    <3>. QED  BY <3>1, <3>2 DEF CreditLedger
  <2>. QED  BY <2>1, <2>2 DEF CreditInv
<1>4. HistoryInv
  BY DEF Init, Rest, Nothing, WarmUpDetector, StartTime, HistoryInv, EndsDone, OverloadSeen,
         WarmUpBegun, SuccessSeen, Succeeded, Decided, EndedWith, Running, At
<1>. QED  BY <1>1, <1>2, <1>3, <1>4 DEF IInv

LEMMA NextInv == IInv /\ [Next]_vars => IInv'
<1> SUFFICES ASSUME IInv, [Next]_vars PROVE IInv'
  OBVIOUS
<1>1. TypeOK'
  BY TypesKept DEF IInv
<1>2. LateOnce'
  BY <1>1, LateOnceKept DEF IInv
<1>3. InTime' /\ NoCredit'
  BY InTimeKept, NoCreditKept DEF IInv, CreditInv
<1>4. CreditLedger'
  BY <1>1, <1>3, CreditLedgerKept DEF IInv
<1>5. HistoryInv'
  BY <1>1, HistoryKept DEF IInv
<1>. QED  BY <1>1, <1>2, <1>3, <1>4, <1>5 DEF IInv, CreditInv

LEMMA InvariantHolds == Spec => []IInv
BY InitInv, NextInv, PTL DEF Spec

\* Every variable keeps its type: the retries of a stream stay within
\* MAX_NETWORK_RETRIES, the detectors within their windows.
THEOREM TypeCorrect == Spec => []TypeOK
<1>1. IInv => TypeOK
  BY DEF IInv
<1>. QED  BY <1>1, InvariantHolds, PTL

\* However many streams share the end time, and whoever brings it forward,
\* each of them counts at most what it awaited when the end had passed.
THEOREM LateAtMostOnce == Spec => []OneLateCount
<1>1. IInv => OneLateCount
  BY DEF IInv, LateOnce, TypeOK, OneLateCount
<1>. QED  BY <1>1, InvariantHolds, PTL

\* applyHttpMeasureIntervalTick never credits a stream with more time than
\* was measured, whichever stream settled the warm-up or stopped early.
THEOREM CreditFitsWindow == Spec => []CreditedTimeBounded
<1>1. IInv => CreditedTimeBounded
  <2> SUFFICES ASSUME IInv, NEW s \in Streams
               PROVE  credited[s] <= Greater(0, Lesser(now, endTime) - measureStart)
    BY DEF CreditedTimeBounded
  <2>1. /\ credited[s] \in Int /\ endTime \in Int /\ measureStart \in Int /\ now \in Int
        /\ credited[s] <= Greater(0, Lesser(AccountedTo(s), endTime) - measureStart)
    BY DEF IInv, TypeOK, Times, CreditInv, CreditLedger
  <2>2. AccountedTo(s) \in Int /\ AccountedTo(s) <= now
    BY AccountTyped DEF IInv, CreditInv
  <2>. QED  BY <2>1, <2>2, AccountKept
<1>. QED  BY <1>1, InvariantHolds, PTL

\* The verdict of a window fits what its streams met, although they share
\* the two flags it is made from and some outlive it.
THEOREM VerdictFits == Spec => []MeasuredIsReported
<1>1. IInv => MeasuredIsReported
  BY HistoryDecides DEF IInv
<1>. QED  BY <1>1, InvariantHolds, PTL
=============================================================================
