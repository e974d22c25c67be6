-------------------------- MODULE AdaptiveRamp_proofs --------------------------
(***************************************************************************)
(* Proofs about AdaptiveRamp: its invariants, and that every step of       *)
(* worker and page is one that DirectionPhase allows, for any caps up to   *)
(* 64 streams, any gain threshold and any speeds.                          *)
(***************************************************************************)
EXTENDS AdaptiveRamp, TLAPS

Ramping == worker.pc \in {"loading", "ramping"}

-----------------------------------------------------------------------------
(* The inductive invariant. *)

\* A count below the cap is doubled in every window, so that a window's number
\* says how many streams it has at least.
CountOfWindow ==
  Ramping =>
    /\ MinStreams <= worker.streams /\ worker.streams <= worker.cap
    /\ worker.windowIndex \in 0 .. 6
    /\ worker.pc = "loading" => worker.windowIndex = 0
    /\ worker.streams < worker.cap => PowersOfTwo[worker.windowIndex + 1] <= worker.streams
    /\ worker.windowIndex > 0 => PowersOfTwo[worker.windowIndex] < worker.streams

\* The i-th window is the first of the fastest ones.
FirstFastest(i) ==
  \A j \in DOMAIN tried :
    /\ tried[j].mbps <= tried[i].mbps
    /\ j < i => tried[j].mbps < tried[i].mbps

\* While it ramps, best is the first of the fastest windows, or no window has
\* moved anything yet.
BestSoFar ==
  Ramping =>
    IF worker.best.mbps = 0
    THEN /\ worker.best.streams = MinStreams
         /\ \A i \in DOMAIN tried : tried[i].mbps = 0
    ELSE \E i \in DOMAIN tried : tried[i] = worker.best /\ FirstFastest(i)

\* While it ramps, no window gave a reason to stop.
RampSoFar ==
  Ramping =>
    /\ worker.pc = "loading" => tried = <<>>
    /\ IF tried = <<>>
       THEN worker.streams = MinStreams /\ worker.previous = 0
       ELSE /\ tried[1].streams = MinStreams
            /\ worker.streams = Lesser(worker.cap, 2 * tried[Len(tried)].streams)
            /\ worker.previous = tried[Len(tried)].mbps
    /\ \A i \in DOMAIN tried :
         /\ tried[i].mbps # Failed /\ ~ Capped(i) /\ ~ GainTooSmall(i)
         /\ i > 1 => tried[i].streams = Lesser(worker.cap, 2 * tried[i - 1].streams)

\* The page hears of the measured window before it hears of a result.
Announced(n) == model.measuring \/ \E j \in 1 .. n : queue[j].type = "measureStart"

MessagesInOrder ==
  /\ worker.pc = "measuring" => Announced(Len(queue))
  /\ \A i \in DOMAIN queue :
       /\ queue[i].type = "result" => Announced(i - 1)
       /\ queue[i].type = "phase" => queue[i].windowIndex < queue[i].maxWindows

\* The bar stays within the ramp's portion until then.
BarInItsPortion ==
  outcome = "none" /\ ~ model.measuring => model.highWaterMark <= RampPortion

IInv ==
  /\ TypeOK
  /\ outcome # "none" => worker.pc = "terminated"
  /\ CountOfWindow /\ BestSoFar /\ RampSoFar
  /\ MeasuresBest /\ RampStopsForAReason
  /\ MessagesInOrder /\ BarInItsPortion

-----------------------------------------------------------------------------
(* Powers of two, and the number of windows they make. *)

LEMMA Powers ==
  /\ \A k \in 1 .. 7 : PowersOfTwo[k] \in Nat \ {0}
  /\ \A k \in 1 .. 6 : PowersOfTwo[k + 1] = 2 * PowersOfTwo[k]
  /\ \A j, k \in 1 .. 7 : j < k => PowersOfTwo[j] < PowersOfTwo[k]
  /\ PowersOfTwo[1] = 1 /\ PowersOfTwo[7] = 64
BY DEF PowersOfTwo

\* The number announced for a cap is at least one, and its powers enclose it.
LEMMA WindowsOfCap ==
  ASSUME NEW n \in 1 .. 64
  PROVE  /\ maxWindows(n) \in 1 .. 7
         /\ n <= PowersOfTwo[maxWindows(n)]
<1>1. \E k \in 1 .. 7 : n <= PowersOfTwo[k] /\ (k > 1 => PowersOfTwo[k - 1] < n)
  BY DEF PowersOfTwo
<1>. QED  BY <1>1 DEF maxWindows

\* A window that runs more than 2 ^ (i - 1) streams has a number that was
\* announced for their cap.
LEMMA IndexBelowWindows ==
  ASSUME NEW n \in 1 .. 64, NEW i \in 0 .. 6, i > 0 => PowersOfTwo[i] < n
  PROVE  i < maxWindows(n)
BY WindowsOfCap, Powers

\* The page resolves its configuration within the limits, and the worker's
\* protocol only lowers its cap.
LEMMA CapsTyped ==
  /\ Streams \subseteq 1 .. 64 /\ MinStreams \in Streams
  /\ \A protocol \in Protocols, raw \in Params :
       resolveAdaptiveConfig(protocol, raw) \in [protocol : Protocols, maxStreams : Streams]
  /\ \A protocol \in Protocols, n \in Streams : protocolStreamCap(protocol, n) \in Streams
<1>1. Streams \subseteq 1 .. 64 /\ MinStreams \in Streams
  BY RampAssumption DEF Streams
<1>2. ASSUME NEW raw \in Params
      PROVE  parseIntegerParam(raw, MaxStreams, MinStreams, MaxStreams) \in Streams
  BY RampAssumption DEF parseIntegerParam, Lesser, Greater, Streams
<1>3. \A protocol \in Protocols, n \in Streams : protocolStreamCap(protocol, n) \in Streams
  BY RampAssumption DEF protocolStreamCap, Lesser, Streams
<1>. QED  BY <1>1, <1>2, <1>3 DEF resolveAdaptiveConfig

-----------------------------------------------------------------------------
(* Messages. *)

LEMMA MessagesTyped ==
  /\ \A type \in {"measureStart", "result", "error"} : Message(type) \in Messages
  /\ \A w \in Locals : Phase(w) \in Messages
<1>1. \A type \in {"measureStart", "result", "error"} : Message(type) \in Messages
  BY DEF Message, Messages
<1>2. ASSUME NEW w \in Locals
      PROVE  Phase(w) \in Messages
  <2>1. w.cap \in 1 .. 64 /\ w.windowIndex \in Nat
    BY CapsTyped DEF Locals
  <2>2. maxWindows(w.cap) \in Nat
    BY <2>1, WindowsOfCap
  <2>. QED  BY <2>1, <2>2 DEF Phase, Messages
<1>. QED  BY <1>1, <1>2

\* A message put at the end keeps the order, if it is not a result too early.
LEMMA Posting ==
  ASSUME TypeOK, MessagesInOrder, NEW msg \in Messages, queue' = Append(queue, msg),
         msg.type = "result" => Announced(Len(queue)),
         msg.type = "phase" => msg.windowIndex < msg.maxWindows,
         worker'.pc = "measuring" => worker.pc = "measuring",
         model' = model
  PROVE  MessagesInOrder' /\ queue' \in Seq(Messages)
<1>1. PICK n \in Nat : n = Len(queue)
  BY DEF TypeOK
<1>2. /\ queue' \in Seq(Messages) /\ Len(queue') = n + 1
      /\ queue'[n + 1] = msg /\ \A i \in 1 .. n : queue'[i] = queue[i]
      /\ DOMAIN queue = 1 .. n /\ DOMAIN queue' = 1 .. n + 1
  BY <1>1 DEF TypeOK
<1>3. \A m \in 0 .. n : Announced(m) => Announced(m)'
  BY <1>2 DEF Announced
<1>4. Announced(n)' => Announced(n + 1)'
  BY <1>2 DEF Announced
<1>5. worker'.pc = "measuring" => Announced(n + 1)'
  BY <1>1, <1>3, <1>4 DEF MessagesInOrder
<1>6. ASSUME NEW i \in 1 .. n + 1
      PROVE  /\ queue'[i].type = "result" => Announced(i - 1)'
             /\ queue'[i].type = "phase" => queue'[i].windowIndex < queue'[i].maxWindows
  <2>1. CASE i = n + 1
    BY <1>1, <1>2, <1>3, <2>1
  <2>2. CASE i \in 1 .. n
    BY <1>2, <1>3, <2>2 DEF MessagesInOrder
  <2>3. i = n + 1 \/ i \in 1 .. n
    BY <1>1
  <2>. QED  BY <2>1, <2>2, <2>3
<1>. QED  BY <1>2, <1>5, <1>6 DEF MessagesInOrder

-----------------------------------------------------------------------------
(* Windows of the ramp. *)

\* One more window is at the end of the history.
OneMore(n, m) ==
  /\ n = Len(tried) /\ DOMAIN tried = 1 .. n
  /\ tried' \in Seq(Windows) /\ Len(tried') = n + 1 /\ DOMAIN tried' = 1 .. n + 1
  /\ tried'[n + 1] = [streams |-> worker.streams, mbps |-> m]
  /\ \A i \in 1 .. n : tried'[i] = tried[i]
  /\ (n = 0) = (tried = <<>>)

LEMMA TriedOne ==
  ASSUME TypeOK, NEW m \in Nat \cup {Failed}, Tried(m), NEW n \in Nat, n = Len(tried)
  PROVE  OneMore(n, m)
<1>1. [streams |-> worker.streams, mbps |-> m] \in Windows
  <2>1. worker.streams \in Streams
    BY DEF TypeOK, Locals
  <2>. QED  BY <2>1 DEF Windows
<1>2. tried \in Seq(Windows) /\ tried' = Append(tried, [streams |-> worker.streams, mbps |-> m])
  BY DEF TypeOK, Tried
<1>3. /\ DOMAIN tried = 1 .. n
      /\ tried' \in Seq(Windows) /\ Len(tried') = n + 1 /\ DOMAIN tried' = 1 .. n + 1
      /\ \A i \in 1 .. n : tried'[i] = tried[i]
  BY <1>1, <1>2
<1>4. tried'[n + 1] = [streams |-> worker.streams, mbps |-> m]
  BY <1>1, <1>2
<1>5. (n = 0) = (tried = <<>>)
  BY <1>2
<1>. QED  BY <1>3, <1>4, <1>5 DEF OneMore

\* While it ramps, every window reported a speed.
LEMMA SpeedsOfRamp ==
  ASSUME TypeOK, RampSoFar, Ramping
  PROVE  \A i \in DOMAIN tried : tried[i] \in Windows /\ tried[i].mbps \in Nat
<1>. SUFFICES ASSUME NEW i \in DOMAIN tried
              PROVE  tried[i] \in Windows /\ tried[i].mbps \in Nat
  OBVIOUS
<1>1. tried[i] \in Windows
  BY DEF TypeOK
<1>2. tried[i].mbps \in Nat \cup {Failed}
  BY <1>1 DEF Windows
<1>3. tried[i].mbps # Failed
  BY DEF RampSoFar
<1>. QED  BY <1>1, <1>2, <1>3

\* Whatever a window reports, best is still the first of the fastest.
LEMMA BestStaysFirst ==
  ASSUME IInv, worker.pc = "ramping", NEW m \in Nat, NEW n \in Nat, OneMore(n, m)
  PROVE  IF Best(m).mbps = 0
         THEN /\ Best(m).streams = MinStreams
              /\ \A i \in DOMAIN tried' : tried'[i].mbps = 0
         ELSE \E i \in DOMAIN tried' : tried'[i] = Best(m) /\ FirstFastest(i)'
<1>1. /\ DOMAIN tried = 1 .. n /\ DOMAIN tried' = 1 .. n + 1
      /\ tried'[n + 1].mbps = m /\ tried'[n + 1].streams = worker.streams
      /\ \A i \in 1 .. n : tried'[i] = tried[i]
  BY DEF OneMore
<1>2. /\ \A i \in 1 .. n : tried[i].mbps \in Nat
      /\ worker.best.mbps \in Nat
  BY <1>1, SpeedsOfRamp DEF IInv, TypeOK, Locals, Ramping
<1>3. \A i \in 1 .. n + 1 : i = n + 1 \/ i \in 1 .. n
  OBVIOUS
<1>4. CASE m > worker.best.mbps
  \* The new window is faster than every earlier one.
  <2>1. \A i \in 1 .. n : tried[i].mbps < m
    <3>1. CASE worker.best.mbps = 0
      BY <1>1, <1>4, <3>1 DEF IInv, BestSoFar, Ramping
    <3>2. CASE worker.best.mbps # 0
      <4>1. PICK i \in 1 .. n : tried[i] = worker.best /\ FirstFastest(i)
        BY <1>1, <3>2 DEF IInv, BestSoFar, Ramping
      <4>2. \A j \in 1 .. n : tried[j].mbps <= worker.best.mbps
        BY <1>1, <4>1 DEF FirstFastest
      <4>. QED  BY <1>2, <1>4, <4>2
    <3>. QED  BY <3>1, <3>2
  <2>2. Best(m) = tried'[n + 1] /\ Best(m).mbps # 0
    BY <1>2, <1>4 DEF Best, OneMore
  <2>3. ASSUME NEW j \in 1 .. n + 1
        PROVE  tried'[j].mbps <= m /\ (j < n + 1 => tried'[j].mbps < m)
    <3>1. CASE j = n + 1
      BY <1>1, <3>1
    <3>2. CASE j \in 1 .. n
      BY <1>1, <1>2, <2>1, <3>2
    <3>. QED  BY <1>3, <3>1, <3>2
  <2>4. FirstFastest(n + 1)'
    BY <1>1, <2>3 DEF FirstFastest
  <2>5. n + 1 \in DOMAIN tried'
    BY <1>1
  <2>. QED  BY <2>2, <2>4, <2>5
<1>5. CASE ~ m > worker.best.mbps
  <2>1. Best(m) = worker.best
    BY <1>5 DEF Best
  <2>2. CASE worker.best.mbps = 0
    <3>1. /\ worker.best.streams = MinStreams
          /\ \A i \in 1 .. n : tried'[i].mbps = 0
      BY <1>1, <2>2 DEF IInv, BestSoFar, Ramping
    <3>2. tried'[n + 1].mbps = 0
      BY <1>1, <1>5, <2>2
    <3>. QED  BY <1>1, <1>3, <2>1, <2>2, <3>1, <3>2
  <2>3. CASE worker.best.mbps # 0
    <3>1. PICK i \in 1 .. n : tried[i] = worker.best /\ FirstFastest(i)
      BY <1>1, <2>3 DEF IInv, BestSoFar, Ramping
    <3>2. ASSUME NEW j \in 1 .. n + 1
          PROVE  /\ tried'[j].mbps <= tried'[i].mbps
                 /\ j < i => tried'[j].mbps < tried'[i].mbps
      <4>1. CASE j = n + 1
        BY <1>1, <1>2, <1>5, <3>1, <4>1
      <4>2. CASE j \in 1 .. n
        BY <1>1, <3>1, <4>2 DEF FirstFastest
      <4>. QED  BY <1>3, <4>1, <4>2
    <3>3. FirstFastest(i)'
      BY <1>1, <3>2 DEF FirstFastest
    <3>4. i \in DOMAIN tried' /\ tried'[i] = Best(m)
      BY <1>1, <2>1, <3>1
    <3>. QED  BY <2>1, <2>3, <3>3, <3>4
  <2>. QED  BY <2>2, <2>3
<1>. QED  BY <1>4, <1>5

\* Every window before the one that ends was neither capped nor too slow, and
\* the new one doubles the last.
LEMMA RampGoesOn ==
  ASSUME IInv, worker.pc = "ramping", NEW m \in Nat \cup {Failed},
         NEW n \in Nat, OneMore(n, m), worker'.cap = worker.cap
  PROVE  /\ \A i \in 1 .. n :
              /\ tried'[i].mbps \in Nat
              /\ ~ Capped(i)' /\ ~ GainTooSmall(i)' /\ ~ FailedAfterSuccess(i)'
         /\ \A i \in 1 .. n + 1 :
              i > 1 => tried'[i].streams = Lesser(worker.cap, 2 * tried'[i - 1].streams)
         /\ tried'[1].streams = MinStreams
         /\ Capped(n + 1)' <=> worker.streams = worker.cap
<1>1. /\ n = Len(tried) /\ DOMAIN tried = 1 .. n /\ DOMAIN tried' = 1 .. n + 1
      /\ tried'[n + 1].mbps = m /\ tried'[n + 1].streams = worker.streams
      /\ \A i \in 1 .. n : tried'[i] = tried[i]
      /\ (n = 0) = (tried = <<>>)
  BY DEF OneMore
<1>2. \A i \in 1 .. n :
        /\ tried[i].mbps \in Nat /\ ~ Capped(i) /\ ~ GainTooSmall(i)
        /\ i > 1 => tried[i].streams = Lesser(worker.cap, 2 * tried[i - 1].streams)
  BY <1>1, SpeedsOfRamp DEF IInv, RampSoFar, Ramping
<1>3. \A i \in 1 .. n : i > 1 => i - 1 \in 1 .. n
  OBVIOUS
<1>4. IF n = 0 THEN worker.streams = MinStreams
      ELSE /\ tried[1].streams = MinStreams
           /\ worker.streams = Lesser(worker.cap, 2 * tried[n].streams)
  BY <1>1 DEF IInv, RampSoFar, Ramping
<1>5. ASSUME NEW i \in 1 .. n
      PROVE  ~ Capped(i)' /\ ~ GainTooSmall(i)' /\ ~ FailedAfterSuccess(i)'
  <2>1. tried'[i] = tried[i] /\ (i > 1 => tried'[i - 1] = tried[i - 1])
    BY <1>1, <1>3
  <2>2. ~ Capped(i) /\ ~ GainTooSmall(i) /\ tried[i].mbps \in Nat
    BY <1>2
  <2>3. Capped(i)' <=> tried'[i].streams = worker.cap
    BY DEF Capped
  <2>4. ~ Capped(i)'
    BY <2>1, <2>2, <2>3 DEF Capped
  <2>5. ~ FailedAfterSuccess(i)'
    BY <2>1, <2>2 DEF FailedAfterSuccess, Failed
  <2>6. ~ GainTooSmall(i)'
    BY <2>1, <2>2 DEF GainTooSmall
  <2>. QED  BY <2>4, <2>5, <2>6
<1>6. ASSUME NEW i \in 1 .. n + 1, i > 1
      PROVE  tried'[i].streams = Lesser(worker.cap, 2 * tried'[i - 1].streams)
  <2>1. CASE i = n + 1
    <3>1. n # 0 /\ i - 1 = n /\ n \in 1 .. n
      BY <1>6, <2>1
    <3>. QED  BY <1>1, <1>4, <2>1, <3>1
  <2>2. CASE i \in 1 .. n
    <3>1. tried'[i] = tried[i] /\ tried'[i - 1] = tried[i - 1]
      BY <1>1, <1>3, <1>6, <2>2
    <3>. QED  BY <1>2, <1>6, <2>2, <3>1
  <2>3. i = n + 1 \/ i \in 1 .. n
    OBVIOUS
  <2>. QED  BY <2>1, <2>2, <2>3
<1>7. tried'[1].streams = MinStreams
  BY <1>1, <1>4
<1>8. Capped(n + 1)' <=> worker.streams = worker.cap
  BY <1>1 DEF Capped
<1>. QED  BY <1>1, <1>2, <1>5, <1>6, <1>7, <1>8

\* A window that reports a speed is too slow just if the worker finds it so.
LEMMA TooSlowSeen ==
  ASSUME IInv, worker.pc = "ramping", NEW m \in Nat, NEW n \in Nat, OneMore(n, m)
  PROVE  /\ ~ FailedAfterSuccess(n + 1)'
         /\ GainTooSmall(n + 1)' <=> shouldStopRamping(worker.previous, m)
<1>1. /\ n = Len(tried) /\ DOMAIN tried = 1 .. n /\ tried'[n + 1].mbps = m
      /\ \A i \in 1 .. n : tried'[i] = tried[i]
      /\ (n = 0) = (tried = <<>>)
  BY DEF OneMore
<1>2. ~ FailedAfterSuccess(n + 1)'
  BY <1>1 DEF FailedAfterSuccess, Failed
<1>3. worker.previous = IF n = 0 THEN 0 ELSE tried[n].mbps
  BY <1>1 DEF IInv, RampSoFar, Ramping
<1>4. CASE n = 0
  BY <1>2, <1>3, <1>4 DEF GainTooSmall, shouldStopRamping
<1>5. CASE n # 0
  <2>1. n \in 1 .. n /\ n + 1 > 1 /\ (n + 1) - 1 = n
    BY <1>5
  <2>2. tried'[n].mbps = worker.previous /\ worker.previous \in Nat
    BY <1>1, <1>3, <1>5, <2>1, SpeedsOfRamp DEF IInv, Ramping
  <2>3. GainTooSmall(n + 1)' <=>
          worker.previous > 0 /\ m * 100 < worker.previous * (100 + GainThreshold)
    BY <1>1, <2>1, <2>2 DEF GainTooSmall
  <2>4. GainThreshold \in Nat
    BY RampAssumption
  <2>5. ASSUME NEW p \in Nat, NEW g \in Nat
        PROVE  /\ (m - p) * 100 < g * p <=> m * 100 < p * (100 + g)
               /\ p > 0 /\ m <= 0 => m * 100 < p * (100 + g)
    <3>1. g * p \in Nat /\ p * (100 + g) = 100 * p + g * p
      OBVIOUS
    <3>. QED  BY <3>1
  <2>6. /\ (m - worker.previous) * 100 < GainThreshold * worker.previous
             <=> m * 100 < worker.previous * (100 + GainThreshold)
        /\ worker.previous > 0 /\ m <= 0 => m * 100 < worker.previous * (100 + GainThreshold)
    BY <2>2, <2>4, <2>5
  <2>. QED  BY <1>2, <2>3, <2>6 DEF shouldStopRamping
<1>. QED  BY <1>2, <1>4, <1>5

-----------------------------------------------------------------------------
(* The bar. *)

\* A share of a: L parts of d.
LEMMA Shares ==
  ASSUME NEW a \in Nat, NEW L \in Nat, NEW d \in Nat, d > 0, L <= d
  PROVE  (a * L) \div d \in 0 .. a
<1>1. PICK q \in Int : q = (a * L) \div d
  BY d # 0
<1>2. a * L \in Nat /\ q \in Nat /\ q * d <= a * L
  BY <1>1
<1>3. a * L <= a * d
  OBVIOUS
<1>4. ASSUME q >= a + 1
      PROVE  FALSE
  <2>1. q * d >= (a + 1) * d
    BY <1>2, <1>4
  <2>2. (a + 1) * d = a * d + d
    OBVIOUS
  <2>3. a * d \in Nat
    OBVIOUS
  <2>. QED  BY <1>2, <1>3, <2>1, <2>2, <2>3
<1>. QED  BY <1>1, <1>2, <1>4

\* The bar shows a percentage, one of the ramp's portion until it measures.
LEMMA PercentInRange ==
  ASSUME NEW b \in Bar, b.windowIndex < b.maxWindows
  PROVE  /\ progressPercent(b) \in 0 .. 100
         /\ ~ b.measuring => progressPercent(b) <= RampPortion
<1>1. /\ RampPortion \in Nat /\ RampPortion <= 100
      /\ b.windowIndex \in Nat /\ b.maxWindows \in Nat /\ b.elapsed \in 0 .. 2
      /\ b.measuring \in BOOLEAN
  BY RampAssumption DEF Bar
<1>2. CASE b.measuring
  <2>1. progressPercent(b) = RampPortion + ((100 - RampPortion) * b.elapsed) \div 2
    BY <1>2 DEF progressPercent
  <2>2. ((100 - RampPortion) * b.elapsed) \div 2 \in 0 .. 100 - RampPortion
    BY <1>1, Shares
  <2>. QED  BY <1>1, <1>2, <2>1, <2>2
<1>3. CASE ~ b.measuring
  <2>. DEFINE d == 2 * b.maxWindows
              L == Lesser(2 * b.windowIndex + b.elapsed, d)
  <2>1. progressPercent(b) = (RampPortion * L) \div d
    BY <1>3 DEF progressPercent
  <2>2. d \in Nat /\ d > 0 /\ L \in Nat /\ L <= d
    BY <1>1 DEF Lesser
  <2>. HIDE DEF d, L
  <2>3. (RampPortion * L) \div d \in 0 .. RampPortion
    BY <1>1, <2>2, Shares
  <2>. QED  BY <1>1, <2>1, <2>3
<1>. QED  BY <1>2, <1>3

-----------------------------------------------------------------------------
(* Every step keeps the invariant: the worker's steps. *)

LEMMA InitEstablishes == Init => IInv
<1>. SUFFICES ASSUME Init PROVE IInv
  OBVIOUS
<1>1. MinStreams \in Streams /\ MinStreams \in 1 .. 64
  BY CapsTyped
<1>2. 0 < maxWindows(MinStreams)
  BY <1>1, IndexBelowWindows
<1>3. config \in [protocol : Protocols, maxStreams : Streams]
  BY CapsTyped DEF Init
<1>4. worker \in Locals
  BY <1>1 DEF Init, Locals
<1>5. model \in Bar /\ model.windowIndex < model.maxWindows
  BY DEF Init, Bar, createDirectionProgressModel
<1>6. TypeOK
  BY <1>2, <1>3, <1>4, <1>5 DEF Init, TypeOK
<1>7. CountOfWindow
  BY <1>1, RampAssumption DEF Init, CountOfWindow
<1>8. BestSoFar /\ RampSoFar /\ MessagesInOrder
  BY DEF Init, BestSoFar, RampSoFar, MessagesInOrder
<1>9. BarInItsPortion
  BY RampAssumption DEF Init, BarInItsPortion, createDirectionProgressModel
<1>. QED  BY <1>6, <1>7, <1>8, <1>9 DEF Init, IInv, MeasuresBest, RampStopsForAReason

\* The protocol decides the cap before the first window.
LEMMA StartRampingKeeps == IInv /\ StartRamping => IInv'
<1>. SUFFICES ASSUME IInv, StartRamping PROVE IInv'
  OBVIOUS
<1>. USE DEF IInv
<1>1. PICK p \in Protocols :
        worker' = [worker EXCEPT !.pc = "ramping",
                                 !.cap = protocolStreamCap(p, config.maxStreams)]
  <2>1. config.protocol \in Protocols
    BY DEF TypeOK
  <2>. QED  BY <2>1 DEF StartRamping, detectNextHopProtocol
<1>2. /\ worker.pc = "loading" /\ outcome = "none"
      /\ queue' = Append(queue, Phase(worker'))
      /\ tried' = tried /\ config' = config /\ outcome' = outcome /\ model' = model
  BY DEF StartRamping, WorkerAt, Page
<1>3. protocolStreamCap(p, config.maxStreams) \in Streams
  BY CapsTyped DEF TypeOK
<1>4. /\ worker' \in Locals /\ worker'.pc = "ramping" /\ worker'.cap \in Streams
      /\ worker'.streams = worker.streams /\ worker'.windowIndex = worker.windowIndex
      /\ worker'.previous = worker.previous /\ worker'.best = worker.best
  BY <1>1, <1>3 DEF TypeOK, Locals
<1>5. tried = <<>> /\ worker.streams = MinStreams /\ worker.previous = 0
  BY <1>2 DEF RampSoFar, Ramping
<1>6. CountOfWindow'
  <2>1. worker.windowIndex = 0 /\ MinStreams \in Nat \ {0} /\ MinStreams <= worker'.cap
    BY <1>2, <1>4, RampAssumption DEF CountOfWindow, Ramping, Streams
  <2>2. PowersOfTwo[worker'.windowIndex + 1] = 1
    BY <1>4, <2>1, Powers
  <2>. QED  BY <1>4, <1>5, <2>1, <2>2 DEF CountOfWindow
<1>7. worker'.cap \in 1 .. 64 /\ worker'.windowIndex < maxWindows(worker'.cap)
  <2>1. worker'.cap \in 1 .. 64 /\ worker'.windowIndex = 0
    BY <1>2, <1>4, CapsTyped DEF CountOfWindow, Ramping
  <2>. QED  BY <2>1, IndexBelowWindows
<1>8. MessagesInOrder' /\ queue' \in Seq(Messages)
  <2>1. Phase(worker') \in Messages
    BY <1>4, MessagesTyped
  <2>2. Phase(worker').type = "phase" /\ Phase(worker').windowIndex < Phase(worker').maxWindows
    BY <1>7 DEF Phase
  <2>. QED  BY <1>2, <1>4, <2>1, <2>2, Posting
<1>9. TypeOK'
  BY <1>2, <1>4, <1>7, <1>8 DEF TypeOK
<1>10. BestSoFar'
  BY <1>2, <1>4, <1>5 DEF BestSoFar, Ramping
<1>11. RampSoFar'
  BY <1>2, <1>4, <1>5 DEF RampSoFar
<1>12. BarInItsPortion'
  BY <1>2 DEF BarInItsPortion
<1>. QED  BY <1>2, <1>4, <1>6, <1>8, <1>9, <1>10, <1>11, <1>12
          DEF MeasuresBest, RampStopsForAReason

\* The worker's last message is not a result before it measured.
LEMMA EndsKeep ==
  ASSUME IInv, outcome = "none", NEW msg \in Messages,
         worker' = [worker EXCEPT !.pc = "done"], queue' = Append(queue, msg),
         \/ msg.type = "error"
         \/ msg.type = "result" /\ worker.pc = "measuring",
         tried' \in Seq(Windows), UNCHANGED Page
  PROVE  IInv'
<1>. USE DEF IInv
<1>1. worker' \in Locals /\ worker'.pc = "done" /\ worker'.cap = worker.cap
      /\ worker'.windowIndex = worker.windowIndex
  BY DEF TypeOK, Locals
<1>2. config' = config /\ outcome' = outcome /\ model' = model
  BY DEF Page
<1>3. msg.type = "result" => Announced(Len(queue))
  BY DEF MessagesInOrder
<1>4. MessagesInOrder' /\ queue' \in Seq(Messages)
  BY <1>1, <1>2, <1>3, Posting
<1>5. TypeOK'
  BY <1>1, <1>2, <1>4 DEF TypeOK
<1>6. BarInItsPortion'
  BY <1>2 DEF BarInItsPortion
<1>. QED  BY <1>1, <1>2, <1>4, <1>5, <1>6
          DEF CountOfWindow, BestSoFar, RampSoFar, Ramping, MeasuresBest, RampStopsForAReason

LEMMA LoadingFailsKeeps == IInv /\ LoadingFails => IInv'
<1>1. Message("error") \in Messages /\ Message("error").type = "error"
  BY MessagesTyped DEF Message
<1>2. IInv => tried \in Seq(Windows)
  BY DEF IInv, TypeOK
<1>. QED  BY <1>1, <1>2, EndsKeep DEF LoadingFails, WorkerAt, Throw

LEMMA MeasureEndsKeeps == IInv /\ (MeasureEnds \/ MeasureFails) => IInv'
<1>1. Message("error") \in Messages /\ Message("error").type = "error"
  BY MessagesTyped DEF Message
<1>2. Message("result") \in Messages /\ Message("result").type = "result"
  BY MessagesTyped DEF Message
<1>3. IInv => tried \in Seq(Windows)
  BY DEF IInv, TypeOK
<1>4. IInv /\ MeasureFails => IInv'
  BY <1>1, <1>3, EndsKeep DEF MeasureFails, WorkerAt, Throw
<1>5. IInv /\ MeasureEnds => IInv'
  BY <1>2, <1>3, EndsKeep DEF MeasureEnds, WorkerAt
<1>. QED  BY <1>4, <1>5

\* What is posted when the measurement starts keeps the order.
LEMMA MeasurePosted ==
  ASSUME TypeOK, MessagesInOrder, NEW a \in Messages, NEW b \in Messages,
         queue' = queue \o <<a, b>>, a.type = "phase", a.windowIndex < a.maxWindows,
         b.type = "measureStart", model' = model
  PROVE  MessagesInOrder' /\ queue' \in Seq(Messages)
<1>1. PICK n \in Nat : n = Len(queue)
  BY DEF TypeOK
<1>2. /\ queue' \in Seq(Messages) /\ Len(queue') = n + 2
      /\ queue'[n + 1] = a /\ queue'[n + 2] = b /\ \A i \in 1 .. n : queue'[i] = queue[i]
      /\ DOMAIN queue = 1 .. n /\ DOMAIN queue' = 1 .. n + 2
  BY <1>1 DEF TypeOK
<1>3. Announced(n + 2)'
  BY <1>2 DEF Announced
<1>4. \A k \in 0 .. n : Announced(k) => Announced(k)'
  BY <1>2 DEF Announced
<1>5. ASSUME NEW i \in 1 .. n + 2
      PROVE  /\ queue'[i].type = "result" => Announced(i - 1)'
             /\ queue'[i].type = "phase" => queue'[i].windowIndex < queue'[i].maxWindows
  <2>1. CASE i = n + 1
    BY <1>2, <2>1
  <2>2. CASE i = n + 2
    BY <1>2, <2>2
  <2>3. CASE i \in 1 .. n
    <3>1. i - 1 \in 0 .. n /\ queue'[i] = queue[i] /\ i \in DOMAIN queue
      BY <1>2, <2>3
    <3>2. /\ queue[i].type = "result" => Announced(i - 1)
          /\ queue[i].type = "phase" => queue[i].windowIndex < queue[i].maxWindows
      BY <3>1 DEF MessagesInOrder
    <3>. QED  BY <1>4, <3>1, <3>2
  <2>4. i = n + 1 \/ i = n + 2 \/ i \in 1 .. n
    OBVIOUS
  <2>. QED  BY <2>1, <2>2, <2>3, <2>4
<1>. QED  BY <1>2, <1>3, <1>5 DEF MessagesInOrder

\* The ramp may end with the best count, if its last window is a reason to.
LEMMA StartMeasuringKeeps ==
  ASSUME IInv, worker.pc = "ramping", outcome = "none", NEW m \in Nat \cup {Failed},
         NEW n \in Nat, OneMore(n, m), UNCHANGED Page,
         NEW best \in [streams : Streams, mbps : Nat], StartMeasuring(best),
         NEW f \in DOMAIN tried', best.streams = tried'[f].streams, FirstFastest(f)',
         Capped(n + 1)' \/ GainTooSmall(n + 1)' \/ FailedAfterSuccess(n + 1)'
  PROVE  IInv'
<1>. USE DEF IInv
<1>1. /\ worker' \in Locals /\ worker'.pc = "measuring" /\ worker'.cap = worker.cap
      /\ worker'.windowIndex = worker.windowIndex /\ worker'.streams = best.streams
  BY DEF StartMeasuring, TypeOK, Locals
<1>2. config' = config /\ outcome' = outcome /\ model' = model
  BY DEF Page
<1>3. /\ tried' \in Seq(Windows) /\ Len(tried') = n + 1 /\ DOMAIN tried' = 1 .. n + 1
  BY DEF OneMore
<1>4. MessagesInOrder' /\ queue' \in Seq(Messages)
  <2>1. Phase(worker) \in Messages /\ Message("measureStart") \in Messages
    BY MessagesTyped DEF TypeOK
  <2>2. /\ Phase(worker).type = "phase" /\ Message("measureStart").type = "measureStart"
        /\ Phase(worker).windowIndex < Phase(worker).maxWindows
    BY DEF Phase, Message, TypeOK
  <2>. QED  BY <1>2, <2>1, <2>2, MeasurePosted DEF StartMeasuring
<1>5. TypeOK'
  BY <1>1, <1>2, <1>3, <1>4 DEF TypeOK
<1>6. MeasuresBest'
  BY <1>1 DEF MeasuresBest, FirstFastest
<1>7. RampStopsForAReason'
  <2>1. ASSUME NEW i \in 1 .. n + 1
        PROVE  /\ i = n + 1 <=> Capped(i)' \/ GainTooSmall(i)' \/ FailedAfterSuccess(i)'
               /\ i > 1 => tried'[i].streams = Lesser(worker'.cap, 2 * tried'[i - 1].streams)
    <3>1. i > 1 => tried'[i].streams = Lesser(worker'.cap, 2 * tried'[i - 1].streams)
      BY <1>1, RampGoesOn
    <3>2. CASE i = n + 1
      BY <3>1, <3>2
    <3>3. CASE i \in 1 .. n
      BY <1>1, <3>1, <3>3, RampGoesOn
    <3>4. i = n + 1 \/ i \in 1 .. n
      OBVIOUS
    <3>. QED  BY <3>2, <3>3, <3>4
  <2>. QED  BY <1>3, <2>1 DEF RampStopsForAReason
<1>8. BarInItsPortion'
  BY <1>2 DEF BarInItsPortion
<1>. QED  BY <1>1, <1>2, <1>4, <1>5, <1>6, <1>7, <1>8
          DEF CountOfWindow, BestSoFar, RampSoFar, Ramping

LEMMA RampWindowFailsKeeps == IInv /\ RampWindowFails => IInv'
<1>. SUFFICES ASSUME IInv, RampWindowFails PROVE IInv'
  OBVIOUS
<1>1. /\ worker.pc = "ramping" /\ outcome = "none" /\ Tried(Failed) /\ UNCHANGED Page
      /\ IF worker.best.mbps > 0 THEN StartMeasuring(worker.best) ELSE Throw
  BY DEF RampWindowFails, WorkerAt
<1>2. PICK n \in Nat : n = Len(tried)
  BY DEF IInv, TypeOK
<1>3. OneMore(n, Failed)
  BY <1>1, <1>2, TriedOne DEF IInv
<1>4. /\ DOMAIN tried = 1 .. n /\ DOMAIN tried' = 1 .. n + 1
      /\ tried'[n + 1].mbps = Failed /\ \A i \in 1 .. n : tried'[i] = tried[i]
  BY <1>3 DEF OneMore
<1>5. \A i \in 1 .. n : tried[i].mbps \in Nat
  BY <1>1, <1>4, SpeedsOfRamp DEF IInv, Ramping
<1>6. CASE worker.best.mbps > 0
  <2>1. PICK f \in 1 .. n : tried[f] = worker.best /\ FirstFastest(f)
    <3>1. worker.best.mbps # 0
      BY <1>6
    <3>. QED  BY <1>1, <1>4, <3>1 DEF IInv, BestSoFar, Ramping
  <2>2. ASSUME NEW j \in 1 .. n + 1
        PROVE  /\ tried'[j].mbps <= tried'[f].mbps
               /\ j < f => tried'[j].mbps < tried'[f].mbps
    <3>1. CASE j = n + 1
      BY <1>4, <1>5, <2>1, <3>1 DEF Failed
    <3>2. CASE j \in 1 .. n
      BY <1>4, <2>1, <3>2 DEF FirstFastest
    <3>3. j = n + 1 \/ j \in 1 .. n
      OBVIOUS
    <3>. QED  BY <3>1, <3>2, <3>3
  <2>3. FirstFastest(f)' /\ f \in DOMAIN tried' /\ tried'[f] = worker.best
    BY <1>4, <2>1, <2>2 DEF FirstFastest
  <2>4. FailedAfterSuccess(n + 1)'
    <3>1. f \in 1 .. (n + 1) - 1 /\ tried'[f].mbps > 0
      BY <1>6, <2>3
    <3>. QED  BY <1>4, <3>1 DEF FailedAfterSuccess
  <2>5. worker.best \in [streams : Streams, mbps : Nat]
    BY DEF IInv, TypeOK, Locals
  <2>. QED  BY <1>1, <1>3, <1>6, <2>3, <2>4, <2>5, StartMeasuringKeeps
<1>7. CASE ~ worker.best.mbps > 0
  <2>1. Message("error") \in Messages /\ Message("error").type = "error"
    BY MessagesTyped DEF Message
  <2>2. tried' \in Seq(Windows)
    BY <1>3 DEF OneMore
  <2>. QED  BY <1>1, <1>7, <2>1, <2>2, EndsKeep DEF Throw
<1>. QED  BY <1>6, <1>7

LEMMA RampWindowEndsKeeps ==
  ASSUME IInv, NEW m \in Speeds, RampWindowEnds(m)
  PROVE  IInv'
<1>. DEFINE next == nextStreamCount(worker.streams, worker.cap)
            stop == shouldStopRamping(worker.previous, m) \/ next = worker.streams
<1>1. /\ worker.pc = "ramping" /\ outcome = "none" /\ Tried(m) /\ UNCHANGED Page
      /\ m \in Nat
  BY RampAssumption DEF RampWindowEnds, WorkerAt
<1>2. PICK n \in Nat : n = Len(tried)
  BY DEF IInv, TypeOK
<1>3. OneMore(n, m)
  BY <1>1, <1>2, TriedOne DEF IInv
<1>4. /\ DOMAIN tried = 1 .. n /\ DOMAIN tried' = 1 .. n + 1 /\ Len(tried') = n + 1
      /\ tried'[n + 1] = [streams |-> worker.streams, mbps |-> m]
      /\ \A i \in 1 .. n : tried'[i] = tried[i]
      /\ tried' \in Seq(Windows)
  BY <1>3 DEF OneMore
<1>5. /\ worker \in Locals /\ worker.streams \in Streams /\ worker.cap \in Streams
      /\ worker.streams \in Nat \ {0} /\ worker.cap \in 1 .. 64
      /\ MinStreams <= worker.streams /\ worker.streams <= worker.cap
      /\ worker.windowIndex \in 0 .. 6
  <2>1. worker \in Locals
    BY DEF IInv, TypeOK
  <2>2. worker.streams \in Streams /\ worker.cap \in Streams
    BY <2>1 DEF Locals
  <2>3. worker.streams \in Nat \ {0} /\ worker.cap \in 1 .. 64
    <3>1. worker.streams \in 1 .. 64 /\ worker.cap \in 1 .. 64
      BY <2>2, CapsTyped
    <3>. QED  BY <3>1
  <2>. QED  BY <1>1, <2>1, <2>2, <2>3 DEF IInv, CountOfWindow, Ramping
<1>6. Best(m) \in [streams : Streams, mbps : Nat]
  BY <1>1, <1>5 DEF Best, Locals
<1>7. next = worker.streams <=> worker.streams = worker.cap
  BY <1>5 DEF nextStreamCount, Lesser
<1>8. CASE stop
  \* The best window so far, or the first if none moved anything.
  <2>1. StartMeasuring(Best(m))
    BY <1>8 DEF RampWindowEnds
  <2>2. PICK f \in DOMAIN tried' : Best(m).streams = tried'[f].streams /\ FirstFastest(f)'
    <3>1. CASE Best(m).mbps = 0
      <4>1. /\ Best(m).streams = MinStreams
            /\ \A i \in DOMAIN tried' : tried'[i].mbps = 0
        BY <1>1, <1>3, <3>1, BestStaysFirst
      <4>2. 1 \in DOMAIN tried' /\ \A j \in DOMAIN tried' : j >= 1
        BY <1>4
      <4>3. FirstFastest(1)'
        <5>1. \A j \in DOMAIN tried' : /\ tried'[j].mbps <= tried'[1].mbps
                                       /\ j < 1 => tried'[j].mbps < tried'[1].mbps
          BY <1>4, <4>1, <4>2
        <5>. QED  BY <5>1 DEF FirstFastest
      <4>4. n # 0 => tried'[1] = tried[1] /\ tried # <<>>
        BY <1>4
      <4>5. n = 0 => tried = <<>>
        BY <1>3 DEF OneMore
      <4>6. tried'[1].streams = MinStreams
        BY <1>1, <1>4, <4>4, <4>5 DEF IInv, RampSoFar, Ramping
      <4>. QED  BY <4>1, <4>2, <4>3, <4>6
    <3>2. CASE Best(m).mbps # 0
      BY <1>1, <1>3, <3>2, BestStaysFirst
    <3>. QED  BY <3>1, <3>2
  <2>3. next = worker.streams => Capped(n + 1)'
    <3>1. worker'.cap = worker.cap
      BY <1>5, <2>1 DEF StartMeasuring, Locals
    <3>. QED  BY <1>4, <1>7, <3>1 DEF Capped
  <2>4. shouldStopRamping(worker.previous, m) => GainTooSmall(n + 1)'
    BY <1>1, <1>3, TooSlowSeen
  <2>. HIDE DEF next
  <2>. QED  BY <1>1, <1>3, <1>6, <1>8, <2>1, <2>2, <2>3, <2>4, StartMeasuringKeeps
<1>9. CASE ~ stop
  <2>1. /\ worker' = [worker EXCEPT !.best = Best(m), !.previous = m,
                                    !.streams = next, !.windowIndex = @ + 1]
        /\ queue' = Append(queue, Phase(worker'))
    BY <1>9 DEF RampWindowEnds
  <2>2. /\ worker.streams < worker.cap /\ next \in Streams
        /\ MinStreams <= next /\ next <= worker.cap /\ worker.streams < next
        /\ next < worker.cap => next = 2 * worker.streams
        /\ next = Lesser(worker.cap, 2 * worker.streams)
    BY <1>5, <1>7, <1>9, RampAssumption DEF nextStreamCount, Lesser, Streams
  <2>. HIDE DEF next
  <2>3. /\ worker' \in Locals /\ worker'.pc = "ramping" /\ worker'.cap = worker.cap
        /\ worker'.streams = next /\ worker'.windowIndex = worker.windowIndex + 1
        /\ worker'.previous = m /\ worker'.best = Best(m)
    <3>1. worker.windowIndex \in Nat /\ worker.windowIndex + 1 \in Nat
      BY <1>5
    <3>. QED  BY <1>1, <1>5, <1>6, <2>1, <2>2, <3>1 DEF Locals
  <2>4. config' = config /\ outcome' = outcome /\ model' = model
    BY <1>1 DEF Page
  <2>5. /\ worker.windowIndex + 1 \in 0 .. 6
        /\ PowersOfTwo[worker.windowIndex + 1] < worker.cap
        /\ PowersOfTwo[worker.windowIndex + 1] < next
        /\ next < worker.cap => PowersOfTwo[(worker.windowIndex + 1) + 1] <= next
    <3>1. PowersOfTwo[worker.windowIndex + 1] <= worker.streams
      BY <1>1, <2>2 DEF IInv, CountOfWindow, Ramping
    <3>2. worker.windowIndex # 6
      BY <1>5, <2>2, <3>1, Powers
    <3>3. worker.windowIndex + 1 \in 1 .. 6
      BY <1>5, <3>2
    <3>4. PowersOfTwo[(worker.windowIndex + 1) + 1] = 2 * PowersOfTwo[worker.windowIndex + 1]
          /\ PowersOfTwo[worker.windowIndex + 1] \in Nat
      BY <3>3, Powers
    <3>. QED  BY <1>5, <2>2, <3>1, <3>3, <3>4 DEF Streams
  <2>6. CountOfWindow'
    BY <2>2, <2>3, <2>5 DEF CountOfWindow
  <2>7. worker'.windowIndex < maxWindows(worker'.cap)
    BY <1>5, <2>3, <2>5, IndexBelowWindows
  <2>8. MessagesInOrder' /\ queue' \in Seq(Messages)
    <3>1. Phase(worker') \in Messages
      BY <2>3, MessagesTyped
    <3>2. /\ Phase(worker').type = "phase"
          /\ Phase(worker').windowIndex < Phase(worker').maxWindows
      BY <2>7 DEF Phase
    <3>. QED  BY <2>1, <2>3, <2>4, <3>1, <3>2, Posting DEF IInv
  <2>9. TypeOK'
    BY <1>4, <2>3, <2>4, <2>7, <2>8 DEF IInv, TypeOK
  <2>10. BestSoFar'
    BY <1>1, <1>3, <2>3, BestStaysFirst DEF BestSoFar
  <2>11. RampSoFar'
    <3>1. ASSUME NEW i \in 1 .. n + 1
          PROVE  /\ tried'[i].mbps # Failed /\ ~ Capped(i)' /\ ~ GainTooSmall(i)'
                 /\ i > 1 => tried'[i].streams = Lesser(worker'.cap, 2 * tried'[i - 1].streams)
      <4>1. i > 1 => tried'[i].streams = Lesser(worker'.cap, 2 * tried'[i - 1].streams)
        BY <1>1, <1>3, <2>3, RampGoesOn
      <4>2. CASE i = n + 1
        <5>1. tried'[i].mbps # Failed
          BY <1>1, <1>4, <4>2 DEF Failed
        <5>2. ~ Capped(n + 1)'
          <6>1. worker.streams # worker.cap
            BY <1>5, <2>2
          <6>. QED  BY <1>4, <2>3, <6>1 DEF Capped
        <5>3. ~ GainTooSmall(n + 1)'
          BY <1>1, <1>3, <1>9, TooSlowSeen
        <5>. QED  BY <4>1, <4>2, <5>1, <5>2, <5>3
      <4>3. CASE i \in 1 .. n
        <5>1. tried'[i].mbps # Failed
          BY <1>1, <1>3, <2>3, <4>3, RampGoesOn DEF Failed
        <5>. QED  BY <1>1, <1>3, <2>3, <4>1, <4>3, <5>1, RampGoesOn
      <4>4. i = n + 1 \/ i \in 1 .. n
        OBVIOUS
      <4>. QED  BY <4>2, <4>3, <4>4
    <3>2. tried'[1].streams = MinStreams /\ tried' # <<>>
      BY <1>1, <1>3, <1>4, <2>3, RampGoesOn
    <3>3. /\ worker'.streams = Lesser(worker'.cap, 2 * tried'[n + 1].streams)
          /\ worker'.previous = tried'[n + 1].mbps
      BY <1>4, <2>2, <2>3
    <3>. QED  BY <1>4, <2>3, <3>1, <3>2, <3>3 DEF RampSoFar
  <2>12. BarInItsPortion'
    BY <2>4 DEF IInv, BarInItsPortion
  <2>. QED  BY <1>1, <2>3, <2>4, <2>6, <2>8, <2>9, <2>10, <2>11, <2>12
            DEF IInv, MeasuresBest, RampStopsForAReason
<1>. QED  BY <1>8, <1>9

-----------------------------------------------------------------------------
(* Every step keeps the invariant: the page's steps. *)

\* What is known of the worker's windows stays known while it does nothing.
LEMMA WindowsStay ==
  ASSUME CountOfWindow, BestSoFar, RampSoFar, MeasuresBest, RampStopsForAReason,
         worker' = worker, tried' = tried
  PROVE  CountOfWindow' /\ BestSoFar' /\ RampSoFar' /\ MeasuresBest' /\ RampStopsForAReason'
BY DEF CountOfWindow, BestSoFar, RampSoFar, MeasuresBest, RampStopsForAReason, Ramping,
       FirstFastest, Capped, GainTooSmall, FailedAfterSuccess

LEMMA ProgressTickKeeps == IInv /\ ProgressTick => IInv'
<1>. SUFFICES ASSUME IInv, ProgressTick PROVE IInv'
  OBVIOUS
<1>. USE DEF IInv
<1>1. PICK e \in model.elapsed .. 2 :
        model' = [[model EXCEPT !.elapsed = e] EXCEPT
                    !.highWaterMark = directionProgressPercent([model EXCEPT !.elapsed = e])]
  BY DEF ProgressTick
<1>2. /\ outcome = "none" /\ config' = config /\ worker' = worker /\ tried' = tried
      /\ queue' = queue /\ outcome' = outcome
  BY DEF ProgressTick
<1>3. PICK b \in Bar : /\ b = [model EXCEPT !.elapsed = e] /\ b.windowIndex < b.maxWindows
                       /\ b.measuring = model.measuring
                       /\ b.highWaterMark = model.highWaterMark
  <2>. DEFINE b == [model EXCEPT !.elapsed = e]
  <2>1. model \in Bar /\ e \in 0 .. 2
    BY DEF TypeOK, Bar
  <2>2. b \in Bar
    BY <2>1 DEF Bar
  <2>3. b.windowIndex = model.windowIndex /\ b.maxWindows = model.maxWindows
        /\ b.highWaterMark = model.highWaterMark
    BY <2>1 DEF Bar
  <2>4. b.measuring = model.measuring
    BY <2>1, Zenon DEF Bar
  <2>5. b.windowIndex < b.maxWindows
    BY <2>3 DEF TypeOK
  <2>. HIDE DEF b
  <2>6. b = [model EXCEPT !.elapsed = e]
    BY DEF b
  <2>. QED  BY <2>2, <2>3, <2>4, <2>5, <2>6
<1>4. PICK h \in 0 .. 100 : /\ h = directionProgressPercent(b)
                            /\ ~ b.measuring /\ b.highWaterMark <= RampPortion => h <= RampPortion
  <2>1. /\ progressPercent(b) \in 0 .. 100
        /\ ~ b.measuring => progressPercent(b) <= RampPortion
    BY <1>3, PercentInRange
  <2>2. b.highWaterMark \in 0 .. 100
    BY DEF Bar
  <2>. QED  BY <2>1, <2>2 DEF directionProgressPercent, Greater
<1>5. model' = [b EXCEPT !.highWaterMark = h]
  BY <1>1, <1>3, <1>4
<1>6. /\ model' \in Bar /\ model'.windowIndex < model'.maxWindows
      /\ model'.measuring = b.measuring /\ model'.highWaterMark = h
  BY <1>3, <1>5 DEF Bar
<1>7. TypeOK'
  BY <1>2, <1>6 DEF TypeOK
<1>8. MessagesInOrder'
  BY <1>2, <1>3, <1>6 DEF MessagesInOrder, Announced
<1>9. BarInItsPortion'
  BY <1>2, <1>3, <1>4, <1>6 DEF BarInItsPortion
<1>. QED  BY <1>2, <1>7, <1>8, <1>9, WindowsStay

LEMMA SettleKeeps ==
  ASSUME IInv, outcome = "none", NEW how \in {"ok", "failed"}, Settle(how),
         model' = model \/ model' = [model EXCEPT !.highWaterMark = 100]
  PROVE  IInv'
<1>1. /\ config' = config /\ tried' = tried /\ queue' = <<>> /\ outcome' = how
      /\ worker' = [worker EXCEPT !.pc = "terminated"]
  BY DEF Settle
<1>2. /\ worker' \in Locals /\ worker'.pc = "terminated" /\ worker'.cap = worker.cap
      /\ worker'.windowIndex = worker.windowIndex
  BY <1>1 DEF IInv, TypeOK, Locals
<1>3. model' \in Bar /\ model'.windowIndex < model'.maxWindows
  BY DEF IInv, TypeOK, Bar
<1>4. TypeOK'
  BY <1>1, <1>2, <1>3 DEF IInv, TypeOK
<1>. QED  BY <1>1, <1>2, <1>4
          DEF IInv, CountOfWindow, BestSoFar, RampSoFar, MeasuresBest, RampStopsForAReason,
              Ramping, MessagesInOrder, BarInItsPortion

\* A message that is not the last word.
LEMMA HeardKeeps ==
  ASSUME IInv, outcome = "none", queue # <<>>, Head(queue).type \in {"phase", "measureStart"},
         IF Head(queue).type = "phase" THEN noteRampWindow(Head(queue)) ELSE noteMeasureStart,
         queue' = Tail(queue), UNCHANGED <<config, worker, tried, outcome>>
  PROVE  IInv'
<1>. USE DEF IInv
<1>1. PICK n \in Nat : n + 1 = Len(queue) /\ DOMAIN queue = 1 .. n + 1
  BY DEF TypeOK
<1>2. /\ Head(queue) = queue[1] /\ 1 \in DOMAIN queue /\ Head(queue) \in Messages
      /\ queue' \in Seq(Messages) /\ Len(queue') = n /\ DOMAIN queue' = 1 .. n
      /\ \A i \in 1 .. n : queue'[i] = queue[i + 1]
  BY <1>1 DEF TypeOK
<1>3. CASE Head(queue).type = "phase"
  <2>1. /\ Head(queue).windowIndex \in Nat /\ Head(queue).maxWindows \in Nat
        /\ Head(queue).windowIndex < Head(queue).maxWindows
    BY <1>2, <1>3 DEF Messages, MessagesInOrder
  <2>2. /\ model' \in Bar /\ model'.windowIndex < model'.maxWindows
        /\ model'.measuring = model.measuring /\ model'.highWaterMark = model.highWaterMark
    <3>1. model \in Bar /\ 0 \in 0 .. 2
      BY DEF TypeOK
    <3>2. model' \in Bar
      BY <1>3, <2>1, <3>1 DEF noteRampWindow, Bar
    <3>3. /\ model'.windowIndex = Head(queue).windowIndex
          /\ model'.maxWindows = Head(queue).maxWindows
          /\ model'.highWaterMark = model.highWaterMark
      BY <1>3, <3>1 DEF noteRampWindow, Bar
    <3>4. model'.measuring = model.measuring
      BY <1>3, <3>1, Zenon DEF noteRampWindow, Bar
    <3>. QED  BY <2>1, <3>2, <3>3, <3>4
  <2>3. ASSUME NEW k \in 0 .. n, Announced(k + 1)
        PROVE  Announced(k)'
    <3>1. CASE model.measuring
      BY <2>2, <3>1 DEF Announced
    <3>2. CASE ~ model.measuring
      <4>1. PICK j \in 1 .. k + 1 : queue[j].type = "measureStart"
        BY <2>3, <3>2 DEF Announced
      <4>2. j # 1 /\ j - 1 \in 1 .. k /\ j - 1 \in 1 .. n /\ (j - 1) + 1 = j
        BY <1>2, <1>3, <4>1
      <4>3. queue'[j - 1].type = "measureStart"
        BY <1>2, <4>1, <4>2
      <4>. QED  BY <4>2, <4>3 DEF Announced
    <3>. QED  BY <3>1, <3>2
  <2>4. worker'.pc = "measuring" => Announced(n)'
    BY <1>1, <2>3 DEF MessagesInOrder
  <2>5. ASSUME NEW i \in 1 .. n
        PROVE  /\ queue'[i].type = "result" => Announced(i - 1)'
               /\ queue'[i].type = "phase" => queue'[i].windowIndex < queue'[i].maxWindows
    <3>1. /\ i + 1 \in DOMAIN queue /\ queue'[i] = queue[i + 1] /\ (i + 1) - 1 = i
          /\ i - 1 \in 0 .. n /\ (i - 1) + 1 = i
      BY <1>1, <1>2
    <3>2. /\ queue[i + 1].type = "result" => Announced(i)
          /\ queue[i + 1].type = "phase" => queue[i + 1].windowIndex < queue[i + 1].maxWindows
      BY <3>1 DEF MessagesInOrder
    <3>3. Announced(i) => Announced(i - 1)'
      BY <2>3, <3>1
    <3>. QED  BY <3>1, <3>2, <3>3
  <2>6. MessagesInOrder'
    BY <1>2, <2>4, <2>5 DEF MessagesInOrder
  <2>7. TypeOK'
    BY <1>2, <2>2 DEF TypeOK
  <2>8. BarInItsPortion'
    BY <2>2 DEF BarInItsPortion
  <2>. QED  BY <2>6, <2>7, <2>8, WindowsStay
<1>4. CASE Head(queue).type # "phase"
  <2>1. /\ model' \in Bar /\ model'.windowIndex < model'.maxWindows /\ model'.measuring
    <3>1. model \in Bar /\ 0 \in 0 .. 2 /\ model.windowIndex < model.maxWindows
      BY DEF TypeOK
    <3>2. model' \in Bar
      BY <1>4, <3>1 DEF noteMeasureStart, Bar
    <3>3. model'.windowIndex = model.windowIndex /\ model'.maxWindows = model.maxWindows
      BY <1>4, <3>1 DEF noteMeasureStart, Bar
    <3>4. model'.measuring
      BY <1>4, <3>1 DEF noteMeasureStart, Bar
    <3>. QED  BY <3>1, <3>2, <3>3, <3>4
  <2>2. \A i \in 1 .. n : queue'[i].type = "phase" => queue'[i].windowIndex < queue'[i].maxWindows
    <3>. TAKE i \in 1 .. n
    <3>1. i + 1 \in DOMAIN queue /\ queue'[i] = queue[i + 1]
      BY <1>1, <1>2
    <3>. QED  BY <3>1 DEF MessagesInOrder
  <2>3. MessagesInOrder'
    BY <1>2, <2>1, <2>2 DEF MessagesInOrder, Announced
  <2>4. TypeOK'
    BY <1>2, <2>1 DEF TypeOK
  <2>5. BarInItsPortion'
    BY <2>1 DEF BarInItsPortion
  <2>. QED  BY <2>3, <2>4, <2>5, WindowsStay
<1>. QED  BY <1>3, <1>4

LEMMA NextKeeps == IInv /\ [Next]_vars => IInv'
<1>. SUFFICES ASSUME IInv, [Next]_vars PROVE IInv'
  OBVIOUS
<1>1. CASE WorkerStep
  BY <1>1, StartRampingKeeps, LoadingFailsKeeps, RampWindowFailsKeeps, MeasureEndsKeeps,
     RampWindowEndsKeeps DEF WorkerStep
<1>2. CASE ProgressTick
  BY <1>2, ProgressTickKeeps
<1>3. CASE onMessage
  <2>1. CASE Head(queue).type \in {"phase", "measureStart"}
    BY <1>3, <2>1, HeardKeeps DEF onMessage
  <2>2. CASE Head(queue).type \notin {"phase", "measureStart"}
    BY <1>3, <2>2, SettleKeeps DEF onMessage
  <2>. QED  BY <2>1, <2>2
<1>4. CASE Interrupted
  BY <1>4, SettleKeeps DEF Interrupted
<1>5. CASE UNCHANGED vars
  <2>1. TypeOK' /\ MessagesInOrder' /\ BarInItsPortion'
    BY <1>5 DEF IInv, vars, TypeOK, MessagesInOrder, Announced, BarInItsPortion
  <2>. QED  BY <1>5, <2>1, WindowsStay DEF IInv, vars
<1>. QED  BY <1>1, <1>2, <1>3, <1>4, <1>5 DEF Next

LEMMA Inductive == Spec => []IInv
BY InitEstablishes, NextKeeps, PTL DEF Spec

-----------------------------------------------------------------------------
(* What the invariant gives. *)

\* Whatever its windows report, the worker announces enough windows for its
\* cap, and the bar stays a percentage (maxWindows, directionProgressPercent).
THEOREM TypeCorrect == Spec => []TypeOK
<1>1. IInv => TypeOK
  BY DEF IInv
<1>. QED  BY <1>1, Inductive, PTL

\* For any cap, threshold and speeds, the measured window runs with the count
\* of the first of the fastest ramp windows (runAdaptiveHTTPTest's best).
THEOREM MeasuresTheBest == Spec => []MeasuresBest
<1>1. IInv => MeasuresBest
  BY DEF IInv
<1>. QED  BY <1>1, Inductive, PTL

\* For any cap, threshold and speeds, the ramp doubles until its first window
\* that is capped, gains too little or fails after a useful one, and ends there
\* (shouldStopRamping, nextStreamCount).
THEOREM RampEndsForAReason == Spec => []RampStopsForAReason
<1>1. IInv => RampStopsForAReason
  BY DEF IInv
<1>. QED  BY <1>1, Inductive, PTL

-----------------------------------------------------------------------------
(* Refinement: the page's view of the direction is one of DirectionPhase. *)

\* A tick of the interval advances the bar within the stage's limit.
LEMMA TickAdvances == IInv /\ IInv' /\ ProgressTick => Direction!Advance
<1>. SUFFICES ASSUME IInv, IInv', ProgressTick PROVE Direction!Advance
  OBVIOUS
<1>1. PICK e \in model.elapsed .. 2 :
        model' = [[model EXCEPT !.elapsed = e] EXCEPT
                    !.highWaterMark = directionProgressPercent([model EXCEPT !.elapsed = e])]
  BY DEF ProgressTick
<1>2. outcome = "none" /\ outcome' = "none"
  BY DEF ProgressTick
<1>3. model \in Bar /\ model' \in Bar
  BY DEF IInv, TypeOK
<1>4. model'.measuring = model.measuring
  BY <1>1, <1>3, Zenon DEF Bar
<1>5. model.highWaterMark \in 0 .. 100 /\ model'.highWaterMark \in 0 .. 100
  BY <1>3 DEF Bar
<1>6. model.highWaterMark <= model'.highWaterMark
  <2>. DEFINE b == [model EXCEPT !.elapsed = e]
  <2>1. model'.highWaterMark = Greater(b.highWaterMark, progressPercent(b))
    BY <1>1, <1>3 DEF Bar, directionProgressPercent
  <2>2. b \in Bar /\ b.highWaterMark = model.highWaterMark
    BY <1>3 DEF Bar
  <2>3. b.windowIndex < b.maxWindows
    BY <1>3 DEF Bar, IInv, TypeOK
  <2>. HIDE DEF b
  <2>4. progressPercent(b) \in 0 .. 100
    BY <2>2, <2>3, PercentInRange
  <2>. QED  BY <1>5, <2>1, <2>2, <2>4 DEF Greater
<1>7. ~ model.measuring => model'.highWaterMark <= RampPortion
  BY <1>2, <1>4 DEF IInv, BarInItsPortion
<1>8. Stage' = Stage /\ Stage = IF model.measuring THEN "measuring" ELSE "ramping"
  BY <1>2, <1>4, Zenon DEF Stage
<1>9. model'.highWaterMark \in
        model.highWaterMark .. (IF Stage = "ramping" THEN RampPortion ELSE 100)
  <2>1. CASE model.measuring
    BY <1>5, <1>6, <1>8, <2>1
  <2>2. CASE ~ model.measuring
    BY <1>5, <1>6, <1>7, <1>8, <2>2, RampAssumption
  <2>. QED  BY <2>1, <2>2
<1>10. Stage \in {"ramping", "measuring"}
  BY <1>8
<1>. QED  BY <1>8, <1>9, <1>10 DEF Direction!Advance, Direction!Limit

\* A settled run is a direction that failed, or succeeded after measuring.
LEMMA SettlingEnds ==
  ASSUME IInv, outcome = "none"
  PROVE  /\ Settle("failed") /\ model' = model => Direction!Fail
         /\ Settle("ok") /\ model' = [model EXCEPT !.highWaterMark = 100] /\ model.measuring
              => Direction!Succeed
<1>1. ASSUME Settle("failed"), model' = model
      PROVE  Direction!Fail
  <2>1. Stage \in {"ramping", "measuring"}
    BY DEF Stage
  <2>2. Stage' = "failed" /\ model'.highWaterMark = model.highWaterMark
    BY <1>1 DEF Stage, Settle
  <2>. QED  BY <2>1, <2>2 DEF Direction!Fail
<1>2. ASSUME Settle("ok"), model' = [model EXCEPT !.highWaterMark = 100], model.measuring
      PROVE  Direction!Succeed
  <2>1. Stage = "measuring" /\ Stage' = "ok"
    BY <1>2 DEF Stage, Settle
  <2>2. model'.highWaterMark = 100
    BY <1>2 DEF IInv, TypeOK, Bar
  <2>. QED  BY <2>1, <2>2 DEF Direction!Succeed
<1>. QED  BY <1>1, <1>2

\* The page hears of the ramp or of the measurement, or settles.
LEMMA MessagesMove == IInv /\ onMessage => [Direction!Next]_(Direction!vars)
<1>. SUFFICES ASSUME IInv, onMessage PROVE [Direction!Next]_(Direction!vars)
  OBVIOUS
<1>1. outcome = "none" /\ queue # <<>> /\ Head(queue) = queue[1] /\ 1 \in DOMAIN queue
  BY DEF onMessage, IInv, TypeOK
<1>2. CASE Head(queue).type = "phase"
  <2>1. model' = [model EXCEPT !.windowIndex = Head(queue).windowIndex,
                               !.maxWindows = Head(queue).maxWindows, !.elapsed = 0]
        /\ outcome' = outcome
    BY <1>2 DEF onMessage, noteRampWindow
  <2>2. model \in Bar
    BY DEF IInv, TypeOK
  <2>3. model'.highWaterMark = model.highWaterMark
    BY <2>1, <2>2 DEF Bar
  <2>4. model'.measuring = model.measuring
    BY <2>1, <2>2, Zenon DEF Bar
  <2>5. Stage' = Stage
    BY <2>1, <2>4, Zenon DEF Stage
  <2>. QED  BY <2>3, <2>5 DEF Direction!vars
<1>3. CASE Head(queue).type = "measureStart"
  <2>1. model' = [model EXCEPT !.measuring = TRUE, !.elapsed = 0] /\ outcome' = outcome
    BY <1>3 DEF onMessage, noteMeasureStart
  <2>2. model \in Bar
    BY DEF IInv, TypeOK
  <2>3. model'.highWaterMark = model.highWaterMark /\ model'.measuring
    BY <2>1, <2>2 DEF Bar
  <2>4. Stage' = "measuring" /\ Stage \in {"measuring", "ramping"}
    BY <1>1, <2>1, <2>3 DEF Stage
  <2>. QED  BY <2>3, <2>4 DEF Direction!vars, Direction!Next, Direction!Measure
<1>4. CASE Head(queue).type = "result"
  <2>1. Settle("ok") /\ model' = [model EXCEPT !.highWaterMark = 100]
    BY <1>4 DEF onMessage
  <2>2. Announced(1 - 1)
    BY <1>1, <1>4 DEF IInv, MessagesInOrder
  <2>3. model.measuring
    BY <2>2 DEF Announced
  <2>. QED  BY <1>1, <2>1, <2>3, SettlingEnds DEF Direction!Next
<1>5. CASE Head(queue).type \notin {"phase", "measureStart", "result"}
  <2>1. Settle("failed") /\ model' = model
    BY <1>5 DEF onMessage
  <2>. QED  BY <1>1, <2>1, SettlingEnds DEF Direction!Next
<1>. QED  BY <1>2, <1>3, <1>4, <1>5

LEMMA StepsOfDirection == IInv /\ IInv' /\ [Next]_vars => [Direction!Next]_(Direction!vars)
<1>. SUFFICES ASSUME IInv, IInv', [Next]_vars PROVE [Direction!Next]_(Direction!vars)
  OBVIOUS
<1>1. CASE WorkerStep \/ UNCHANGED vars
  \* The page does nothing, and it is all that is seen.
  <2>1. outcome' = outcome /\ model' = model
    BY <1>1 DEF WorkerStep, StartRamping, LoadingFails, RampWindowFails, RampWindowEnds,
                MeasureEnds, MeasureFails, Page, vars
  <2>. QED  BY <2>1 DEF Stage, Direction!vars
<1>2. CASE ProgressTick
  BY <1>2, TickAdvances DEF Direction!Next
<1>3. CASE onMessage
  BY <1>3, MessagesMove
<1>4. CASE Interrupted
  BY <1>4, SettlingEnds DEF Interrupted, Direction!Next
<1>. QED  BY <1>1, <1>2, <1>3, <1>4 DEF Next

\* The safety part of ImplementsDirection, for any caps, threshold and speeds:
\* the bar never goes back or leaves the ramp's portion early, and a result
\* follows a measurement (onMessage, directionProgressPercent).
THEOREM BarKeepsItsPromise ==
  Spec => Direction!Init /\ [][Direction!Next]_(Direction!vars)
<1>1. Init => Direction!Init
  BY DEF Init, Direction!Init, Stage, createDirectionProgressModel
<1>. QED  BY <1>1, Inductive, StepsOfDirection, PTL DEF Spec
================================================================================
