------------------------------ MODULE AdmittedRate ------------------------------
(***************************************************************************)
(* What the rate limiter's configuration promises, in requests: how many   *)
(* are admitted in any stretch of time.  RateLimiter with history          *)
(* variables that count from a moment chosen freely, and the bound that    *)
(* follows from its implementing TokenBuckets.                             *)
(***************************************************************************)
EXTENDS RateLimiter_proofs

VARIABLES from,        \* since when it is counted
          admitted,    \* requests admitted since
          admittedOf   \* those of each address

history == <<from, admitted, admittedOf>>

HInit == Init /\ from = 0 /\ admitted = 0 /\ admittedOf = [i \in IPs |-> 0]

Counted(c) ==
  /\ Allowed(c)
  /\ admitted' = admitted + 1
  /\ admittedOf' = [admittedOf EXCEPT ![call[c].ip] = @ + 1]
  /\ UNCHANGED from

Uncounted ==
  /\ \/ Clock
     \/ \E c \in Callers : Call(c) \/ GlobalExhausted(c) \/ TableFull(c) \/ IPExhausted(c)
  /\ UNCHANGED history

\* Counting may start over at any moment; RateLimiter does not notice.
StartCounting ==
  /\ from' = now /\ admitted' = 0 /\ admittedOf' = [i \in IPs |-> 0]
  /\ UNCHANGED vars

HNext == Uncounted \/ StartCounting \/ \E c \in Callers : Counted(c)

HSpec == HInit /\ [][HNext]_<<vars, history>>

\* In any stretch of time no more is admitted than a full bucket, what may be
\* kept above it and what the stretch brings: by everybody together and by each
\* address, whatever is evicted from the table meanwhile (Allow).
AtMostTheRate ==
  /\ Minute * admitted <= Brim(GlobalRateLimit) + GlobalRateLimit * (now - from)
  /\ \A i \in IPs :
       Minute * admittedOf[i] <= Brim(RateLimitPerIP) + RateLimitPerIP * (now - from)

-----------------------------------------------------------------------------
(* The inductive invariant: what was admitted is missing from the buckets. *)

Missing(n, level, rate) == Minute * n + level <= Brim(rate) + rate * (now - from)

HInv ==
  /\ IInv
  /\ from \in 0 .. now /\ admitted \in Nat /\ admittedOf \in [IPs -> Nat]
  /\ Missing(admitted, Level(global, GlobalRateLimit), GlobalRateLimit)
  /\ \A i \in IPs : Missing(admittedOf[i], Budget[i], RateLimitPerIP)

LEMMA Levels ==
  ASSUME NEW rate, Rate(rate), now \in Nat, NEW b \in Bucket(rate)
  PROVE  /\ Brim(rate) \in Nat
         /\ Level(b, rate) \in Nat /\ Level(b, rate) <= Brim(rate)
<1>1. rate \in Nat \ {0} /\ Minute \in Nat \ {0} /\ Second \in Nat \ {0}
  BY Rates DEF Rate
<1>2. Brim(rate) \in Nat
  <2>1. Minute * rate \in Nat /\ rate * Second \in Nat
    BY <1>1
  <2>. QED  BY <1>1, <2>1 DEF Brim
<1>3. b.tokens * Minute \in Nat /\ rate * (now - b.lastRefill) \in Nat
  BY <1>1, BucketFields
<1>. QED  BY <1>2, <1>3 DEF Level

LevelsInRange ==
  /\ Brim(GlobalRateLimit) \in Nat /\ Brim(RateLimitPerIP) \in Nat
  /\ Level(global, GlobalRateLimit) \in Nat
  /\ Level(global, GlobalRateLimit) <= Brim(GlobalRateLimit)
  /\ \A i \in IPs : Budget[i] \in Nat /\ Budget[i] <= Brim(RateLimitPerIP)

LEMMA LevelsOfState == IInv => LevelsInRange
<1>. SUFFICES ASSUME IInv PROVE LevelsInRange
  OBVIOUS
<1>1. now \in Nat /\ global \in Bucket(GlobalRateLimit)
  BY RateAssumption DEF IInv, TypeOK
<1>2. /\ Brim(GlobalRateLimit) \in Nat /\ Level(global, GlobalRateLimit) \in Nat
      /\ Level(global, GlobalRateLimit) <= Brim(GlobalRateLimit)
  BY <1>1, Rates, Levels
<1>3. Brim(RateLimitPerIP) \in Nat
  <2>1. [tokens |-> 0, lastRefill |-> 0] \in Bucket(RateLimitPerIP)
    BY <1>1, Rates DEF Bucket, Rate
  <2>. QED  BY <1>1, <2>1, Rates, Levels
<1>4. ASSUME NEW i \in IPs
      PROVE  Budget[i] \in Nat /\ Budget[i] <= Brim(RateLimitPerIP)
  <2>1. limit[i] \in Bucket(RateLimitPerIP)
    BY DEF IInv, TypeOK
  <2>2. /\ Level(limit[i], RateLimitPerIP) \in Nat
        /\ Level(limit[i], RateLimitPerIP) <= Brim(RateLimitPerIP)
    BY <1>1, <2>1, Rates, Levels
  <2>. QED  BY <1>3, <2>2 DEF Budget
<1>. QED  BY <1>2, <1>3, <1>4 DEF LevelsInRange

\* Nothing is missing from a bucket when the counting starts.
LEMMA NothingMissing ==
  ASSUME NEW rate \in Nat, NEW level \in Nat, Brim(rate) \in Nat, level <= Brim(rate), from = now,
         now \in Nat
  PROVE  Missing(0, level, rate)
<1>1. Minute * 0 = 0 /\ rate * (now - from) = 0
  BY Rates
<1>. QED  BY <1>1 DEF Missing

\* What a bucket loses or gains, and what time brings.
LEMMA MissingMoves ==
  ASSUME NEW rate \in Nat, NEW n \in Nat, NEW brim \in Nat, NEW e \in Nat,
         NEW level \in Nat, NEW later \in Nat, Minute * n + level <= brim + rate * e
  PROVE  /\ later <= level => Minute * n + later <= brim + rate * e
         /\ later + Minute <= level => Minute * (n + 1) + later <= brim + rate * e
         /\ later <= level + rate => Minute * n + later <= brim + rate * (e + 1)
<1>1. Minute \in Nat
  BY Rates
<1>2. PICK mn \in Nat, re \in Nat : mn = Minute * n /\ re = rate * e
  BY <1>1
<1>3. Minute * (n + 1) = mn + Minute /\ rate * (e + 1) = re + rate
  BY <1>1, <1>2
<1>. QED  BY <1>1, <1>2, <1>3

\* The same, from a state to the next.
LEMMA MissingNext ==
  ASSUME now \in Nat, from \in 0 .. now, from' = from, NEW rate \in Nat, Brim(rate) \in Nat,
         NEW n \in Nat, NEW level \in Nat, NEW later \in Nat, NEW m, Missing(n, level, rate),
         \/ now' = now /\ m = n /\ later <= level
         \/ now' = now /\ m = n + 1 /\ later + Minute <= level
         \/ now' = now + 1 /\ m = n /\ later <= level + rate
  PROVE  Minute * m + later <= Brim(rate) + rate * (now' - from')
<1>1. PICK e \in Nat : e = now - from
  OBVIOUS
<1>2. PICK brim \in Nat : brim = Brim(rate)
  OBVIOUS
<1>3. Minute * n + level <= brim + rate * e
  BY <1>1, <1>2 DEF Missing
<1>4. now' = now + 1 => now' - from' = e + 1
  BY <1>1
<1>. QED  BY <1>1, <1>2, <1>3, <1>4, MissingMoves

LEMMA HInitEstablishes == HInit => HInv
<1>. SUFFICES ASSUME HInit PROVE HInv
  OBVIOUS
<1>1. IInv
  BY InitEstablishes DEF HInit
<1>2. now = 0 /\ from = 0 /\ admitted = 0 /\ admittedOf = [i \in IPs |-> 0]
  BY DEF HInit, Init
<1>. QED  BY <1>1, <1>2, LevelsOfState, NothingMissing, RateAssumption DEF LevelsInRange, HInv

\* In the state after a step, the levels are within range as well.
LEMMA LevelsNext == IInv' => LevelsInRange'
BY LevelsOfState, PTL

\* What TokenBuckets lets a step do to a bucket.
LEMMA SettledIsLess ==
  ASSUME NEW b \in Nat, NEW rate \in Nat, NEW x \in Buckets!Settled(b, rate)
  PROVE  x <= b
<1>1. Buckets!Full(rate) \in Int
  BY Rates DEF Buckets!Full
<1>. QED  BY <1>1 DEF Buckets!Settled

LEMMA PouredIsBounded ==
  ASSUME NEW b \in Nat, NEW rate \in Nat, Brim(rate) \in Nat
  PROVE  Buckets!Poured(b, rate) <= b + rate
<1>1. Brim(rate) = Buckets!Brim(rate)
  BY Rates DEF Brim, Buckets!Brim, Buckets!Full, Buckets!Slack
<1>. QED  BY <1>1 DEF Buckets!Poured

\* A step that admits nobody brings no more than time does.
LEMMA UncountedKeeps ==
  ASSUME HInv, IInv', Uncounted
  PROVE  HInv'
<1>0. /\ Brim(GlobalRateLimit) \in Nat /\ Brim(RateLimitPerIP) \in Nat
      /\ Level(global, GlobalRateLimit) \in Nat /\ Level(global, GlobalRateLimit)' \in Nat
      /\ \A i \in IPs : Budget[i] \in Nat /\ Budget'[i] \in Nat
  BY LevelsOfState, LevelsNext DEF LevelsInRange, HInv
<1>1. /\ from' = from /\ admitted' = admitted /\ admittedOf' = admittedOf
      /\ now \in Nat /\ from \in 0 .. now
      /\ RateLimitPerIP \in Nat /\ GlobalRateLimit \in Nat
      /\ admitted \in Nat /\ admittedOf \in [IPs -> Nat]
  BY RateAssumption DEF Uncounted, history, HInv, IInv, TypeOK
<1>2. \/ now' = now + 1 /\ Buckets!Tick
      \/ now' = now /\ \E c \in Callers : Buckets!Call(c) \/ Buckets!Limit(c)
  <2>1. ASSUME Clock PROVE now' = now + 1 /\ Buckets!Tick
    BY <2>1, ClockIsTick DEF Clock, HInv
  <2>2. ASSUME NEW c \in Callers, Call(c)
        PROVE  now' = now /\ Buckets!Call(c)
    <3>1. /\ Level(global, GlobalRateLimit)' = Level(global, GlobalRateLimit)
          /\ Budget' = Budget
      BY <2>2 DEF Call, Level, Brim, Budget
    <3>. QED  BY <2>2, <3>1 DEF Call, Buckets!Call
  <2>3. ASSUME NEW c \in Callers, GlobalExhausted(c) \/ TableFull(c) \/ IPExhausted(c)
        PROVE  now' = now /\ Buckets!Limit(c)
    <3>1. now' = now
      BY <2>3 DEF GlobalExhausted, TableFull, IPExhausted, PastGlobal
    <3>. QED  BY <2>3, <3>1, GlobalExhaustedIsLimit, TableFullIsLimit, IPExhaustedIsLimit
              DEF HInv
  <2>. QED  BY <2>1, <2>2, <2>3 DEF Uncounted
<1>3. \/ /\ now' = now + 1
         /\ Level(global, GlobalRateLimit)' <= Level(global, GlobalRateLimit) + GlobalRateLimit
         /\ \A i \in IPs : Budget'[i] <= Budget[i] + RateLimitPerIP
      \/ /\ now' = now
         /\ Level(global, GlobalRateLimit)' <= Level(global, GlobalRateLimit)
         /\ \A i \in IPs : Budget'[i] <= Budget[i]
  <2>1. ASSUME Buckets!Tick
        PROVE  /\ Level(global, GlobalRateLimit)'
                    <= Level(global, GlobalRateLimit) + GlobalRateLimit
               /\ \A i \in IPs : Budget'[i] <= Budget[i] + RateLimitPerIP
    <3>1. /\ Level(global, GlobalRateLimit)'
               = Buckets!Poured(Level(global, GlobalRateLimit), GlobalRateLimit)
          /\ \A i \in IPs : Budget'[i] = Buckets!Poured(Budget[i], RateLimitPerIP)
      BY <2>1 DEF Buckets!Tick
    <3>. QED  BY <1>0, <1>1, <3>1, PouredIsBounded
  <2>2. ASSUME NEW c \in Callers, Buckets!Call(c) \/ Buckets!Limit(c)
        PROVE  /\ Level(global, GlobalRateLimit)' <= Level(global, GlobalRateLimit)
               /\ \A i \in IPs : Budget'[i] <= Budget[i]
    <3>1. /\ \/ Level(global, GlobalRateLimit)' = Level(global, GlobalRateLimit)
             \/ Level(global, GlobalRateLimit)'
                  \in Buckets!Settled(Level(global, GlobalRateLimit), GlobalRateLimit)
          /\ Budget' = Budget
      BY <2>2 DEF Buckets!Call, Buckets!Limit
    <3>. QED  BY <1>0, <1>1, <3>1, SettledIsLess
  <2>. QED  BY <1>2, <2>1, <2>2
<1>4. from' \in 0 .. now'
  BY <1>1, <1>3
<1>5. Minute * admitted' + Level(global, GlobalRateLimit)'
        <= Brim(GlobalRateLimit) + GlobalRateLimit * (now' - from')
  BY <1>0, <1>1, <1>3, MissingNext DEF HInv
<1>6. ASSUME NEW i \in IPs
      PROVE  Minute * admittedOf'[i] + Budget'[i]
               <= Brim(RateLimitPerIP) + RateLimitPerIP * (now' - from')
  BY <1>0, <1>1, <1>3, MissingNext DEF HInv
<1>. QED  BY <1>1, <1>4, <1>5, <1>6 DEF HInv, Missing, Brim

\* An admitted request is counted, and missing from both buckets.
LEMMA CountedKeeps ==
  ASSUME HInv, IInv', NEW c \in Callers, Counted(c)
  PROVE  HInv'
<1>0. /\ Brim(GlobalRateLimit) \in Nat /\ Brim(RateLimitPerIP) \in Nat
      /\ Level(global, GlobalRateLimit) \in Nat /\ Level(global, GlobalRateLimit)' \in Nat
      /\ \A i \in IPs : Budget[i] \in Nat /\ Budget'[i] \in Nat
  BY LevelsOfState, LevelsNext DEF LevelsInRange, HInv
<1>1. /\ from' = from /\ admitted' = admitted + 1 /\ now' = now
      /\ now \in Nat /\ from \in 0 .. now /\ Minute \in Nat
      /\ RateLimitPerIP \in Nat /\ GlobalRateLimit \in Nat
      /\ admitted \in Nat /\ admittedOf \in [IPs -> Nat]
  BY RateAssumption DEF Counted, Allowed, PastGlobal, HInv, IInv, TypeOK
<1>2. PICK ip \in IPs : ip = call[c].ip
  BY CallsTyped DEF HInv, IInv
<1>3. /\ admittedOf' \in [IPs -> Nat] /\ admittedOf'[ip] = admittedOf[ip] + 1
      /\ \A i \in IPs \ {ip} : admittedOf'[i] = admittedOf[i]
  BY <1>1, <1>2 DEF Counted
<1>4. Buckets!Admit(c)
  BY AllowedIsAdmit DEF Counted, HInv
<1>5. Level(global, GlobalRateLimit)' + Minute <= Level(global, GlobalRateLimit)
  <2>1. Level(global, GlobalRateLimit)' + Minute
          \in Buckets!Settled(Level(global, GlobalRateLimit), GlobalRateLimit)
    BY <1>4 DEF Buckets!Admit
  <2>. QED  BY <1>0, <1>1, <2>1, SettledIsLess
<1>6. Budget'[ip] + Minute <= Budget[ip]
  <2>1. Budget'[ip] + Minute \in Buckets!Settled(Budget[ip], RateLimitPerIP)
    BY <1>2, <1>4 DEF Buckets!Admit
  <2>. QED  BY <1>0, <1>1, <1>2, <2>1, SettledIsLess
<1>7. ASSUME NEW i \in IPs \ {ip}
      PROVE  Budget'[i] = Budget[i]
  BY <1>2, <1>4 DEF Buckets!Admit, Budget
<1>8. Minute * admitted' + Level(global, GlobalRateLimit)'
        <= Brim(GlobalRateLimit) + GlobalRateLimit * (now' - from')
  BY <1>0, <1>1, <1>5, MissingNext DEF HInv
<1>9. ASSUME NEW i \in IPs
      PROVE  Minute * admittedOf'[i] + Budget'[i]
               <= Brim(RateLimitPerIP) + RateLimitPerIP * (now' - from')
  <2>1. Missing(admittedOf[i], Budget[i], RateLimitPerIP) /\ admittedOf[i] \in Nat
    BY DEF HInv
  <2>2. \/ admittedOf'[i] = admittedOf[i] /\ Budget'[i] <= Budget[i]
        \/ admittedOf'[i] = admittedOf[i] + 1 /\ Budget'[i] + Minute <= Budget[i]
    BY <1>0, <1>2, <1>3, <1>6, <1>7
  <2>. QED  BY <1>0, <1>1, <2>1, <2>2, MissingNext
<1>. QED  BY <1>1, <1>3, <1>8, <1>9 DEF HInv, Missing, Brim

LEMMA HNextKeeps == HInv /\ [HNext]_<<vars, history>> => HInv'
<1>. SUFFICES ASSUME HInv, [HNext]_<<vars, history>> PROVE HInv'
  OBVIOUS
<1>1. IInv'
  <2>1. [Next]_vars
    BY DEF HNext, Uncounted, StartCounting, Counted, Next
  <2>. QED  BY <2>1, NextKeeps DEF HInv
<1>2. CASE Uncounted
  BY <1>1, <1>2, UncountedKeeps
<1>3. CASE \E c \in Callers : Counted(c)
  BY <1>1, <1>3, CountedKeeps
<1>4. CASE StartCounting
  <2>1. /\ from' = now /\ admitted' = 0 /\ admittedOf' = [i \in IPs |-> 0]
        /\ now' = now /\ now \in Nat
        /\ RateLimitPerIP \in Nat /\ GlobalRateLimit \in Nat
    BY <1>4, RateAssumption DEF StartCounting, vars, HInv, IInv, TypeOK
  <2>2. /\ Level(global, GlobalRateLimit)' <= Brim(GlobalRateLimit)
        /\ Brim(GlobalRateLimit) \in Nat /\ Level(global, GlobalRateLimit)' \in Nat
        /\ \A i \in IPs : Budget'[i] <= Brim(RateLimitPerIP) /\ Budget'[i] \in Nat
        /\ Brim(RateLimitPerIP) \in Nat
    BY <1>1, LevelsOfState, LevelsNext DEF LevelsInRange, HInv, Brim
  <2>3. /\ Minute * 0 = 0 /\ now' - from' = 0
        /\ RateLimitPerIP * 0 = 0 /\ GlobalRateLimit * 0 = 0
    BY <2>1, Rates
  <2>4. Minute * admitted' + Level(global, GlobalRateLimit)'
          <= Brim(GlobalRateLimit) + GlobalRateLimit * (now' - from')
    BY <2>1, <2>2, <2>3
  <2>5. ASSUME NEW i \in IPs
        PROVE  Minute * admittedOf'[i] + Budget'[i]
                 <= Brim(RateLimitPerIP) + RateLimitPerIP * (now' - from')
    BY <2>1, <2>2, <2>3
  <2>. QED  BY <1>1, <2>1, <2>4, <2>5 DEF HInv, Missing, Brim
<1>5. CASE UNCHANGED <<vars, history>>
  <2>1. UNCHANGED <<now, global, known, limit, from, admitted, admittedOf>>
    BY <1>5 DEF vars, history
  <2>2. UNCHANGED <<Level(global, GlobalRateLimit), Budget>>
    BY <2>1 DEF Level, Brim, Budget
  <2>. QED  BY <1>1, <2>1, <2>2 DEF HInv, Missing, Brim
<1>. QED  BY <1>2, <1>3, <1>4, <1>5 DEF HNext

\* Counting changes nothing: without the history it is the rate limiter.
LEMMA CountingOnlyWatches == HSpec => Spec
<1>1. HInit => Init
  BY DEF HInit
<1>2. [HNext]_<<vars, history>> => [Next]_vars
  BY DEF HNext, Uncounted, StartCounting, Counted, Next
<1>. QED  BY <1>1, <1>2, PTL DEF HSpec, Spec

\* For any limits, number of addresses and table size, and over every stretch
\* of time: never more admitted than a full bucket, what may be kept above it
\* and what the stretch brings (Allow, refillTokens, cleanupExpiredIPLimits).
THEOREM AdmitsAtMostTheRate == HSpec => []AtMostTheRate
<1>1. HInv => AtMostTheRate
  <2>. SUFFICES ASSUME HInv PROVE AtMostTheRate
    OBVIOUS
  <2>1. /\ Minute \in Nat /\ admitted \in Nat /\ admittedOf \in [IPs -> Nat]
        /\ Level(global, GlobalRateLimit) \in Nat /\ \A i \in IPs : Budget[i] \in Nat
    BY Rates, LevelsOfState DEF LevelsInRange, HInv
  <2>2. /\ Brim(GlobalRateLimit) + GlobalRateLimit * (now - from) \in Int
        /\ Brim(RateLimitPerIP) + RateLimitPerIP * (now - from) \in Int
    BY LevelsOfState, RateAssumption DEF LevelsInRange, HInv, IInv, TypeOK
  <2>3. Minute * admitted \in Nat /\ \A i \in IPs : Minute * admittedOf[i] \in Nat
    BY <2>1
  <2>. QED  BY <2>1, <2>2, <2>3 DEF HInv, Missing, AtMostTheRate
<1>. QED  BY <1>1, HInitEstablishes, HNextKeeps, PTL DEF HSpec
================================================================================
