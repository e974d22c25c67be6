--------------------------- MODULE RateLimiter_proofs ---------------------------
(***************************************************************************)
(* Proofs about RateLimiter: its invariants, and that the lazy buckets and *)
(* the evicting table implement the ideal buckets of TokenBuckets, for any *)
(* addresses, limits, table size and intervals.                            *)
(***************************************************************************)
EXTENDS RateLimiter, FiniteSetTheorems, TLAPS

(* The inductive invariant: no entry that survived the last cleanup had been *)
(* idle for the TTL by then.                                                 *)

EntriesWereFresh == \A i \in known : lastCleanup - limit[i].lastRefill < IPLimitTTL

IInv == TypeOK /\ IsFiniteSet(known) /\ EntriesWereFresh

-----------------------------------------------------------------------------
(* Arithmetic of whole tokens. *)

LEMMA Products ==
  ASSUME NEW a \in Int, NEW b \in Int, NEW c \in Nat
  PROVE  /\ a * c \in Int
         /\ a <= b => a * c <= b * c
         /\ (a + 1) * c = a * c + c
         /\ (a - b) * c = a * c - b * c
         /\ a * c = c * a
OBVIOUS

LEMMA CancelsInOrder ==
  ASSUME NEW a \in Int, NEW b \in Int, NEW c \in Nat \ {0}, a * c < b * c
  PROVE  a < b
BY Products

\* What is left by a division.
LEMMA Quotient ==
  ASSUME NEW a \in Nat, NEW c \in Nat \ {0}
  PROVE  /\ a \div c \in Nat
         /\ (a \div c) * c <= a /\ a < (a \div c) * c + c
OBVIOUS

LEMMA Remainder ==
  ASSUME NEW a \in Nat, NEW c \in Nat \ {0}, a % c = 0
  PROVE  (a \div c) * c = a
OBVIOUS

LEMMA ExactQuotient ==
  ASSUME NEW x \in Nat, NEW c \in Nat \ {0}
  PROVE  (x * c) \div c = x
<1>1. PICK q \in Nat : q = (x * c) \div c /\ q * c <= x * c /\ x * c < q * c + c
  BY Quotient
<1>2. q * c < (x + 1) * c
  BY <1>1
<1>3. x * c < (q + 1) * c
  BY <1>1
<1>4. q < x + 1 /\ x < q + 1
  BY <1>2, <1>3, CancelsInOrder
<1>. QED  BY <1>1, <1>4

-----------------------------------------------------------------------------
(* Refilling a bucket. *)

Rate(r) == r \in Nat \ {0} /\ Minute % r = 0

LEMMA Rates ==
  /\ Rate(RateLimitPerIP) /\ Rate(GlobalRateLimit)
  /\ Minute \in Nat \ {0} /\ Second \in Nat \ {0} /\ Second <= Minute
BY RateAssumption DEF Rate

\* What a bucket holds, in the units of TokenBuckets.
Units(b, rate) == b.tokens * Minute + rate * (now - b.lastRefill)

\* Either not even a token is due, or a whole number of them is added and just
\* the time that made them is consumed.
LEMMA RefillCases ==
  ASSUME NEW rate, Rate(rate), now \in Nat, NEW b \in Bucket(rate),
         NEW e \in Nat, e = now - b.lastRefill
  PROVE  \/ /\ refillTokens(b, rate) = b
            /\ rate * e < Buckets!Slack(rate)
         \/ \E a \in Nat \ {0}, s \in Nat :
              /\ s <= e /\ rate * s = a * Minute
              /\ rate * e < a * Minute + Minute
              /\ refillTokens(b, rate) =
                   [tokens     |-> IF b.tokens + a > rate THEN rate ELSE b.tokens + a,
                    lastRefill |-> b.lastRefill + s]
<1>1. rate \in Nat \ {0} /\ Minute \in Nat \ {0} /\ Second \in Nat \ {0}
  BY Rates DEF Rate
<1>2. e * rate \in Nat /\ e * rate = rate * e
  BY <1>1
<1>3. PICK a \in Nat : /\ a = (e * rate) \div Minute
                       /\ a * Minute <= e * rate /\ e * rate < a * Minute + Minute
  BY <1>1, <1>2, Quotient
<1>4. CASE e < Second \/ a <= 0
  <2>1. refillTokens(b, rate) = b
    BY <1>3, <1>4 DEF refillTokens
  <2>2. e < Second => rate * e < rate * Second
    <3>1. ASSUME e < Second
          PROVE  rate * e < rate * Second
      <4>1. (e + 1) * rate <= Second * rate /\ (e + 1) * rate = e * rate + rate
        BY <1>1, <3>1
      <4>. QED  BY <1>1, <1>2, <4>1
    <3>. QED  BY <3>1
  <2>3. a <= 0 => rate * e < Minute
    <3>1. ASSUME a <= 0
          PROVE  e * rate < Minute
      <4>1. a = 0
        BY <3>1
      <4>2. e * rate < 0 * Minute + Minute
        BY <1>3, <4>1
      <4>3. 0 * Minute + Minute = Minute
        BY <1>1
      <4>. QED  BY <4>2, <4>3
    <3>. QED  BY <1>2, <3>1
  <2>4. rate * e < Buckets!Slack(rate)
    <3>1. rate * Second \in Nat
      BY <1>1
    <3>. QED  BY <1>1, <1>2, <1>4, <2>2, <2>3, <3>1 DEF Buckets!Slack
  <2>. QED  BY <2>1, <2>4
<1>5. CASE ~ (e < Second \/ a <= 0)
  <2>1. PICK k \in Nat : k * rate = Minute
    BY <1>1, Quotient, Remainder DEF Rate
  <2>2. PICK s \in Nat : s = a * k
    OBVIOUS
  <2>3. s * rate = a * Minute
    BY <1>1, <2>1, <2>2
  <2>4. (a * Minute) \div rate = s
    BY <1>1, <2>3, ExactQuotient
  <2>5. s <= e
    <3>1. s * rate < (e + 1) * rate
      BY <1>1, <1>2, <1>3, <2>3
    <3>. QED  BY <1>1, <3>1, CancelsInOrder
  <2>6. refillTokens(b, rate) =
          [tokens     |-> IF b.tokens + a > rate THEN rate ELSE b.tokens + a,
           lastRefill |-> b.lastRefill + s]
    BY <1>3, <1>5, <2>4 DEF refillTokens
  <2>7. a \in Nat \ {0} /\ rate * s = a * Minute
    BY <1>1, <1>5, <2>3
  <2>. QED  BY <1>2, <1>3, <2>5, <2>6, <2>7
<1>. QED  BY <1>4, <1>5

\* What is in a bucket of its kind, and the time since its refill.
LEMMA BucketFields ==
  ASSUME NEW rate, Rate(rate), now \in Nat, NEW b \in Bucket(rate)
  PROVE  /\ b.tokens \in Nat /\ b.tokens <= rate
         /\ b.lastRefill \in Nat /\ b.lastRefill <= now
         /\ now - b.lastRefill \in Nat
<1>1. b.tokens \in 0 .. rate /\ b.lastRefill \in 0 .. now /\ rate \in Nat
  BY DEF Bucket, Rate
<1>. QED  BY <1>1

\* Refilled, a bucket holds what it held, but for what was above a full one;
\* and it is empty only if it was, with nothing due.
LEMMA RefillSettles ==
  ASSUME NEW rate, Rate(rate), now \in Nat, NEW b \in Bucket(rate),
         NEW g, g = refillTokens(b, rate)
  PROVE  /\ g \in Bucket(rate) /\ b.lastRefill <= g.lastRefill
         /\ Units(g, rate) \in Nat /\ Units(g, rate) <= Brim(rate)
         /\ Units(g, rate) \in Buckets!Settled(Level(b, rate), rate)
         /\ g.tokens <= 0 => g = b /\ Units(b, rate) < Buckets!Slack(rate)
<1>1. rate \in Nat \ {0} /\ Minute \in Nat \ {0} /\ Second \in Nat \ {0}
  BY Rates DEF Rate
<1>2. PICK t \in 0 .. rate, e \in Nat : t = b.tokens /\ e = now - b.lastRefill
  BY <1>1, BucketFields
<1>3. PICK slack \in Nat : /\ slack = Buckets!Slack(rate) /\ slack >= Minute
                           /\ Brim(rate) = Minute * rate - 1 + slack
  <2>1. rate * Second \in Nat
    BY <1>1
  <2>. QED  BY <1>1, <2>1 DEF Buckets!Slack, Brim
<1>4. PICK full \in Nat : /\ full = Minute * rate /\ full = Buckets!Full(rate)
                          /\ full = rate * Minute
  BY <1>1 DEF Buckets!Full
<1>5. PICK re \in Nat, tm \in Nat :
        re = rate * e /\ tm = t * Minute /\ tm <= full /\ Units(b, rate) = tm + re
  BY <1>1, <1>2, <1>4, Products DEF Units
<1>6. Level(b, rate) = IF tm + re > Brim(rate) THEN Brim(rate) ELSE tm + re
  BY <1>5 DEF Level, Units
<1>7. CASE g = b /\ re < slack
  <2>1. tm + re <= Brim(rate)
    BY <1>3, <1>4, <1>5, <1>7
  <2>2. Level(b, rate) = Units(g, rate)
    BY <1>1, <1>3, <1>4, <1>5, <1>6, <1>7, <2>1
  <2>3. g.tokens <= 0 => tm = 0
    BY <1>1, <1>2, <1>5, <1>7
  <2>. QED  BY <1>3, <1>5, <1>7, <2>1, <2>2, <2>3, BucketFields DEF Buckets!Settled
<1>8. CASE ~ (g = b /\ re < slack)
  <2>1. PICK a \in Nat \ {0}, s \in Nat :
          /\ s <= e /\ rate * s = a * Minute /\ rate * e < a * Minute + Minute
          /\ g = [tokens     |-> IF b.tokens + a > rate THEN rate ELSE b.tokens + a,
                  lastRefill |-> b.lastRefill + s]
    BY <1>2, <1>3, <1>5, <1>8, RefillCases
  <2>2. PICK u \in 0 .. rate : /\ u = IF t + a > rate THEN rate ELSE t + a
                               /\ u = g.tokens /\ u > 0
    BY <1>1, <1>2, <2>1
  <2>3. g.lastRefill = b.lastRefill + s /\ g = [tokens |-> u, lastRefill |-> b.lastRefill + s]
    BY <1>2, <2>1, <2>2
  <2>4. b.lastRefill + s \in 0 .. now
    BY <1>2, <2>1, BucketFields
  <2>5. g \in Bucket(rate)
    BY <2>2, <2>3, <2>4 DEF Bucket
  <2>6. PICK am \in Nat, um \in Nat :
          am = a * Minute /\ um = u * Minute /\ am <= re /\ re < am + Minute
    <3>1. rate * s <= rate * e
      BY <1>1, <2>1
    <3>. QED  BY <1>1, <1>5, <2>1, <2>2, <3>1
  <2>7. Units(g, rate) = um + (re - am)
    <3>1. now - g.lastRefill = e - s
      BY <1>2, <2>3, BucketFields
    <3>2. rate * (e - s) = rate * e - rate * s
      BY <1>1
    <3>. QED  BY <1>5, <2>1, <2>2, <2>6, <3>1, <3>2 DEF Units
  <2>8. um <= full /\ (um = tm + am \/ (um = full /\ tm + am >= full))
    <3>1. CASE t + a > rate
      <4>1. (t + a) * Minute >= rate * Minute /\ (t + a) * Minute = t * Minute + a * Minute
        BY <1>1, <3>1
      <4>. QED  BY <1>4, <1>5, <2>2, <2>6, <3>1, <4>1
    <3>2. CASE ~ t + a > rate
      <4>1. (t + a) * Minute <= rate * Minute /\ (t + a) * Minute = t * Minute + a * Minute
        BY <1>1, <3>2
      <4>. QED  BY <1>4, <1>5, <2>2, <2>6, <3>2, <4>1
    <3>. QED  BY <3>1, <3>2
  <2>9. /\ Units(g, rate) \in Nat /\ Units(g, rate) <= Brim(rate)
        /\ \/ Units(g, rate) = Level(b, rate)
           \/ Units(g, rate) >= full /\ Units(g, rate) <= Level(b, rate)
    BY <1>1, <1>3, <1>4, <1>6, <2>6, <2>7, <2>8
  <2>10. Units(g, rate) \in Buckets!Settled(Level(b, rate), rate)
    <3>1. Level(b, rate) \in Nat
      BY <1>1, <1>3, <1>4, <1>6
    <3>. QED  BY <1>4, <2>9, <3>1 DEF Buckets!Settled
  <2>. QED  BY <2>2, <2>3, <2>5, <2>9, <2>10, BucketFields
<1>. QED  BY <1>7, <1>8

\* Limits that do not divide the minute, which RateAssumption leaves out: the
\* time a refill consumes is rounded down, and the bucket is ahead by less than
\* what one tick of the clock brings (refillTokens, whose ticks are nanoseconds).
THEOREM RefillGainsLessThanATick ==
  ASSUME NEW rate \in Nat \ {0}, now \in Nat, NEW b \in [tokens : 0 .. rate, lastRefill : 0 .. now],
         NEW g, g = refillTokens(b, rate)
  PROVE  Units(g, rate) < Units(b, rate) + rate
<1>1. Minute \in Nat \ {0}
  BY Rates
<1>2. PICK t \in 0 .. rate, l \in 0 .. now, e \in Nat :
        t = b.tokens /\ l = b.lastRefill /\ e = now - l
  OBVIOUS
<1>3. PICK re \in Nat, tm \in Nat :
        re = rate * e /\ re = e * rate /\ tm = t * Minute /\ Units(b, rate) = tm + re
  BY <1>1, <1>2 DEF Units
<1>4. PICK a \in Nat : a = re \div Minute /\ a = (e * rate) \div Minute
  BY <1>1, <1>3, Quotient
<1>5. CASE g = b
  BY <1>3, <1>5
<1>6. CASE g # b
  <2>1. PICK am \in Nat : am = a * Minute
    BY <1>1
  <2>2. PICK s \in Nat : s = am \div rate /\ s * rate <= am /\ am < s * rate + rate
    BY Quotient
  <2>3. PICK u \in Nat : u <= t + a /\ g = [tokens |-> u, lastRefill |-> l + s]
    <3>1. g = [tokens     |-> IF t + a > rate THEN rate ELSE t + a, lastRefill |-> l + s]
      BY <1>2, <1>4, <1>6, <2>1, <2>2 DEF refillTokens
    <3>2. (IF t + a > rate THEN rate ELSE t + a) \in Nat
          /\ (IF t + a > rate THEN rate ELSE t + a) <= t + a
      BY <1>2
    <3>. QED  BY <3>1, <3>2
  <2>4. g.tokens = u /\ g.lastRefill = l + s
    BY <2>3
  <2>5. PICK um \in Nat : um = u * Minute /\ um <= tm + am
    <3>1. u * Minute <= (t + a) * Minute /\ (t + a) * Minute = t * Minute + a * Minute
      BY <1>1, <2>3
    <3>. QED  BY <1>1, <1>3, <2>1, <2>3, <3>1
  <2>6. PICK rs \in Nat : rs = s * rate /\ rs = rate * s
    OBVIOUS
  <2>7. rate * (now - (l + s)) = re - rs
    <3>1. now - (l + s) = e - s
      BY <1>2
    <3>2. rate * (e - s) = rate * e - rate * s
      OBVIOUS
    <3>. QED  BY <1>3, <2>6, <3>1, <3>2
  <2>8. Units(g, rate) = um + (re - rs)
    BY <2>4, <2>5, <2>7 DEF Units
  <2>. QED  BY <1>3, <2>2, <2>5, <2>6, <2>8
<1>. QED  BY <1>5, <1>6

-----------------------------------------------------------------------------
(* The table. *)

\* The time of the last cleanup, once Allow got past it.
CleanedAt == IF cleanupDue THEN now ELSE lastCleanup

\* What a cleanup leaves was refilled lately; what it drops was not.
LEMMA CleanupDropsIdle ==
  ASSUME IInv, NEW keys, keys = cleanupExpiredIPLimits
  PROVE  /\ keys \subseteq known /\ IsFiniteSet(keys) /\ Cardinality(keys) \in Nat
         /\ Cardinality(keys) <= MaxIPEntries
         /\ keys # known => Cardinality(keys) < MaxIPEntries
         /\ CleanedAt \in 0 .. now
         /\ \A i \in keys : /\ CleanedAt - limit[i].lastRefill < IPLimitTTL
                            /\ now - limit[i].lastRefill < IPLimitTTL + CleanupInterval
         /\ \A i \in known \ keys : now - limit[i].lastRefill >= IPLimitTTL
<1>1. /\ now \in Nat /\ lastCleanup \in 0 .. now /\ known \subseteq IPs
      /\ IPLimitTTL \in Nat /\ CleanupInterval \in Nat \ {0} /\ MaxIPEntries \in Nat
      /\ Cardinality(known) <= MaxIPEntries /\ IsFiniteSet(known)
  BY RateAssumption DEF IInv, TypeOK
<1>2. \A i \in known : limit[i] \in Bucket(RateLimitPerIP)
  BY <1>1 DEF IInv, TypeOK
<1>3. \A i \in known : limit[i].lastRefill \in Nat
  BY <1>1, <1>2, Rates, BucketFields
<1>4. keys \subseteq known
  BY DEF cleanupExpiredIPLimits
<1>5. /\ IsFiniteSet(keys) /\ Cardinality(keys) \in Nat /\ Cardinality(known) \in Nat
      /\ Cardinality(keys) <= Cardinality(known)
      /\ keys # known => Cardinality(keys) < Cardinality(known)
  BY <1>1, <1>4, FS_Subset, FS_CardinalityType
<1>6. CleanedAt \in 0 .. now
  BY <1>1 DEF CleanedAt
<1>7. ASSUME NEW i \in keys
      PROVE  /\ CleanedAt - limit[i].lastRefill < IPLimitTTL
             /\ now - limit[i].lastRefill < IPLimitTTL + CleanupInterval
  <2>1. limit[i].lastRefill \in Nat /\ lastCleanup - limit[i].lastRefill < IPLimitTTL
    BY <1>3, <1>4 DEF IInv, EntriesWereFresh
  <2>2. CASE cleanupDue
    BY <1>1, <2>1, <2>2 DEF CleanedAt, cleanupExpiredIPLimits
  <2>3. CASE ~ cleanupDue
    BY <1>1, <2>1, <2>3 DEF CleanedAt, cleanupDue
  <2>. QED  BY <2>2, <2>3
<1>8. ASSUME NEW i \in known \ keys
      PROVE  now - limit[i].lastRefill >= IPLimitTTL
  BY <1>1, <1>3, <1>8 DEF cleanupExpiredIPLimits
<1>. QED  BY <1>1, <1>4, <1>5, <1>6, <1>7, <1>8

\* A bucket nobody used for the TTL is full to the brim, so that dropping its
\* entry takes and gives nothing.
LEMMA IdleIsBrimful ==
  ASSUME now \in Nat, NEW b \in Bucket(RateLimitPerIP), now - b.lastRefill >= IPLimitTTL
  PROVE  Level(b, RateLimitPerIP) = Brim(RateLimitPerIP)
<1>1. PICK rate \in Nat \ {0} : rate = RateLimitPerIP
  BY Rates DEF Rate
<1>2. /\ Minute \in Nat \ {0} /\ Second \in Nat \ {0} /\ Second <= Minute
      /\ IPLimitTTL \in Nat /\ IPLimitTTL >= 2 * Minute
  BY RateAssumption, Rates
<1>3. PICK t \in Nat, e \in Nat : t = b.tokens /\ e = now - b.lastRefill /\ e >= 2 * Minute
  BY <1>2, Rates, BucketFields
<1>4. rate * (2 * Minute) <= rate * e /\ rate * Second <= rate * Minute
  BY <1>1, <1>2, <1>3
<1>5. Minute <= rate * Minute /\ rate * (2 * Minute) = rate * Minute + rate * Minute
      /\ Minute * rate = rate * Minute /\ rate * Minute \in Nat /\ rate * Second \in Nat
  BY <1>1, <1>2
<1>6. t * Minute \in Nat /\ rate * e \in Nat
  BY <1>1, <1>2, <1>3
<1>7. Level(b, rate) = IF t * Minute + rate * e > Brim(rate) THEN Brim(rate)
                       ELSE t * Minute + rate * e
  BY <1>3 DEF Level
<1>8. Brim(rate) \in Nat /\ t * Minute + rate * e >= Brim(rate)
  BY <1>1, <1>2, <1>4, <1>5, <1>6 DEF Brim
<1>. QED  BY <1>1, <1>6, <1>7, <1>8

\* The budget does not see the cleanup.
LEMMA CleanupKeepsBudget ==
  ASSUME IInv, NEW keys, keys = cleanupExpiredIPLimits, NEW i \in IPs
  PROVE  Budget[i] = IF i \in keys THEN Level(limit[i], RateLimitPerIP)
                     ELSE Brim(RateLimitPerIP)
<1>1. now \in Nat /\ limit[i] \in Bucket(RateLimitPerIP)
  BY RateAssumption DEF IInv, TypeOK
<1>2. Budget[i] = IF i \in known THEN Level(limit[i], RateLimitPerIP)
                  ELSE Brim(RateLimitPerIP)
  BY DEF Budget
<1>3. i \in known \ keys => Level(limit[i], RateLimitPerIP) = Brim(RateLimitPerIP)
  BY <1>1, CleanupDropsIdle, IdleIsBrimful
<1>4. keys \subseteq known
  BY CleanupDropsIdle
<1>. QED  BY <1>2, <1>3, <1>4

\* The bucket of the entry that was found or made, refilled.
LEMMA EntryRefilled ==
  ASSUME IInv, NEW ip \in IPs, NEW keys, keys = cleanupExpiredIPLimits,
         NEW b, b = bucketOf(ip, keys)
  PROVE  /\ b \in Bucket(RateLimitPerIP)
         /\ CleanedAt - b.lastRefill < IPLimitTTL
         /\ Units(b, RateLimitPerIP) \in Nat
         /\ Units(b, RateLimitPerIP) <= Brim(RateLimitPerIP)
         /\ Units(b, RateLimitPerIP) \in Buckets!Settled(Budget[ip], RateLimitPerIP)
         /\ b.tokens <= 0 => /\ ip \in keys /\ b = limit[ip]
                             /\ Budget[ip] < Buckets!Slack(RateLimitPerIP)
<1>1. PICK rate \in Nat \ {0} : rate = RateLimitPerIP /\ Rate(rate)
  BY Rates DEF Rate
<1>2. now \in Nat /\ IPLimitTTL \in Nat \ {0}
  BY RateAssumption DEF IInv, TypeOK
<1>3. /\ CleanedAt \in 0 .. now /\ keys \subseteq known
      /\ \A i \in keys : CleanedAt - limit[i].lastRefill < IPLimitTTL
  BY CleanupDropsIdle
<1>4. Budget[ip] = IF ip \in keys THEN Level(limit[ip], rate) ELSE Brim(rate)
  BY <1>1, CleanupKeepsBudget
<1>5. CASE ip \in keys
  <2>1. PICK x \in Bucket(rate) : x = limit[ip] /\ b = refillTokens(x, rate)
    BY <1>1, <1>5 DEF IInv, TypeOK, bucketOf
  <2>2. /\ b \in Bucket(rate) /\ x.lastRefill <= b.lastRefill
        /\ Units(b, rate) \in Nat /\ Units(b, rate) <= Brim(rate)
        /\ Units(b, rate) \in Buckets!Settled(Level(x, rate), rate)
        /\ b.tokens <= 0 => b = x /\ Units(x, rate) < Buckets!Slack(rate)
    BY <1>1, <1>2, <2>1, RefillSettles
  <2>3. CleanedAt - b.lastRefill < IPLimitTTL
    <3>1. x.lastRefill \in Nat /\ b.lastRefill \in Nat
      BY <1>1, <1>2, <2>2, BucketFields
    <3>2. CleanedAt - x.lastRefill < IPLimitTTL
      BY <1>3, <1>5, <2>1
    <3>. QED  BY <1>2, <1>3, <2>2, <3>1, <3>2
  <2>4. b.tokens <= 0 => Level(x, rate) < Buckets!Slack(rate)
    <3>1. ASSUME b.tokens <= 0
          PROVE  Level(x, rate) = Units(x, rate)
      <4>1. Units(x, rate) \in Nat /\ Units(x, rate) <= Brim(rate)
        BY <2>2, <3>1
      <4>2. Level(x, rate) = IF Units(x, rate) > Brim(rate) THEN Brim(rate) ELSE Units(x, rate)
        BY DEF Level, Units
      <4>3. Brim(rate) \in Int
        BY <1>1, Rates DEF Brim
      <4>. QED  BY <4>1, <4>2, <4>3
    <3>. QED  BY <2>2, <3>1
  <2>. QED  BY <1>1, <1>4, <1>5, <2>1, <2>2, <2>3, <2>4
<1>6. CASE ip \notin keys
  <2>1. PICK x : x = newLimit /\ x = [tokens |-> rate, lastRefill |-> now]
    BY <1>1 DEF newLimit
  <2>2. x \in Bucket(rate) /\ b = refillTokens(x, rate)
    BY <1>1, <1>2, <1>6, <2>1 DEF Bucket, bucketOf
  <2>3. b = x
    <3>1. now - x.lastRefill < Second
      BY <1>2, <2>1, Rates
    <3>. QED  BY <2>2, <3>1 DEF refillTokens
  <2>4. Units(b, rate) = rate * Minute /\ rate * Minute \in Nat /\ Minute * rate = rate * Minute
    <3>1. now - now = 0 /\ rate * 0 = 0
      BY <1>1, <1>2
    <3>. QED  BY <1>1, <2>1, <2>3, <3>1, Rates DEF Units
  <2>5. Brim(rate) \in Nat /\ rate * Minute <= Brim(rate)
    BY <1>1, <2>4, Rates DEF Brim
  <2>6. rate * Minute \in Buckets!Settled(Brim(rate), rate)
    BY <2>4, <2>5 DEF Buckets!Settled, Buckets!Full
  <2>7. CleanedAt - b.lastRefill < IPLimitTTL /\ b.tokens > 0
    BY <1>1, <1>2, <1>3, <2>1, <2>3
  <2>8. ~ b.tokens <= 0
    BY <1>1, <2>1, <2>3
  <2>. QED  BY <1>1, <1>4, <1>6, <2>2, <2>3, <2>4, <2>5, <2>6, <2>7, <2>8
<1>. QED  BY <1>5, <1>6

-----------------------------------------------------------------------------
(* Every step keeps the invariant. *)

LEMMA InitEstablishes == Init => IInv
<1>. SUFFICES ASSUME Init PROVE IInv
  OBVIOUS
<1>1. now = 0 /\ MaxTime \in Nat /\ GlobalRateLimit \in Nat /\ RateLimitPerIP \in Nat
      /\ MaxIPEntries \in Nat
  BY RateAssumption DEF Init
<1>2. global \in Bucket(GlobalRateLimit) /\ limit \in [IPs -> Bucket(RateLimitPerIP)]
  BY <1>1 DEF Init, Bucket
<1>3. IsFiniteSet(known) /\ Cardinality(known) <= MaxIPEntries
  BY <1>1, FS_EmptySet DEF Init
<1>4. call \in [Callers -> [pc : {"idle", "waiting", "allowed", "limited"}, ip : IPs]]
  BY DEF Init
<1>5. known \subseteq IPs /\ lastCleanup \in 0 .. now /\ known = {} /\ now \in 0 .. MaxTime
  BY <1>1 DEF Init
<1>. QED  BY <1>2, <1>3, <1>4, <1>5 DEF IInv, TypeOK, EntriesWereFresh

\* The answers and requests of handlers are typed.
LEMMA CallsTyped ==
  ASSUME TypeOK, NEW c \in Callers
  PROVE  /\ call[c].ip \in IPs
         /\ Answer(c, "limited") \/ Answer(c, "allowed") \/ Call(c) =>
              call' \in [Callers -> [pc : {"idle", "waiting", "allowed", "limited"}, ip : IPs]]
BY DEF TypeOK, Answer, Call

\* What Allow did to the table and the buckets is within their bounds.
LEMMA AllowKeeps ==
  ASSUME IInv, NEW c \in Callers, Answer(c, "limited") \/ Answer(c, "allowed"),
         NEW keys, PastGlobal(c, keys), global' \in Bucket(GlobalRateLimit),
         \/ known' = keys /\ limit' = limit
         \/ \E b \in Bucket(RateLimitPerIP) :
              /\ call[c].ip \in keys \/ Cardinality(keys) < MaxIPEntries
              /\ CleanedAt - b.lastRefill < IPLimitTTL
              /\ known' = keys \cup {call[c].ip} /\ limit' = [limit EXCEPT ![call[c].ip] = b]
  PROVE  IInv'
<1>. USE DEF IInv
<1>1. keys = cleanupExpiredIPLimits /\ now' = now /\ lastCleanup' = CleanedAt
  BY DEF PastGlobal, CleanedAt
<1>2. /\ keys \subseteq known /\ IsFiniteSet(keys) /\ Cardinality(keys) \in Nat
      /\ Cardinality(keys) <= MaxIPEntries /\ CleanedAt \in 0 .. now
      /\ \A i \in keys : CleanedAt - limit[i].lastRefill < IPLimitTTL
  BY <1>1, CleanupDropsIdle
<1>3. call[c].ip \in IPs /\ known \subseteq IPs /\ limit \in [IPs -> Bucket(RateLimitPerIP)]
      /\ now \in 0 .. MaxTime /\ MaxIPEntries \in Nat
  BY CallsTyped, RateAssumption DEF TypeOK
<1>4. call' \in [Callers -> [pc : {"idle", "waiting", "allowed", "limited"}, ip : IPs]]
  BY CallsTyped
<1>5. \A rate : Bucket(rate)' = Bucket(rate)
  BY <1>1 DEF Bucket
<1>6. /\ known' \subseteq IPs /\ IsFiniteSet(known') /\ Cardinality(known') <= MaxIPEntries
      /\ limit' \in [IPs -> Bucket(RateLimitPerIP)]
      /\ \A i \in known' : CleanedAt - limit'[i].lastRefill < IPLimitTTL
  <2>1. CASE known' = keys /\ limit' = limit
    BY <1>2, <1>3, <2>1
  <2>2. CASE ~ (known' = keys /\ limit' = limit)
    <3>1. PICK b \in Bucket(RateLimitPerIP) :
            /\ call[c].ip \in keys \/ Cardinality(keys) < MaxIPEntries
            /\ CleanedAt - b.lastRefill < IPLimitTTL
            /\ known' = keys \cup {call[c].ip} /\ limit' = [limit EXCEPT ![call[c].ip] = b]
      BY <2>2
    <3>2. limit' \in [IPs -> Bucket(RateLimitPerIP)]
      BY <1>3, <3>1
    <3>3. /\ IsFiniteSet(known')
          /\ Cardinality(known') = IF call[c].ip \in keys THEN Cardinality(keys)
                                   ELSE Cardinality(keys) + 1
      BY <1>2, <3>1, FS_AddElement
    <3>4. Cardinality(known') <= MaxIPEntries
      BY <1>2, <1>3, <3>1, <3>3
    <3>5. \A i \in known' : CleanedAt - limit'[i].lastRefill < IPLimitTTL
      BY <1>2, <1>3, <3>1
    <3>. QED  BY <1>2, <1>3, <3>1, <3>2, <3>3, <3>4, <3>5
  <2>. QED  BY <2>1, <2>2
<1>7. TypeOK'
  BY <1>1, <1>2, <1>3, <1>4, <1>5, <1>6 DEF TypeOK
<1>8. EntriesWereFresh'
  BY <1>1, <1>6 DEF EntriesWereFresh
<1>. QED  BY <1>6, <1>7, <1>8

\* The server-wide bucket, refilled.
LEMMA GlobalRefilled ==
  ASSUME IInv, NEW g, g = refillTokens(global, GlobalRateLimit)
  PROVE  /\ g \in Bucket(GlobalRateLimit)
         /\ Units(g, GlobalRateLimit) \in Nat
         /\ Units(g, GlobalRateLimit) <= Brim(GlobalRateLimit)
         /\ Units(g, GlobalRateLimit)
              \in Buckets!Settled(Level(global, GlobalRateLimit), GlobalRateLimit)
         /\ g.tokens <= 0 =>
              g = global /\ Units(global, GlobalRateLimit) < Buckets!Slack(GlobalRateLimit)
<1>1. now \in Nat /\ global \in Bucket(GlobalRateLimit)
  BY RateAssumption DEF IInv, TypeOK
<1>. QED  BY <1>1, Rates, RefillSettles

\* A token less is a bucket still, holding a request less.
LEMMA TokenTaken ==
  ASSUME NEW rate, Rate(rate), now \in Nat, NEW b \in Bucket(rate), b.tokens > 0,
         NEW x, x = [b EXCEPT !.tokens = @ - 1]
  PROVE  /\ x \in Bucket(rate) /\ x.lastRefill = b.lastRefill
         /\ Units(x, rate) = Units(b, rate) - Minute
<1>1. /\ b.tokens \in Nat /\ b.tokens <= rate /\ rate \in Nat /\ Minute \in Nat
      /\ b.lastRefill \in Nat /\ b.lastRefill <= now
  BY BucketFields, Rates DEF Rate
<1>2. x.tokens = b.tokens - 1 /\ x.lastRefill = b.lastRefill
  BY DEF Bucket
<1>3. x \in Bucket(rate)
  BY <1>1 DEF Bucket
<1>4. (b.tokens - 1) * Minute = b.tokens * Minute - Minute /\ b.tokens * Minute \in Int
  BY <1>1
<1>5. rate * (now - b.lastRefill) \in Int
  BY <1>1
<1>. QED  BY <1>1, <1>2, <1>3, <1>4, <1>5 DEF Units

LEMMA NextKeeps == IInv /\ [Next]_vars => IInv'
<1>. SUFFICES ASSUME IInv, [Next]_vars PROVE IInv'
  OBVIOUS
<1>0. /\ now \in Nat /\ MaxTime \in Nat /\ lastCleanup \in 0 .. now
      /\ RateLimitPerIP \in Nat /\ GlobalRateLimit \in Nat
  BY RateAssumption DEF IInv, TypeOK
<1>1. CASE Clock
  <2>1. /\ now' = now + 1 /\ now < MaxTime
        /\ UNCHANGED <<global, known, limit, lastCleanup, call>>
    BY <1>1 DEF Clock
  <2>2. \A rate : Bucket(rate) \subseteq Bucket(rate)'
    BY <1>0, <2>1 DEF Bucket
  <2>3. now' \in 0 .. MaxTime /\ lastCleanup' \in 0 .. now'
    BY <1>0, <2>1 DEF IInv, TypeOK
  <2>4. limit' \in [IPs -> Bucket(RateLimitPerIP)'] /\ global' \in Bucket(GlobalRateLimit)'
    BY <2>1, <2>2 DEF IInv, TypeOK
  <2>. QED  BY <2>1, <2>3, <2>4 DEF IInv, TypeOK, EntriesWereFresh
<1>2. ASSUME NEW c \in Callers, Call(c)
      PROVE  IInv'
  BY <1>2, CallsTyped DEF Call, IInv, TypeOK, EntriesWereFresh, Bucket
<1>3. ASSUME NEW c \in Callers, GlobalExhausted(c)
      PROVE  IInv'
  <2>1. /\ global' \in Bucket(GlobalRateLimit) /\ Answer(c, "limited")
        /\ UNCHANGED <<now, known, limit, lastCleanup>>
    BY <1>3, GlobalRefilled DEF GlobalExhausted
  <2>2. call' \in [Callers -> [pc : {"idle", "waiting", "allowed", "limited"}, ip : IPs]]
    BY <2>1, CallsTyped DEF IInv
  <2>. QED  BY <2>1, <2>2 DEF IInv, TypeOK, EntriesWereFresh, Bucket
<1>4. ASSUME NEW c \in Callers, TableFull(c)
      PROVE  IInv'
  <2>1. global' \in Bucket(GlobalRateLimit)
    BY <1>4, GlobalRefilled DEF TableFull
  <2>. QED  BY <1>4, <2>1, AllowKeeps DEF TableFull
<1>5. ASSUME NEW c \in Callers, IPExhausted(c)
      PROVE  IInv'
  <2>1. PICK keys, b :
          /\ keys = cleanupExpiredIPLimits /\ b = bucketOf(call[c].ip, keys)
          /\ PastGlobal(c, keys) /\ Answer(c, "limited")
          /\ call[c].ip \in keys \/ Cardinality(keys) < MaxIPEntries
          /\ global' = refillTokens(global, GlobalRateLimit)
          /\ known' = keys \cup {call[c].ip} /\ limit' = [limit EXCEPT ![call[c].ip] = b]
    BY <1>5 DEF IPExhausted
  <2>2. global' \in Bucket(GlobalRateLimit)
    BY <2>1, GlobalRefilled
  <2>3. b \in Bucket(RateLimitPerIP) /\ CleanedAt - b.lastRefill < IPLimitTTL
    BY <2>1, CallsTyped, EntryRefilled DEF IInv
  <2>. QED  BY <2>1, <2>2, <2>3, AllowKeeps
<1>6. ASSUME NEW c \in Callers, Allowed(c)
      PROVE  IInv'
  <2>1. PICK keys, b, x, g :
          /\ keys = cleanupExpiredIPLimits /\ b = bucketOf(call[c].ip, keys)
          /\ PastGlobal(c, keys) /\ Answer(c, "allowed")
          /\ call[c].ip \in keys \/ Cardinality(keys) < MaxIPEntries
          /\ g = refillTokens(global, GlobalRateLimit) /\ g.tokens > 0
          /\ global' = [g EXCEPT !.tokens = @ - 1]
          /\ b.tokens > 0 /\ x = [b EXCEPT !.tokens = @ - 1]
          /\ known' = keys \cup {call[c].ip} /\ limit' = [limit EXCEPT ![call[c].ip] = x]
    BY <1>6 DEF Allowed, PastGlobal
  <2>2. global' \in Bucket(GlobalRateLimit)
    <3>1. g \in Bucket(GlobalRateLimit)
      BY <2>1, GlobalRefilled
    <3>. QED  BY <1>0, <2>1, <3>1, Rates, TokenTaken
  <2>3. b \in Bucket(RateLimitPerIP) /\ CleanedAt - b.lastRefill < IPLimitTTL
    BY <2>1, CallsTyped, EntryRefilled DEF IInv
  <2>4. x \in Bucket(RateLimitPerIP) /\ CleanedAt - x.lastRefill < IPLimitTTL
    BY <1>0, <2>1, <2>3, Rates, TokenTaken
  <2>. QED  BY <2>1, <2>2, <2>4, AllowKeeps
<1>7. CASE UNCHANGED vars
  BY <1>7 DEF vars, IInv, TypeOK, EntriesWereFresh, Bucket
<1>. QED  BY <1>1, <1>2, <1>3, <1>4, <1>5, <1>6, <1>7 DEF Next

LEMMA Inductive == Spec => []IInv
BY InitEstablishes, NextKeeps, PTL DEF Spec

\* For any number of addresses, limits and intervals the buckets stay within
\* their limits and the table within its size (Allow).
THEOREM TypeCorrect == Spec => []TypeOK
<1>1. IInv => TypeOK
  BY DEF IInv
<1>. QED  BY <1>1, Inductive, PTL

\* For any interval and TTL, and however large the table: a newcomer is turned
\* away only by addresses seen lately (Allow, cleanupExpiredIPLimits).
THEOREM NewcomersYieldToRecent == Spec => FullTableIsRecent
<1>1. IInv /\ [Next]_vars =>
        [\A c \in Callers : TableFull(c) =>
           \A i \in known' : now - limit[i].lastRefill < IPLimitTTL + CleanupInterval]_vars
  <2>. SUFFICES ASSUME IInv, NEW c \in Callers, TableFull(c), NEW i \in known'
                PROVE  now - limit[i].lastRefill < IPLimitTTL + CleanupInterval
    OBVIOUS
  <2>1. known' = cleanupExpiredIPLimits
    BY DEF TableFull
  <2>. QED  BY <2>1, CleanupDropsIdle
<1>. QED  BY <1>1, Inductive, PTL DEF Spec, FullTableIsRecent

-----------------------------------------------------------------------------
(* Refinement: seen through Level and Budget, the steps are those of        *)
(* TokenBuckets.                                                            *)

\* A bucket that is not over the brim shows what it holds.
LEMMA LevelIsUnits ==
  ASSUME NEW rate, Rate(rate), NEW b, Units(b, rate) \in Int, Units(b, rate) <= Brim(rate)
  PROVE  Level(b, rate) = Units(b, rate)
<1>1. Brim(rate) \in Int
  BY Rates DEF Brim, Rate
<1>. QED  BY <1>1 DEF Level, Units

\* While the clock stands still, a bucket's level is a matter of the bucket.
LEMMA LevelNext ==
  ASSUME now' = now
  PROVE  /\ \A x, rate : global' = x => Level(global, rate)' = Level(x, rate)
         /\ \A x, rate, i : limit'[i] = x => Level(limit[i], rate)' = Level(x, rate)
BY DEF Level, Brim

\* TokenBuckets counts as RateLimiter does.
LEMMA SameCount == \A S : Buckets!Cardinality(S) = Cardinality(S)
BY DEF Cardinality, Buckets!Cardinality

LEMMA InitFills == Init => Buckets!AInit
<1>. SUFFICES ASSUME Init PROVE Buckets!AInit
  OBVIOUS
<1>1. PICK rate \in Nat \ {0} : rate = GlobalRateLimit /\ Rate(rate)
  BY Rates DEF Rate
<1>2. now \in Nat /\ global.tokens = rate /\ now - global.lastRefill = 0
  BY <1>1 DEF Init
<1>3. rate * 0 = 0 /\ rate * Minute \in Nat /\ Minute * rate = rate * Minute
  BY <1>1, Rates
<1>4. Units(global, rate) = Minute * rate
  BY <1>2, <1>3 DEF Units
<1>5. Minute * rate <= Brim(rate)
  BY <1>1, <1>3, Rates DEF Brim
<1>6. Level(global, rate) = Minute * rate
  BY <1>1, <1>3, <1>4, <1>5, LevelIsUnits
<1>7. Budget = [i \in IPs |-> Brim(RateLimitPerIP)]
  BY DEF Init, Budget
<1>8. Brim(RateLimitPerIP) = Buckets!Brim(RateLimitPerIP)
  BY RateAssumption DEF Brim, Buckets!Brim, Buckets!Full, Buckets!Slack
<1>. QED  BY <1>1, <1>6, <1>7, <1>8 DEF Init, Buckets!AInit, Buckets!Full

\* A tick pours a tick's worth into every bucket.
LEMMA Pouring ==
  ASSUME NEW rate, Rate(rate), now \in Nat, now' = now + 1, NEW b \in Bucket(rate),
         NEW later, later = IF b.tokens * Minute + rate * (now' - b.lastRefill) > Brim(rate)
                            THEN Brim(rate)
                            ELSE b.tokens * Minute + rate * (now' - b.lastRefill)
  PROVE  later = Buckets!Poured(Level(b, rate), rate)
<1>1. rate \in Nat \ {0} /\ Minute \in Nat \ {0} /\ Second \in Nat \ {0}
  BY Rates DEF Rate
<1>2. PICK brim \in Int : brim = Brim(rate) /\ brim = Buckets!Brim(rate)
  BY <1>1 DEF Brim, Buckets!Brim, Buckets!Full, Buckets!Slack
<1>3. PICK e \in Nat, t \in Nat : t = b.tokens /\ e = now - b.lastRefill
                                  /\ now' - b.lastRefill = e + 1
  BY BucketFields
<1>4. PICK u \in Nat : u = t * Minute + rate * e /\ u + rate = t * Minute + rate * (e + 1)
  <2>1. rate * (e + 1) = rate * e + rate /\ rate * e \in Nat /\ t * Minute \in Nat
    BY <1>1
  <2>. QED  BY <1>1, <2>1
<1>5. Level(b, rate) = IF u > brim THEN brim ELSE u
  BY <1>2, <1>3, <1>4 DEF Level
<1>6. later = IF u + rate > brim THEN brim ELSE u + rate
  BY <1>2, <1>3, <1>4
<1>. QED  BY <1>1, <1>2, <1>5, <1>6 DEF Buckets!Poured

LEMMA ClockIsTick == IInv /\ Clock => Buckets!Tick
<1>. SUFFICES ASSUME IInv, Clock PROVE Buckets!Tick
  OBVIOUS
<1>1. /\ now \in Nat /\ now' = now + 1
      /\ global' = global /\ known' = known /\ limit' = limit /\ call' = call
  BY RateAssumption DEF IInv, TypeOK, Clock
<1>2. Level(global, GlobalRateLimit)'
        = Buckets!Poured(Level(global, GlobalRateLimit), GlobalRateLimit)
  <2>1. PICK later :
          /\ later = Level(global, GlobalRateLimit)'
          /\ later = IF global.tokens * Minute + GlobalRateLimit * (now' - global.lastRefill)
                          > Brim(GlobalRateLimit)
                     THEN Brim(GlobalRateLimit)
                     ELSE global.tokens * Minute + GlobalRateLimit * (now' - global.lastRefill)
    BY <1>1 DEF Level, Brim
  <2>. QED  BY <1>1, <2>1, Rates, Pouring DEF IInv, TypeOK
<1>3. ASSUME NEW i \in IPs
      PROVE  Budget'[i] = Buckets!Poured(Budget[i], RateLimitPerIP)
  <2>1. CASE i \in known
    <3>1. Budget[i] = Level(limit[i], RateLimitPerIP)
          /\ Budget'[i] = Level(limit[i], RateLimitPerIP)'
      BY <1>1, <2>1 DEF Budget
    <3>2. PICK b \in Bucket(RateLimitPerIP) : b = limit[i]
      BY DEF IInv, TypeOK
    <3>3. PICK later :
            /\ later = Level(limit[i], RateLimitPerIP)'
            /\ later = IF b.tokens * Minute + RateLimitPerIP * (now' - b.lastRefill)
                            > Brim(RateLimitPerIP)
                       THEN Brim(RateLimitPerIP)
                       ELSE b.tokens * Minute + RateLimitPerIP * (now' - b.lastRefill)
      BY <1>1, <3>2 DEF Level, Brim
    <3>. QED  BY <1>1, <3>1, <3>2, <3>3, Rates, Pouring
  <2>2. CASE i \notin known
    <3>1. Budget[i] = Brim(RateLimitPerIP) /\ Budget'[i] = Brim(RateLimitPerIP)
      BY <1>1, <2>2 DEF Budget, Brim
    <3>2. /\ Brim(RateLimitPerIP) = Buckets!Brim(RateLimitPerIP)
          /\ Brim(RateLimitPerIP) \in Int
      BY RateAssumption DEF Brim, Buckets!Brim, Buckets!Full, Buckets!Slack
    <3>. QED  BY <3>1, <3>2, RateAssumption DEF Buckets!Poured
  <2>. QED  BY <2>1, <2>2
<1>4. Budget' = [i \in IPs |-> Buckets!Poured(Budget[i], RateLimitPerIP)]
  BY <1>3 DEF Budget
<1>. QED  BY <1>1, <1>2, <1>4 DEF Buckets!Tick

\* After Allow, everybody but the caller has the budget they had.
LEMMA BudgetOfOthers ==
  ASSUME IInv, NEW c \in Callers, NEW keys, keys = cleanupExpiredIPLimits, now' = now,
         NEW b, known' = keys \cup {call[c].ip}, limit' = [limit EXCEPT ![call[c].ip] = b]
  PROVE  /\ Budget'[call[c].ip] = Level(b, RateLimitPerIP)
         /\ Budget' = [Budget EXCEPT ![call[c].ip] = Budget'[call[c].ip]]
<1>1. PICK ip \in IPs : ip = call[c].ip
  BY CallsTyped DEF IInv
<1>2. limit \in [IPs -> Bucket(RateLimitPerIP)]
  BY DEF IInv, TypeOK
<1>3. Budget'[ip] = Level(b, RateLimitPerIP)
  <2>1. Budget'[ip] = Level(limit[ip], RateLimitPerIP)'
    BY <1>1 DEF Budget
  <2>2. limit'[ip] = b
    BY <1>1, <1>2
  <2>. QED  BY <2>1, <2>2, LevelNext
<1>4. ASSUME NEW i \in IPs, i # ip
      PROVE  Budget'[i] = Budget[i]
  <2>1. limit'[i] = limit[i] /\ (i \in known' <=> i \in keys)
    BY <1>1, <1>2, <1>4
  <2>2. Budget'[i] = IF i \in known' THEN Level(limit[i], RateLimitPerIP)'
                     ELSE Brim(RateLimitPerIP)
    BY DEF Budget, Brim
  <2>3. Level(limit[i], RateLimitPerIP)' = Level(limit[i], RateLimitPerIP)
    BY <2>1, LevelNext
  <2>. QED  BY <2>1, <2>2, <2>3, CleanupKeepsBudget
<1>5. Budget' = [Budget EXCEPT ![ip] = Budget'[ip]]
  <2>1. /\ Budget = [i \in IPs |-> Budget[i]]
        /\ Budget' = [i \in IPs |-> Budget'[i]]
    BY DEF Budget
  <2>2. Budget' = [i \in IPs |-> IF i = ip THEN Budget'[ip] ELSE Budget[i]]
    BY <1>4, <2>1
  <2>3. [Budget EXCEPT ![ip] = Budget'[ip]]
          = [i \in IPs |-> IF i = ip THEN Budget'[ip] ELSE Budget[i]]
    BY <2>1
  <2>. QED  BY <2>2, <2>3
<1>. QED  BY <1>1, <1>3, <1>5

LEMMA AllowedIsAdmit == ASSUME IInv, IInv', NEW c \in Callers, Allowed(c)
                        PROVE  Buckets!Admit(c)
<1>1. PICK keys, b, x, g :
        /\ keys = cleanupExpiredIPLimits /\ b = bucketOf(call[c].ip, keys)
        /\ Answer(c, "allowed") /\ now' = now
        /\ g = refillTokens(global, GlobalRateLimit) /\ g.tokens > 0
        /\ global' = [g EXCEPT !.tokens = @ - 1]
        /\ b.tokens > 0 /\ x = [b EXCEPT !.tokens = @ - 1]
        /\ known' = keys \cup {call[c].ip} /\ limit' = [limit EXCEPT ![call[c].ip] = x]
  BY DEF Allowed, PastGlobal
<1>2. PICK ip \in IPs : ip = call[c].ip
  BY CallsTyped DEF IInv
<1>3. now \in Nat /\ Minute \in Nat
  BY Rates, RateAssumption DEF IInv, TypeOK
<1>4. Level(global, GlobalRateLimit)' + Minute
        \in Buckets!Settled(Level(global, GlobalRateLimit), GlobalRateLimit)
  <2>1. /\ g \in Bucket(GlobalRateLimit) /\ Units(g, GlobalRateLimit) \in Nat
        /\ Units(g, GlobalRateLimit) <= Brim(GlobalRateLimit)
        /\ Units(g, GlobalRateLimit)
              \in Buckets!Settled(Level(global, GlobalRateLimit), GlobalRateLimit)
    BY <1>1, GlobalRefilled
  <2>2. PICK y : y = global' /\ y = [g EXCEPT !.tokens = @ - 1]
    BY <1>1
  <2>3. Units(y, GlobalRateLimit) = Units(g, GlobalRateLimit) - Minute
    BY <1>1, <1>3, <2>1, <2>2, Rates, TokenTaken
  <2>4. Brim(GlobalRateLimit) \in Int
    BY RateAssumption DEF Brim
  <2>5. Level(y, GlobalRateLimit) = Units(y, GlobalRateLimit)
    BY <1>3, <2>1, <2>3, <2>4, Rates, LevelIsUnits
  <2>6. Level(global, GlobalRateLimit)' = Level(y, GlobalRateLimit)
    BY <1>1, <2>2, LevelNext
  <2>7. Level(global, GlobalRateLimit)' + Minute = Units(g, GlobalRateLimit)
    BY <1>3, <2>1, <2>3, <2>5, <2>6
  <2>. QED  BY <2>1, <2>7
<1>5. Budget'[ip] + Minute \in Buckets!Settled(Budget[ip], RateLimitPerIP)
  <2>1. /\ b \in Bucket(RateLimitPerIP) /\ Units(b, RateLimitPerIP) \in Nat
        /\ Units(b, RateLimitPerIP) <= Brim(RateLimitPerIP)
        /\ Units(b, RateLimitPerIP) \in Buckets!Settled(Budget[ip], RateLimitPerIP)
    BY <1>1, <1>2, EntryRefilled
  <2>2. Units(x, RateLimitPerIP) = Units(b, RateLimitPerIP) - Minute
    BY <1>1, <1>3, <2>1, Rates, TokenTaken
  <2>3. Brim(RateLimitPerIP) \in Int
    BY RateAssumption DEF Brim
  <2>4. Level(x, RateLimitPerIP) = Units(x, RateLimitPerIP)
    BY <1>3, <2>1, <2>2, <2>3, Rates, LevelIsUnits
  <2>5. Budget'[ip] = Level(x, RateLimitPerIP)
    BY <1>1, <1>2, BudgetOfOthers
  <2>6. Budget'[ip] + Minute = Units(b, RateLimitPerIP)
    BY <1>3, <2>1, <2>2, <2>4, <2>5
  <2>. QED  BY <2>1, <2>6
<1>6. Budget' = [Budget EXCEPT ![ip] = Budget'[ip]]
  BY <1>1, <1>2, BudgetOfOthers
<1>7. ip \in known' /\ known' \subseteq known \cup {ip} /\ Cardinality(known') <= MaxIPEntries
  BY <1>1, <1>2, CleanupDropsIdle DEF IInv, TypeOK
<1>8. Buckets!Answer(c, "allowed")
  BY <1>1 DEF Answer, Buckets!Answer
<1>9. Buckets!Cardinality(known') <= MaxIPEntries
  BY <1>7, SameCount
<1>. QED  BY <1>2, <1>4, <1>5, <1>6, <1>7, <1>8, <1>9 DEF Buckets!Admit

\* The server-wide bucket, refilled and not drawn from.
LEMMA GlobalSettles ==
  ASSUME IInv, now' = now, global' = refillTokens(global, GlobalRateLimit)
  PROVE  Level(global, GlobalRateLimit)'
           \in Buckets!Settled(Level(global, GlobalRateLimit), GlobalRateLimit)
<1>1. PICK g : g = refillTokens(global, GlobalRateLimit) /\ global' = g
  OBVIOUS
<1>2. /\ Units(g, GlobalRateLimit) \in Nat
      /\ Units(g, GlobalRateLimit) <= Brim(GlobalRateLimit)
      /\ Units(g, GlobalRateLimit)
           \in Buckets!Settled(Level(global, GlobalRateLimit), GlobalRateLimit)
  BY <1>1, GlobalRefilled
<1>3. Level(g, GlobalRateLimit) = Units(g, GlobalRateLimit)
  BY <1>2, Rates, LevelIsUnits
<1>4. Level(global, GlobalRateLimit)' = Level(g, GlobalRateLimit)
  BY <1>1, LevelNext
<1>. QED  BY <1>2, <1>3, <1>4

LEMMA GlobalExhaustedIsLimit == ASSUME IInv, NEW c \in Callers, GlobalExhausted(c)
                                PROVE  Buckets!Limit(c)
<1>1. PICK g : /\ g = refillTokens(global, GlobalRateLimit) /\ g.tokens <= 0
               /\ Answer(c, "limited") /\ global' = g
               /\ now' = now /\ known' = known /\ limit' = limit
  BY DEF GlobalExhausted
<1>2. Level(global, GlobalRateLimit) < Buckets!Slack(GlobalRateLimit)
  <2>1. /\ g = global /\ Units(global, GlobalRateLimit) < Buckets!Slack(GlobalRateLimit)
        /\ Units(g, GlobalRateLimit) \in Nat
        /\ Units(g, GlobalRateLimit) <= Brim(GlobalRateLimit)
    BY <1>1, GlobalRefilled
  <2>2. Level(g, GlobalRateLimit) = Units(g, GlobalRateLimit)
    BY <2>1, Rates, LevelIsUnits
  <2>. QED  BY <2>1, <2>2
<1>3. Level(global, GlobalRateLimit)'
        \in Buckets!Settled(Level(global, GlobalRateLimit), GlobalRateLimit)
  BY <1>1, GlobalSettles
<1>4. Budget' = Budget
  BY <1>1 DEF Budget, Level, Brim
<1>5. Buckets!Answer(c, "limited")
  BY <1>1 DEF Answer, Buckets!Answer
<1>. QED  BY <1>1, <1>2, <1>3, <1>4, <1>5 DEF Buckets!Limit

LEMMA IPExhaustedIsLimit == ASSUME IInv, NEW c \in Callers, IPExhausted(c)
                            PROVE  Buckets!Limit(c)
<1>1. PICK keys, b :
        /\ keys = cleanupExpiredIPLimits /\ b = bucketOf(call[c].ip, keys) /\ b.tokens <= 0
        /\ Answer(c, "limited") /\ now' = now
        /\ global' = refillTokens(global, GlobalRateLimit)
        /\ known' = keys \cup {call[c].ip} /\ limit' = [limit EXCEPT ![call[c].ip] = b]
  BY DEF IPExhausted, PastGlobal
<1>2. PICK ip \in IPs : ip = call[c].ip
  BY CallsTyped DEF IInv
<1>3. ip \in keys /\ b = limit[ip] /\ Budget[ip] < Buckets!Slack(RateLimitPerIP)
  BY <1>1, <1>2, EntryRefilled
<1>4. Budget' = Budget
  <2>1. /\ Budget'[ip] = Level(b, RateLimitPerIP)
        /\ Budget' = [Budget EXCEPT ![ip] = Budget'[ip]]
    BY <1>1, <1>2, BudgetOfOthers
  <2>2. Budget[ip] = Level(b, RateLimitPerIP)
    BY <1>1, <1>2, <1>3, CleanupKeepsBudget
  <2>. QED  BY <2>1, <2>2 DEF Budget
<1>5. Level(global, GlobalRateLimit)'
        \in Buckets!Settled(Level(global, GlobalRateLimit), GlobalRateLimit)
  BY <1>1, GlobalSettles
<1>6. known' \subseteq known
  BY <1>1, <1>2, <1>3, CleanupDropsIdle
<1>7. Buckets!Answer(c, "limited")
  BY <1>1 DEF Answer, Buckets!Answer
<1>. QED  BY <1>2, <1>3, <1>4, <1>5, <1>6, <1>7 DEF Buckets!Limit

\* An address that had an entry until this cleanup would have found room.
LEMMA TableFullIsLimit == ASSUME IInv, NEW c \in Callers, TableFull(c)
                          PROVE  Buckets!Limit(c)
<1>1. PICK keys :
        /\ keys = cleanupExpiredIPLimits
        /\ call[c].ip \notin keys /\ Cardinality(keys) >= MaxIPEntries
        /\ Answer(c, "limited") /\ now' = now
        /\ global' = refillTokens(global, GlobalRateLimit)
        /\ known' = keys /\ limit' = limit
  BY DEF TableFull, PastGlobal
<1>2. /\ keys \subseteq known /\ Cardinality(keys) \in Nat /\ MaxIPEntries \in Nat
      /\ keys # known => Cardinality(keys) < MaxIPEntries
  BY <1>1, CleanupDropsIdle, RateAssumption
<1>3. keys = known
  BY <1>1, <1>2
<1>4. Budget' = Budget
  BY <1>1, <1>3 DEF Budget, Level, Brim
<1>5. Level(global, GlobalRateLimit)'
        \in Buckets!Settled(Level(global, GlobalRateLimit), GlobalRateLimit)
  BY <1>1, GlobalSettles
<1>6. Buckets!Answer(c, "limited")
  BY <1>1 DEF Answer, Buckets!Answer
<1>7. Buckets!Cardinality(known') >= MaxIPEntries
  BY <1>1, SameCount
<1>. QED  BY <1>1, <1>3, <1>4, <1>5, <1>6, <1>7 DEF Buckets!Limit

LEMMA StepsOfBuckets == IInv /\ IInv' /\ [Next]_vars => [Buckets!ANext]_(Buckets!avars)
<1>. SUFFICES ASSUME IInv, IInv', [Next]_vars PROVE [Buckets!ANext]_(Buckets!avars)
  OBVIOUS
<1>1. CASE Clock
  BY <1>1, ClockIsTick DEF Buckets!ANext
<1>2. ASSUME NEW c \in Callers, Call(c)
      PROVE  Buckets!Call(c)
  <2>1. Level(global, GlobalRateLimit)' = Level(global, GlobalRateLimit) /\ Budget' = Budget
    BY <1>2 DEF Call, Level, Brim, Budget
  <2>. QED  BY <1>2, <2>1 DEF Call, Buckets!Call
<1>3. ASSUME NEW c \in Callers, GlobalExhausted(c) \/ TableFull(c) \/ IPExhausted(c)
      PROVE  Buckets!Limit(c)
  BY <1>3, GlobalExhaustedIsLimit, TableFullIsLimit, IPExhaustedIsLimit
<1>4. ASSUME NEW c \in Callers, Allowed(c)
      PROVE  Buckets!Admit(c)
  BY <1>4, AllowedIsAdmit
<1>5. CASE UNCHANGED vars
  BY <1>5 DEF vars, Buckets!avars, Level, Brim, Budget
<1>. QED  BY <1>1, <1>2, <1>3, <1>4, <1>5 DEF Next, Buckets!ANext

\* For any number of addresses and handlers and any limits that divide the
\* minute: lazy refill, remainders, the skipped second and evictions together
\* are buckets filled continuously; nobody is ahead of the configured rate and
\* nobody is refused without a reason (refillTokens, Allow).
THEOREM LazyBucketsAreIdeal == Spec => ImplementsBuckets
<1>. QED  BY InitFills, Inductive, StepsOfBuckets, PTL
          DEF Spec, ImplementsBuckets, Buckets!ASpec
================================================================================
