----------------------------- MODULE RateLimiter -----------------------------
(***************************************************************************)
(* The token buckets of internal/api/ratelimit.go: Allow runs under rl.mu  *)
(* and is one step; handlers wait for the mutex while the clock runs.      *)
(* Buckets are refilled lazily, per address entries are created on demand, *)
(* bounded in number and dropped when idle.                                *)
(***************************************************************************)
EXTENDS Integers, FiniteSets

CONSTANTS Callers, IPs, RateLimitPerIP, GlobalRateLimit, MaxIPEntries,
          Minute, Second,      \* in ticks
          CleanupInterval,     \* 5 minutes, in ticks
          IPLimitTTL,          \* 10 minutes, in ticks
          MaxTime              \* bound: the clock stops here

\* Configuration rejects limits below 1 and a global limit below the other.
\* A token is a whole number of ticks: the code's ticks are nanoseconds, and
\* it drops what is smaller.
ASSUME RateAssumption ==
  /\ {RateLimitPerIP, GlobalRateLimit, MaxIPEntries, Minute, Second,
      CleanupInterval} \subseteq Nat \ {0}
  /\ GlobalRateLimit >= RateLimitPerIP
  /\ Minute % RateLimitPerIP = 0 /\ Minute % GlobalRateLimit = 0
  /\ IPLimitTTL \in Nat /\ IPLimitTTL >= 2 * Minute /\ Second <= Minute
  /\ MaxTime \in Nat

VARIABLES now,
          global,        \* globalTokens and globalLastRefill
          known,         \* the keys of ipLimits
          limit,         \* the IPLimit of each key
          lastCleanup,
          call           \* the handlers of the shared-result routes

vars == <<now, global, known, limit, lastCleanup, call>>

Init ==
  /\ now = 0
  /\ global = [tokens |-> GlobalRateLimit, lastRefill |-> 0]
  /\ known = {}
  /\ limit = [i \in IPs |-> [tokens |-> 0, lastRefill |-> 0]]
  /\ lastCleanup = 0
  /\ call \in [Callers -> [pc : {"idle"}, ip : IPs]]

RefillRestartsClock(b, rate) ==
  LET elapsed     == now - b.lastRefill
      tokensToAdd == (elapsed * rate) \div Minute
  IN  IF elapsed < Second \/ tokensToAdd <= 0 THEN b
      ELSE [tokens     |-> IF b.tokens + tokensToAdd > rate THEN rate
                           ELSE b.tokens + tokensToAdd,
            lastRefill |-> now]

RefillUncapped(b, rate) ==
  LET elapsed     == now - b.lastRefill
      tokensToAdd == (elapsed * rate) \div Minute
  IN  IF elapsed < Second \/ tokensToAdd <= 0 THEN b
      ELSE [tokens     |-> b.tokens + tokensToAdd,
            lastRefill |-> b.lastRefill + (tokensToAdd * Minute) \div rate]

\* The time that made whole tokens is consumed, the rest is kept.
refillTokens(b, rate) ==
  LET elapsed     == now - b.lastRefill
      tokensToAdd == (elapsed * rate) \div Minute
  IN  IF elapsed < Second \/ tokensToAdd <= 0 THEN b
      ELSE [tokens     |-> IF b.tokens + tokensToAdd > rate THEN rate
                           ELSE b.tokens + tokensToAdd,
            lastRefill |-> b.lastRefill + (tokensToAdd * Minute) \div rate]

CleanupEveryTTL == now - lastCleanup >= IPLimitTTL

cleanupDue == now - lastCleanup >= CleanupInterval

cleanupExpiredIPLimits ==
  IF cleanupDue
  THEN {i \in known : now - limit[i].lastRefill < IPLimitTTL}
  ELSE known

newLimit == [tokens |-> RateLimitPerIP, lastRefill |-> now]

Answer(c, verdict) ==
  /\ call[c].pc = "waiting"
  /\ call' = [call EXCEPT ![c].pc = verdict]

\* A request, or the next one, enters applyRateLimit.
Call(c) ==
  /\ call[c].pc # "waiting"
  /\ \E i \in IPs : call' = [call EXCEPT ![c] = [pc |-> "waiting", ip |-> i]]
  /\ UNCHANGED <<now, global, known, limit, lastCleanup>>

\* The server-wide bucket is empty: nothing else is looked at.
GlobalExhausted(c) ==
  LET g == refillTokens(global, GlobalRateLimit)
  IN  /\ g.tokens <= 0
      /\ Answer(c, "limited")
      /\ global' = g
      /\ UNCHANGED <<now, known, limit, lastCleanup>>

\* The rest of Allow: clean up when due, then find or make the entry.
PastGlobal(c, keys) ==
  /\ refillTokens(global, GlobalRateLimit).tokens > 0
  /\ keys = cleanupExpiredIPLimits
  /\ lastCleanup' = IF cleanupDue THEN now ELSE lastCleanup
  /\ UNCHANGED now

TableFull(c) ==
  LET keys == cleanupExpiredIPLimits
  IN  /\ PastGlobal(c, keys)
      /\ call[c].ip \notin keys /\ Cardinality(keys) >= MaxIPEntries
      /\ Answer(c, "limited")
      /\ global' = refillTokens(global, GlobalRateLimit)
      /\ known' = keys
      /\ UNCHANGED limit

\* The entry's bucket after refill, for an address that gets past the table.
bucketOf(ip, keys) ==
  refillTokens(IF ip \in keys THEN limit[ip] ELSE newLimit, RateLimitPerIP)

IPExhausted(c) ==
  LET ip   == call[c].ip
      keys == cleanupExpiredIPLimits
      b    == bucketOf(ip, keys)
  IN  /\ PastGlobal(c, keys)
      /\ ip \in keys \/ Cardinality(keys) < MaxIPEntries
      /\ b.tokens <= 0
      /\ Answer(c, "limited")
      /\ global' = refillTokens(global, GlobalRateLimit)
      /\ known' = keys \cup {ip}
      /\ limit' = [limit EXCEPT ![ip] = b]

Allowed(c) ==
  LET ip   == call[c].ip
      keys == cleanupExpiredIPLimits
      b    == bucketOf(ip, keys)
      g    == refillTokens(global, GlobalRateLimit)
  IN  /\ PastGlobal(c, keys)
      /\ ip \in keys \/ Cardinality(keys) < MaxIPEntries
      /\ b.tokens > 0
      /\ Answer(c, "allowed")
      /\ global' = [g EXCEPT !.tokens = @ - 1]
      /\ known' = keys \cup {ip}
      /\ limit' = [limit EXCEPT ![ip] = [b EXCEPT !.tokens = @ - 1]]

Clock ==
  /\ now < MaxTime
  /\ now' = now + 1
  /\ UNCHANGED <<global, known, limit, lastCleanup, call>>

Next ==
  \/ Clock
  \/ \E c \in Callers :
       Call(c) \/ GlobalExhausted(c) \/ TableFull(c) \/ IPExhausted(c) \/ Allowed(c)

Spec == Init /\ [][Next]_vars

-----------------------------------------------------------------------------
Bucket(rate) == [tokens : 0 .. rate, lastRefill : 0 .. now]

TypeOK ==
  /\ now \in 0 .. MaxTime
  /\ global \in Bucket(GlobalRateLimit)
  /\ known \in SUBSET IPs /\ Cardinality(known) <= MaxIPEntries
  /\ limit \in [IPs -> Bucket(RateLimitPerIP)]
  /\ lastCleanup \in 0 .. now
  /\ call \in [Callers -> [pc : {"idle", "waiting", "allowed", "limited"}, ip : IPs]]

\* The lazy buckets are the ideal ones: nobody is ever ahead of the configured
\* rate, whenever calls come, although refill rounds to whole tokens, keeps the
\* remainder, skips the first second and starts over for an address whose
\* entry was dropped; a refused request costs neither bucket anything and is
\* never refused while both could pay, unless the table is full.
Brim(rate) ==
  Minute * rate - 1 + (IF rate * Second > Minute THEN rate * Second ELSE Minute)

Level(b, rate) ==
  LET units == b.tokens * Minute + rate * (now - b.lastRefill)
  IN  IF units > Brim(rate) THEN Brim(rate) ELSE units

Budget == [i \in IPs |-> IF i \in known THEN Level(limit[i], RateLimitPerIP)
                         ELSE Brim(RateLimitPerIP)]

Buckets == INSTANCE TokenBuckets
             WITH global <- Level(global, GlobalRateLimit), budget <- Budget

ImplementsBuckets == Buckets!ASpec

\* A newcomer is only turned away by addresses seen lately: dropping entries
\* happens inside Allow and at most once per interval, yet every entry that
\* fills the table was refilled less than TTL and one interval ago.
FullTableIsRecent ==
  [][\A c \in Callers : TableFull(c) =>
       \A i \in known' : now - limit[i].lastRefill < IPLimitTTL + CleanupInterval]_vars
=============================================================================
