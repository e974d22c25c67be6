----------------------------- MODULE TokenBuckets -----------------------------
(***************************************************************************)
(* What the rate limiter of the shared-result routes promises: one ideal   *)
(* bucket for everybody and one per address, filled continuously, with no  *)
(* lazy refill, no table entry and no eviction.  Amounts are in fractions  *)
(* of a request: a request costs Minute units and every tick of the clock  *)
(* brings as many units as the configured requests per minute.             *)
(***************************************************************************)
EXTENDS Naturals, FiniteSets

CONSTANTS Callers, IPs, RateLimitPerIP, GlobalRateLimit, MaxIPEntries,
          Minute, Second    \* in ticks

VARIABLES global,   \* what is left for everybody
          budget,   \* what is left for each address
          known,    \* the addresses that have an entry
          call      \* the handlers

avars == <<global, budget, known, call>>

\* A bucket is not refilled before a whole request is due, nor within a
\* second of the last time, so as much may be kept above a full bucket.
Full(rate) == Minute * rate
Slack(rate) == IF rate * Second > Minute THEN rate * Second ELSE Minute
Brim(rate) == Full(rate) + Slack(rate) - 1

\* What is kept above a full bucket may be lost, and nothing else.
Settled(b, rate) == {b} \cup Full(rate) .. b

Poured(b, rate) == IF b + rate > Brim(rate) THEN Brim(rate) ELSE b + rate

AInit ==
  /\ global = Full(GlobalRateLimit)
  /\ budget = [i \in IPs |-> Brim(RateLimitPerIP)]
  /\ known = {}
  /\ call \in [Callers -> [pc : {"idle"}, ip : IPs]]

Answer(c, verdict) ==
  /\ call[c].pc = "waiting"
  /\ call' = [call EXCEPT ![c].pc = verdict]

Call(c) ==
  /\ call[c].pc # "waiting"
  /\ \E i \in IPs : call' = [call EXCEPT ![c] = [pc |-> "waiting", ip |-> i]]
  /\ UNCHANGED <<global, budget, known>>

\* One request is taken from both buckets.
Admit(c) ==
  LET ip == call[c].ip
  IN  /\ Answer(c, "allowed")
      /\ global' + Minute \in Settled(global, GlobalRateLimit)
      /\ budget'[ip] + Minute \in Settled(budget[ip], RateLimitPerIP)
      /\ budget' = [budget EXCEPT ![ip] = budget'[ip]]
      /\ ip \in known' /\ known' \subseteq known \cup {ip}
      /\ Cardinality(known') <= MaxIPEntries

\* A refusal takes nothing from either, and has a reason.
Limit(c) ==
  LET ip == call[c].ip
  IN  /\ Answer(c, "limited")
      /\ \/ global < Slack(GlobalRateLimit)
         \/ budget[ip] < Slack(RateLimitPerIP)
         \/ ip \notin known /\ Cardinality(known') >= MaxIPEntries
      /\ global' \in Settled(global, GlobalRateLimit)
      /\ known' \subseteq known
      /\ UNCHANGED budget

Tick ==
  /\ global' = Poured(global, GlobalRateLimit)
  /\ budget' = [i \in IPs |-> Poured(budget[i], RateLimitPerIP)]
  /\ UNCHANGED <<known, call>>

ANext == Tick \/ \E c \in Callers : Call(c) \/ Admit(c) \/ Limit(c)

ASpec == AInit /\ [][ANext]_avars
=============================================================================
