----------------------------- MODULE ResultsStore -----------------------------
(***************************************************************************)
(* The shared-results store, internal/results, inside the server process   *)
(* that opens and closes it, cmd/openbyte.  Save handlers, the cleanup     *)
(* goroutine and main interleave between SQL statements; a statement is    *)
(* atomic, and may answer BUSY at any time because other connections and   *)
(* other processes write to the same file.  The process may crash between  *)
(* any two steps; committed rows survive it.                               *)
(***************************************************************************)
EXTENDS Integers, FiniteSets

CONSTANTS Savers,          \* POST /api/v1/results requests
          IDs,             \* what generateID can return, ordered as text
          MaxResults,      \* MAX_STORED_RESULTS
          Retention,       \* 90 days, in ticks
          BusyBudget,      \* busyRetryBudget, in ticks
          MaxBackoff,      \* busyRetryMaxBackoff, in ticks
          MaxIDRetries,    \* maxIDRetries
          ConflictCodes,   \* SQLite's codes for a duplicate id
          MaxTime,         \* bound: the clock stops here
          MaxRestarts      \* bound: how often the process comes back

ASSUME StoreAssumption ==
  /\ IDs \subseteq Nat
  /\ {MaxResults, BusyBudget, MaxBackoff, MaxIDRetries} \subseteq Nat \ {0}
  /\ Retention \in Nat /\ Retention > BusyBudget
  /\ ConflictCodes \subseteq {"UNIQUE", "PRIMARYKEY"}
  /\ MaxTime \in Nat /\ MaxRestarts \in Nat

VARIABLES now,       \* the wall clock
          rows,      \* the results table
          phase,     \* where main is
          cleaner,   \* the goroutine that runs cleanup
          tick,      \* a tick waits in its ticker's channel
          saver,     \* the Save handlers
          restarts   \* how often the process has come back

vars == <<now, rows, phase, cleaner, tick, saver, restarts>>

Times == 0 .. MaxTime
Row == [id : IDs, owner : Savers, at : Times]

OldestFirst(q, r) == q.at < r.at \/ (q.at = r.at /\ q.id < r.id)

\* The order of the trim statement, created_at DESC, id DESC.
Newer(q, r) == q.at > r.at \/ (q.at = r.at /\ q.id > r.id)
Beyond(S) == {r \in S : Cardinality({q \in S : Newer(q, r)}) >= MaxResults}

Expired(r, cutoff) == r.at < cutoff

NewSaver == [pc |-> "none", id |-> 0, at |-> 0, wake |-> 0, attempt |-> 0,
             collided |-> 0, gone |-> FALSE, result |-> "none"]
Save ==
  [pc : {"none", "generate", "insert", "wait", "done"}, id : IDs \cup {0},
   at : Times, wake : Times, attempt : Nat, collided : 0 .. MaxIDRetries, gone : BOOLEAN,
   result : {"none", "saved", "retryable", "failed", "cancelled", "lost"}]

Init ==
  /\ now = 0
  /\ rows = {}
  /\ phase = "opening"
  /\ cleaner = [pc |-> "age", cutoff |-> 0 - Retention]
  /\ tick = FALSE
  /\ saver = [s \in Savers |-> NewSaver]
  /\ restarts = 0

-----------------------------------------------------------------------------
(* Save and insertResultWithRetry. *)

\* Handlers run from the first request on, and outlive a Shutdown that timed out.
Handling == phase \notin {"opening", "down"}
DBOpen == phase \in {"serving", "draining", "closing"}

Put(s, rec) == saver' = [saver EXCEPT ![s] = rec]
Answer(rec, result) ==     \* the call's locals die with it
  [NewSaver EXCEPT !.pc = "done", !.id = rec.id, !.collided = rec.collided,
                   !.result = result]
Finish(s, rec, result) == Put(s, Answer(rec, result))

SaveStart(s) ==
  /\ Handling
  /\ saver[s].pc = "none"
  /\ now + BusyBudget <= MaxTime
  /\ Put(s, [saver[s] EXCEPT !.pc = "generate", !.at = now])
  /\ UNCHANGED <<now, rows, phase, cleaner, tick, restarts>>

\* The request context ends: the client went away or the server gave up.
Cancel(s) ==
  /\ saver[s].pc \notin {"none", "done"}
  /\ ~ saver[s].gone
  /\ Put(s, [saver[s] EXCEPT !.gone = TRUE])
  /\ UNCHANGED <<now, rows, phase, cleaner, tick, restarts>>

\* ctx.Err() is looked at before each new id.
GenerateID(s) ==
  /\ saver[s].pc = "generate"
  /\ IF saver[s].gone
     THEN Finish(s, saver[s], "cancelled")
     ELSE \E i \in IDs :
            Put(s, [saver[s] EXCEPT !.pc = "insert", !.id = i, !.attempt = 0])
  /\ UNCHANGED <<now, rows, phase, cleaner, tick, restarts>>

\* What Save does with insertResultWithRetry's (uniqueConflict, err): the
\* absence of an error is looked at first.
SaveReturns(s, rec, uniqueConflict, err) ==
  IF err = "none" THEN Finish(s, rec, "saved")
  ELSE IF uniqueConflict /\ rec.collided < MaxIDRetries
  THEN Put(s, [rec EXCEPT !.pc = "generate"])
  ELSE Finish(s, rec, err)

OwnRow(s) == [id |-> saver[s].id, owner |-> s, at |-> saver[s].at]
Taken(i) == \E r \in rows : r.id = i

InsertWithoutKey(s) ==
  /\ saver[s].pc = "insert" /\ DBOpen
  /\ rows' = rows \cup {OwnRow(s)}
  /\ SaveReturns(s, saver[s], FALSE, "none")
  /\ UNCHANGED <<now, phase, cleaner, tick, restarts>>

\* A request that goes away while the statement runs may still be answered.
InsertOK(s) ==
  /\ saver[s].pc = "insert" /\ DBOpen
  /\ ~ Taken(saver[s].id)
  /\ rows' = rows \cup {OwnRow(s)}
  /\ SaveReturns(s, saver[s], FALSE, "none")
  /\ UNCHANGED <<now, phase, cleaner, tick, restarts>>

InsertCancelledMaybe503(s) ==
  /\ saver[s].pc = "insert" /\ DBOpen /\ saver[s].gone
  /\ rows' \in {rows, IF Taken(saver[s].id) THEN rows ELSE rows \cup {OwnRow(s)}}
  /\ SaveReturns(s, saver[s], FALSE, "retryable")
  /\ UNCHANGED <<now, phase, cleaner, tick, restarts>>

\* With the request gone ExecContext reports the context's error, whether or
\* not the row was committed before the interrupt.
InsertCancelled(s) ==
  /\ saver[s].pc = "insert" /\ DBOpen /\ saver[s].gone
  /\ rows' \in {rows, IF Taken(saver[s].id) THEN rows ELSE rows \cup {OwnRow(s)}}
  /\ SaveReturns(s, saver[s], FALSE, "cancelled")
  /\ UNCHANGED <<now, phase, cleaner, tick, restarts>>

AnyConstraint(code) == code \in {"UNIQUE", "PRIMARYKEY"}

\* Only one of SQLite's extended codes is taken for a conflict.
isUniqueViolation(code) == code = "UNIQUE"

\* The primary key rejects the row.  A recognised conflict comes back as
\* (true, nil), any other code as an error.
InsertConflict(s) ==
  LET rec == [saver[s] EXCEPT !.collided = @ + 1]
  IN  /\ saver[s].pc = "insert" /\ DBOpen
      /\ Taken(saver[s].id)
      /\ \E code \in ConflictCodes :
           SaveReturns(s, rec, isUniqueViolation(code),
                       IF isUniqueViolation(code) THEN "none" ELSE "failed")
      /\ UNCHANGED <<now, rows, phase, cleaner, tick, restarts>>

\* Any other SQLite error, and every statement after db.Close.
InsertFailed(s) ==
  /\ saver[s].pc = "insert"
  /\ SaveReturns(s, saver[s], FALSE, IF saver[s].gone THEN "cancelled" ELSE "failed")
  /\ UNCHANGED <<now, rows, phase, cleaner, tick, restarts>>

-----------------------------------------------------------------------------
(* waitForBusyRetry: one deadline for the whole Save. *)

Earliest(a, b) == IF a <= b THEN a ELSE b

\* The first delay, a tick, doubled three times, and then the longest one.
busyRetryDelay(n) ==
  IF n < 4 THEN Earliest(<<1, 2, 4, 8>>[n + 1], MaxBackoff) ELSE MaxBackoff

RestartedDeadline(s) == now + BusyBudget

busyDeadline(s) == saver[s].at + BusyBudget

InsertBusy(s) ==
  /\ saver[s].pc = "insert" /\ DBOpen
  /\ IF saver[s].gone THEN Finish(s, saver[s], "cancelled")
     ELSE IF busyDeadline(s) <= now THEN Finish(s, saver[s], "retryable")
     ELSE Put(s, [saver[s] EXCEPT
            !.pc = "wait",
            !.wake = Earliest(now + busyRetryDelay(saver[s].attempt), busyDeadline(s))])
  /\ UNCHANGED <<now, rows, phase, cleaner, tick, restarts>>

\* The timer fires, perhaps late, or the context ends.  A wait that was cut
\* short to the deadline (budgetExpires) is not followed by another attempt.
WakeUp(s) ==
  /\ saver[s].pc = "wait"
  /\ saver[s].wake <= now \/ saver[s].gone
  /\ IF saver[s].gone THEN Finish(s, saver[s], "cancelled")
     ELSE IF saver[s].wake = busyDeadline(s) THEN Finish(s, saver[s], "retryable")
     ELSE Put(s, [saver[s] EXCEPT !.pc = "insert", !.attempt = @ + 1, !.wake = 0])
  /\ UNCHANGED <<now, rows, phase, cleaner, tick, restarts>>

-----------------------------------------------------------------------------
(* cleanup, run by New before serving and then by cleanupLoop.  A DELETE   *)
(* that stays BUSY for its whole budget, or fails, is only logged.         *)

TickerFires ==
  /\ phase \in {"serving", "draining"}
  /\ ~ tick
  /\ tick' = TRUE
  /\ UNCHANGED <<now, rows, phase, cleaner, saver, restarts>>

\* select may prefer a waiting tick to a closed stopCh.
CleanupStart ==
  /\ cleaner.pc = "idle" /\ tick
  /\ tick' = FALSE
  /\ cleaner' = [pc |-> "age", cutoff |-> now - Retention]
  /\ UNCHANGED <<now, rows, phase, saver, restarts>>

DeleteExpired ==
  /\ cleaner.pc = "age"
  /\ rows' = {r \in rows : ~ Expired(r, cleaner.cutoff)}
  /\ cleaner' = [pc |-> "trim", cutoff |-> 0]
  /\ UNCHANGED <<now, phase, tick, saver, restarts>>

CleanerQuitsOnFailure ==
  /\ cleaner.pc = "age"
  /\ cleaner' = [pc |-> IF phase = "opening" THEN "trim" ELSE "stopped", cutoff |-> 0]
  /\ UNCHANGED <<now, rows, phase, tick, saver, restarts>>

DeleteExpiredFails ==
  /\ cleaner.pc = "age"
  /\ cleaner' = [pc |-> "trim", cutoff |-> 0]
  /\ UNCHANGED <<now, rows, phase, tick, saver, restarts>>

\* The end of a pass; New's own pass is what opens the store.
EndCleanup ==
  /\ cleaner.pc = "trim"
  /\ cleaner' = [cleaner EXCEPT !.pc = "idle"]
  /\ phase' = IF phase = "opening" THEN "serving" ELSE phase
  /\ UNCHANGED <<now, tick, saver, restarts>>

TrimOldest == EndCleanup /\ rows' = rows \ Beyond(rows)
TrimFails  == EndCleanup /\ UNCHANGED rows

CleanerStops ==
  /\ phase = "closing" /\ cleaner.pc = "idle"
  /\ cleaner' = [pc |-> "stopped", cutoff |-> 0]
  /\ UNCHANGED <<now, rows, phase, tick, saver, restarts>>

-----------------------------------------------------------------------------
(* main, the clock and restarts. *)

Signal ==
  /\ phase = "serving"
  /\ phase' = "draining"
  /\ UNCHANGED <<now, rows, cleaner, tick, saver, restarts>>

WaitThenCloseStop ==
  /\ phase = "draining"
  /\ cleaner.pc = "stopped"
  /\ phase' = "closing"
  /\ UNCHANGED <<now, rows, cleaner, tick, saver, restarts>>

\* srv.Shutdown returns because every handler has, or after its 30 s.  Then
\* Store.Close closes stopCh.
CloseStop ==
  /\ phase = "draining"
  /\ phase' = "closing"
  /\ UNCHANGED <<now, rows, cleaner, tick, saver, restarts>>

CloseDBWithoutWait ==
  /\ phase = "closing"
  /\ phase' = "closed"
  /\ UNCHANGED <<now, rows, cleaner, tick, saver, restarts>>

\* wg.Wait, then db.Close.
CloseDB ==
  /\ phase = "closing"
  /\ cleaner.pc = "stopped"
  /\ phase' = "closed"
  /\ UNCHANGED <<now, rows, cleaner, tick, saver, restarts>>

\* The process ends: run returns, or it dies at any point.
Stop ==
  /\ phase' = "down"
  /\ cleaner' = [pc |-> "stopped", cutoff |-> 0]
  /\ tick' = FALSE
  /\ saver' = [s \in Savers |->
                 IF saver[s].pc \in {"none", "done"} THEN saver[s]
                 ELSE Answer(saver[s], "lost")]
  /\ UNCHANGED <<now, rows, restarts>>

Exit == phase = "closed" /\ Stop

Crash == phase # "down" /\ Stop

Restart ==
  /\ phase = "down" /\ restarts < MaxRestarts
  /\ restarts' = restarts + 1
  /\ phase' = "opening"
  /\ cleaner' = [pc |-> "age", cutoff |-> now - Retention]
  /\ UNCHANGED <<now, rows, tick, saver>>

Clock ==
  /\ now < MaxTime
  /\ now' = now + 1
  /\ UNCHANGED <<rows, phase, cleaner, tick, saver, restarts>>

SaverStep(s) ==
  \/ GenerateID(s)
  \/ InsertOK(s)
  \/ InsertCancelled(s)
  \/ InsertConflict(s)
  \/ InsertFailed(s)
  \/ InsertBusy(s)
  \/ WakeUp(s)

CleanerStep ==
  \/ CleanupStart
  \/ DeleteExpired
  \/ DeleteExpiredFails
  \/ TrimOldest
  \/ TrimFails
  \/ CleanerStops

MainStep == CloseStop \/ CloseDB \/ Exit

Next ==
  \/ \E s \in Savers : SaveStart(s) \/ Cancel(s) \/ SaverStep(s)
  \/ CleanerStep \/ TickerFires
  \/ MainStep \/ Signal \/ Crash \/ Restart
  \/ Clock

Spec == Init /\ [][Next]_vars

\* Goroutines are scheduled, timers and the ticker fire, the clock runs, and
\* a DELETE that is tried for ever succeeds at last: SQLite is not locked at
\* every attempt until the end of time.  Arrivals, cancellations, signals,
\* crashes and restarts are never forced.
FairSpec ==
  /\ Spec
  /\ \A s \in Savers : WF_vars(SaverStep(s))
  /\ WF_vars(CleanerStep) /\ WF_vars(TickerFires) /\ SF_vars(DeleteExpired)
  /\ WF_vars(MainStep) /\ WF_vars(Clock)

-----------------------------------------------------------------------------
\* The primary key is part of the table's type.
TypeOK ==
  /\ now \in Times
  /\ rows \subseteq Row /\ \A q, r \in rows : q.id = r.id => q = r
  /\ phase \in {"opening", "serving", "draining", "closing", "closed", "down"}
  /\ cleaner \in [pc : {"age", "trim", "idle", "stopped"}, cutoff : Int]
  /\ tick \in BOOLEAN /\ restarts \in 0 .. MaxRestarts
  /\ saver \in [Savers -> Save]

\* No result leaves the table before its time: whatever the order of saves,
\* cleanup passes, crashes and restarts, a row is only deleted once it is
\* older than the retention period or MaxResults others are at least as new,
\* although created_at is taken before the row is inserted and the cutoff
\* before the DELETE runs.
NoEarlyDeletion ==
  [][\A r \in rows \ rows' :
       \/ r.at < now - Retention
       \/ Cardinality({q \in rows \ {r} : q.at >= r.at}) >= MaxResults]_vars

\* The id a client is told (201) names the row of its own result.
OwnID ==
  [][\A s \in Savers :
       saver[s].result # "saved" /\ saver'[s].result = "saved" =>
         \E r \in rows' : r.owner = s /\ r.id = saver'[s].id]_vars

\* A save that was answered 503 or 500 stored nothing, so a client that
\* tries again cannot store its result twice; and no save stores two rows.
RefusedStoresNothing ==
  \A s \in Savers :
    LET own == {r \in rows : r.owner = s}
    IN  /\ Cardinality(own) <= 1
        /\ saver[s].result \in {"retryable", "failed"} => own = {}

\* No cleanup statement runs on a database that Close has closed.
CleanupBeforeClose == cleaner.pc \in {"age", "trim"} => DBOpen \/ phase = "opening"

\* Every Save ends, even if SQLite answers BUSY for ever: the retry budget is
\* one deadline for the call.
SaveTerminates == \A s \in Savers : saver[s].pc = "generate" ~> saver[s].pc = "done"

\* While the server serves, an expired result is eventually purged.
ExpiredPurged ==
  \A i \in IDs :
    (\E r \in rows : r.id = i /\ Expired(r, now - Retention))
      ~> (phase # "serving" \/ ~ \E r \in rows : r.id = i /\ Expired(r, now - Retention))

\* A signalled server goes down: Close never waits for ever for the cleaner.
ShutdownCompletes == phase = "draining" ~> phase = "down"

\* What "failed to generate unique ID after %d attempts" says of Save: a
\* duplicate id costs one attempt and only the last attempt's costs the save.
ConflictIsRetried ==
  [][\A s \in Savers :
       saver'[s].collided > saver[s].collided =>
         saver'[s].pc = "generate" \/ saver'[s].collided = MaxIDRetries]_vars
=============================================================================
