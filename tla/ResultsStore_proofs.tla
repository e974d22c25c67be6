-------------------------- MODULE ResultsStore_proofs --------------------------
(***************************************************************************)
(* Proofs about ResultsStore: its invariants and its two action            *)
(* properties, for any number of saves, ids, retries, restarts, rows kept  *)
(* and any length of the run.                                              *)
(***************************************************************************)
EXTENDS ResultsStore, FiniteSetTheorems, TLAPS

-----------------------------------------------------------------------------
(* The inductive invariant. *)

\* A Save that has begun ends within the clock's bound and has an attempt
\* left, and the id it inserts is one that was generated.
InTime(rec) ==
  /\ rec.pc \in {"generate", "insert", "wait"} =>
       /\ rec.at + BusyBudget <= MaxTime
       /\ rec.collided < MaxIDRetries
  /\ rec.pc \in {"insert", "wait"} => rec.id \in IDs
  /\ rec.pc = "none" => rec = NewSaver

SavesInTime == \A s \in Savers : InTime(saver[s])

\* A row was stored by the last step of a Save that was told so or that went
\* away, and is the only one of it.
RowsAreOfEndedSaves ==
  /\ \A r \in rows : /\ saver[r.owner].pc = "done"
                     /\ saver[r.owner].result \in {"saved", "cancelled"}
  /\ \A q, r \in rows : q.owner = r.owner => q = r
  /\ IsFiniteSet(rows)

\* The cleaner runs while the database is open, by a cutoff that was the
\* retention period ago when it was computed.
CleanerInItsTime ==
  /\ phase \in {"closed", "down"} => cleaner.pc = "stopped"
  /\ cleaner.pc = "age" => cleaner.cutoff <= now - Retention

IInv == TypeOK /\ SavesInTime /\ RowsAreOfEndedSaves /\ CleanerInItsTime

-----------------------------------------------------------------------------
(* What a step of a Save handler leaves true, whatever it is. *)

LEMMA NewSaverTyped == NewSaver \in Save /\ InTime(NewSaver)
BY StoreAssumption DEF NewSaver, Save, Times, InTime

\* The answer to a Save is typed, and it is done.
LEMMA AnswerTyped ==
  ASSUME NEW rec \in Save,
         NEW result \in {"saved", "retryable", "failed", "cancelled", "lost"}
  PROVE  /\ Answer(rec, result) \in Save /\ InTime(Answer(rec, result))
         /\ Answer(rec, result).pc = "done" /\ Answer(rec, result).result = result
         /\ Answer(rec, result).id = rec.id
BY NewSaverTyped DEF Answer, NewSaver, Save, InTime

\* A Save that has not ended owns no row, so that its next state is free.
LEMMA SaverMoves ==
  ASSUME IInv, NEW s \in Savers, saver[s].pc # "done",
         NEW rec \in Save, InTime(rec), Put(s, rec),
         UNCHANGED <<now, rows, phase, cleaner, tick, restarts>>
  PROVE  IInv'
<1>1. TypeOK'
  BY DEF IInv, TypeOK, Put
<1>2. SavesInTime'
  BY DEF IInv, TypeOK, SavesInTime, Put
<1>3. RowsAreOfEndedSaves'
  <2>1. \A r \in rows : r.owner # s /\ r.owner \in Savers
    BY DEF IInv, TypeOK, Row, RowsAreOfEndedSaves
  <2>. QED  BY <2>1 DEF IInv, TypeOK, RowsAreOfEndedSaves, Put
<1>4. CleanerInItsTime'
  BY DEF IInv, CleanerInItsTime
<1>. QED  BY <1>1, <1>2, <1>3, <1>4 DEF IInv

\* An INSERT that is committed in the step that ends the Save.
LEMMA SaverStores ==
  ASSUME IInv, NEW s \in Savers, saver[s].pc = "insert", ~ Taken(saver[s].id),
         NEW result \in {"saved", "cancelled"}, Finish(s, saver[s], result),
         rows' = rows \cup {OwnRow(s)},
         UNCHANGED <<now, phase, cleaner, tick, restarts>>
  PROVE  IInv'
<1> DEFINE rec == Answer(saver[s], result)
<1>1. saver[s] \in Save /\ saver[s].id \in IDs
  BY DEF IInv, TypeOK, SavesInTime, InTime
<1>2. rec \in Save /\ InTime(rec) /\ rec.pc = "done" /\ rec.result = result
  BY <1>1, AnswerTyped
<1>3. saver' = [saver EXCEPT ![s] = rec]
  BY DEF Finish, Put
<1>4. OwnRow(s) \in Row /\ OwnRow(s).id = saver[s].id /\ OwnRow(s).owner = s
  BY <1>1 DEF OwnRow, Row, Save
<1>5. \A r \in rows : r.owner # s /\ r.owner \in Savers /\ r.id # saver[s].id
  BY DEF IInv, TypeOK, Row, RowsAreOfEndedSaves, Taken
<1> HIDE DEF rec
<1>6. TypeOK'
  BY <1>2, <1>3, <1>4, <1>5 DEF IInv, TypeOK
<1>7. SavesInTime'
  BY <1>2, <1>3 DEF IInv, TypeOK, SavesInTime
<1>8. RowsAreOfEndedSaves'
  <2>1. IsFiniteSet(rows')
    BY FS_AddElement DEF IInv, RowsAreOfEndedSaves
  <2>2. \A r \in rows' : saver'[r.owner].pc = "done"
                         /\ saver'[r.owner].result \in {"saved", "cancelled"}
    BY <1>2, <1>3, <1>4, <1>5 DEF IInv, TypeOK, RowsAreOfEndedSaves
  <2>3. \A q, r \in rows' : q.owner = r.owner => q = r
    BY <1>4, <1>5 DEF IInv, RowsAreOfEndedSaves
  <2>. QED  BY <2>1, <2>2, <2>3 DEF RowsAreOfEndedSaves
<1>9. CleanerInItsTime'
  BY DEF IInv, CleanerInItsTime
<1>. QED  BY <1>6, <1>7, <1>8, <1>9 DEF IInv

\* A Save that ends without a row.
LEMMA SaverEnds ==
  ASSUME IInv, NEW s \in Savers, saver[s].pc # "done",
         NEW rec \in Save,
         NEW result \in {"saved", "retryable", "failed", "cancelled", "lost"},
         Finish(s, rec, result),
         UNCHANGED <<now, rows, phase, cleaner, tick, restarts>>
  PROVE  IInv'
BY AnswerTyped, SaverMoves DEF Finish

\* A pass of cleanup that removes rows, and a step that does not touch them,
\* leave every row that remains as it was.
LEMMA RowsRemoved ==
  ASSUME IInv, rows' \subseteq rows, UNCHANGED <<now, saver, tick, restarts>>,
         cleaner' \in [pc : {"age", "trim", "idle", "stopped"}, cutoff : Int],
         phase' \in {"opening", "serving", "draining", "closing", "closed", "down"},
         CleanerInItsTime'
  PROVE  IInv'
<1>1. TypeOK'
  BY DEF IInv, TypeOK
<1>2. SavesInTime'
  BY DEF IInv, SavesInTime
<1>3. RowsAreOfEndedSaves'
  BY FS_Subset DEF IInv, RowsAreOfEndedSaves
<1>. QED  BY <1>1, <1>2, <1>3 DEF IInv

-----------------------------------------------------------------------------
(* Every step preserves the invariant. *)

\* A pass by the clock of now.
LEMMA PassTyped ==
  ASSUME now \in Times
  PROVE  /\ [pc |-> "age", cutoff |-> now - Retention]
              \in [pc : {"age", "trim", "idle", "stopped"}, cutoff : Int]
         /\ \A p \in {"age", "trim", "idle", "stopped"} :
              [pc |-> p, cutoff |-> 0] \in [pc : {"age", "trim", "idle", "stopped"}, cutoff : Int]
BY StoreAssumption DEF Times

LEMMA InitEstablishes == Init => IInv
<1>. SUFFICES ASSUME Init PROVE IInv
  OBVIOUS
<1>1. TypeOK
  <2>1. now \in Times /\ restarts \in 0 .. MaxRestarts
    BY StoreAssumption DEF Init, Times
  <2>2. cleaner \in [pc : {"age", "trim", "idle", "stopped"}, cutoff : Int]
    BY <2>1, PassTyped DEF Init
  <2>3. saver \in [Savers -> Save]
    BY NewSaverTyped DEF Init
  <2>. QED  BY <2>1, <2>2, <2>3 DEF Init, TypeOK
<1>2. SavesInTime
  BY NewSaverTyped DEF Init, SavesInTime
<1>3. RowsAreOfEndedSaves
  BY FS_EmptySet DEF Init, RowsAreOfEndedSaves
<1>4. CleanerInItsTime
  BY StoreAssumption DEF Init, CleanerInItsTime
<1>. QED  BY <1>1, <1>2, <1>3, <1>4 DEF IInv

LEMMA SaverPreserves ==
  ASSUME IInv, NEW s \in Savers, SaveStart(s) \/ Cancel(s) \/ SaverStep(s)
  PROVE  IInv'
<1>1. saver[s] \in Save /\ InTime(saver[s]) /\ now \in Times
  BY DEF IInv, TypeOK, SavesInTime
<1>2. CASE SaveStart(s)
  <2> DEFINE rec == [saver[s] EXCEPT !.pc = "generate", !.at = now]
  <2>1. saver[s] = NewSaver
    BY <1>1, <1>2 DEF SaveStart, InTime
  <2>2. rec \in Save /\ InTime(rec)
    <3>1. rec \in Save /\ rec.pc = "generate" /\ rec.at = now
      BY <1>1 DEF Save
    <3>2. rec.collided = 0
      BY <2>1 DEF NewSaver
    <3>. QED  BY <1>2, <3>1, <3>2, StoreAssumption DEF SaveStart, InTime
  <2>. QED  BY <1>2, <2>2, SaverMoves DEF SaveStart
<1>3. CASE Cancel(s)
  <2> DEFINE rec == [saver[s] EXCEPT !.gone = TRUE]
  <2>1. rec \in Save /\ InTime(rec)
    BY <1>1, <1>3 DEF Cancel, Save, InTime
  <2>. QED  BY <1>3, <2>1, SaverMoves DEF Cancel
<1>4. CASE GenerateID(s)
  <2>1. CASE saver[s].gone
    BY <1>1, <1>4, <2>1, SaverEnds DEF GenerateID
  <2>2. CASE ~ saver[s].gone
    <3>1. PICK i \in IDs : Put(s, [saver[s] EXCEPT !.pc = "insert", !.id = i, !.attempt = 0])
      BY <1>4, <2>2 DEF GenerateID
    <3> DEFINE rec == [saver[s] EXCEPT !.pc = "insert", !.id = i, !.attempt = 0]
    <3>2. rec \in Save /\ InTime(rec)
      BY <1>1, <1>4 DEF GenerateID, Save, InTime
    <3>. QED  BY <1>4, <3>1, <3>2, SaverMoves DEF GenerateID
  <2>. QED  BY <2>1, <2>2
<1>5. CASE InsertOK(s)
  BY <1>5, SaverStores DEF InsertOK, SaveReturns
<1>6. CASE InsertCancelled(s)
  <2>1. Finish(s, saver[s], "cancelled")
    BY <1>6 DEF InsertCancelled, SaveReturns
  <2>2. CASE rows' = rows
    BY <1>1, <1>6, <2>1, <2>2, SaverEnds DEF InsertCancelled
  <2>3. CASE rows' # rows
    BY <1>6, <2>1, <2>3, SaverStores DEF InsertCancelled
  <2>. QED  BY <2>2, <2>3
<1>7. CASE InsertConflict(s)
  <2> DEFINE rec == [saver[s] EXCEPT !.collided = @ + 1]
             next == [rec EXCEPT !.pc = "generate"]
  <2>1. rec \in Save
    BY <1>1, <1>7, StoreAssumption DEF InsertConflict, InTime, Save
  <2>2. PICK code \in ConflictCodes :
          SaveReturns(s, rec, isUniqueViolation(code),
                      IF isUniqueViolation(code) THEN "none" ELSE "failed")
    BY <1>7 DEF InsertConflict
  <2>3. CASE Put(s, next) /\ rec.collided < MaxIDRetries
    <3>1. next \in Save /\ InTime(next)
      BY <1>1, <1>7, <2>1, <2>3 DEF InsertConflict, InTime, Save
    <3>. QED  BY <1>7, <2>3, <3>1, SaverMoves DEF InsertConflict
  <2>4. CASE Finish(s, rec, "saved") \/ Finish(s, rec, "failed")
    BY <1>7, <2>1, <2>4, SaverEnds DEF InsertConflict
  <2>. QED  BY <2>2, <2>3, <2>4 DEF SaveReturns
<1>8. CASE InsertFailed(s)
  <2>1. Finish(s, saver[s], IF saver[s].gone THEN "cancelled" ELSE "failed")
    BY <1>8 DEF InsertFailed, SaveReturns
  <2>. QED  BY <1>1, <1>8, <2>1, SaverEnds DEF InsertFailed
<1>9. CASE InsertBusy(s)
  <2> DEFINE wake == Earliest(now + busyRetryDelay(saver[s].attempt), busyDeadline(s))
             rec == [saver[s] EXCEPT !.pc = "wait", !.wake = wake]
  <2>1. CASE Finish(s, saver[s], "cancelled") \/ Finish(s, saver[s], "retryable")
    BY <1>1, <1>9, <2>1, SaverEnds DEF InsertBusy
  <2>2. CASE Put(s, rec)
    <3>1. busyRetryDelay(saver[s].attempt) \in Nat
      <4>1. saver[s].attempt \in Nat /\ MaxBackoff \in Nat
        BY <1>1, StoreAssumption DEF Save
      <4>2. \A n \in 0 .. 3 : <<1, 2, 4, 8>>[n + 1] \in Nat
        OBVIOUS
      <4>. QED  BY <4>1, <4>2 DEF busyRetryDelay, Earliest
    <3>2. busyDeadline(s) \in Times
      BY <1>1, <1>9, StoreAssumption DEF InsertBusy, busyDeadline, InTime, Save, Times
    <3>3. wake \in Times
      BY <1>1, <3>1, <3>2, StoreAssumption DEF Earliest, Times
    <3>4. rec \in Save /\ InTime(rec)
      <4> HIDE DEF wake
      <4>. QED  BY <1>1, <1>9, <3>3 DEF InsertBusy, InTime, Save
    <3>. QED  BY <1>9, <2>2, <3>4, SaverMoves DEF InsertBusy
  <2>. QED  BY <1>9, <2>1, <2>2 DEF InsertBusy
<1>10. CASE WakeUp(s)
  <2> DEFINE rec == [saver[s] EXCEPT !.pc = "insert", !.attempt = @ + 1, !.wake = 0]
  <2>1. CASE Finish(s, saver[s], "cancelled") \/ Finish(s, saver[s], "retryable")
    BY <1>1, <1>10, <2>1, SaverEnds DEF WakeUp
  <2>2. CASE Put(s, rec)
    <3>1. rec \in Save /\ InTime(rec)
      <4>1. saver[s].attempt + 1 \in Nat /\ 0 \in Times
        BY <1>1, StoreAssumption DEF Save, Times
      <4>. QED  BY <1>1, <1>10, <4>1 DEF WakeUp, InTime, Save
    <3>. QED  BY <1>10, <2>2, <3>1, SaverMoves DEF WakeUp
  <2>. QED  BY <1>10, <2>1, <2>2 DEF WakeUp
<1>. QED
  BY <1>2, <1>3, <1>4, <1>5, <1>6, <1>7, <1>8, <1>9, <1>10 DEF SaverStep

\* The process goes: what had not ended is lost, and the cleaner with it.
LEMMA StopPreserves ==
  ASSUME IInv, Stop
  PROVE  IInv'
<1>1. \A s \in Savers : saver'[s] \in Save /\ InTime(saver'[s])
  <2>. TAKE s \in Savers
  <2>1. saver[s] \in Save /\ InTime(saver[s])
    BY DEF IInv, TypeOK, SavesInTime
  <2>2. saver'[s] \in {saver[s], Answer(saver[s], "lost")}
    BY DEF Stop
  <2>. QED  BY <2>1, <2>2, AnswerTyped
<1>2. TypeOK'
  <2>1. saver' \in [Savers -> Save]
    BY <1>1 DEF Stop
  <2>2. cleaner' \in [pc : {"age", "trim", "idle", "stopped"}, cutoff : Int]
    BY PassTyped DEF Stop, IInv, TypeOK
  <2>. QED  BY <2>1, <2>2 DEF IInv, TypeOK, Stop
<1>3. SavesInTime'
  BY <1>1 DEF SavesInTime
<1>4. RowsAreOfEndedSaves'
  <2>1. \A r \in rows : saver'[r.owner] = saver[r.owner]
    BY DEF IInv, TypeOK, Row, RowsAreOfEndedSaves, Stop
  <2>. QED  BY <2>1 DEF IInv, RowsAreOfEndedSaves, Stop
<1>5. CleanerInItsTime'
  BY DEF Stop, CleanerInItsTime
<1>. QED  BY <1>2, <1>3, <1>4, <1>5 DEF IInv

LEMMA NextPreserves == IInv /\ [Next]_vars => IInv'
<1>. SUFFICES ASSUME IInv, [Next]_vars PROVE IInv'
  OBVIOUS
<1>1. ASSUME NEW s \in Savers, SaveStart(s) \/ Cancel(s) \/ SaverStep(s)
      PROVE  IInv'
  BY <1>1, SaverPreserves
<1>2. CASE CleanerStep
  <2>. USE StoreAssumption DEF IInv, TypeOK, Times, CleanerInItsTime
  <2>1. CASE CleanupStart
    <3>1. cleaner' \in [pc : {"age", "trim", "idle", "stopped"}, cutoff : Int]
      BY <2>1, PassTyped DEF CleanupStart
    <3>2. TypeOK'
      BY <2>1, <3>1 DEF CleanupStart
    <3>3. CleanerInItsTime'
      BY <2>1 DEF CleanupStart
    <3>. QED  BY <2>1, <3>2, <3>3 DEF CleanupStart, SavesInTime, RowsAreOfEndedSaves
  <2>2. CASE DeleteExpired
    BY <2>2, RowsRemoved DEF DeleteExpired
  <2>3. CASE DeleteExpiredFails
    BY <2>3, RowsRemoved DEF DeleteExpiredFails
  <2>4. CASE TrimOldest \/ TrimFails
    <3>1. rows' \subseteq rows /\ EndCleanup
      BY <2>4 DEF TrimOldest, TrimFails
    <3>. QED  BY <3>1, RowsRemoved DEF EndCleanup
  <2>5. CASE CleanerStops
    BY <2>5, RowsRemoved DEF CleanerStops
  <2>. QED  BY <1>2, <2>1, <2>2, <2>3, <2>4, <2>5 DEF CleanerStep
<1>3. CASE TickerFires
  BY <1>3 DEF TickerFires, IInv, TypeOK, SavesInTime, RowsAreOfEndedSaves, CleanerInItsTime
<1>4. CASE Signal \/ CloseStop \/ CloseDB
  BY <1>4, RowsRemoved DEF Signal, CloseStop, CloseDB, IInv, TypeOK, CleanerInItsTime
<1>5. CASE Exit \/ Crash
  BY <1>5, StopPreserves DEF Exit, Crash
<1>6. CASE Restart
  <2>1. TypeOK' /\ CleanerInItsTime'
    BY <1>6, StoreAssumption DEF Restart, IInv, TypeOK, Times, CleanerInItsTime
  <2>. QED  BY <1>6, <2>1 DEF Restart, IInv, SavesInTime, RowsAreOfEndedSaves
<1>7. CASE Clock
  <2>1. TypeOK' /\ CleanerInItsTime'
    BY <1>7, StoreAssumption DEF Clock, IInv, TypeOK, Times, CleanerInItsTime
  <2>. QED  BY <1>7, <2>1 DEF Clock, IInv, SavesInTime, RowsAreOfEndedSaves
<1>8. CASE UNCHANGED vars
  BY <1>8 DEF vars, IInv, TypeOK, SavesInTime, RowsAreOfEndedSaves, CleanerInItsTime
<1>. QED
  BY <1>1, <1>2, <1>3, <1>4, <1>5, <1>6, <1>7, <1>8 DEF Next, MainStep

LEMMA Invariant == Spec => []IInv
BY InitEstablishes, NextPreserves, PTL DEF Spec

-----------------------------------------------------------------------------
\* The table and every Save handler keep their types; with the table's goes
\* its primary key, no two rows of one id.
THEOREM TypeCorrect == Spec => []TypeOK
BY Invariant, PTL DEF IInv

\* An answer of 503 or 500 means that nothing was stored, whatever the order
\* of conflicts, busy statements and cancellations before it, so that the
\* client may send its result again; and no save ever leaves two rows.
THEOREM RefusedSavesLeaveNothing == Spec => []RefusedStoresNothing
<1>1. IInv => RefusedStoresNothing
  <2>. SUFFICES ASSUME IInv, NEW s \in Savers
                PROVE  LET own == {r \in rows : r.owner = s}
                       IN  /\ Cardinality(own) <= 1
                           /\ saver[s].result \in {"retryable", "failed"} => own = {}
    BY DEF RefusedStoresNothing
  <2> DEFINE own == {r \in rows : r.owner = s}
  <2>1. own = {} \/ \E r : own = {r}
    BY DEF IInv, RowsAreOfEndedSaves
  <2>2. Cardinality(own) <= 1
    <3>1. CASE own = {}
      <4>. QED  BY <3>1, FS_EmptySet
    <3>2. ASSUME NEW r, own = {r}
          PROVE  Cardinality(own) <= 1
      <4>1. Cardinality({r}) = 1
        BY FS_Singleton, Zenon
      <4>. QED  BY <3>2, <4>1
    <3> HIDE DEF own
    <3>. QED  BY <2>1, <3>1, <3>2
  <2>3. saver[s].result \in {"retryable", "failed"} => own = {}
    BY DEF IInv, RowsAreOfEndedSaves
  <2>. QED  BY <2>2, <2>3
<1>. QED  BY <1>1, Invariant, PTL

\* Store.Close only closes the database when its cleaner has stopped, so that
\* no cleanup statement runs on a closed database.
THEOREM CloseWaitsForTheCleaner == Spec => []CleanupBeforeClose
<1>1. IInv => CleanupBeforeClose
  BY DEF IInv, TypeOK, CleanerInItsTime, CleanupBeforeClose, DBOpen
<1>. QED  BY <1>1, Invariant, PTL

\* A row only leaves the table when it is past the retention period or when
\* MaxResults other rows are at least as new as it, in whatever order saves,
\* cleanup passes, crashes and restarts come.
THEOREM RowsStayTheirTime == Spec => NoEarlyDeletion
<1> DEFINE OldOrCrowdedOut(r) ==
      \/ r.at < now - Retention
      \/ Cardinality({q \in rows \ {r} : q.at >= r.at}) >= MaxResults
    InTurn == \A r \in rows \ rows' : OldOrCrowdedOut(r)
<1>1. ASSUME IInv, [Next]_vars
      PROVE  InTurn
  <2>. SUFFICES ASSUME NEW r \in rows, r \notin rows'
                PROVE  OldOrCrowdedOut(r)
    OBVIOUS
  <2>1. DeleteExpired \/ TrimOldest
    \* No other step takes a row away.
    BY <1>1 DEF Next, SaverStep, CleanerStep, MainStep, SaveStart, Cancel, GenerateID, InsertOK,
       InsertCancelled, InsertConflict, InsertFailed, InsertBusy, WakeUp, CleanupStart,
       DeleteExpiredFails, TrimFails, EndCleanup, CleanerStops, TickerFires, CloseStop,
       CloseDB, Exit, Signal, Crash, Stop, Restart, Clock, vars
  <2>2. r \in Row /\ now \in Int /\ r.at \in Int
    BY <1>1 DEF IInv, TypeOK, Row, Times
  <2>3. CASE DeleteExpired
    BY <1>1, <2>2, <2>3, StoreAssumption
      DEF DeleteExpired, Expired, IInv, TypeOK, CleanerInItsTime
  <2>4. CASE TrimOldest
    <3> DEFINE newer == {q \in rows : Newer(q, r)}
               atLeastAsNew == {q \in rows \ {r} : q.at >= r.at}
    <3>1. Cardinality(newer) >= MaxResults
      BY <2>4 DEF TrimOldest, Beyond
    <3>2. newer \subseteq atLeastAsNew
      <4>. SUFFICES ASSUME NEW q \in rows, Newer(q, r)
                    PROVE  q # r /\ q.at >= r.at
        OBVIOUS
      <4>1. q \in Row
        BY <1>1 DEF IInv, TypeOK
      <4>2. q.at \in Int /\ q.id \in Int /\ r.id \in Int
        <5>1. q.id \in IDs /\ r.id \in IDs /\ q.at \in Times
          BY <2>2, <4>1 DEF Row
        <5>2. IDs \subseteq Int /\ Times \subseteq Int
          BY StoreAssumption DEF Times
        <5>. QED  BY <5>1, <5>2
      <4>. QED  BY <2>2, <4>2 DEF Newer
    <3>3. IsFiniteSet(atLeastAsNew)
      BY <1>1, FS_Subset DEF IInv, RowsAreOfEndedSaves
    <3>4. /\ Cardinality(newer) <= Cardinality(atLeastAsNew)
          /\ Cardinality(newer) \in Nat /\ Cardinality(atLeastAsNew) \in Nat
      BY <3>2, <3>3, FS_Subset, FS_CardinalityType
    <3>. QED  BY <3>1, <3>4, StoreAssumption
  <2>. QED  BY <2>1, <2>3, <2>4
<1>2. IInv /\ [Next]_vars => [InTurn]_vars
  BY <1>1
<1>. QED  BY <1>2, Invariant, PTL DEF Spec, NoEarlyDeletion

\* The id in a 201 is that of the row just stored for this very request.  It
\* rests on SQLite not answering a duplicate key with the one code that
\* isUniqueViolation knows: Save would take that for success.
THEOREM ToldTheIDOfItsOwnRow ==
  ASSUME "UNIQUE" \notin ConflictCodes
  PROVE  Spec => OwnID
<1> DEFINE Told(s) == saver[s].result # "saved" /\ saver'[s].result = "saved"
           Stored(s) == \E r \in rows' : r.owner = s /\ r.id = saver'[s].id
           Own == \A s \in Savers : Told(s) => Stored(s)
<1>1. ASSUME IInv, [Next]_vars
      PROVE  Own
  <2>. SUFFICES ASSUME NEW s \in Savers, Told(s)
                PROVE  Stored(s)
    OBVIOUS
  <2>1. saver \in [Savers -> Save] /\ saver[s] \in Save
    BY <1>1 DEF IInv, TypeOK
  <2>2. \A rec \in Save, result \in {"retryable", "failed", "cancelled", "lost"} :
          Answer(rec, result).result # "saved"
    BY AnswerTyped
  <2>3. InsertOK(s)
    <3>1. ASSUME NEW t \in Savers, SaveStart(t) \/ Cancel(t) \/ SaverStep(t)
          PROVE  InsertOK(s)
      <4>1. \E rec : Put(t, rec)
        BY <3>1 DEF SaveStart, Cancel, SaverStep, GenerateID, InsertOK, InsertCancelled,
           InsertConflict, InsertFailed, InsertBusy, WakeUp, SaveReturns, Finish
      <4>2. t = s
        BY <2>1, <4>1 DEF Put
      <4>3. \A rec : Put(s, rec) => saver'[s] = rec
        BY <2>1 DEF Put
      <4>4. \A result \in {"retryable", "failed", "cancelled", "lost"} :
              ~ Finish(s, saver[s], result)
        BY <2>1, <2>2, <4>3 DEF Finish
      <4>5. ~ SaveStart(s) /\ ~ Cancel(s) /\ ~ GenerateID(s) /\ ~ InsertBusy(s) /\ ~ WakeUp(s)
        BY <2>1, <4>3, <4>4 DEF SaveStart, Cancel, GenerateID, InsertBusy, WakeUp, Save
      <4>6. ~ InsertCancelled(s) /\ ~ InsertFailed(s)
        BY <4>4 DEF InsertCancelled, InsertFailed, SaveReturns
      <4>7. ~ InsertConflict(s)
        \* The code is not the one taken for success, so the Save fails.
        <5> DEFINE rec == [saver[s] EXCEPT !.collided = @ + 1]
        <5>1. Answer(rec, "failed").result # "saved"
          BY DEF Answer, NewSaver
        <5>. QED
          BY <4>3, <5>1 DEF InsertConflict, isUniqueViolation, SaveReturns, Finish
      <4>. QED  BY <3>1, <4>2, <4>5, <4>6, <4>7 DEF SaverStep
    <3>2. CASE Exit \/ Crash
      <4>1. saver'[s] \in {saver[s], Answer(saver[s], "lost")}
        BY <3>2 DEF Exit, Crash, Stop
      <4>. QED  BY <2>1, <2>2, <4>1
    <3>3. CASE saver' = saver
      BY <3>3
    <3>. QED
      BY <1>1, <3>1, <3>2, <3>3 DEF Next, CleanerStep, MainStep, CleanupStart, DeleteExpired,
         DeleteExpiredFails, TrimOldest, TrimFails, EndCleanup, CleanerStops, TickerFires,
         CloseStop, CloseDB, Signal, Restart, Clock, vars
  <2>4. saver'[s].id = saver[s].id
    BY <2>1, <2>3, AnswerTyped DEF InsertOK, SaveReturns, Finish, Put
  <2>5. OwnRow(s).owner = s /\ OwnRow(s).id = saver[s].id /\ OwnRow(s) \in rows'
    BY <2>3 DEF InsertOK, OwnRow
  <2>. QED  BY <2>4, <2>5
<1>2. IInv /\ [Next]_vars => [Own]_vars
  BY <1>1
<1>. QED  BY <1>2, Invariant, PTL DEF Spec, OwnID
================================================================================
