------------------------- MODULE TransferStream_proofs -------------------------
(***************************************************************************)
(* Proofs about TransferStream: its invariants, for any durations, sizes   *)
(* and windows that satisfy StreamAssumption.                              *)
(***************************************************************************)
EXTENDS TransferStream, TLAPS

-----------------------------------------------------------------------------
(* The inductive invariant.  Each property needs to know where the deadline *)
(* in force came from, and what has happened since it was set.              *)

\* Each handler stays in its own part of the program.
InItsLoop ==
  /\ kind = "upload" => pc \in {"check", "read", "leave", "done"} /\ limit <= MaxDuration
  /\ kind = "refused" => pc \in {"drain", "done"} /\ limit = DrainTimeout
  /\ kind = "download" => pc \in {"check", "write", "flush", "done"} /\ limit <= MaxDuration
  /\ pc = "write" => left > 0
  /\ pc = "flush" => now >= limit
  /\ fate # "none" => Done
  /\ end \in {"timeout", "eof"} => pc \in {"leave", "done"}

\* The connection's deadline lies ahead, and never after the handler's time
\* is up or, but for a download that has not begun, after a peer that moves
\* nothing has been waited for long enough.
DeadlineInForce ==
  ~ Done =>
    /\ now <= deadline /\ deadline <= Latest
    /\ \/ deadline <= moved + IdleTimeout
       \/ kind = "download" /\ pc = "check" /\ nextRefresh = 0

\* Between two refreshes the deadline is the one the last refresh set.
DeadlineOfRefresh ==
  deadline = Latest \/ deadline = nextRefresh + (IdleTimeout - RefreshPeriod)

\* A read or a chunk is only begun with a refresh that is still young.
RefreshIsYoung ==
  /\ pc = "check" => now = moved /\ (nextRefresh = 0 \/ DeadlineOfRefresh)
  /\ pc = "read" => moved < nextRefresh /\ DeadlineOfRefresh
  /\ pc = "write" => chunkAt < nextRefresh /\ DeadlineOfRefresh

\* What ended an upload's loop is still true when its fate is decided.
EndStillTrue ==
  kind # "download" =>
    /\ end = "eof" => client # "sending" /\ total = sent
    /\ end = "stopped" => ctx # "live" \/ now > limit
    /\ pc = "leave" => end \in {"eof", "stopped", "timeout", "closed", "lost"}

IInv ==
  /\ TypeOK
  /\ InItsLoop /\ DeadlineInForce /\ RefreshIsYoung
  /\ ActiveNotCut /\ EndStillTrue /\ KeptOnlyAtEOF

LEMMA InitEstablishes == Init => IInv
BY StreamAssumption
  DEF Init, IInv, TypeOK, InItsLoop, DeadlineInForce, DeadlineOfRefresh, RefreshIsYoung,
      ActiveNotCut, EndStillTrue, KeptOnlyAtEOF, Latest, Done

LEMMA NextPreserves == IInv /\ [Next]_vars => IInv'
<1>. SUFFICES ASSUME IInv, [Next]_vars
              PROVE  IInv'
  OBVIOUS
<1>. USE StreamAssumption
     DEF IInv, TypeOK, InItsLoop, DeadlineInForce, DeadlineOfRefresh, RefreshIsYoung,
         ActiveNotCut, EndStillTrue, KeptOnlyAtEOF, Latest, Done, handler
<1>1. CASE UploadCheck
  \* Either the loop is left, or a read starts under a deadline that is young.
  BY <1>1 DEF UploadCheck, Break, Refresh, speedtestIdleDeadline
<1>2. ASSUME NEW n \in 0 .. MaxBytes, NEW eof \in BOOLEAN, ReadBody(n, eof)
      PROVE  IInv'
  BY <1>2 DEF ReadBody, Break
<1>3. ASSUME NEW why \in {"timeout", "closed", "lost"}, ReadFails(why)
      PROVE  IInv'
  \* A read that times out before the limit was begun under a refresh younger
  \* than nextRefresh, and its deadline is that refresh's.
  <2>1. CASE why = "timeout"
    BY <1>3, <2>1 DEF ReadFails, Break
  <2>2. CASE why = "closed"
    BY <1>3, <2>2 DEF ReadFails, Break
  <2>3. CASE why = "lost"
    BY <1>3, <2>3 DEF ReadFails, Break
  <2>. QED  BY <2>1, <2>2, <2>3
<1>4. CASE DeadlineExpires
  BY <1>4 DEF DeadlineExpires
<1>5. CASE CloseBody
  BY <1>5 DEF CloseBody
<1>6. CASE LeaveUpload
  BY <1>6 DEF LeaveUpload
<1>7. ASSUME NEW n \in 1 .. MaxBytes, Drain(n)
      PROVE  IInv'
  BY <1>7 DEF Drain, EndDrain, Break
<1>8. CASE DrainEOF
  BY <1>8 DEF DrainEOF, EndDrain, Break
<1>9. CASE DrainFails
  BY <1>9 DEF DrainFails, EndDrain, Break
<1>10. CASE DownloadCheck
  BY <1>10 DEF DownloadCheck, Break, Refresh, speedtestIdleDeadline
<1>11. CASE WriteUnit
  BY <1>11 DEF WriteUnit
<1>12. CASE FlushDone
  BY <1>12 DEF FlushDone
<1>13. ASSUME NEW why \in {"timeout", "lost"}, WriteFails(why)
       PROVE  IInv'
  <2>1. CASE why = "timeout"
    \* As for a read; the final flush has the limit behind it.
    BY <1>13, <2>1 DEF WriteFails, Break
  <2>2. CASE why = "lost"
    BY <1>13, <2>2 DEF WriteFails, Break
  <2>. QED  BY <2>1, <2>2
<1>14. CASE ClientSends
  BY <1>14 DEF ClientSends
<1>15. CASE ClientFinishes
  BY <1>15 DEF ClientFinishes
<1>16. CASE ClientTakes
  BY <1>16 DEF ClientTakes
<1>17. CASE ClientLeaves
  BY <1>17 DEF ClientLeaves
<1>18. CASE Clock
  BY <1>18 DEF Clock
<1>19. CASE UNCHANGED vars
  BY <1>19 DEF vars
<1>. QED
  BY <1>1, <1>2, <1>3, <1>4, <1>5, <1>6, <1>7, <1>8, <1>9, <1>10, <1>11, <1>12, <1>13,
     <1>14, <1>15, <1>16, <1>17, <1>18, <1>19 DEF Next

LEMMA Invariant == Spec => []IInv
BY InitEstablishes, NextPreserves, PTL DEF Spec

-----------------------------------------------------------------------------
\* Every variable keeps its type: a clock that only counts up, counts of the
\* body and the chunk within what was sent and what fits.
THEOREM TypeCorrect == Spec => []TypeOK
BY Invariant, PTL DEF IInv

\* Upload and Download never outlive their duration, nor a download's last
\* flush its grace, nor the drain of a refused upload its 100 ms: an open
\* handler always waits under a deadline that lies no later.
THEOREM HandlersEndInTime == Spec => []EndsInTime
<1>1. IInv => EndsInTime
  BY StreamAssumption DEF IInv, TypeOK, DeadlineInForce, EndsInTime, Latest, Done
<1>. QED  BY <1>1, Invariant, PTL

\* A peer that neither sends nor takes anything for the idle timeout has lost
\* its handler: the deadline in force was set at most that long after the
\* last data moved.
THEOREM StalledPeersAreCut == Spec => []StalledIsCut
<1>1. IInv => StalledIsCut
  BY StreamAssumption
    DEF IInv, TypeOK, DeadlineInForce, RefreshIsYoung, StalledIsCut, Latest, Done
<1>. QED  BY <1>1, Invariant, PTL

\* Refreshing the deadline at most once a period never cuts a peer that was
\* active: a timeout before the limit means a read, or a chunk, that took
\* longer than the idle timeout less one period.
THEOREM ActivePeersAreNotCut == Spec => []ActiveNotCut
BY Invariant, PTL DEF IInv

\* A connection that carried an upload is only kept when the whole body was
\* read from it, so that no rest of a body is taken for the next request.
THEOREM ConnectionsKeptAtEOF == Spec => []KeptOnlyAtEOF
BY Invariant, PTL DEF IInv
================================================================================
