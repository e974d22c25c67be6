---------------------------- MODULE TransferStream ----------------------------
(***************************************************************************)
(* One speed-test request against the clock: the loops of Upload and       *)
(* Download with their renewed idle deadlines, and the bounded drain of an *)
(* upload that got no slot.  A handler that can go on does so, and a timer *)
(* fires, in much less than a tick; what happens at the same tick happens  *)
(* in any order.  Data is counted in units.                                *)
(***************************************************************************)
EXTENDS Integers

CONSTANTS IdleTimeout,     \* speedtestIOIdleTimeout
          RefreshPeriod,   \* speedtestDeadlineRefreshPeriod
          CloseGrace,      \* speedtestCloseGrace
          MaxDuration,     \* maxDurationSec
          DrainTimeout,    \* drainTimeout
          DrainLimit,      \* maxDrainBytes
          ChunkSize,       \* of a download
          Window,          \* what the network takes before the client reads
          MaxBytes         \* bound: what a client uploads

ASSUME StreamAssumption ==
  /\ {IdleTimeout, RefreshPeriod, CloseGrace, MaxDuration, DrainTimeout,
      DrainLimit, ChunkSize, Window, MaxBytes} \subseteq Nat \ {0}
  /\ RefreshPeriod < IdleTimeout /\ DrainTimeout <= IdleTimeout

VARIABLES now,          \* since the handler started
          kind,         \* which handler, and whether it got its slot
          limit,        \* the transfer's own deadline
          pc,
          deadline,     \* of the connection, for reading or for writing
          nextRefresh,  \* nextDeadlineRefresh
          ctx,          \* readCtx, or the request's context
          body,         \* the request's body
          end,          \* what ended the loop
          fate,         \* what becomes of the connection
          client,       \* the peer
          sent, total,  \* upload: units that arrived, totalBytes
          left, queued, \* download: of this chunk, and under way
          moved,        \* when the handler last got or handed over data
          chunkAt       \* when this chunk was begun

handler == <<kind, limit, pc, deadline, nextRefresh, end, fate, total, left, chunkAt>>
vars == <<now, handler, ctx, body, client, sent, queued, moved>>

Done == pc = "done"

\* Upload and Download are entered with a slot, or Upload without one.
Init ==
  /\ now = 0 /\ moved = 0 /\ chunkAt = 0
  /\ ctx = "live" /\ body = "open" /\ client = "sending"
  /\ end = "none" /\ fate = "none"
  /\ sent = 0 /\ total = 0 /\ left = 0 /\ queued = 0 /\ nextRefresh = 0
  /\ \/ /\ kind = "upload" /\ limit = MaxDuration /\ pc = "check"
        /\ deadline = IF IdleTimeout > limit THEN limit ELSE IdleTimeout
     \/ /\ kind = "refused" /\ limit = DrainTimeout /\ pc = "drain"
        /\ deadline = DrainTimeout
     \/ /\ kind = "download" /\ limit \in 1 .. MaxDuration /\ pc = "check"
        /\ deadline = limit + CloseGrace

-----------------------------------------------------------------------------
IdleUncapped(absolute) == now + IdleTimeout

NotIdle(absolute) == absolute

speedtestIdleDeadline(absolute) ==
  IF now + IdleTimeout > absolute THEN absolute ELSE now + IdleTimeout

RefreshEveryTimeout(absolute) ==
  IF now < nextRefresh
  THEN UNCHANGED <<deadline, nextRefresh>>
  ELSE /\ deadline' = speedtestIdleDeadline(absolute)
       /\ nextRefresh' = now + IdleTimeout

\* Renewed before a read, or before a chunk, at most once a period.
Refresh(absolute) ==
  IF now < nextRefresh
  THEN UNCHANGED <<deadline, nextRefresh>>
  ELSE /\ deadline' = speedtestIdleDeadline(absolute)
       /\ nextRefresh' = now + RefreshPeriod

\* The loop is left for this reason.
Break(why, to) == end' = why /\ pc' = to

-----------------------------------------------------------------------------
(* readUploadBody. *)

UploadCheck ==
  /\ kind = "upload" /\ pc = "check"
  /\ IF ctx # "live" \/ now > limit
     THEN Break("stopped", "leave") /\ UNCHANGED <<deadline, nextRefresh>>
     ELSE Refresh(limit) /\ pc' = "read" /\ UNCHANGED end
  /\ UNCHANGED <<now, kind, limit, fate, total, left, chunkAt,
                 ctx, body, client, sent, queued, moved>>

\* Data, the end of the body, or both; buffered data is read even late.
ReadBody(n, eof) ==
  /\ pc = "read" /\ body = "open"
  /\ n \in 0 .. sent - total
  /\ IF eof THEN client = "finished" /\ n = sent - total ELSE n > 0
  /\ total' = total + n /\ moved' = now
  /\ IF eof THEN Break("eof", "leave") ELSE pc' = "check" /\ UNCHANGED end
  /\ UNCHANGED <<now, kind, limit, deadline, nextRefresh, fate, left, chunkAt,
                 ctx, body, client, sent, queued>>

\* The deadline passes, the body was closed, or the connection is lost.
ReadFails(why) ==
  /\ pc = "read"
  /\ CASE why = "timeout" -> now >= deadline
       [] why = "closed"  -> body = "closed"
       [] why = "lost"    -> client = "gone"
  /\ Break(why, "leave")
  /\ UNCHANGED <<now, kind, limit, deadline, nextRefresh, fate, total, left, chunkAt,
                 ctx, body, client, sent, queued, moved>>

\* context.WithDeadline's timer.
DeadlineExpires ==
  /\ kind = "upload" /\ ctx = "live" /\ ~ Done /\ now >= limit
  /\ ctx' = "expired"
  /\ UNCHANGED <<now, handler, body, client, sent, queued, moved>>

\* The goroutine that waits for it.
CloseBody ==
  /\ kind = "upload" /\ ctx = "expired" /\ body = "open"
  /\ body' = "closed"
  /\ UNCHANGED <<now, handler, ctx, client, sent, queued, moved>>

LeaveWithoutAbort ==
  /\ kind = "upload" /\ pc = "leave"
  /\ fate' = IF end \in {"timeout", "closed", "lost"} THEN "aborted" ELSE "kept"
  /\ deadline' = IF fate' = "aborted" THEN now ELSE deadline
  /\ body' = "closed"
  /\ pc' = "done"
  /\ UNCHANGED <<now, kind, limit, nextRefresh, end, total, left, chunkAt,
                 ctx, client, sent, queued, moved>>

\* Upload after its loop: 500 and Abort for a failed read; 200 otherwise,
\* with Abort if the time was up, else with the body closed for reuse.
LeaveUpload ==
  /\ kind = "upload" /\ pc = "leave"
  /\ fate' = IF end \in {"timeout", "closed", "lost"} \/ ctx # "live" \/ now >= limit
             THEN "aborted" ELSE "kept"
  /\ deadline' = IF fate' = "aborted" THEN now ELSE deadline
  /\ body' = "closed"
  /\ pc' = "done"
  /\ UNCHANGED <<now, kind, limit, nextRefresh, end, total, left, chunkAt,
                 ctx, client, sent, queued, moved>>

-----------------------------------------------------------------------------
(* DrainAndClose, for an upload that is refused with 503. *)

EndDrain(why, what) ==
  /\ Break(why, "done") /\ fate' = what /\ body' = "closed"
  /\ UNCHANGED <<now, kind, limit, deadline, nextRefresh, left, chunkAt,
                 ctx, client, sent, queued>>

DrainToEnd(n) ==
  /\ pc = "drain" /\ n \in 1 .. sent - total
  /\ total' = total + n /\ moved' = now
  /\ UNCHANGED <<now, kind, limit, pc, deadline, nextRefresh, end, fate, left, chunkAt,
                 ctx, body, client, sent, queued>>

\* io.CopyN asks for one more than it would accept.
Drain(n) ==
  /\ pc = "drain" /\ n \in 1 .. sent - total /\ total + n <= DrainLimit + 1
  /\ total' = total + n /\ moved' = now
  /\ IF total' <= DrainLimit
     THEN UNCHANGED <<now, kind, limit, pc, deadline, nextRefresh, end, fate, left,
                      chunkAt, ctx, body, client, sent, queued>>
     ELSE EndDrain("tooMuch", "aborted")

\* The connection is kept if Close and SetReadDeadline then succeed, too.
DrainEOF ==
  /\ pc = "drain" /\ client = "finished" /\ total = sent
  /\ \E what \in {"kept", "aborted"} : EndDrain("eof", what)
  /\ UNCHANGED <<total, moved>>

DrainFails ==
  /\ pc = "drain" /\ (now >= deadline \/ client = "gone")
  /\ EndDrain("timeout", "aborted") /\ UNCHANGED <<total, moved>>

-----------------------------------------------------------------------------
(* streamDownload. *)

\* The loop's head, in its order; what follows it is the final flush, with a
\* deadline of its own.
DownloadCheck ==
  /\ kind = "download" /\ pc = "check"
  /\ IF now >= limit
     THEN /\ Break("complete", "flush")
          /\ deadline' = speedtestIdleDeadline(limit + CloseGrace)
          /\ UNCHANGED <<nextRefresh, left, chunkAt, fate>>
     ELSE IF ctx # "live"
     THEN /\ Break("stopped", "done") /\ fate' = "aborted"
          /\ UNCHANGED <<deadline, nextRefresh, left, chunkAt>>
     ELSE /\ Refresh(limit + CloseGrace)
          /\ pc' = "write" /\ left' = ChunkSize /\ chunkAt' = now
          /\ UNCHANGED <<end, fate>>
  /\ UNCHANGED <<now, kind, limit, total, ctx, body, client, sent, queued, moved>>

\* A Write goes on until all of the chunk is taken over.
WriteUnit ==
  /\ pc = "write" /\ client # "gone" /\ queued < Window
  /\ queued' = queued + 1
  /\ left' = left - 1
  /\ pc' = IF left = 1 THEN "check" ELSE "write"
  /\ moved' = now
  /\ UNCHANGED <<now, kind, limit, deadline, nextRefresh, end, fate, total, chunkAt,
                 ctx, body, client, sent>>

WriteFails(why) ==
  /\ pc \in {"write", "flush"}
  /\ CASE why = "timeout" -> now >= deadline
       [] why = "lost"    -> client = "gone"
  /\ Break(why, "done") /\ fate' = "aborted"
  /\ UNCHANGED <<now, kind, limit, deadline, nextRefresh, total, left, chunkAt,
                 ctx, body, client, sent, queued, moved>>

FlushDone ==
  /\ pc = "flush" /\ client # "gone" /\ queued < Window
  /\ pc' = "done" /\ fate' = "kept"
  /\ UNCHANGED <<now, kind, limit, deadline, nextRefresh, end, total, left, chunkAt,
                 ctx, body, client, sent, queued, moved>>

-----------------------------------------------------------------------------
(* The peer and the clock. *)

ClientSends ==
  /\ kind # "download" /\ client = "sending" /\ sent < MaxBytes /\ ~ Done
  /\ sent' = sent + 1
  /\ UNCHANGED <<now, handler, ctx, body, client, queued, moved>>

ClientFinishes ==
  /\ kind # "download" /\ client = "sending" /\ ~ Done
  /\ client' = "finished"
  /\ UNCHANGED <<now, handler, ctx, body, sent, queued, moved>>

ClientTakes ==
  /\ queued > 0 /\ client # "gone" /\ ~ Done
  /\ queued' = queued - 1
  /\ UNCHANGED <<now, handler, ctx, body, client, sent, moved>>

\* The server may or may not notice and cancel the request's context.
ClientLeaves ==
  /\ client # "gone" /\ ~ Done
  /\ client' = "gone"
  /\ ctx' \in {ctx, IF ctx = "live" THEN "cancelled" ELSE ctx}
  /\ UNCHANGED <<now, handler, body, sent, queued, moved>>

\* Time passes while the handler is blocked in a read or a write.
Clock ==
  /\ \/ pc \in {"read", "drain"} /\ total = sent /\ client = "sending"
     \/ pc \in {"write", "flush"} /\ queued = Window /\ client # "gone"
  /\ body = "open" /\ now < deadline
  /\ kind = "upload" => now < limit
  /\ now' = now + 1
  /\ UNCHANGED <<handler, ctx, body, client, sent, queued, moved>>

Next ==
  \/ UploadCheck \/ \E n \in 0 .. MaxBytes, eof \in BOOLEAN : ReadBody(n, eof)
  \/ \E why \in {"timeout", "closed", "lost"} : ReadFails(why)
  \/ DeadlineExpires \/ CloseBody \/ LeaveUpload
  \/ \E n \in 1 .. MaxBytes : Drain(n)
  \/ DrainEOF \/ DrainFails
  \/ DownloadCheck \/ WriteUnit \/ FlushDone
  \/ \E why \in {"timeout", "lost"} : WriteFails(why)
  \/ ClientSends \/ ClientFinishes \/ ClientTakes \/ ClientLeaves
  \/ Clock

Spec == Init /\ [][Next]_vars

-----------------------------------------------------------------------------
TypeOK ==
  /\ now \in Nat /\ moved \in 0 .. now /\ chunkAt \in 0 .. now
  /\ kind \in {"upload", "refused", "download"}
  /\ limit \in 1 .. (MaxDuration + DrainTimeout)
  /\ pc \in {"check", "read", "leave", "drain", "write", "flush", "done"}
  /\ deadline \in Nat /\ nextRefresh \in Nat
  /\ ctx \in {"live", "expired", "cancelled"} /\ body \in {"open", "closed"}
  /\ end \in {"none", "eof", "stopped", "timeout", "closed", "lost", "tooMuch", "complete"}
  /\ fate \in {"none", "kept", "aborted"}
  /\ client \in {"sending", "finished", "gone"}
  /\ sent \in 0 .. MaxBytes
  /\ total \in 0 .. (IF kind = "refused" THEN DrainLimit + 1 ELSE sent)
  /\ left \in 0 .. ChunkSize /\ queued \in 0 .. Window

\* No handler outlives its time: an upload's and a drain's limit, a
\* download's limit and the grace for its last bytes, wherever it waits.
Latest == IF kind = "download" THEN limit + CloseGrace ELSE limit

EndsInTime == ~ Done => now <= Latest

\* A peer that moves nothing for the idle timeout is let go.
StalledIsCut == ~ Done => now <= moved + IdleTimeout

\* Only a peer that was slow is let go early: an uploader that sent nothing,
\* or a downloader that did not take one chunk, for longer than the idle
\* timeout less one refresh period.
ActiveNotCut ==
  (kind # "refused" /\ end = "timeout" /\ now < limit) =>
    now - (IF kind = "upload" THEN moved ELSE chunkAt) > IdleTimeout - RefreshPeriod

\* A connection on which an upload was sent is only kept for another request
\* if the whole body was read, and then its count is what the client sent.
KeptOnlyAtEOF ==
  kind # "download" /\ fate = "kept" => end = "eof" /\ total = sent

\* "Upload bodies are read until EOF or the configured deadline": a read only
\* fails at the deadline or because the connection is lost.
ReadsUntilEOFOrDeadline ==
  kind = "upload" /\ end = "timeout" => now >= limit
=============================================================================
