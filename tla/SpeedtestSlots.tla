---------------------------- MODULE SpeedtestSlots ----------------------------
(***************************************************************************)
(* Concurrency limits of the transfer handlers, internal/api/speedtest.go. *)
(* Every request is a goroutine.  The per-direction counter is a lone      *)
(* atomic integer and the per-address map is guarded by ipMu, so the two   *)
(* halves of an acquisition, and of a release, are separate steps between  *)
(* which every other goroutine may run.                                    *)
(***************************************************************************)
EXTENDS Integers, FiniteSets

CONSTANTS Requests, IPs, MaxConcurrent, MaxConcurrentPerIP

\* Configuration rejects a non-positive server-wide limit; the constructor
\* turns a negative per-address limit into 0, which switches it off.
ASSUME LimitAssumption ==
  /\ IsFiniteSet(Requests)
  /\ MaxConcurrent \in Nat \ {0}
  /\ MaxConcurrentPerIP \in Nat

Directions == {"download", "upload"}

VARIABLES active,    \* activeDownloads, activeUploads
          ipKeys,    \* the keys of activeByIP
          ipCount,   \* the counts stored under them
          pc,        \* where each handler is
          req        \* its resolved address and its direction

vars == <<active, ipKeys, ipCount, pc, req>>

NoCounts == [d \in Directions |-> 0]

Steps == {"idle", "arrived", "counted", "undo", "refused",
          "transfer", "finished", "uncounted"}

\* Steps at which the request is included in the direction's counter, and
\* those at which it is included in its address's count.
CountedAt == {"counted", "undo", "transfer", "finished"}
IPCountedAt == {"transfer", "finished", "uncounted"}

dirOf(r) == req[r].dir
ipOf(r) == req[r].ip

Init ==
  /\ active = [d \in Directions |-> 0]
  /\ ipKeys = {}
  /\ ipCount = [i \in IPs |-> NoCounts]
  /\ pc = [r \in Requests |-> "idle"]
  /\ req \in [Requests -> [ip : IPs, dir : Directions]]

Go(r, from, to) ==
  /\ pc[r] = from
  /\ pc' = [pc EXCEPT ![r] = to]

\* A request reaches Download or Upload; its address never is empty, the
\* resolver answers "unknown" at worst.
Arrive(r) ==
  /\ Go(r, "idle", "arrived")
  /\ \E w \in [ip : IPs, dir : Directions] : req' = [req EXCEPT ![r] = w]
  /\ UNCHANGED <<active, ipKeys, ipCount>>

AddCounterOffByOne(r) ==
  /\ active' = [active EXCEPT ![dirOf(r)] = @ + 1]
  /\ Go(r, "arrived",
        IF active[dirOf(r)] > MaxConcurrent THEN "undo" ELSE "counted")
  /\ UNCHANGED <<ipKeys, ipCount, req>>

\* atomic.AddInt64(counter, 1), compared with the limit.
AddCounter(r) ==
  /\ active' = [active EXCEPT ![dirOf(r)] = @ + 1]
  /\ Go(r, "arrived",
        IF active[dirOf(r)] + 1 > MaxConcurrent THEN "undo" ELSE "counted")
  /\ UNCHANGED <<ipKeys, ipCount, req>>

UndoThenDeferredRelease(r) ==
  /\ Go(r, "undo", "finished")
  /\ active' = [active EXCEPT ![dirOf(r)] = @ - 1]
  /\ UNCHANGED <<ipKeys, ipCount, req>>

\* The compensating atomic.AddInt64(counter, -1) of either refusal.
UndoCounter(r) ==
  /\ Go(r, "undo", "refused")
  /\ active' = [active EXCEPT ![dirOf(r)] = @ - 1]
  /\ UNCHANGED <<ipKeys, ipCount, req>>

\* tryAcquirePerIP under ipMu.  Only an admitted request makes an entry.
PerIPHasRoom(r) ==
  MaxConcurrentPerIP > 0 => ipCount[ipOf(r)][dirOf(r)] < MaxConcurrentPerIP

RefusePerIPWithoutUndo(r) ==
  /\ ~ PerIPHasRoom(r)
  /\ Go(r, "counted", "refused")
  /\ UNCHANGED <<active, ipKeys, ipCount, req>>

RefusePerIP(r) ==
  /\ ~ PerIPHasRoom(r)
  /\ Go(r, "counted", "undo")
  /\ UNCHANGED <<active, ipKeys, ipCount, req>>

AcquirePerIP(r) ==
  /\ PerIPHasRoom(r)
  /\ Go(r, "counted", "transfer")
  /\ IF MaxConcurrentPerIP = 0
     THEN UNCHANGED <<ipKeys, ipCount>>
     ELSE /\ ipKeys' = ipKeys \cup {ipOf(r)}
          /\ ipCount' = [ipCount EXCEPT ![ipOf(r)][dirOf(r)] = @ + 1]
  /\ UNCHANGED <<active, req>>

\* 503, for an upload after DrainAndClose has looked at its body.
Respond503(r) ==
  /\ Go(r, "refused", "idle")
  /\ UNCHANGED <<active, ipKeys, ipCount, req>>

\* The handler returns: bad parameters, the stream's deadline, a cancelled
\* request, a failed read or write, or an upload that was answered.
EndTransfer(r) ==
  /\ Go(r, "transfer", "finished")
  /\ UNCHANGED <<active, ipKeys, ipCount, req>>

\* The deferred releaseSpeedtestSlot: first the counter, ...
SubCounter(r) ==
  /\ Go(r, "finished", "uncounted")
  /\ active' = [active EXCEPT ![dirOf(r)] = @ - 1]
  /\ UNCHANGED <<ipKeys, ipCount, req>>

Decrement(n) == IF n > 0 THEN n - 1 ELSE 0

ReleasePerIPForgetsOther(r) ==
  LET left == [ipCount[ipOf(r)] EXCEPT ![dirOf(r)] = Decrement(@)]
  IN  /\ Go(r, "uncounted", "idle")
      /\ IF left[dirOf(r)] = 0
         THEN /\ ipKeys' = ipKeys \ {ipOf(r)}
              /\ ipCount' = [ipCount EXCEPT ![ipOf(r)] = NoCounts]
         ELSE /\ ipCount' = [ipCount EXCEPT ![ipOf(r)] = left]
              /\ UNCHANGED ipKeys
      /\ UNCHANGED <<active, req>>

ReleasePerIPKeepsEntry(r) ==
  /\ Go(r, "uncounted", "idle")
  /\ IF ipOf(r) \in ipKeys
     THEN ipCount' = [ipCount EXCEPT ![ipOf(r)][dirOf(r)] = Decrement(@)]
     ELSE UNCHANGED ipCount
  /\ UNCHANGED <<active, ipKeys, req>>

\* ... then releasePerIP under ipMu, which deletes the entry when neither
\* direction is left and does nothing when there is no entry.
ReleasePerIP(r) ==
  LET left == [ipCount[ipOf(r)] EXCEPT ![dirOf(r)] = Decrement(@)]
  IN  /\ Go(r, "uncounted", "idle")
      /\ IF ipOf(r) \notin ipKeys
         THEN UNCHANGED <<ipKeys, ipCount>>
         ELSE IF left = NoCounts
         THEN /\ ipKeys' = ipKeys \ {ipOf(r)}
              /\ ipCount' = [ipCount EXCEPT ![ipOf(r)] = NoCounts]
         ELSE /\ ipCount' = [ipCount EXCEPT ![ipOf(r)] = left]
              /\ UNCHANGED ipKeys
      /\ UNCHANGED <<active, req>>

Next ==
  \E r \in Requests :
    \/ Arrive(r)
    \/ AddCounter(r)
    \/ UndoCounter(r)
    \/ RefusePerIP(r)
    \/ AcquirePerIP(r)
    \/ Respond503(r)
    \/ EndTransfer(r)
    \/ SubCounter(r)
    \/ ReleasePerIP(r)

Spec == Init /\ [][Next]_vars

-----------------------------------------------------------------------------
TypeOK ==
  /\ active \in [Directions -> Nat]
  /\ ipKeys \in SUBSET IPs
  /\ ipCount \in [IPs -> [Directions -> Nat]]
  /\ pc \in [Requests -> Steps]
  /\ req \in [Requests -> [ip : IPs, dir : Directions]]

At(S, d) == {r \in Requests : pc[r] \in S /\ dirOf(r) = d}
AtIP(S, i, d) == {r \in At(S, d) : ipOf(r) = i}

\* The counters are a ledger of the handlers: each direction's counter is the
\* number of requests between their increment and their decrement, whatever
\* the refusals in flight, and each address's count the number of its
\* requests between the map update and its undoing.  So nothing is counted
\* twice or left behind by any of the five ways a handler can return.
CounterLedger ==
  \A d \in Directions : active[d] = Cardinality(At(CountedAt, d))

PerIPLedger ==
  \A i \in IPs, d \in Directions :
    ipCount[i][d] = IF MaxConcurrentPerIP = 0 THEN 0
                    ELSE Cardinality(AtIP(IPCountedAt, i, d))

\* activeByIP holds an address exactly while one of its transfers is being
\* counted: the map cannot grow with the number of clients ever seen, and
\* deleting an entry on the last release of one direction never forgets the
\* transfers of the other.
NoStaleEntry == ipKeys = {i \in IPs : ipCount[i] # NoCounts}

\* The two-step protocol implements the limits: never more admitted
\* transfers than either limit, although the check and the two updates are
\* not atomic, and a 503 only under a load that explains it.
StatusOf(step) ==
  CASE step = "idle"                      -> "idle"
    [] step \in {"arrived", "counted"}    -> "waiting"
    [] step \in {"undo", "refused"}       -> "refused"
    [] step \in {"transfer", "finished"}  -> "admitted"
    [] step = "uncounted"                 -> "leaving"

AbstractStatus == [r \in Requests |-> StatusOf(pc[r])]

Admission == INSTANCE TransferAdmission
               WITH status <- AbstractStatus, who <- req

ImplementsAdmission == Admission!ASpec
=============================================================================
