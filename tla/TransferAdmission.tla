-------------------------- MODULE TransferAdmission --------------------------
(***************************************************************************)
(* What the speed-test server promises about concurrent transfers, with    *)
(* no counter and no map: a request that waits is either admitted, and     *)
(* then the limits hold, or refused with 503, and then enough other        *)
(* requests were still in progress to explain the refusal.                 *)
(***************************************************************************)
EXTENDS Naturals, FiniteSets

CONSTANTS Requests,            \* handler goroutines
          IPs,                 \* resolved client addresses
          Directions,          \* download and upload
          MaxConcurrent,       \* transfers per direction
          MaxConcurrentPerIP   \* transfers per direction and address, 0 = off

VARIABLES status,              \* where each request is
          who                  \* the address and direction of each request

avars == <<status, who>>

Statuses == {"idle", "waiting", "admitted", "leaving", "refused"}

Busy == {r \in Requests : status[r] # "idle"}
Admitted == {r \in Requests : status[r] = "admitted"}

SameDirection(r) == {q \in Requests : who[q].dir = who[r].dir}
SameClient(r) == {q \in SameDirection(r) : who[q].ip = who[r].ip}

AInit ==
  /\ status = [r \in Requests |-> "idle"]
  /\ who \in [Requests -> [ip : IPs, dir : Directions]]

Move(r, from, to) ==
  /\ status[r] = from
  /\ status' = [status EXCEPT ![r] = to]

Arrive(r) ==
  /\ Move(r, "idle", "waiting")
  /\ \E w \in [ip : IPs, dir : Directions] : who' = [who EXCEPT ![r] = w]

Admit(r) ==
  /\ Cardinality(Admitted \cap SameDirection(r)) < MaxConcurrent
  /\ \/ MaxConcurrentPerIP = 0
     \/ Cardinality(Admitted \cap SameClient(r)) < MaxConcurrentPerIP
  /\ Move(r, "waiting", "admitted")
  /\ UNCHANGED who

\* A refusal needs as many other unfinished requests as the limit it names.
Refuse(r) ==
  /\ \/ Cardinality((Busy \cap SameDirection(r)) \ {r}) >= MaxConcurrent
     \/ /\ MaxConcurrentPerIP > 0
        /\ Cardinality((Busy \cap SameClient(r)) \ {r}) >= MaxConcurrentPerIP
  /\ Move(r, "waiting", "refused")
  /\ UNCHANGED who

Finish(r) == Move(r, "admitted", "leaving") /\ UNCHANGED who

Leave(r) ==
  /\ Move(r, "leaving", "idle") \/ Move(r, "refused", "idle")
  /\ UNCHANGED who

ANext == \E r \in Requests :
           Arrive(r) \/ Admit(r) \/ Refuse(r) \/ Finish(r) \/ Leave(r)

ASpec == AInit /\ [][ANext]_avars
=============================================================================
