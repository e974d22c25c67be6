------------------------ MODULE SpeedtestSlots_proofs ------------------------
(***************************************************************************)
(* Proofs about SpeedtestSlots for every set of goroutines, every set of   *)
(* addresses and every pair of limits.  The ledgers are what makes type    *)
(* correctness inductive: only because a counter equals the number of      *)
(* handlers it stands for does a decrement never take it below zero.       *)
(***************************************************************************)
EXTENDS SpeedtestSlots, FiniteSetTheorems, TLAPS

\* Between them the requests that hold a place never exceed the limits.
Holding == {"counted", "transfer", "finished"}

GlobalBound ==
  \A d \in Directions : Cardinality(At(Holding, d)) <= MaxConcurrent

PerIPBound ==
  MaxConcurrentPerIP > 0 =>
    \A i \in IPs, d \in Directions : ipCount[i][d] <= MaxConcurrentPerIP

IInv == /\ TypeOK
        /\ CounterLedger
        /\ PerIPLedger
        /\ NoStaleEntry
        /\ GlobalBound
        /\ PerIPBound

-----------------------------------------------------------------------------
\* The requests at some step are finitely many, before and after a step.
LEMMA AtFinite ==
  ASSUME NEW S, NEW d, NEW i
  PROVE  /\ IsFiniteSet(At(S, d)) /\ Cardinality(At(S, d)) \in Nat
         /\ IsFiniteSet(AtIP(S, i, d)) /\ Cardinality(AtIP(S, i, d)) \in Nat
         /\ IsFiniteSet(At(S, d)') /\ Cardinality(At(S, d))' \in Nat
         /\ IsFiniteSet(AtIP(S, i, d)') /\ Cardinality(AtIP(S, i, d))' \in Nat
<1>1. /\ At(S, d) \in SUBSET Requests /\ AtIP(S, i, d) \in SUBSET Requests
      /\ At(S, d)' \in SUBSET Requests /\ AtIP(S, i, d)' \in SUBSET Requests
  BY DEF At, AtIP
<1>2. /\ IsFiniteSet(At(S, d)) /\ IsFiniteSet(AtIP(S, i, d))
      /\ IsFiniteSet(At(S, d)') /\ IsFiniteSet(AtIP(S, i, d)')
  BY <1>1, FS_Subset, LimitAssumption
<1>. QED  BY <1>2, FS_CardinalityType

\* How many requests enter (1) or leave (-1) the steps S when one of them
\* moves from one step to another.
Flow(from, to, S) == (IF to \in S THEN 1 ELSE 0) - (IF from \in S THEN 1 ELSE 0)

\* Moving one request changes the population of a set of steps by its flow,
\* in its own direction and address only.
LEMMA MoveCount ==
  ASSUME TypeOK, NEW r \in Requests, NEW from \in Steps, NEW to \in Steps,
         Go(r, from, to), UNCHANGED req, NEW S, NEW d \in Directions
  PROVE  Cardinality(At(S, d))' =
           Cardinality(At(S, d)) + (IF d = dirOf(r) THEN Flow(from, to, S) ELSE 0)
<1>1. /\ pc[r] = from /\ pc'[r] = to
      /\ \A q \in Requests \ {r} : pc'[q] = pc[q]
      /\ req' = req
  BY DEF Go, TypeOK
<1>2. At(S, d)' = IF d = dirOf(r) /\ to \in S THEN At(S, d) \cup {r}
                  ELSE IF d = dirOf(r) THEN At(S, d) \ {r} ELSE At(S, d)
  BY <1>1 DEF At, dirOf
<1>3. r \in At(S, d) <=> d = dirOf(r) /\ from \in S
  BY <1>1 DEF At, dirOf
<1>4. IsFiniteSet(At(S, d)) /\ Cardinality(At(S, d)) \in Nat
  BY AtFinite
<1>5. /\ Cardinality(At(S, d) \cup {r}) =
           IF r \in At(S, d) THEN Cardinality(At(S, d)) ELSE Cardinality(At(S, d)) + 1
      /\ Cardinality(At(S, d) \ {r}) =
           IF r \in At(S, d) THEN Cardinality(At(S, d)) - 1 ELSE Cardinality(At(S, d))
  BY <1>4, FS_AddElement, FS_RemoveElement
<1>. QED  BY <1>2, <1>3, <1>4, <1>5 DEF Flow

LEMMA MoveCountIP ==
  ASSUME TypeOK, NEW r \in Requests, NEW from \in Steps, NEW to \in Steps,
         Go(r, from, to), UNCHANGED req, NEW S, NEW i \in IPs, NEW d \in Directions
  PROVE  Cardinality(AtIP(S, i, d))' = Cardinality(AtIP(S, i, d)) +
           (IF d = dirOf(r) /\ i = ipOf(r) THEN Flow(from, to, S) ELSE 0)
<1>1. /\ pc[r] = from /\ pc'[r] = to
      /\ \A q \in Requests \ {r} : pc'[q] = pc[q]
      /\ req' = req
  BY DEF Go, TypeOK
<1>. DEFINE mine == d = dirOf(r) /\ i = ipOf(r)
<1>2. AtIP(S, i, d)' = IF mine /\ to \in S THEN AtIP(S, i, d) \cup {r}
                       ELSE IF mine THEN AtIP(S, i, d) \ {r} ELSE AtIP(S, i, d)
  BY <1>1 DEF At, AtIP, dirOf, ipOf
<1>3. r \in AtIP(S, i, d) <=> mine /\ from \in S
  BY <1>1 DEF At, AtIP, dirOf, ipOf
<1>4. IsFiniteSet(AtIP(S, i, d)) /\ Cardinality(AtIP(S, i, d)) \in Nat
  BY AtFinite
<1>5. /\ Cardinality(AtIP(S, i, d) \cup {r}) =
           IF r \in AtIP(S, i, d) THEN Cardinality(AtIP(S, i, d))
                                  ELSE Cardinality(AtIP(S, i, d)) + 1
      /\ Cardinality(AtIP(S, i, d) \ {r}) =
           IF r \in AtIP(S, i, d) THEN Cardinality(AtIP(S, i, d)) - 1
                                  ELSE Cardinality(AtIP(S, i, d))
  BY <1>4, FS_AddElement, FS_RemoveElement
<1>. QED  BY <1>2, <1>3, <1>4, <1>5 DEF Flow

-----------------------------------------------------------------------------
\* What a step owes the ledgers: if it moves one request and changes the two
\* counters by the flow of that move, the ledgers still balance.
LEMMA Balanced ==
  ASSUME IInv, NEW r \in Requests, NEW from \in Steps, NEW to \in Steps,
         Go(r, from, to), UNCHANGED req,
         active' = [active EXCEPT ![dirOf(r)] = @ + Flow(from, to, CountedAt)],
         \A i \in IPs, d \in Directions :
           ipCount'[i][d] = ipCount[i][d] +
             (IF MaxConcurrentPerIP > 0 /\ d = dirOf(r) /\ i = ipOf(r)
              THEN Flow(from, to, IPCountedAt) ELSE 0)
  PROVE  /\ CounterLedger'
         /\ PerIPLedger'
         /\ active' \in [Directions -> Nat]
         /\ pc' \in [Requests -> Steps]
<1>0. TypeOK
  BY DEF IInv
<1>1. pc' \in [Requests -> Steps]
  BY DEF IInv, TypeOK, Go
<1>2. dirOf(r) \in Directions
  BY DEF IInv, TypeOK, dirOf
<1>3. ASSUME NEW d \in Directions
      PROVE  active'[d] = Cardinality(At(CountedAt, d))' /\ active'[d] \in Nat
  <2>1. active'[d] =
          active[d] + (IF d = dirOf(r) THEN Flow(from, to, CountedAt) ELSE 0)
    BY <1>2 DEF IInv, TypeOK, Flow
  <2>2. active[d] = Cardinality(At(CountedAt, d))
    BY DEF IInv, CounterLedger
  <2>3. Cardinality(At(CountedAt, d))' = Cardinality(At(CountedAt, d)) +
          (IF d = dirOf(r) THEN Flow(from, to, CountedAt) ELSE 0)
    BY <1>0, MoveCount
  <2>. QED  BY <2>1, <2>2, <2>3, AtFinite
<1>4. ASSUME NEW i \in IPs, NEW d \in Directions
      PROVE  ipCount'[i][d] = IF MaxConcurrentPerIP = 0 THEN 0
                              ELSE Cardinality(AtIP(IPCountedAt, i, d))'
  <2>1. ipCount[i][d] = IF MaxConcurrentPerIP = 0 THEN 0
                        ELSE Cardinality(AtIP(IPCountedAt, i, d))
    BY DEF IInv, PerIPLedger
  <2>2. Cardinality(AtIP(IPCountedAt, i, d))' =
          Cardinality(AtIP(IPCountedAt, i, d)) +
          (IF d = dirOf(r) /\ i = ipOf(r) THEN Flow(from, to, IPCountedAt) ELSE 0)
    BY <1>0, MoveCountIP
  <2>. QED  BY <2>1, <2>2, LimitAssumption
<1>5. active' \in [Directions -> Nat]
  BY <1>2, <1>3 DEF IInv, TypeOK
<1>6. CounterLedger'
  BY <1>3 DEF CounterLedger
<1>7. PerIPLedger'
  BY <1>4 DEF PerIPLedger
<1>. QED  BY <1>1, <1>5, <1>6, <1>7

\* A move that does not enter Holding keeps the server-wide bound.
LEMMA BoundKept ==
  ASSUME IInv, NEW r \in Requests, NEW from \in Steps, NEW to \in Steps,
         Go(r, from, to), UNCHANGED req, to \in Holding => from \in Holding
  PROVE  GlobalBound'
<1>. SUFFICES ASSUME NEW d \in Directions
              PROVE  Cardinality(At(Holding, d))' <= MaxConcurrent
  BY DEF GlobalBound
<1>1. Cardinality(At(Holding, d))' = Cardinality(At(Holding, d)) +
        (IF d = dirOf(r) THEN Flow(from, to, Holding) ELSE 0)
  BY MoveCount DEF IInv
<1>2. Flow(from, to, Holding) \in {0, -1}
  BY DEF Flow
<1>3. Cardinality(At(Holding, d)) <= MaxConcurrent
  BY DEF IInv, GlobalBound
<1>. QED  BY <1>1, <1>2, <1>3, AtFinite, LimitAssumption

-----------------------------------------------------------------------------
LEMMA InitInv == Init => IInv
<1>. SUFFICES ASSUME Init PROVE IInv
  OBVIOUS
<1>1. TypeOK
  BY DEF Init, TypeOK, Steps, NoCounts
<1>2. ASSUME NEW d \in Directions
      PROVE  /\ At(CountedAt, d) = {} /\ At(Holding, d) = {}
             /\ \A i \in IPs : AtIP(IPCountedAt, i, d) = {}
  BY DEF Init, At, AtIP, CountedAt, IPCountedAt, Holding
<1>3. CounterLedger /\ PerIPLedger
  BY <1>2, FS_EmptySet DEF CounterLedger, PerIPLedger, Init, NoCounts
<1>4. NoStaleEntry
  BY DEF Init, NoStaleEntry
<1>5. GlobalBound
  BY <1>2, FS_EmptySet, LimitAssumption DEF GlobalBound
<1>6. PerIPBound
  BY LimitAssumption DEF PerIPBound, Init, NoCounts
<1>. QED  BY <1>1, <1>3, <1>4, <1>5, <1>6 DEF IInv

\* Steps that leave the map alone: everything but the two updates under ipMu.
LEMMA MapUntouched ==
  ASSUME IInv, NEW r \in Requests, NEW from \in Steps, NEW to \in Steps,
         Go(r, from, to), UNCHANGED <<ipKeys, ipCount, req>>,
         from \in IPCountedAt <=> to \in IPCountedAt,
         active' = [active EXCEPT ![dirOf(r)] = @ + Flow(from, to, CountedAt)]
  PROVE  TypeOK' /\ CounterLedger' /\ PerIPLedger' /\ NoStaleEntry' /\ PerIPBound'
<1>1. \A i \in IPs, d \in Directions :
        /\ ipCount[i][d] \in Nat
        /\ ipCount'[i][d] = ipCount[i][d] +
             (IF MaxConcurrentPerIP > 0 /\ d = dirOf(r) /\ i = ipOf(r)
              THEN Flow(from, to, IPCountedAt) ELSE 0)
  BY DEF IInv, TypeOK, Flow
<1>2. /\ CounterLedger' /\ PerIPLedger'
      /\ active' \in [Directions -> Nat] /\ pc' \in [Requests -> Steps]
  BY <1>1, Balanced
<1>. QED  BY <1>2 DEF IInv, TypeOK, NoStaleEntry, PerIPBound

\* A step that changes neither pc nor the counters of anybody counted.
LEMMA ArriveInv == ASSUME IInv, NEW r \in Requests, Arrive(r) PROVE IInv'
<1>1. TypeOK'
  BY DEF IInv, TypeOK, Arrive, Go, Steps
<1>2. ASSUME NEW S, "idle" \notin S, "arrived" \notin S, NEW d, NEW i
      PROVE  At(S, d)' = At(S, d) /\ AtIP(S, i, d)' = AtIP(S, i, d)
  BY <1>2 DEF IInv, TypeOK, Arrive, Go, At, AtIP, dirOf, ipOf
<1>3. \A d : At(CountedAt, d)' = At(CountedAt, d) /\ At(Holding, d)' = At(Holding, d)
  BY <1>2 DEF CountedAt, Holding
<1>4. \A i, d : AtIP(IPCountedAt, i, d)' = AtIP(IPCountedAt, i, d)
  BY <1>2 DEF IPCountedAt
<1>5. UNCHANGED <<active, ipKeys, ipCount>>
  BY DEF Arrive
<1>. QED
  BY <1>1, <1>3, <1>4, <1>5
  DEF IInv, CounterLedger, PerIPLedger, NoStaleEntry, GlobalBound, PerIPBound

LEMMA AddCounterInv == ASSUME IInv, NEW r \in Requests, AddCounter(r) PROVE IInv'
<1>. DEFINE to == IF active[dirOf(r)] + 1 > MaxConcurrent THEN "undo" ELSE "counted"
<1>1. /\ Go(r, "arrived", to) /\ UNCHANGED <<ipKeys, ipCount, req>>
      /\ active' = [active EXCEPT ![dirOf(r)] = @ + 1]
      /\ dirOf(r) \in Directions
  BY DEF AddCounter, IInv, TypeOK, dirOf
<1>2. /\ to \in Steps /\ "arrived" \in Steps
      /\ "arrived" \notin IPCountedAt /\ to \notin IPCountedAt
      /\ Flow("arrived", to, CountedAt) = 1
  BY DEF Steps, IPCountedAt, CountedAt, Flow
<1>3. TypeOK' /\ CounterLedger' /\ PerIPLedger' /\ NoStaleEntry' /\ PerIPBound'
  <2>. HIDE DEF to
  <2>. QED  BY <1>1, <1>2, MapUntouched
<1>4. CASE to = "undo"
  <2>1. GlobalBound'
    BY <1>1, <1>2, <1>4, BoundKept DEF Holding
  <2>. QED  BY <1>3, <2>1 DEF IInv
<1>5. CASE to = "counted"
  <2>1. active[dirOf(r)] + 1 <= MaxConcurrent
    BY <1>1, <1>5, LimitAssumption DEF IInv, TypeOK
  <2>2. ASSUME NEW d \in Directions, d = dirOf(r)
        PROVE  Cardinality(At(Holding, d))' <= MaxConcurrent
    <3>1. At(Holding, d)' \in SUBSET At(CountedAt, d)'
      BY DEF At, Holding, CountedAt
    <3>2. Cardinality(At(Holding, d)') <= Cardinality(At(CountedAt, d)')
      BY <3>1, AtFinite, FS_Subset
    <3>3. Cardinality(At(CountedAt, d)') = active'[d]
      BY <1>3 DEF CounterLedger
    <3>4. active'[d] <= MaxConcurrent
      BY <1>1, <2>1, <2>2 DEF IInv, TypeOK
    <3>5. Cardinality(At(Holding, d)') \in Nat /\ active'[d] \in Nat
      BY <1>3, AtFinite DEF TypeOK
    <3>. QED  BY <3>2, <3>3, <3>4, <3>5, LimitAssumption
  <2>3. ASSUME NEW d \in Directions, d # dirOf(r)
        PROVE  Cardinality(At(Holding, d))' <= MaxConcurrent
    <3>1. Cardinality(At(Holding, d))' = Cardinality(At(Holding, d)) + 0
      BY <1>1, <1>2, <2>3, MoveCount DEF IInv
    <3>. QED  BY <3>1, AtFinite DEF IInv, GlobalBound
  <2>. QED  BY <1>3, <2>2, <2>3 DEF IInv, GlobalBound
<1>. QED  BY <1>4, <1>5

\* The steps that only move a request, or move it and undo the counter.
LEMMA PlainStepInv ==
  ASSUME IInv, NEW r \in Requests,
         \/ UndoCounter(r) \/ RefusePerIP(r) \/ Respond503(r)
         \/ EndTransfer(r) \/ SubCounter(r)
  PROVE  IInv'
<1>. USE DEF IInv
<1>0. active = [active EXCEPT ![dirOf(r)] = @ + 0]
  BY DEF TypeOK
<1>. DEFINE n == active[dirOf(r)]
<1>00. n - 1 = n + (0 - 1)
  BY DEF TypeOK, dirOf
<1>. USE DEF Steps, Flow, CountedAt, IPCountedAt, Holding
<1>1. CASE UndoCounter(r)
  <2>1. /\ Go(r, "undo", "refused") /\ UNCHANGED <<ipKeys, ipCount, req>>
        /\ active' = [active EXCEPT ![dirOf(r)] = @ + Flow("undo", "refused", CountedAt)]
    BY <1>1, <1>00 DEF UndoCounter
  <2>. QED  BY <2>1, MapUntouched, BoundKept
<1>2. CASE RefusePerIP(r)
  <2>1. /\ Go(r, "counted", "undo") /\ UNCHANGED <<ipKeys, ipCount, req>>
        /\ active' = [active EXCEPT ![dirOf(r)] = @ + Flow("counted", "undo", CountedAt)]
    BY <1>2, <1>0 DEF RefusePerIP
  <2>. QED  BY <2>1, MapUntouched, BoundKept
<1>3. CASE Respond503(r)
  <2>1. /\ Go(r, "refused", "idle") /\ UNCHANGED <<ipKeys, ipCount, req>>
        /\ active' = [active EXCEPT ![dirOf(r)] = @ + Flow("refused", "idle", CountedAt)]
    BY <1>3, <1>0 DEF Respond503
  <2>. QED  BY <2>1, MapUntouched, BoundKept
<1>4. CASE EndTransfer(r)
  <2>1. /\ Go(r, "transfer", "finished") /\ UNCHANGED <<ipKeys, ipCount, req>>
        /\ active' = [active EXCEPT ![dirOf(r)] = @ + Flow("transfer", "finished", CountedAt)]
    BY <1>4, <1>0 DEF EndTransfer
  <2>. QED  BY <2>1, MapUntouched, BoundKept
<1>5. CASE SubCounter(r)
  <2>1. /\ Go(r, "finished", "uncounted") /\ UNCHANGED <<ipKeys, ipCount, req>>
        /\ active' = [active EXCEPT ![dirOf(r)] = @ + Flow("finished", "uncounted", CountedAt)]
    BY <1>5, <1>00 DEF SubCounter
  <2>. QED  BY <2>1, MapUntouched, BoundKept
<1>. QED  BY <1>1, <1>2, <1>3, <1>4, <1>5

LEMMA AcquirePerIPInv == ASSUME IInv, NEW r \in Requests, AcquirePerIP(r) PROVE IInv'
<1>. DEFINE i0 == ipOf(r)  d0 == dirOf(r)
<1>0. i0 \in IPs /\ d0 \in Directions
  BY DEF IInv, TypeOK, ipOf, dirOf
<1>1. /\ Go(r, "counted", "transfer") /\ UNCHANGED <<active, req>>
      /\ "counted" \in Steps /\ "transfer" \in Steps
      /\ Flow("counted", "transfer", CountedAt) = 0
      /\ Flow("counted", "transfer", IPCountedAt) = 1
  BY DEF AcquirePerIP, Steps, Flow, CountedAt, IPCountedAt
<1>2. active' = [active EXCEPT ![dirOf(r)] = @ + Flow("counted", "transfer", CountedAt)]
  BY <1>0, <1>1 DEF IInv, TypeOK
<1>3. GlobalBound'
  BY <1>1, BoundKept DEF Holding
<1>4. CASE MaxConcurrentPerIP = 0
  <2>1. UNCHANGED <<ipKeys, ipCount>>
    BY <1>4 DEF AcquirePerIP
  <2>2. \A i \in IPs, d \in Directions :
          ipCount'[i][d] = ipCount[i][d] +
            (IF MaxConcurrentPerIP > 0 /\ d = dirOf(r) /\ i = ipOf(r)
             THEN Flow("counted", "transfer", IPCountedAt) ELSE 0)
    BY <1>4, <2>1 DEF IInv, TypeOK
  <2>3. /\ CounterLedger' /\ PerIPLedger'
        /\ active' \in [Directions -> Nat] /\ pc' \in [Requests -> Steps]
    BY <1>1, <1>2, <2>2, Balanced
  <2>. QED
    BY <1>1, <1>3, <1>4, <2>1, <2>3 DEF IInv, TypeOK, NoStaleEntry, PerIPBound
<1>5. CASE MaxConcurrentPerIP > 0
  <2>1. /\ ipKeys' = ipKeys \cup {i0}
        /\ ipCount' = [ipCount EXCEPT ![i0][d0] = @ + 1]
        /\ ipCount[i0][d0] < MaxConcurrentPerIP
    BY <1>5, LimitAssumption DEF AcquirePerIP, PerIPHasRoom
  <2>2. ipCount' \in [IPs -> [Directions -> Nat]]
    BY <1>0, <2>1 DEF IInv, TypeOK
  <2>3. ASSUME NEW i \in IPs, NEW d \in Directions
        PROVE  ipCount'[i][d] = ipCount[i][d] + (IF d = d0 /\ i = i0 THEN 1 ELSE 0)
    BY <1>0, <2>1 DEF IInv, TypeOK
  <2>4. /\ CounterLedger' /\ PerIPLedger'
        /\ active' \in [Directions -> Nat] /\ pc' \in [Requests -> Steps]
    <3>1. \A i \in IPs, d \in Directions :
            ipCount'[i][d] = ipCount[i][d] +
              (IF MaxConcurrentPerIP > 0 /\ d = dirOf(r) /\ i = ipOf(r)
               THEN Flow("counted", "transfer", IPCountedAt) ELSE 0)
      BY <1>1, <1>5, <2>3
    <3>. QED  BY <1>1, <1>2, <3>1, Balanced
  <2>5. TypeOK'
    BY <1>0, <1>1, <2>1, <2>2, <2>4 DEF IInv, TypeOK
  <2>6. ASSUME NEW i \in IPs
        PROVE  i \in ipKeys' <=> ipCount'[i] # NoCounts
    <3>1. i \in ipKeys <=> ipCount[i] # NoCounts
      BY DEF IInv, NoStaleEntry
    <3>2. CASE i = i0
      <4>1. ipCount'[i][d0] # 0
        BY <1>0, <2>3, <3>2 DEF IInv, TypeOK
      <4>. QED  BY <1>0, <2>1, <3>2, <4>1 DEF NoCounts
    <3>3. CASE i # i0
      BY <2>1, <3>1, <3>3 DEF IInv, TypeOK
    <3>. QED  BY <3>2, <3>3
  <2>7. NoStaleEntry'
    BY <2>5, <2>6 DEF NoStaleEntry, TypeOK
  <2>8. PerIPBound'
    BY <1>0, <2>1, <2>3, LimitAssumption DEF IInv, TypeOK, PerIPBound
  <2>. QED  BY <1>3, <2>4, <2>5, <2>7, <2>8 DEF IInv
<1>. QED  BY <1>4, <1>5, LimitAssumption

\* Whoever is counted under an address finds its entry.
LEMMA EntryPresent ==
  ASSUME IInv, MaxConcurrentPerIP > 0, NEW r \in Requests, pc[r] \in IPCountedAt
  PROVE  ipOf(r) \in ipKeys /\ ipCount[ipOf(r)][dirOf(r)] > 0
<1>. DEFINE S == AtIP(IPCountedAt, ipOf(r), dirOf(r))
<1>0. ipOf(r) \in IPs /\ dirOf(r) \in Directions
  BY DEF IInv, TypeOK, ipOf, dirOf
<1>1. r \in S
  BY DEF AtIP, At
<1>2. IsFiniteSet(S) /\ Cardinality(S) \in Nat
  BY AtFinite
<1>3. Cardinality(S) # 0
  <2>. HIDE DEF S
  <2>. QED  BY <1>1, <1>2, FS_EmptySet
<1>4. ipCount[ipOf(r)][dirOf(r)] = Cardinality(S)
  BY <1>0, LimitAssumption DEF IInv, PerIPLedger
<1>5. ipCount[ipOf(r)][dirOf(r)] > 0
  <2>. HIDE DEF S
  <2>. QED  BY <1>2, <1>3, <1>4
<1>. QED  BY <1>0, <1>5 DEF IInv, NoStaleEntry, NoCounts

LEMMA ReleasePerIPInv == ASSUME IInv, NEW r \in Requests, ReleasePerIP(r) PROVE IInv'
<1>. DEFINE i0 == ipOf(r)  d0 == dirOf(r)
            left == [ipCount[i0] EXCEPT ![d0] = Decrement(@)]
<1>0. i0 \in IPs /\ d0 \in Directions
  BY DEF IInv, TypeOK, ipOf, dirOf
<1>1. /\ Go(r, "uncounted", "idle") /\ UNCHANGED <<active, req>>
      /\ "uncounted" \in Steps /\ "idle" \in Steps
      /\ Flow("uncounted", "idle", CountedAt) = 0
      /\ Flow("uncounted", "idle", IPCountedAt) = 0 - 1
  BY DEF ReleasePerIP, Steps, Flow, CountedAt, IPCountedAt
<1>2. active' = [active EXCEPT ![dirOf(r)] = @ + Flow("uncounted", "idle", CountedAt)]
  BY <1>0, <1>1 DEF IInv, TypeOK
<1>3. GlobalBound'
  BY <1>1, BoundKept DEF Holding
<1>4. CASE MaxConcurrentPerIP = 0
  <2>1. \A i \in IPs, d \in Directions : ipCount[i][d] = 0
    BY <1>4 DEF IInv, PerIPLedger
  <2>2. ipCount[i0] = NoCounts
    BY <1>0, <2>1 DEF IInv, TypeOK, NoCounts
  <2>3. i0 \notin ipKeys
    BY <2>2 DEF IInv, NoStaleEntry
  <2>4. UNCHANGED <<ipKeys, ipCount>>
    BY <2>3 DEF ReleasePerIP
  <2>5. \A i \in IPs, d \in Directions :
          ipCount'[i][d] = ipCount[i][d] +
            (IF MaxConcurrentPerIP > 0 /\ d = dirOf(r) /\ i = ipOf(r)
             THEN Flow("uncounted", "idle", IPCountedAt) ELSE 0)
    BY <1>4, <2>4 DEF IInv, TypeOK
  <2>6. /\ CounterLedger' /\ PerIPLedger'
        /\ active' \in [Directions -> Nat] /\ pc' \in [Requests -> Steps]
    BY <1>1, <1>2, <2>5, Balanced
  <2>. QED
    BY <1>1, <1>3, <1>4, <2>4, <2>6 DEF IInv, TypeOK, NoStaleEntry, PerIPBound
<1>5. CASE MaxConcurrentPerIP > 0
  <2>1. i0 \in ipKeys /\ ipCount[i0][d0] > 0
    BY <1>1, <1>5, EntryPresent DEF Go, IPCountedAt
  <2>2. /\ left \in [Directions -> Nat]
        /\ \A d \in Directions : left[d] = IF d = d0 THEN ipCount[i0][d] - 1 ELSE ipCount[i0][d]
    BY <1>0, <2>1 DEF IInv, TypeOK, Decrement
  <2>3. /\ ipCount' = [ipCount EXCEPT ![i0] = left]
        /\ ipKeys' = IF left = NoCounts THEN ipKeys \ {i0} ELSE ipKeys
    BY <2>1 DEF ReleasePerIP
  <2>. HIDE DEF left
  <2>4. ipCount' \in [IPs -> [Directions -> Nat]]
    BY <1>0, <2>2, <2>3 DEF IInv, TypeOK
  <2>5. ASSUME NEW i \in IPs, NEW d \in Directions
        PROVE  ipCount'[i][d] = ipCount[i][d] + (IF d = d0 /\ i = i0 THEN 0 - 1 ELSE 0)
    BY <1>0, <2>2, <2>3 DEF IInv, TypeOK
  <2>6. /\ CounterLedger' /\ PerIPLedger'
        /\ active' \in [Directions -> Nat] /\ pc' \in [Requests -> Steps]
    <3>1. \A i \in IPs, d \in Directions :
            ipCount'[i][d] = ipCount[i][d] +
              (IF MaxConcurrentPerIP > 0 /\ d = dirOf(r) /\ i = ipOf(r)
               THEN Flow("uncounted", "idle", IPCountedAt) ELSE 0)
      BY <1>1, <1>5, <2>5
    <3>. QED  BY <1>1, <1>2, <3>1, Balanced
  <2>7. TypeOK'
    BY <1>0, <1>1, <2>3, <2>4, <2>6 DEF IInv, TypeOK
  <2>8. NoStaleEntry'
    BY <1>0, <2>1, <2>3, <2>7 DEF IInv, TypeOK, NoStaleEntry
  <2>9. PerIPBound'
    BY <1>0, <2>5, LimitAssumption DEF IInv, TypeOK, PerIPBound
  <2>. QED  BY <1>3, <2>6, <2>7, <2>8, <2>9 DEF IInv
<1>. QED  BY <1>4, <1>5, LimitAssumption

-----------------------------------------------------------------------------
LEMMA NextInv == IInv /\ [Next]_vars => IInv'
<1>. SUFFICES ASSUME IInv, [Next]_vars PROVE IInv'
  OBVIOUS
<1>1. CASE UNCHANGED vars
  BY <1>1 DEF vars, IInv, TypeOK, CounterLedger, PerIPLedger, NoStaleEntry,
              GlobalBound, PerIPBound, At, AtIP, dirOf, ipOf
<1>2. CASE Next
  <2>1. PICK r \in Requests :
          \/ Arrive(r) \/ AddCounter(r) \/ UndoCounter(r) \/ RefusePerIP(r)
          \/ AcquirePerIP(r) \/ Respond503(r) \/ EndTransfer(r)
          \/ SubCounter(r) \/ ReleasePerIP(r)
    BY <1>2 DEF Next
  <2>. QED
    BY <2>1, ArriveInv, AddCounterInv, PlainStepInv, AcquirePerIPInv, ReleasePerIPInv
<1>. QED  BY <1>1, <1>2

THEOREM InvariantHolds == Spec => []IInv
BY InitInv, NextInv, PTL DEF Spec

\* Every variable keeps its type; in particular no counter goes below zero,
\* whatever the interleaving of acquisitions, rollbacks and releases.
THEOREM TypeCorrect == Spec => []TypeOK
<1>1. IInv => TypeOK
  BY DEF IInv
<1>. QED  BY <1>1, InvariantHolds, PTL

\* Each counter always equals the number of handlers between its increment
\* and its decrement: tryAcquireSpeedtestSlot and releaseSpeedtestSlot leak
\* no slot and release none twice.
THEOREM CountersBalance == Spec => []CounterLedger
<1>1. IInv => CounterLedger
  BY DEF IInv
<1>. QED  BY <1>1, InvariantHolds, PTL

\* The map's counts of an address equal the handlers that took a place in it
\* and did not give it back, in either direction, although the map and the
\* counters have no common lock.
THEOREM AddressesBalance == Spec => []PerIPLedger
<1>1. IInv => PerIPLedger
  BY DEF IInv
<1>. QED  BY <1>1, InvariantHolds, PTL

\* activeByIP holds exactly the addresses with a transfer being counted.
THEOREM MapStaysSmall == Spec => []NoStaleEntry
<1>1. IInv => NoStaleEntry
  BY DEF IInv
<1>. QED  BY <1>1, InvariantHolds, PTL

-----------------------------------------------------------------------------
(* Refinement: SpeedtestSlots implements TransferAdmission. *)

LEMMA MovesStatus ==
  ASSUME TypeOK, NEW r \in Requests, NEW from \in Steps, NEW to \in Steps, Go(r, from, to)
  PROVE  /\ AbstractStatus[r] = StatusOf(from)
         /\ AbstractStatus' = [AbstractStatus EXCEPT ![r] = StatusOf(to)]
<1>1. pc[r] = from /\ pc' = [pc EXCEPT ![r] = to] /\ pc \in [Requests -> Steps]
  BY DEF Go, TypeOK
<1>. QED  BY <1>1 DEF AbstractStatus

\* Two moves within one abstract status stutter, the others are Moves.
LEMMA StatusValues ==
  /\ StatusOf("idle") = "idle" /\ StatusOf("arrived") = "waiting"
  /\ StatusOf("counted") = "waiting" /\ StatusOf("undo") = "refused"
  /\ StatusOf("refused") = "refused" /\ StatusOf("transfer") = "admitted"
  /\ StatusOf("finished") = "admitted" /\ StatusOf("uncounted") = "leaving"
BY DEF StatusOf

\* The concrete populations behind the abstract guards.
LEMMA Populations ==
  ASSUME IInv, NEW r \in Requests
  PROVE  LET d == dirOf(r)  i == ipOf(r) IN
         /\ i \in IPs /\ d \in Directions
         /\ At(CountedAt, d) \subseteq Admission!Busy \cap Admission!SameDirection(r)
         /\ AtIP(IPCountedAt, i, d) \subseteq Admission!Busy \cap Admission!SameClient(r)
         /\ Admission!Admitted \cap Admission!SameDirection(r) \subseteq At(Holding, d)
         /\ Admission!Admitted \cap Admission!SameClient(r) \subseteq AtIP(IPCountedAt, i, d)
         /\ IsFiniteSet(Admission!Busy \cap Admission!SameDirection(r))
         /\ IsFiniteSet(Admission!Busy \cap Admission!SameClient(r))
<1>. DEFINE d == dirOf(r)  i == ipOf(r)
<1>1. i \in IPs /\ d \in Directions
  BY DEF IInv, TypeOK, ipOf, dirOf
<1>2. /\ Admission!SameDirection(r) = {q \in Requests : dirOf(q) = d}
      /\ Admission!SameClient(r) = {q \in Requests : dirOf(q) = d /\ ipOf(q) = i}
  BY DEF Admission!SameDirection, Admission!SameClient, dirOf, ipOf
<1>3. \A q \in Requests : pc[q] \in Steps /\ AbstractStatus[q] = StatusOf(pc[q])
  BY DEF IInv, TypeOK, AbstractStatus
<1>4. \A q \in Requests : pc[q] # "idle" => q \in Admission!Busy
  <2>. SUFFICES ASSUME NEW q \in Requests, pc[q] # "idle"
                PROVE  StatusOf(pc[q]) # "idle"
    BY <1>3 DEF Admission!Busy
  <2>. QED  BY <1>3, StatusValues DEF Steps
<1>5. \A q \in Admission!Admitted : pc[q] \in {"transfer", "finished"}
  <2>. SUFFICES ASSUME NEW q \in Requests, StatusOf(pc[q]) = "admitted"
                PROVE  pc[q] \in {"transfer", "finished"}
    BY <1>3 DEF Admission!Admitted
  <2>. QED  BY <1>3, StatusValues DEF Steps
<1>6. At(CountedAt, d) \subseteq Admission!Busy \cap Admission!SameDirection(r)
  BY <1>2, <1>4 DEF At, CountedAt
<1>7. AtIP(IPCountedAt, i, d) \subseteq Admission!Busy \cap Admission!SameClient(r)
  BY <1>2, <1>4 DEF At, AtIP, IPCountedAt
<1>8. Admission!Admitted \cap Admission!SameDirection(r) \subseteq At(Holding, d)
  BY <1>2, <1>5 DEF At, Holding
<1>9. Admission!Admitted \cap Admission!SameClient(r) \subseteq AtIP(IPCountedAt, i, d)
  BY <1>2, <1>5 DEF At, AtIP, IPCountedAt
<1>10. /\ IsFiniteSet(Admission!Busy \cap Admission!SameDirection(r))
       /\ IsFiniteSet(Admission!Busy \cap Admission!SameClient(r))
  BY <1>2, FS_Subset, LimitAssumption
<1>. QED  BY <1>1, <1>6, <1>7, <1>8, <1>9, <1>10

\* The instance's own copy of Cardinality is the library's.
LEMMA SameCardinality == \A S : Admission!Cardinality(S) = Cardinality(S)
BY DEF Cardinality, Admission!Cardinality, IsFiniteSet, Admission!IsFiniteSet

\* A refusal by the counter: the requests it counts are all still unfinished.
LEMMA CounterRefuses ==
  ASSUME IInv, NEW r \in Requests, AddCounter(r), active[dirOf(r)] + 1 > MaxConcurrent
  PROVE  Admission!Refuse(r)
<1>. DEFINE d == dirOf(r)  others == (Admission!Busy \cap Admission!SameDirection(r)) \ {r}
<1>1. /\ Go(r, "arrived", "undo") /\ UNCHANGED req
      /\ "arrived" \in Steps /\ "undo" \in Steps /\ d \in Directions
  BY DEF AddCounter, Steps, IInv, TypeOK, dirOf
<1>2. Admission!Move(r, "waiting", "refused")
  BY <1>1, MovesStatus, StatusValues DEF Admission!Move, IInv
<1>3. At(CountedAt, d) \in SUBSET others
  BY <1>1, Populations DEF At, CountedAt, Go
<1>4. IsFiniteSet(others)
  <2>. DEFINE B == Admission!Busy \cap Admission!SameDirection(r)
  <2>1. IsFiniteSet(B)
    BY Populations
  <2>. HIDE DEF B
  <2>2. IsFiniteSet(B \ {r})
    BY <2>1, FS_RemoveElement
  <2>. QED  BY <2>2 DEF B
<1>5. Cardinality(At(CountedAt, d)) <= Cardinality(others) /\ Cardinality(others) \in Nat
  BY <1>3, <1>4, FS_Subset, FS_CardinalityType
<1>6. Cardinality(At(CountedAt, d)) >= MaxConcurrent
  BY <1>1, LimitAssumption DEF IInv, CounterLedger, TypeOK
<1>7. Cardinality(others) >= MaxConcurrent
  BY <1>5, <1>6, AtFinite, LimitAssumption
<1>. QED  BY <1>1, <1>2, <1>7, SameCardinality DEF Admission!Refuse

\* A refusal by the address's count: its requests are all still unfinished.
LEMMA MapRefuses ==
  ASSUME IInv, NEW r \in Requests, RefusePerIP(r)
  PROVE  Admission!Refuse(r)
<1>. DEFINE d == dirOf(r)  i == ipOf(r)
            others == (Admission!Busy \cap Admission!SameClient(r)) \ {r}
<1>1. /\ Go(r, "counted", "undo") /\ UNCHANGED req
      /\ "counted" \in Steps /\ "undo" \in Steps /\ d \in Directions /\ i \in IPs
  BY DEF RefusePerIP, Steps, IInv, TypeOK, dirOf, ipOf
<1>2. Admission!Move(r, "waiting", "refused")
  BY <1>1, MovesStatus, StatusValues DEF Admission!Move, IInv
<1>3. MaxConcurrentPerIP > 0 /\ ipCount[i][d] >= MaxConcurrentPerIP
  BY <1>1, LimitAssumption DEF RefusePerIP, PerIPHasRoom, IInv, TypeOK
<1>4. AtIP(IPCountedAt, i, d) \in SUBSET others
  BY <1>1, Populations DEF AtIP, At, IPCountedAt, Go
<1>5. IsFiniteSet(others)
  <2>. DEFINE B == Admission!Busy \cap Admission!SameClient(r)
  <2>1. IsFiniteSet(B)
    BY Populations
  <2>. HIDE DEF B
  <2>2. IsFiniteSet(B \ {r})
    BY <2>1, FS_RemoveElement
  <2>. QED  BY <2>2 DEF B
<1>6. Cardinality(AtIP(IPCountedAt, i, d)) <= Cardinality(others) /\ Cardinality(others) \in Nat
  BY <1>4, <1>5, FS_Subset, FS_CardinalityType
<1>7. Cardinality(AtIP(IPCountedAt, i, d)) >= MaxConcurrentPerIP
  BY <1>1, <1>3, LimitAssumption DEF IInv, PerIPLedger
<1>8. Cardinality(others) >= MaxConcurrentPerIP
  BY <1>6, <1>7, AtFinite, LimitAssumption
<1>. QED  BY <1>1, <1>2, <1>3, <1>8, SameCardinality DEF Admission!Refuse

\* An admission: what is already admitted fits under both limits.
LEMMA Admits ==
  ASSUME IInv, NEW r \in Requests, AcquirePerIP(r)
  PROVE  Admission!Admit(r)
<1>. DEFINE d == dirOf(r)  i == ipOf(r)
            same == Admission!Admitted \cap Admission!SameDirection(r)
            mine == Admission!Admitted \cap Admission!SameClient(r)
<1>1. /\ Go(r, "counted", "transfer") /\ UNCHANGED req
      /\ "counted" \in Steps /\ "transfer" \in Steps /\ d \in Directions /\ i \in IPs
  BY DEF AcquirePerIP, Steps, IInv, TypeOK, dirOf, ipOf
<1>2. Admission!Move(r, "waiting", "admitted")
  BY <1>1, MovesStatus, StatusValues DEF Admission!Move, IInv
<1>3. Cardinality(same) < MaxConcurrent
  <2>1. r \in At(Holding, d)
    BY <1>1 DEF At, Holding, Go
  <2>2. r \notin same
    BY <1>1, MovesStatus, StatusValues DEF Admission!Admitted, IInv
  <2>3. same \in SUBSET (At(Holding, d) \ {r})
    BY <2>2, Populations
  <2>. HIDE DEF same
  <2>4. /\ IsFiniteSet(At(Holding, d) \ {r})
        /\ Cardinality(At(Holding, d) \ {r}) = Cardinality(At(Holding, d)) - 1
    BY <2>1, AtFinite, FS_RemoveElement
  <2>5. Cardinality(same) <= Cardinality(At(Holding, d)) - 1 /\ Cardinality(same) \in Nat
    BY <2>3, <2>4, FS_Subset, FS_CardinalityType
  <2>6. Cardinality(At(Holding, d)) <= MaxConcurrent
    BY <1>1 DEF IInv, GlobalBound
  <2>7. Cardinality(At(Holding, d)) \in Nat
    BY AtFinite
  <2>. QED  BY <2>5, <2>6, <2>7, LimitAssumption
<1>4. MaxConcurrentPerIP > 0 => Cardinality(mine) < MaxConcurrentPerIP
  <2>. SUFFICES ASSUME MaxConcurrentPerIP > 0
                PROVE  Cardinality(mine) < MaxConcurrentPerIP
    OBVIOUS
  <2>1. mine \in SUBSET AtIP(IPCountedAt, i, d)
    BY Populations
  <2>. HIDE DEF mine
  <2>2. Cardinality(mine) <= Cardinality(AtIP(IPCountedAt, i, d)) /\ Cardinality(mine) \in Nat
    BY <2>1, AtFinite, FS_Subset, FS_CardinalityType
  <2>3. Cardinality(AtIP(IPCountedAt, i, d)) = ipCount[i][d]
    BY <1>1, LimitAssumption DEF IInv, PerIPLedger
  <2>4. ipCount[i][d] < MaxConcurrentPerIP
    BY DEF AcquirePerIP, PerIPHasRoom
  <2>. QED  BY <2>2, <2>3, <2>4, AtFinite, LimitAssumption
<1>. QED  BY <1>1, <1>2, <1>3, <1>4, SameCardinality, LimitAssumption DEF Admission!Admit

LEMMA StepRefines == IInv /\ [Next]_vars => [Admission!ANext]_(Admission!avars)
<1>. SUFFICES ASSUME IInv, [Next]_vars
              PROVE  \/ \E r \in Requests :
                          \/ Admission!Arrive(r) \/ Admission!Admit(r)
                          \/ Admission!Refuse(r) \/ Admission!Finish(r)
                          \/ Admission!Leave(r)
                     \/ UNCHANGED <<AbstractStatus, req>>
  BY DEF Admission!ANext, Admission!avars
<1>. USE DEF IInv
<1>1. CASE UNCHANGED vars
  BY <1>1 DEF vars, AbstractStatus
<1>2. ASSUME NEW r \in Requests, NEW from \in Steps, NEW to \in Steps,
             Go(r, from, to), UNCHANGED req, StatusOf(from) = StatusOf(to)
      PROVE  UNCHANGED <<AbstractStatus, req>>
  <2>1. /\ AbstractStatus[r] = StatusOf(to)
        /\ AbstractStatus' = [AbstractStatus EXCEPT ![r] = StatusOf(to)]
    BY <1>2, MovesStatus
  <2>2. AbstractStatus' = AbstractStatus
    BY <2>1 DEF AbstractStatus
  <2>. QED  BY <1>2, <2>2
<1>3. ASSUME NEW r \in Requests, Arrive(r)
      PROVE  Admission!Arrive(r)
  BY <1>3, MovesStatus, StatusValues DEF Arrive, Steps, Admission!Arrive, Admission!Move
<1>4. ASSUME NEW r \in Requests, AddCounter(r)
      PROVE  Admission!Refuse(r) \/ UNCHANGED <<AbstractStatus, req>>
  <2>1. CASE active[dirOf(r)] + 1 > MaxConcurrent
    BY <1>4, <2>1, CounterRefuses
  <2>2. CASE ~ (active[dirOf(r)] + 1 > MaxConcurrent)
    BY <1>2, <1>4, <2>2, StatusValues DEF AddCounter, Steps
  <2>. QED  BY <2>1, <2>2
<1>5. ASSUME NEW r \in Requests, UndoCounter(r) \/ EndTransfer(r)
      PROVE  UNCHANGED <<AbstractStatus, req>>
  BY <1>2, <1>5, StatusValues DEF UndoCounter, EndTransfer, Steps
<1>6. ASSUME NEW r \in Requests, SubCounter(r)
      PROVE  Admission!Finish(r)
  BY <1>6, MovesStatus, StatusValues
  DEF SubCounter, Steps, Admission!Finish, Admission!Move
<1>7. ASSUME NEW r \in Requests, ReleasePerIP(r)
      PROVE  Admission!Leave(r)
  BY <1>7, MovesStatus, StatusValues
  DEF ReleasePerIP, Steps, Admission!Leave, Admission!Move
<1>8. ASSUME NEW r \in Requests, Respond503(r)
      PROVE  Admission!Leave(r)
  BY <1>8, MovesStatus, StatusValues
  DEF Respond503, Steps, Admission!Leave, Admission!Move
<1>9. CASE Next
  BY <1>9, <1>3, <1>4, <1>5, <1>6, <1>7, <1>8, MapRefuses, Admits DEF Next
<1>. QED  BY <1>1, <1>9

\* The two-step counter-and-map protocol implements atomic admission: the
\* limits hold over every interleaving, and a 503 is only ever given while
\* as many other requests as the limit are unfinished.
THEOREM RefinesAdmission == Spec => ImplementsAdmission
<1>1. Init => Admission!AInit
  <2>1. Init => AbstractStatus = [r \in Requests |-> "idle"]
    BY StatusValues DEF Init, AbstractStatus
  <2>. QED  BY <2>1 DEF Init, Admission!AInit
<1>. QED
  BY <1>1, InvariantHolds, StepRefines, PTL DEF Spec, ImplementsAdmission, Admission!ASpec
=============================================================================
