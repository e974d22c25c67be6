---------------------------- MODULE DirectionPhase ----------------------------
(***************************************************************************)
(* What a person watching the page is promised of one direction of a test: *)
(* a bar that never goes back and leaves the ramp's portion only when the  *)
(* measured window runs, a result only after such a window, and an end.    *)
(***************************************************************************)
EXTENDS Naturals

CONSTANT RampPortion  \* percent of the bar the ramp may fill, at most 100

VARIABLES stage, progress

vars == <<stage, progress>>

Limit == IF stage = "ramping" THEN RampPortion ELSE 100

Init == stage = "ramping" /\ progress = 0

Advance ==
  /\ stage \in {"ramping", "measuring"}
  /\ progress' \in progress .. Limit
  /\ UNCHANGED stage

Measure ==
  /\ stage = "ramping" /\ stage' = "measuring"
  /\ UNCHANGED progress

Succeed ==
  /\ stage = "measuring" /\ stage' = "ok"
  /\ progress' = 100

Fail ==
  /\ stage \in {"ramping", "measuring"} /\ stage' = "failed"
  /\ UNCHANGED progress

Next == Advance \/ Measure \/ Succeed \/ Fail

\* The direction is over sooner or later, one way or the other.
Spec == Init /\ [][Next]_vars /\ WF_vars(Succeed \/ Fail)
=============================================================================
