--------------------------- MODULE MCSpeedtestSlots ---------------------------
EXTENDS SpeedtestSlots, TLC

\* Goroutines are interchangeable, and so are addresses.
Symmetry == Permutations(Requests) \cup Permutations(IPs)
=============================================================================
