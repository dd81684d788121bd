-------------------------- MODULE MCEmergencyStop --------------------------
(* Small instances of EmergencyStop for TLC.                               *)
EXTENDS EmergencyStop

(* Every deployment trades the same symbol, and fires on every bar.        *)
SameSymbol == [d \in Deps |-> "s1"]
EveryBar   == Deps \X (1..MaxBars)
============================================================================
