--------------------------- MODULE MCLiveOrders ---------------------------
(* Small instances of LiveOrders for TLC.                                  *)
EXTENDS LiveOrders

(* Every deployment trades the same symbol: the case guards exist for.     *)
SameSymbol == [d \in Deps |-> "s1"]

(* The strategy fires on every bar.                                        *)
EveryBar == Deps \X (1..MaxBars)
===========================================================================
