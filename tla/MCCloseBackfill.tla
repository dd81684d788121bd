------------------------- MODULE MCCloseBackfill -------------------------
(* Small instances of CloseBackfill for TLC.                              *)
EXTENDS CloseBackfill

OneOwner == [t \in Tickets |-> "d1"]

(* Deal numbers and position numbers are different series at the broker.  *)
DealNumbers == [t \in Tickets |-> 100 + t]

AnyDeployment == [t \in Tickets |-> Deps]
==========================================================================
