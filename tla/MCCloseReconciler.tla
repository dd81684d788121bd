------------------------ MODULE MCCloseReconciler ------------------------
(* Small instances of CloseReconciler for TLC.                            *)
EXTENDS CloseReconciler

(* Both positions opened by one deployment: they share one row counter.   *)
OneOwner == [t \in Tickets |-> "d1"]
==========================================================================
