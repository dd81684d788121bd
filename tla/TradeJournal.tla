--------------------------- MODULE TradeJournal ---------------------------
(***************************************************************************)
(* What the close-reconciliation machinery of the runner promises, with    *)
(* no processes, files or crashes: a broker position is whole until it, or *)
(* a part of it, is closed, and a close of it is written to the journal at *)
(* most once, and only after there was one.  CloseReconciler implements    *)
(* this.                                                                   *)
(***************************************************************************)
EXTENDS Naturals

CONSTANTS Tickets,   \* broker positions the journal accounts for
          Tracked    \* those the runner tracks

VARIABLES whole,     \* tickets of which nothing has been closed
          rows       \* number of journal rows per tracked ticket

vars == <<whole, rows>>

TypeOK == /\ whole \subseteq Tickets
          /\ rows \in [Tracked -> Nat]

Init == /\ whole = Tickets
        /\ rows = [t \in Tracked |-> 0]

(* The broker closes a position or a part of it: server-side stop or       *)
(* target, or by hand.                                                     *)
Close(t) == /\ t \in whole
            /\ whole' = whole \ {t}
            /\ UNCHANGED rows

(* The close of t is journalled, once.                                     *)
Journal(t) == /\ t \notin whole
              /\ rows[t] = 0
              /\ rows' = [rows EXCEPT ![t] = 1]
              /\ UNCHANGED whole

Next == \/ \E t \in Tickets : Close(t)
        \/ \E t \in Tracked : Journal(t)

Spec == Init /\ [][Next]_vars
===========================================================================
