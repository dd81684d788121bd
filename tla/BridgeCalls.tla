---------------------------- MODULE BridgeCalls ----------------------------
(***************************************************************************)
(* What a caller may rely on when it calls the expert advisor: a call that *)
(* returned was performed, only calls that were made are performed, and no *)
(* more than Retries performances are repetitions.  Giving up says nothing *)
(* about whether the call is, or will be, performed.  FileBridge           *)
(* implements this; the replies that LiveOrders, CloseReconciler and       *)
(* CloseBackfill act on are what such calls return.                        *)
(***************************************************************************)
EXTENDS Naturals

CONSTANTS Calls,     \* every call there may ever be
          Retries    \* how many repetitions there may be in all

VARIABLES made,      \* calls whose request exists or existed
          performed, \* how often each call was performed
          repeated,  \* repetitions so far
          returned   \* calls that gave their caller an answer

vars == <<made, performed, repeated, returned>>

Init == /\ made = {}
        /\ performed = [c \in Calls |-> 0]
        /\ repeated = 0
        /\ returned = {}

Make(c) == /\ c \notin made
           /\ made' = made \cup {c}
           /\ UNCHANGED <<performed, repeated, returned>>

Perform(c) == /\ c \in made
              /\ performed[c] = 0
              /\ performed' = [performed EXCEPT ![c] = 1]
              /\ UNCHANGED <<made, repeated, returned>>

Repeat(c) == /\ performed[c] > 0
             /\ repeated < Retries
             /\ performed' = [performed EXCEPT ![c] = @ + 1]
             /\ repeated' = repeated + 1
             /\ UNCHANGED <<made, returned>>

Return(c) == /\ performed[c] > 0
             /\ returned' = returned \cup {c}
             /\ UNCHANGED <<made, performed, repeated>>

Next == \E c \in Calls : Make(c) \/ Perform(c) \/ Repeat(c) \/ Return(c)

Spec == Init /\ [][Next]_vars
===========================================================================
