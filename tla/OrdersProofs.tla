---------------------------- MODULE OrdersProofs ----------------------------
(***************************************************************************)
(* Proofs about LiveOrders, for any set of deployments and symbols, and    *)
(* about EmergencyStop, the same system beside the operator's stop.        *)
(***************************************************************************)
EXTENDS EmergencyStop, FiniteSetTheorems, TLAPS

Mirroring == {"guard", "send", "wait", "verify"}

(* While an open is mirrored the thread is busy with a real bar of a real  *)
(* deployment; there are finitely many positions, so tickets are numbers;  *)
(* and a shutdown under way is one the bound has room for.                 *)
MirrorInv ==
    /\ pc \in Mirroring => cur \in Deps /\ bar[cur] \in Bars
    /\ IsFiniteSet(positions)
    /\ ending # "no" => up /\ crashes < MaxCrashes

TypeInv == LiveOrdersTypeOK /\ MirrorInv

---------------------------------------------------------------------------
(* The initial state is well typed.                                        *)
LEMMA TypeInit == Init => TypeInv
<1> SUFFICES ASSUME Init PROVE TypeInv
  OBVIOUS
<1> USE OrdersAssumption DEF Init
<1>1. LiveOrdersTypeOK
  BY DEF LiveOrdersTypeOK, Statuses, Positions, PCs, NoReply, None
<1>2. MirrorInv
  BY FS_EmptySet DEF MirrorInv, Mirroring
<1> QED
  BY <1>1, <1>2 DEF TypeInv

(* What is mirrored is a request.                                          *)
LEMMA RequestType ==
    ASSUME TypeInv, pc \in Mirroring
    PROVE  Job \in Signals /\ Request \in Requests
BY OrdersAssumption
   DEF TypeInv, MirrorInv, LiveOrdersTypeOK, Job, Request, Requests, Signals

(* What positions_get and the paper books give is a set of deployments,    *)
(* or "unknown", with symbols.                                             *)
LEMMA SnapshotType ==
    ASSUME LiveOrdersTypeOK, NEW st \in [Deps -> Statuses]
    PROVE  /\ Snapshot(st) \subseteq (Deps \cup {"unknown"}) \X Symbols
           /\ PaperHeld(st) \subseteq (Deps \cup {"unknown"}) \X Symbols
<1> USE OrdersAssumption
<1>1. PaperHeld(st) \subseteq (Deps \cup {"unknown"}) \X Symbols
  BY DEF PaperHeld
<1>2. ListedSymbols \subseteq Symbols
  BY DEF ListedSymbols, Listed, SymbolOf, LiveOrdersTypeOK, Positions,
         Requests, Signals
<1>3. BrokerHeld(st) \subseteq (Deps \cup {"unknown"}) \X Symbols
  <2> DEFINE LiveOn(s) == {d \in Deps : st[d] = "live" /\ Ticker[d] = s}
             Holder(s) == IF LiveOn(s) = {} THEN "unknown"
                          ELSE CHOOSE d \in LiveOn(s) : TRUE
  <2>1. \A s \in Symbols : Holder(s) \in Deps \cup {"unknown"}
    OBVIOUS
  <2>2. BrokerHeld(st) \subseteq {<<Holder(s), s>> : s \in ListedSymbols}
    BY DEF BrokerHeld
  <2> HIDE DEF Holder
  <2> QED
    BY <1>2, <2>1, <2>2
<1> QED
  BY <1>1, <1>3 DEF Snapshot

(* A closed or newly listed position is still a position, and there are    *)
(* no more of them than before.                                            *)
LEMMA MoveType ==
    ASSUME LiveOrdersTypeOK, IsFiniteSet(positions), NEW p \in positions,
           NEW s \in {"listed", "closed"}, Move(p, s)
    PROVE  positions' \subseteq Positions /\ IsFiniteSet(positions')
<1>1. [p EXCEPT !.state = s] \in Positions
  BY DEF LiveOrdersTypeOK, Positions
<1>2. positions' \subseteq Positions
  BY <1>1 DEF Move, LiveOrdersTypeOK
<1>3. IsFiniteSet(positions \ {p})
  BY FS_Difference
<1>4. IsFiniteSet(positions')
  BY <1>3, FS_AddElement DEF Move
<1> QED
  BY <1>2, <1>4

(* A fill gets a ticket that is a number, not 0.                           *)
LEMMA FillType ==
    ASSUME LiveOrdersTypeOK, IsFiniteSet(positions), NEW r \in requests,
           Execute(r)
    PROVE  /\ positions' \subseteq Positions
           /\ IsFiniteSet(positions')
           /\ NextTicket \in Nat \ {0}
<1>1. NextTicket \in Nat \ {0}
  BY FS_CardinalityType DEF NextTicket
<1>2. r \in Requests
  BY DEF LiveOrdersTypeOK
<1>3. positions' \subseteq Positions
  BY <1>1, <1>2 DEF Execute, Positions, LiveOrdersTypeOK
<1>4. IsFiniteSet(positions')
  BY FS_AddElement DEF Execute
<1> QED
  BY <1>1, <1>3, <1>4

(* A process that ends leaves every variable typed.                        *)
LEMMA EndsType ==
    ASSUME TypeInv, crashes < MaxCrashes, ProcessEnds
    PROVE  TypeInv'
<1> USE OrdersAssumption DEF TypeInv
<1>1. crashes' \in 0..MaxCrashes
  BY DEF LiveOrdersTypeOK, ProcessEnds
<1>2. /\ seen' \in [Deps -> 0..MaxBars]
      /\ shadow' \in [Deps -> 0..MaxBars]
      /\ snap' \in [Deps -> Statuses]
  BY DEF ProcessEnds, Statuses, None
<1>3. astray' \subseteq Requests
  BY RequestType DEF ProcessEnds, LiveOrdersTypeOK, Mirroring
<1>4. LiveOrdersTypeOK'
  BY <1>1, <1>2, <1>3 DEF LiveOrdersTypeOK, ProcessEnds, NoReply, PCs
<1>5. MirrorInv'
  BY DEF MirrorInv, Mirroring, ProcessEnds
<1> QED
  BY <1>4, <1>5

(* Every step keeps every variable's type.                                 *)
LEMMA TypeNext == TypeInv /\ [Next]_vars => TypeInv'
<1> SUFFICES ASSUME TypeInv, [Next]_vars PROVE TypeInv'
  OBVIOUS
<1> USE OrdersAssumption DEF TypeInv, process
<1>1. ASSUME NEW d \in Deps, NewBar(d) PROVE TypeInv'
  <2>1. LiveOrdersTypeOK'
    BY <1>1 DEF LiveOrdersTypeOK, NewBar, memory, thread, book, PCs
  <2>2. MirrorInv'
    BY <1>1 DEF MirrorInv, Mirroring, LiveOrdersTypeOK, NewBar, memory, thread, book, Bars
  <2> QED
    BY <2>1, <2>2
<1>2. ASSUME NEW r \in requests, Execute(r) PROVE TypeInv'
  <2>1. positions' \subseteq Positions /\ IsFiniteSet(positions')
        /\ NextTicket \in Nat \ {0}
    BY <1>2, FillType DEF MirrorInv
  <2>2. LiveOrdersTypeOK'
    BY <1>2, <2>1 DEF LiveOrdersTypeOK, Execute, Answer, book, PCs
  <2>3. MirrorInv'
    BY <1>2, <2>1 DEF MirrorInv, Mirroring, LiveOrdersTypeOK, Execute, Answer, book
  <2> QED
    BY <2>2, <2>3
<1>3. ASSUME NEW r \in requests, Reject(r) PROVE TypeInv'
  <2>1. LiveOrdersTypeOK'
    BY <1>3 DEF LiveOrdersTypeOK, Reject, Answer, book, PCs
  <2>2. MirrorInv'
    BY <1>3 DEF MirrorInv, Mirroring, LiveOrdersTypeOK, Reject, Answer, book
  <2> QED
    BY <2>1, <2>2
<1>4. ASSUME NEW p \in positions, List(p) PROVE TypeInv'
  <2>1. positions' \subseteq Positions /\ IsFiniteSet(positions')
    BY <1>4, MoveType DEF MirrorInv, List
  <2>2. LiveOrdersTypeOK'
    BY <1>4, <2>1 DEF LiveOrdersTypeOK, List, memory, thread, book
  <2>3. MirrorInv'
    BY <1>4, <2>1 DEF MirrorInv, Mirroring, LiveOrdersTypeOK, List, memory, thread, book
  <2> QED
    BY <2>2, <2>3
<1>5. ASSUME NEW p \in positions, ClosePosition(p) PROVE TypeInv'
  <2>1. positions' \subseteq Positions /\ IsFiniteSet(positions')
    BY <1>5, MoveType DEF MirrorInv, ClosePosition
  <2>2. LiveOrdersTypeOK'
    BY <1>5, <2>1 DEF LiveOrdersTypeOK, ClosePosition, memory, thread, book
  <2>3. MirrorInv'
    BY <1>5, <2>1 DEF MirrorInv, Mirroring, LiveOrdersTypeOK, ClosePosition, memory, thread, book
  <2> QED
    BY <2>2, <2>3
<1>6. ASSUME NEW r \in sent, KeyExpires(r) PROVE TypeInv'
  <2>1. LiveOrdersTypeOK'
    BY <1>6 DEF LiveOrdersTypeOK, KeyExpires, thread, book, PCs
  <2>2. MirrorInv'
    BY <1>6 DEF MirrorInv, Mirroring, LiveOrdersTypeOK, KeyExpires, thread, book
  <2> QED
    BY <2>1, <2>2
<1>7. ASSUME NEW d \in Deps, NEW s \in DashStatuses, DashboardSet(d, s) PROVE TypeInv'
  <2>1. LiveOrdersTypeOK'
    BY <1>7 DEF LiveOrdersTypeOK, DashboardSet, memory, thread, book, PCs
  <2>2. MirrorInv'
    BY <1>7 DEF MirrorInv, Mirroring, LiveOrdersTypeOK, DashboardSet, memory, thread, book
  <2> QED
    BY <2>1, <2>2
<1>8. ASSUME BeginTick PROVE TypeInv'
  <2>1. held' \subseteq (Deps \cup {"unknown"}) \X Symbols
    BY <1>8, SnapshotType DEF BeginTick, LiveOrdersTypeOK
  <2>2. LiveOrdersTypeOK'
    BY <1>8, <2>1 DEF LiveOrdersTypeOK, BeginTick, book, PCs
  <2>3. MirrorInv'
    BY <1>8 DEF MirrorInv, Mirroring, LiveOrdersTypeOK, BeginTick, book
  <2> QED
    BY <2>2, <2>3
<1>9. ASSUME NEW d \in Deps, NoNewBar(d) PROVE TypeInv'
  <2>1. LiveOrdersTypeOK'
    BY <1>9 DEF LiveOrdersTypeOK, NoNewBar, Leave, book, PCs
  <2>2. MirrorInv'
    BY <1>9 DEF MirrorInv, Mirroring, LiveOrdersTypeOK, NoNewBar, Leave, book
  <2> QED
    BY <2>1, <2>2
<1>10. ASSUME NEW d \in Deps, SizingRefused(d) PROVE TypeInv'
  <2>1. LiveOrdersTypeOK'
    BY <1>10 DEF LiveOrdersTypeOK, SizingRefused, Marked, Leave, book, PCs
  <2>2. MirrorInv'
    BY <1>10 DEF MirrorInv, Mirroring, LiveOrdersTypeOK, SizingRefused, Marked, Leave, book
  <2> QED
    BY <2>1, <2>2
<1>11. ASSUME NEW d \in Deps, TickQuiet(d) PROVE TypeInv'
  <2>1. LiveOrdersTypeOK'
    BY <1>11 DEF LiveOrdersTypeOK, TickQuiet, Marked, Leave, Updated, None, PCs
  <2>2. MirrorInv'
    BY <1>11 DEF MirrorInv, Mirroring, LiveOrdersTypeOK, TickQuiet, Marked, Leave, Updated, None
  <2> QED
    BY <2>1, <2>2
<1>12. ASSUME NEW d \in Deps, TickOpenNotMirrored(d) PROVE TypeInv'
  <2>1. LiveOrdersTypeOK'
    BY <1>12 DEF LiveOrdersTypeOK, TickOpenNotMirrored, Marked, Leave, Updated, ShadowOpen, Signals, Bars, None, PCs
  <2>2. MirrorInv'
    BY <1>12 DEF MirrorInv, Mirroring, LiveOrdersTypeOK, TickOpenNotMirrored, Marked, Leave, Updated, ShadowOpen, Signals, Bars, None
  <2> QED
    BY <2>1, <2>2
<1>13. ASSUME NEW d \in Deps, TickOpen(d) PROVE TypeInv'
  <2>1. LiveOrdersTypeOK'
    BY <1>13 DEF LiveOrdersTypeOK, TickOpen, Marked, Updated, ShadowOpen, Signals, Bars, None, PCs
  <2>2. MirrorInv'
    BY <1>13 DEF MirrorInv, Mirroring, LiveOrdersTypeOK, TickOpen, Marked, Updated, ShadowOpen, Signals, Bars, None
  <2> QED
    BY <2>1, <2>2
<1>14. ASSUME GuardRefuses PROVE TypeInv'
  <2>1. LiveOrdersTypeOK'
    BY <1>14 DEF LiveOrdersTypeOK, GuardRefuses, Leave, book, PCs
  <2>2. MirrorInv'
    BY <1>14 DEF MirrorInv, Mirroring, LiveOrdersTypeOK, GuardRefuses, Leave, book
  <2> QED
    BY <2>1, <2>2
<1>15. ASSUME GuardPasses PROVE TypeInv'
  <2>1. LiveOrdersTypeOK'
    BY <1>15 DEF LiveOrdersTypeOK, GuardPasses, book, PCs
  <2>2. MirrorInv'
    BY <1>15 DEF MirrorInv, Mirroring, LiveOrdersTypeOK, GuardPasses, book
  <2> QED
    BY <2>1, <2>2
<1>16. ASSUME SendDenied PROVE TypeInv'
  <2>1. LiveOrdersTypeOK'
    BY <1>16 DEF LiveOrdersTypeOK, MirrorInv, Mirroring, SendDenied,
              Leave, Forget, None, book, PCs
  <2>2. MirrorInv'
    BY <1>16 DEF MirrorInv, Mirroring, LiveOrdersTypeOK, SendDenied, Leave, Forget, None, book
  <2> QED
    BY <2>1, <2>2
<1>17. ASSUME Send PROVE TypeInv'
  <2>0. Job \in Signals /\ Request \in Requests
    BY <1>17, RequestType DEF Send, Mirroring
  <2>1. LiveOrdersTypeOK'
    BY <1>17, <2>0 DEF LiveOrdersTypeOK, Send, NoReply, book, PCs
  <2>2. MirrorInv'
    BY <1>17 DEF MirrorInv, Mirroring, LiveOrdersTypeOK, Send, book
  <2> QED
    BY <2>1, <2>2
<1>18. ASSUME ReplyFilled PROVE TypeInv'
  <2>1. LiveOrdersTypeOK'
    BY <1>18 DEF LiveOrdersTypeOK, ReplyFilled, book, PCs
  <2>2. MirrorInv'
    BY <1>18 DEF MirrorInv, Mirroring, LiveOrdersTypeOK, ReplyFilled, book
  <2> QED
    BY <2>1, <2>2
<1>19. ASSUME ReplyRejected PROVE TypeInv'
  <2>1. LiveOrdersTypeOK'
    BY <1>19 DEF LiveOrdersTypeOK, MirrorInv, Mirroring, ReplyRejected,
              Leave, Forget, None, book, PCs
  <2>2. MirrorInv'
    BY <1>19 DEF MirrorInv, Mirroring, LiveOrdersTypeOK, ReplyRejected, Leave, Forget, None, book
  <2> QED
    BY <2>1, <2>2
<1>20. ASSUME ReplyTimeout PROVE TypeInv'
  <2>0. Request \in Requests
    BY <1>20, RequestType DEF ReplyTimeout, Mirroring
  <2>1. LiveOrdersTypeOK'
    BY <1>20, <2>0 DEF LiveOrdersTypeOK, MirrorInv, Mirroring, ReplyTimeout,
              Leave, Forget, None, book, PCs
  <2>2. MirrorInv'
    BY <1>20 DEF MirrorInv, Mirroring, LiveOrdersTypeOK, ReplyTimeout, Leave, Forget, None, book
  <2> QED
    BY <2>1, <2>2
<1>21. ASSUME Verified PROVE TypeInv'
  <2>1. LiveOrdersTypeOK'
    BY <1>21 DEF LiveOrdersTypeOK, Verified, Leave, book, PCs
  <2>2. MirrorInv'
    BY <1>21 DEF MirrorInv, Mirroring, LiveOrdersTypeOK, Verified, Leave, book
  <2> QED
    BY <2>1, <2>2
<1>22. ASSUME Phantom PROVE TypeInv'
  <2>0. Request \in Requests
    BY <1>22, RequestType DEF Phantom, Mirroring
  <2>1. LiveOrdersTypeOK'
    BY <1>22, <2>0 DEF LiveOrdersTypeOK, MirrorInv, Mirroring, Phantom,
              Leave, Forget, None, book, PCs
  <2>2. MirrorInv'
    BY <1>22 DEF MirrorInv, Mirroring, LiveOrdersTypeOK, Phantom, Leave, Forget, None, book
  <2> QED
    BY <2>1, <2>2
<1>23. ASSUME EndTick PROVE TypeInv'
  <2>1. LiveOrdersTypeOK'
    BY <1>23 DEF LiveOrdersTypeOK, EndTick, NoReply, book, PCs
  <2>2. MirrorInv'
    BY <1>23 DEF MirrorInv, Mirroring, LiveOrdersTypeOK, EndTick, NoReply, book
  <2> QED
    BY <2>1, <2>2
<1>24. ASSUME Crash \/ Exit PROVE TypeInv'
  BY <1>24, EndsType DEF Crash, Exit, MirrorInv
<1>25. ASSUME Restart PROVE TypeInv'
  <2>1. LiveOrdersTypeOK'
    BY <1>25 DEF LiveOrdersTypeOK, Restart, thread, book, PCs
  <2>2. MirrorInv'
    BY <1>25 DEF MirrorInv, Mirroring, LiveOrdersTypeOK, Restart, thread, book
  <2> QED
    BY <2>1, <2>2
<1>26. ASSUME GuardBlind PROVE TypeInv'
  <2>0. Request \in Requests
    BY <1>26, RequestType DEF GuardBlind, Mirroring
  <2>1. LiveOrdersTypeOK'
    BY <1>26, <2>0 DEF LiveOrdersTypeOK, GuardBlind, book, PCs
  <2>2. MirrorInv'
    BY <1>26 DEF MirrorInv, Mirroring, LiveOrdersTypeOK, GuardBlind, book
  <2> QED
    BY <2>1, <2>2
<1>27. ASSUME Shutdown \/ LastSave PROVE TypeInv'
  <2>1. LiveOrdersTypeOK'
    BY <1>27 DEF LiveOrdersTypeOK, Shutdown, LastSave, memory, thread, book
  <2>2. MirrorInv'
    BY <1>27 DEF MirrorInv, Shutdown, LastSave, memory, thread, book
  <2> QED
    BY <2>1, <2>2
<1>28. CASE UNCHANGED vars
  BY <1>28 DEF LiveOrdersTypeOK, MirrorInv, vars, memory, thread, book
<1> QED
  BY <1>1, <1>2, <1>3, <1>4, <1>5, <1>6, <1>7, <1>8, <1>9, <1>10, <1>11,
     <1>12, <1>13, <1>14, <1>15, <1>16, <1>17, <1>18, <1>19, <1>20, <1>21,
     <1>22, <1>23, <1>24, <1>25, <1>26, <1>27, <1>28
  DEF Next, Environment, Runner, TickDeployment, Mirror

(* The type invariant that TLC checks on small instances, for every        *)
(* instance.                                                               *)
THEOREM TypeCorrect == Spec => []LiveOrdersTypeOK
<1>1. TypeInv => LiveOrdersTypeOK
  BY DEF TypeInv
<1>2. Spec => []TypeInv
  BY TypeInit, TypeNext, PTL DEF Spec
<1> QED
  BY <1>1, <1>2, PTL
---------------------------------------------------------------------------
(* Tickets are given out once, and in order.                               *)
TicketInv ==
    /\ \A p, q \in positions : p.ticket = q.ticket => p = q
    /\ \A p \in positions : p.ticket \in 1..Cardinality(positions)

(* What a step of the runner, the broker or the advisor does to positions. *)
Opens(r) ==
    /\ requests' = requests \ {r}
    /\ positions' = positions \cup
          {[ticket |-> NextTicket, request |-> r, state |-> "filled"]}

Changes(p) ==
    \E s \in {"listed", "closed"} :
        /\ s = "closed" \/ p.state = "filled"
        /\ Move(p, s)

LEMMA PositionSteps ==
    Next => \/ UNCHANGED positions
            \/ \E r \in requests : Opens(r)
            \/ \E p \in positions : Changes(p)
<1> SUFFICES ASSUME Next, positions' # positions
             PROVE  \/ \E r \in requests : Opens(r)
                    \/ \E p \in positions : Changes(p)
  OBVIOUS
<1>1. ASSUME NEW r \in requests, Execute(r) PROVE Opens(r)
  BY <1>1 DEF Execute, Opens
<1>2. ASSUME NEW p \in positions, List(p) \/ ClosePosition(p) PROVE Changes(p)
  BY <1>2 DEF List, ClosePosition, Changes
<1>3. \/ \E r \in requests : Execute(r)
      \/ \E p \in positions : List(p) \/ ClosePosition(p)
  BY DEF Next, Environment, Runner, TickDeployment, Mirror, NewBar,
         Reject, KeyExpires, DashboardSet,
         BeginTick, NoNewBar, SizingRefused, TickQuiet, TickOpenNotMirrored,
         TickOpen, GuardRefuses, GuardPasses, GuardBlind, SendDenied, Send,
         ReplyFilled, ReplyRejected, ReplyTimeout, Verified, Phantom, EndTick,
         Crash, Exit, ProcessEnds, Shutdown, LastSave, Restart
<1> QED
  BY <1>1, <1>2, <1>3

(* A new position is one more.                                             *)
LEMMA OpensOne ==
    ASSUME TypeInv, TicketInv, NEW r \in requests, Opens(r)
    PROVE  /\ TicketInv'
           /\ Cardinality(positions) \in Nat
           /\ Cardinality(positions') = Cardinality(positions) + 1
<1> USE DEF TicketInv
<1>1. IsFiniteSet(positions) /\ Cardinality(positions) \in Nat
  BY FS_CardinalityType DEF TypeInv, MirrorInv
<1>2. PICK q : /\ q.ticket = NextTicket
               /\ positions' = positions \cup {q}
  BY DEF Opens
<1>3. q \notin positions
  BY <1>1, <1>2 DEF NextTicket
<1>4. Cardinality(positions') = Cardinality(positions) + 1
  BY <1>1, <1>2, <1>3, FS_AddElement
<1>5. \A p \in positions : /\ p.ticket \in 1..Cardinality(positions')
                           /\ p.ticket # NextTicket
  BY <1>1, <1>4 DEF NextTicket
<1>6. q.ticket \in 1..Cardinality(positions')
  BY <1>1, <1>2, <1>4 DEF NextTicket
<1> QED
  BY <1>1, <1>2, <1>4, <1>5, <1>6

(* A position that changes keeps its ticket, and there are as many.        *)
LEMMA ChangesOne ==
    ASSUME TypeInv, TicketInv, NEW p \in positions, NEW s, Move(p, s)
    PROVE  /\ TicketInv'
           /\ Cardinality(positions) \in Nat
           /\ Cardinality(positions') = Cardinality(positions)
<1> USE DEF TicketInv
<1>1. IsFiniteSet(positions) /\ Cardinality(positions) \in Nat
  BY FS_CardinalityType DEF TypeInv, MirrorInv
<1>2. PICK q : /\ q.ticket = p.ticket
               /\ positions' = (positions \ {p}) \cup {q}
  BY DEF Move, TypeInv, LiveOrdersTypeOK, Positions
<1>3. /\ IsFiniteSet(positions \ {p})
      /\ Cardinality(positions \ {p}) = Cardinality(positions) - 1
  BY <1>1, FS_RemoveElement
<1>4. q \notin positions \ {p}
  BY <1>2
<1>5. Cardinality(positions') = Cardinality(positions)
  <2>1. Cardinality((positions \ {p}) \cup {q}) = Cardinality(positions \ {p}) + 1
    BY <1>3, <1>4, FS_AddElement
  <2> QED
    BY <1>1, <1>2, <1>3, <2>1
<1>6. \A x \in positions' : x \in positions \ {p} \/ x = q
  BY <1>2
<1>7. \A x, y \in positions' : x.ticket = y.ticket => x = y
  BY <1>2, <1>6
<1>8. \A x \in positions' : x.ticket \in 1..Cardinality(positions')
  BY <1>2, <1>5, <1>6
<1> QED
  BY <1>1, <1>5, <1>7, <1>8

(* No step of the system gives a ticket out again.                         *)
LEMMA TicketStep ==
    ASSUME TypeInv, TicketInv, [Next]_vars
    PROVE  /\ TicketInv'
           /\ Cardinality(positions) \in Nat
           /\ Cardinality(positions') \in Nat
           /\ Cardinality(positions) <= Cardinality(positions')
<1> DEFINE Goal == /\ TicketInv'
                   /\ Cardinality(positions) \in Nat
                   /\ Cardinality(positions') \in Nat
                   /\ Cardinality(positions) <= Cardinality(positions')
<1>0. Cardinality(positions) \in Nat
  BY FS_CardinalityType DEF TypeInv, MirrorInv
<1>1. ASSUME UNCHANGED positions PROVE Goal
  BY <1>0, <1>1 DEF TicketInv
<1>2. ASSUME NEW r \in requests, Opens(r) PROVE Goal
  BY <1>2, OpensOne
<1>3. ASSUME NEW p \in positions, Changes(p) PROVE Goal
  BY <1>3, ChangesOne DEF Changes
<1>4. CASE UNCHANGED vars
  BY <1>1, <1>4 DEF vars
<1> QED
  BY <1>1, <1>2, <1>3, <1>4, PositionSteps
---------------------------------------------------------------------------
(* One order per signal.  The shadow book's keys remember every signal the *)
(* living process ever had on its way to the broker, so it opens a signal  *)
(* on the shadow book once; from there to the send nothing of it can be at *)
(* the broker; and a request becomes a position only by leaving the        *)
(* requests.                                                               *)
Remembered(r) == r.life <= crashes /\ (r.life = crashes => r.signal \in keys)

Once ==
    /\ \A r \in requests : Remembered(r)
    /\ \A p \in positions : Remembered(p.request) /\ p.request \notin requests
    /\ pc \in {"guard", "send"} =>
          /\ Job \in keys
          /\ Request \notin requests
          /\ \A p \in positions : p.request # Request
    /\ \A p, q \in positions : p.request = q.request => p = q

(* A process that ends is forgotten by the next.                           *)
LEMMA OnceEnds ==
    ASSUME TypeInv, Once, ProcessEnds
    PROVE  Once'
<1>1. crashes \in Nat /\ crashes' = crashes + 1 /\ pc' = "idle"
  BY OrdersAssumption DEF ProcessEnds, TypeInv, LiveOrdersTypeOK
<1>2. \A r \in Requests : Remembered(r) => Remembered(r)'
  BY <1>1, OrdersAssumption DEF Remembered, Requests
<1>3. requests \subseteq Requests /\ \A p \in positions : p.request \in Requests
  BY DEF TypeInv, LiveOrdersTypeOK, Positions
<1>4. UNCHANGED <<requests, positions>>
  BY DEF ProcessEnds
<1> HIDE DEF Remembered
<1>5. \A r \in requests' : Remembered(r)'
  BY <1>2, <1>3, <1>4 DEF Once
<1>6. \A p \in positions' : Remembered(p.request)' /\ p.request \notin requests'
  BY <1>2, <1>3, <1>4 DEF Once
<1>7. \A p, q \in positions' : p.request = q.request => p = q
  BY <1>4 DEF Once
<1> QED
  BY <1>1, <1>5, <1>6, <1>7 DEF Once

(* No step executes a signal a second time in one life.                    *)
LEMMA OnceNext == TypeInv /\ Once /\ [Next]_vars => Once'
<1> SUFFICES ASSUME TypeInv, Once, [Next]_vars PROVE Once'
  OBVIOUS
<1> USE DEF Once, Job, Request, Remembered, process
<1>1. ASSUME NEW d \in Deps, NewBar(d) PROVE Once'
  <2>1. pc \in {"guard", "send"} => cur # d /\ bar'[cur] = bar[cur]
    BY <1>1 DEF NewBar, TypeInv, LiveOrdersTypeOK, MirrorInv, Mirroring
  <2> QED
    BY <1>1, <2>1 DEF NewBar, memory, thread, book
<1>2. ASSUME NEW r \in requests, Execute(r) PROVE Once'
  BY <1>2 DEF Execute, book
<1>3. ASSUME NEW r \in requests, Reject(r) PROVE Once'
  BY <1>3 DEF Reject, book
<1>4. ASSUME NEW p \in positions, List(p) \/ ClosePosition(p) PROVE Once'
  <2>1. PICK q : /\ q.request = p.request
                 /\ positions' = (positions \ {p}) \cup {q}
    BY <1>4 DEF List, ClosePosition, Move, TypeInv, LiveOrdersTypeOK, Positions
  <2>2. UNCHANGED <<requests, pc, cur, bar, crashes, keys>>
    BY <1>4 DEF List, ClosePosition, memory, thread, book
  <2> QED
    BY <2>1, <2>2
<1>5. ASSUME NEW r \in sent, KeyExpires(r) PROVE Once'
  BY <1>5 DEF KeyExpires, thread, book
<1>6. ASSUME NEW d \in Deps, NEW s \in DashStatuses, DashboardSet(d, s)
      PROVE  Once'
  BY <1>6 DEF DashboardSet, memory, thread, book
<1>7. ASSUME BeginTick \/ EndTick PROVE Once'
  BY <1>7 DEF BeginTick, EndTick, book
<1>8. ASSUME NEW d \in Deps, NoNewBar(d) \/ SizingRefused(d) \/ TickQuiet(d)
      PROVE  Once'
  BY <1>8 DEF NoNewBar, SizingRefused, TickQuiet, Marked, Leave, book
<1>9. ASSUME NEW d \in Deps, TickOpenNotMirrored(d) PROVE Once'
  BY <1>9 DEF TickOpenNotMirrored, ShadowOpen, Marked, Leave
<1>10. ASSUME NEW d \in Deps, TickOpen(d) PROVE Once'
  <2>1. /\ <<d, bar[d]>> \notin keys /\ keys' = keys \cup {<<d, bar[d]>>}
        /\ cur' = d /\ UNCHANGED <<requests, positions, crashes, bar>>
    BY <1>10 DEF TickOpen, ShadowOpen, Collides
  <2>2. \A r \in requests : r # Request'
    BY <2>1
  <2>3. \A p \in positions : p.request # Request'
    BY <2>1
  <2> QED
    BY <2>1, <2>2, <2>3
<1>11. ASSUME GuardPasses \/ GuardBlind PROVE Once'
  BY <1>11 DEF GuardPasses, GuardBlind, book
<1>12. ASSUME Send PROVE Once'
  <2>1. /\ requests' = requests \cup {Request} /\ pc = "send" /\ pc' = "wait"
        /\ UNCHANGED <<positions, crashes, keys>>
    BY <1>12 DEF Send, book
  <2>2. Remembered(Request)
    BY <2>1 DEF TypeInv, LiveOrdersTypeOK
  <2>3. \A p \in positions : p.request # Request
    BY <2>1
  <2> QED
    BY <2>1, <2>2, <2>3
<1>13. ASSUME GuardRefuses \/ SendDenied \/ ReplyFilled \/ ReplyRejected
              \/ ReplyTimeout \/ Verified \/ Phantom
       PROVE  Once'
  BY <1>13 DEF GuardRefuses, SendDenied, ReplyFilled, ReplyRejected,
               ReplyTimeout, Verified, Phantom, Leave, Forget, book
<1>14. ASSUME Crash \/ Exit PROVE Once'
  BY <1>14, OnceEnds DEF Crash, Exit
<1>15. ASSUME Restart PROVE Once'
  BY <1>15 DEF Restart, thread, book
<1>16. ASSUME Shutdown \/ LastSave PROVE Once'
  BY <1>16 DEF Shutdown, LastSave, memory, thread, book
<1>17. CASE UNCHANGED vars
  BY <1>17 DEF vars, memory, thread, book
<1> QED
  BY <1>1, <1>2, <1>3, <1>4, <1>5, <1>6, <1>7, <1>8, <1>9, <1>10, <1>11,
     <1>12, <1>13, <1>14, <1>15, <1>16, <1>17
     DEF Next, Environment, Runner, TickDeployment, Mirror

(* In one life of the process, a signal is executed at most once, whatever *)
(* the advisor, the position list, the clock and the dashboard do.         *)
THEOREM ExecutedOnce == Spec => []OneOrderPerSignal
<1> DEFINE I == TypeInv /\ Once
<1>1. Init => I
  BY TypeInit DEF Init, Once
<1>2. I /\ [Next]_vars => I'
  BY TypeNext, OnceNext
<1>3. I => OneOrderPerSignal
  BY DEF Once, OneOrderPerSignal
<1> QED
  BY <1>1, <1>2, <1>3, PTL DEF Spec
---------------------------------------------------------------------------
(* Two positions on a symbol.  A position is sure if the runner had not    *)
(* lost sight of its order.  Outside the mirror's last two waits every     *)
(* sure position is listed, so the guard sees it; a request that is not    *)
(* astray is the one waited for; and the reply that is waited for names a  *)
(* position of this request, so that Verified sees the right one.          *)
Sure == {p \in OpenPositions : p.request \notin astray}

Waiting == {"wait", "verify"}

SureListed ==
    \A p \in Sure : p.state = "listed" \/ (pc \in Waiting /\ p.request = Request)

SureRequests == \A r \in requests : r \notin astray => pc = "wait" /\ r = Request

SendsAlone ==
    /\ pc = "send" /\ Request \notin astray =>
          \A p \in Sure : SymbolOf(p) # Ticker[cur]
    /\ pc \in Waiting /\ Request \notin astray =>
          \A p \in Sure : SymbolOf(p) = Ticker[cur] => p.request = Request

RepliesTrue ==
    /\ pc = "verify" \/ (pc = "wait" /\ reply.kind = "filled") =>
          \E p \in positions : p.ticket = reply.ticket /\ p.request = Request
    /\ pc = "wait" /\ reply.kind = "rejected" =>
          /\ Request \notin requests
          /\ \A p \in positions : p.request # Request

SureInv == SureListed /\ SureRequests /\ SendsAlone /\ RepliesTrue
           /\ DoublesAreAstray

DoubleInv == TypeInv /\ TicketInv /\ Once /\ SureInv

(* The invariant in terms of the thread's place, its symbol and its        *)
(* request, which a step may keep though it changes what they come from.   *)
SureView == <<requests, positions, astray, pc, cur, reply>>

LEMMA SureStable ==
    ASSUME SureInv, UNCHANGED SureView, pc \in {"send", "wait", "verify"} => UNCHANGED Request
    PROVE  SureInv'
<1> USE DEF SureInv, SureView, Waiting
<1>1. Sure' = Sure
  BY DEF Sure, OpenPositions
<1>2. SureListed'
  BY <1>1 DEF SureListed
<1>3. SureRequests'
  BY DEF SureRequests
<1>4. SendsAlone'
  BY <1>1 DEF SendsAlone, SymbolOf
<1>5. RepliesTrue'
  BY DEF RepliesTrue
<1>6. DoublesAreAstray'
  BY DEF DoublesAreAstray, OpenPositions, SymbolOf
<1> QED
  BY <1>2, <1>3, <1>4, <1>5, <1>6

(* The thread goes to a place where nothing is sent or waited for, and no  *)
(* sure position and no sure request is left behind.                       *)
LEMMA SureLeaves ==
    ASSUME SureInv, UNCHANGED <<requests, positions>>, astray \subseteq astray',
           pc' \notin {"send", "wait", "verify"},
           \A p \in Sure : p.request \notin astray' => p.state = "listed",
           \A r \in requests : r \in astray'
    PROVE  SureInv'
<1> USE DEF SureInv, Waiting
<1>1. Sure' \subseteq Sure /\ \A p \in Sure' : p.request \notin astray'
  BY DEF Sure, OpenPositions
<1>2. SureListed'
  BY <1>1 DEF SureListed
<1>3. SureRequests' /\ SendsAlone' /\ RepliesTrue'
  BY DEF SureRequests, SendsAlone, RepliesTrue
<1>4. DoublesAreAstray'
  BY DEF DoublesAreAstray, OpenPositions, SymbolOf
<1> QED
  BY <1>2, <1>3, <1>4

(* Where nothing is waited for, nothing is left behind.                    *)
LEMMA SureElsewhere ==
    ASSUME SureInv, UNCHANGED <<requests, positions>>, astray \subseteq astray',
           pc' \notin {"send", "wait", "verify"}, pc \notin Waiting
    PROVE  SureInv'
<1>1. \A p \in Sure : p.state = "listed"
  BY DEF SureInv, SureListed
<1>2. \A r \in requests : r \in astray
  BY DEF SureInv, SureRequests, Waiting
<1> QED
  BY <1>1, <1>2, SureLeaves

(* Giving up a wait leaves an order astray, not a sure one behind.         *)
LEMMA SureGivesUp ==
    ASSUME SureInv, UNCHANGED <<requests, positions>>, pc \in Waiting,
           astray' = astray \cup {Request},
           pc' \notin {"send", "wait", "verify"}
    PROVE  SureInv'
<1>1. \A p \in Sure : p.request \notin astray' => p.state = "listed"
  BY DEF SureInv, SureListed
<1>2. \A r \in requests : r \in astray'
  BY DEF SureInv, SureRequests
<1> QED
  BY <1>1, <1>2, SureLeaves

(* The advisor opens a position.                                           *)
LEMMA SureExecutes ==
    ASSUME DoubleInv, NEW r \in requests, Execute(r)
    PROVE  SureInv'
<1> DEFINE new == [ticket |-> NextTicket, request |-> r, state |-> "filled"]
<1> USE DEF Waiting
<1>1. /\ positions' = positions \cup {new}
      /\ requests' = requests \ {r}
      /\ UNCHANGED <<pc, cur, bar, crashes, astray>>
  BY DEF Execute, process
<1>2. new.request = r /\ new.ticket = NextTicket /\ new.state = "filled"
  OBVIOUS
<1>3. reply' = IF pc = "wait" /\ Request = r
               THEN [kind |-> "filled", ticket |-> NextTicket] ELSE reply
  BY DEF Execute, Answer
<1>4. UNCHANGED Request
  BY <1>1 DEF Request, Job
<1> HIDE DEF new
<1>5. OpenPositions' = OpenPositions \cup {new}
  BY <1>1, <1>2 DEF OpenPositions
<1>6. Sure' = Sure \cup IF r \in astray THEN {} ELSE {new}
  BY <1>1, <1>2, <1>5 DEF Sure
<1>7. r \notin astray => pc = "wait" /\ r = Request
  BY DEF DoubleInv, SureInv, SureRequests
<1>8. \A p \in positions : p.request # r
  BY DEF DoubleInv, Once
<1>9. OpenPositions \subseteq positions /\ Sure \subseteq positions
  BY DEF Sure, OpenPositions
<1>10. r \notin astray =>
          /\ SymbolOf(new) = Ticker[cur]
          /\ \A p \in Sure : SymbolOf(p) # SymbolOf(new)
  <2> SUFFICES ASSUME r \notin astray
               PROVE  /\ SymbolOf(new) = Ticker[cur]
                      /\ \A p \in Sure : SymbolOf(p) # SymbolOf(new)
    OBVIOUS
  <2>1. SymbolOf(new) = Ticker[cur]
    BY <1>2, <1>7 DEF SymbolOf, Request, Job
  <2>2. \A p \in Sure : SymbolOf(p) = Ticker[cur] => p.request = Request
    BY <1>7 DEF DoubleInv, SureInv, SendsAlone
  <2> QED
    BY <1>7, <1>8, <1>9, <2>1, <2>2
<1>11. SureListed'
  BY <1>1, <1>2, <1>4, <1>6, <1>7 DEF DoubleInv, SureInv, SureListed
<1>12. SureRequests'
  BY <1>1, <1>4 DEF DoubleInv, SureInv, SureRequests
<1>13. SendsAlone'
  <2>1. pc = "send" => r \in astray
    BY <1>7
  <2>2. \A p : SymbolOf(p)' = SymbolOf(p)
    BY DEF SymbolOf
  <2> QED
    BY <1>1, <1>2, <1>4, <1>6, <1>7, <2>1, <2>2 DEF DoubleInv, SureInv, SendsAlone
<1>14. RepliesTrue'
  <2>1. CASE pc = "wait" /\ Request = r
    BY <1>1, <1>2, <1>3, <1>4, <2>1 DEF RepliesTrue
  <2>2. CASE ~(pc = "wait" /\ Request = r)
    BY <1>1, <1>2, <1>3, <1>4, <2>2 DEF DoubleInv, SureInv, RepliesTrue
  <2> QED
    BY <2>1, <2>2
<1>15. DoublesAreAstray'
  <2> SUFFICES ASSUME NEW p \in OpenPositions', NEW q \in OpenPositions',
                      SymbolOf(p) = SymbolOf(q), p # q,
                      p.request \notin astray, q.request \notin astray
               PROVE  FALSE
    BY <1>1 DEF DoublesAreAstray, SymbolOf
  <2>1. p \in OpenPositions => p \in Sure
    BY DEF Sure
  <2>2. q \in OpenPositions => q \in Sure
    BY DEF Sure
  <2>3. CASE p = new \/ q = new
    BY <1>2, <1>5, <1>10, <2>1, <2>2, <2>3
  <2>4. CASE p # new /\ q # new
    BY <1>5, <2>4 DEF DoubleInv, SureInv, DoublesAreAstray
  <2> QED
    BY <2>3, <2>4
<1> QED
  BY <1>11, <1>12, <1>13, <1>14, <1>15 DEF SureInv

(* The broker refuses an order.                                            *)
LEMMA SureRejects ==
    ASSUME DoubleInv, NEW r \in requests, Reject(r)
    PROVE  SureInv'
<1> USE DEF Waiting
<1>1. /\ requests' = requests \ {r}
      /\ UNCHANGED <<positions, pc, cur, bar, crashes, astray>>
  BY DEF Reject, process
<1>2. reply' = IF pc = "wait" /\ Request = r
               THEN [kind |-> "rejected", ticket |-> 0] ELSE reply
  BY DEF Reject, Answer
<1>3. UNCHANGED Request
  BY <1>1 DEF Request, Job
<1>4. \A p \in positions : p.request # r
  BY DEF DoubleInv, Once
<1>5. Sure' = Sure
  BY <1>1 DEF Sure, OpenPositions
<1>6. SureListed' /\ SureRequests' /\ SendsAlone' /\ DoublesAreAstray'
  BY <1>1, <1>3, <1>5 DEF DoubleInv, SureInv, SureListed, SureRequests,
     SendsAlone, DoublesAreAstray, OpenPositions, SymbolOf
<1>7. RepliesTrue'
  <2>1. CASE pc = "wait" /\ Request = r
    BY <1>1, <1>2, <1>3, <1>4, <2>1 DEF RepliesTrue
  <2>2. CASE ~(pc = "wait" /\ Request = r)
    BY <1>1, <1>2, <1>3, <2>2 DEF DoubleInv, SureInv, RepliesTrue
  <2> QED
    BY <2>1, <2>2
<1> QED
  BY <1>6, <1>7 DEF SureInv

(* A position is listed or closed.                                         *)
LEMMA SureChanges ==
    ASSUME DoubleInv, NEW p \in positions, Changes(p),
           UNCHANGED <<requests, astray, pc, cur, bar, crashes, reply>>
    PROVE  SureInv'
<1> USE DEF Waiting
<1>1. PICK q : /\ q.request = p.request
               /\ q.ticket = p.ticket
               /\ q.state = "closed" \/ (q.state = "listed" /\ p.state = "filled")
               /\ positions' = (positions \ {p}) \cup {q}
  BY DEF Changes, Move, DoubleInv, TypeInv, LiveOrdersTypeOK, Positions
<1>2. UNCHANGED Request
  BY DEF Request, Job
<1>3. SymbolOf(q) = SymbolOf(p)
  BY <1>1 DEF SymbolOf
<1>4. OpenPositions' \subseteq (OpenPositions \ {p}) \cup {q}
  BY <1>1 DEF OpenPositions
<1>5. q \in OpenPositions' => q.state = "listed" /\ p \in OpenPositions
  BY <1>1 DEF OpenPositions
<1>6. Sure' \subseteq (Sure \ {p}) \cup {q}
  BY <1>4 DEF Sure
<1>7. q \in Sure' => q.state = "listed" /\ p \in Sure
  BY <1>1, <1>5 DEF Sure
<1>8. SureListed'
  BY <1>2, <1>6, <1>7 DEF DoubleInv, SureInv, SureListed
<1>9. SureRequests'
  BY <1>2 DEF DoubleInv, SureInv, SureRequests
<1>10. SendsAlone'
  <2>1. \A x : SymbolOf(x)' = SymbolOf(x)
    BY DEF SymbolOf
  <2> QED
    BY <1>1, <1>2, <1>3, <1>6, <1>7, <2>1 DEF DoubleInv, SureInv, SendsAlone
<1>11. RepliesTrue'
  <2>1. \A x \in positions : \E y \in positions' :
            y.ticket = x.ticket /\ y.request = x.request
    BY <1>1
  <2>2. \A y \in positions' : \E x \in positions : y.request = x.request
    BY <1>1
  <2> QED
    BY <1>2, <2>1, <2>2 DEF DoubleInv, SureInv, RepliesTrue
<1>12. DoublesAreAstray'
  <2> SUFFICES ASSUME NEW x \in OpenPositions', NEW y \in OpenPositions',
                      SymbolOf(x) = SymbolOf(y), x # y
               PROVE  x.request \in astray \/ y.request \in astray
    BY DEF DoublesAreAstray, SymbolOf
  <2>1. \A z \in OpenPositions' : \E w \in OpenPositions :
           /\ w.request = z.request /\ SymbolOf(w) = SymbolOf(z)
           /\ IF z = q THEN w = p ELSE w = z /\ z # p
    BY <1>1, <1>3, <1>4, <1>5
  <2>2. PICK v \in OpenPositions : /\ v.request = x.request
                                   /\ SymbolOf(v) = SymbolOf(x)
                                   /\ IF x = q THEN v = p ELSE v = x /\ x # p
    BY <2>1
  <2>3. PICK w \in OpenPositions : /\ w.request = y.request
                                   /\ SymbolOf(w) = SymbolOf(y)
                                   /\ IF y = q THEN w = p ELSE w = y /\ y # p
    BY <2>1
  <2>4. v # w
    BY <2>2, <2>3
  <2> QED
    BY <2>2, <2>3, <2>4 DEF DoubleInv, SureInv, DoublesAreAstray
<1> QED
  BY <1>8, <1>9, <1>10, <1>11, <1>12 DEF SureInv

(* The guard lets an order pass only when no sure position is on its       *)
(* symbol, or when it could not look.                                      *)
LEMMA SureGuard ==
    ASSUME DoubleInv, GuardPasses \/ GuardBlind
    PROVE  SureInv'
<1> USE DEF Waiting
<1>1. /\ pc = "guard" /\ pc' = "send" /\ astray \subseteq astray'
      /\ UNCHANGED <<requests, positions, cur, bar, crashes>>
  BY DEF GuardPasses, GuardBlind, process
<1>2. UNCHANGED Request
  BY <1>1 DEF Request, Job
<1>3. Sure' \subseteq Sure
  BY <1>1 DEF Sure, OpenPositions
<1>4. \A p \in Sure : p \in Listed
  BY <1>1 DEF DoubleInv, SureInv, SureListed, Sure, Listed, OpenPositions
<1>5. \A r \in requests : r \in astray
  BY <1>1 DEF DoubleInv, SureInv, SureRequests
<1>6. SendsAlone'
  <2>1. CASE GuardPasses
    <3>1. \A p \in Sure : SymbolOf(p) # Ticker[cur]
      BY <1>4, <2>1 DEF GuardPasses, ListedSymbols
    <3> QED
      BY <1>1, <1>3, <3>1 DEF SendsAlone, SymbolOf
  <2>2. CASE GuardBlind
    BY <1>1, <1>2, <2>2 DEF GuardBlind, SendsAlone
  <2> QED
    BY <2>1, <2>2
<1>7. SureListed' /\ SureRequests' /\ RepliesTrue'
  BY <1>1, <1>3, <1>4, <1>5 DEF SureListed, SureRequests, RepliesTrue, Listed
<1>8. DoublesAreAstray'
  BY <1>1 DEF DoubleInv, SureInv, DoublesAreAstray, OpenPositions, SymbolOf
<1> QED
  BY <1>6, <1>7, <1>8 DEF SureInv

(* The order goes out, and is waited for.                                  *)
LEMMA SureSend ==
    ASSUME DoubleInv, Send
    PROVE  SureInv'
<1> USE DEF Waiting
<1>1. /\ pc = "send" /\ pc' = "wait" /\ reply' = NoReply
      /\ requests' = requests \cup {Request}
      /\ UNCHANGED <<positions, astray, cur, bar, crashes>>
  BY DEF Send, process
<1>2. UNCHANGED Request
  BY <1>1 DEF Request, Job
<1>3. Sure' = Sure
  BY <1>1 DEF Sure, OpenPositions
<1>4. SureListed'
  BY <1>1, <1>3 DEF DoubleInv, SureInv, SureListed
<1>5. SureRequests'
  BY <1>1, <1>2 DEF DoubleInv, SureInv, SureRequests
<1>6. SendsAlone'
  BY <1>1, <1>2, <1>3 DEF DoubleInv, SureInv, SendsAlone, SymbolOf
<1>7. RepliesTrue'
  BY <1>1 DEF RepliesTrue, NoReply
<1>8. DoublesAreAstray'
  BY <1>1 DEF DoubleInv, SureInv, DoublesAreAstray, OpenPositions, SymbolOf
<1> QED
  BY <1>4, <1>5, <1>6, <1>7, <1>8 DEF SureInv

(* An answer is read.                                                      *)
LEMMA SureReply ==
    ASSUME DoubleInv, ReplyFilled \/ ReplyRejected
    PROVE  SureInv'
<1> USE DEF Waiting
<1>1. pc = "wait" /\ UNCHANGED <<requests, positions, astray, crashes, bar>>
  BY DEF ReplyFilled, ReplyRejected, process
<1>2. CASE ReplyFilled
  <2>1. reply.kind = "filled" /\ pc' = "verify" /\ UNCHANGED <<cur, reply>>
    BY <1>2 DEF ReplyFilled
  <2>2. UNCHANGED Request
    BY <1>1, <2>1 DEF Request, Job
  <2>3. PICK p \in positions : p.ticket = reply.ticket /\ p.request = Request
    BY <1>1, <2>1 DEF DoubleInv, SureInv, RepliesTrue
  <2>4. Request \notin requests
    BY <2>3 DEF DoubleInv, Once
  <2>5. Sure' = Sure
    BY <1>1 DEF Sure, OpenPositions
  <2>6. SureListed'
    BY <1>1, <2>1, <2>2, <2>5 DEF DoubleInv, SureInv, SureListed
  <2>7. SureRequests'
    BY <1>1, <2>4 DEF DoubleInv, SureInv, SureRequests
  <2>8. SendsAlone'
    BY <1>1, <2>1, <2>2, <2>5 DEF DoubleInv, SureInv, SendsAlone, SymbolOf
  <2>9. RepliesTrue'
    BY <1>1, <2>1, <2>2, <2>3 DEF RepliesTrue
  <2>10. DoublesAreAstray'
    BY <1>1 DEF DoubleInv, SureInv, DoublesAreAstray, OpenPositions, SymbolOf
  <2> QED
    BY <2>6, <2>7, <2>8, <2>9, <2>10 DEF SureInv
<1>3. CASE ReplyRejected
  <2>1. pc' = "tick" /\ reply.kind = "rejected"
    BY <1>3 DEF ReplyRejected, Leave
  <2>2. Request \notin requests /\ \A p \in positions : p.request # Request
    BY <1>1, <2>1 DEF DoubleInv, SureInv, RepliesTrue
  <2>3. \A p \in Sure : p.state = "listed"
    BY <2>2 DEF DoubleInv, SureInv, SureListed, Sure, OpenPositions
  <2>4. \A r \in requests : r \in astray
    BY <2>2 DEF DoubleInv, SureInv, SureRequests
  <2> QED
    BY <1>1, <2>1, <2>3, <2>4, SureLeaves DEF DoubleInv
<1> QED
  BY <1>2, <1>3

(* The position of the order is in the list.                               *)
LEMMA SureVerified ==
    ASSUME DoubleInv, Verified
    PROVE  SureInv'
<1> USE DEF Waiting
<1>1. /\ pc = "verify" /\ pc' = "tick"
      /\ UNCHANGED <<requests, positions, astray>>
  BY DEF Verified, Leave
<1>2. PICK p \in Listed : p.ticket = reply.ticket
  BY DEF Verified
<1>3. PICK q \in positions : q.ticket = reply.ticket /\ q.request = Request
  BY <1>1 DEF DoubleInv, SureInv, RepliesTrue
<1>4. p = q /\ p.state = "listed" /\ q \in positions
  BY <1>2, <1>3 DEF DoubleInv, TicketInv, Listed
<1>5. \A x \in Sure : x.request = Request => x = q
  BY <1>3, <1>4 DEF DoubleInv, Once, Sure, OpenPositions
<1>6. \A x \in Sure : x.state = "listed"
  BY <1>4, <1>5 DEF DoubleInv, SureInv, SureListed
<1>7. \A r \in requests : r \in astray
  BY <1>1 DEF DoubleInv, SureInv, SureRequests
<1> QED
  BY <1>1, <1>6, <1>7, SureLeaves DEF DoubleInv

(* Every step.                                                             *)
LEMMA SureNext == DoubleInv /\ [Next]_vars => SureInv'
<1> SUFFICES ASSUME DoubleInv, [Next]_vars PROVE SureInv'
  OBVIOUS
<1> USE DEF Waiting, process
<1>0. SureInv
  BY DEF DoubleInv
<1>1. ASSUME NEW d \in Deps, NewBar(d) PROVE SureInv'
  <2>1. pc \in Mirroring => cur # d /\ bar'[cur] = bar[cur]
    BY <1>1 DEF NewBar, DoubleInv, TypeInv, LiveOrdersTypeOK, MirrorInv
  <2>2. UNCHANGED SureView
    BY <1>1 DEF NewBar, memory, thread, SureView
  <2>3. pc \in Mirroring => UNCHANGED Request
    BY <1>1, <2>1 DEF NewBar, memory, thread, Request, Job
  <2> QED
    BY <1>0, <2>2, <2>3, SureStable DEF Mirroring
<1>2. ASSUME NEW r \in requests, Execute(r) PROVE SureInv'
  BY <1>2, SureExecutes
<1>3. ASSUME NEW r \in requests, Reject(r) PROVE SureInv'
  BY <1>3, SureRejects
<1>4. ASSUME NEW p \in positions, List(p) \/ ClosePosition(p) PROVE SureInv'
  <2>1. Changes(p)
    BY <1>4 DEF List, ClosePosition, Changes
  <2>2. UNCHANGED <<requests, astray, pc, cur, bar, crashes, reply>>
    BY <1>4 DEF List, ClosePosition, memory, thread
  <2> QED
    BY <2>1, <2>2, SureChanges
<1>5. ASSUME \/ \E r \in sent : KeyExpires(r)
             \/ \E d \in Deps, s \in DashStatuses : DashboardSet(d, s)
             \/ Shutdown \/ LastSave \/ UNCHANGED vars
      PROVE  SureInv'
  <2>1. UNCHANGED <<SureView, bar, crashes>>
    BY <1>5 DEF KeyExpires, DashboardSet, Shutdown, LastSave, vars, memory,
                thread, SureView
  <2>2. UNCHANGED Request
    BY <2>1 DEF SureView, Request, Job
  <2> QED
    BY <1>0, <2>1, <2>2, SureStable
<1>6. ASSUME BeginTick \/ EndTick PROVE SureInv'
  BY <1>0, <1>6, SureElsewhere DEF BeginTick, EndTick
<1>7. ASSUME NEW d \in Deps, TickDeployment(d) PROVE SureInv'
  BY <1>0, <1>7, SureElsewhere
     DEF TickDeployment, NoNewBar, SizingRefused, TickQuiet,
         TickOpenNotMirrored, TickOpen, Marked, Leave
<1>8. ASSUME GuardRefuses \/ SendDenied PROVE SureInv'
  BY <1>0, <1>8, SureElsewhere DEF GuardRefuses, SendDenied, Leave
<1>9. ASSUME GuardPasses \/ GuardBlind PROVE SureInv'
  BY <1>9, SureGuard
<1>10. ASSUME Send PROVE SureInv'
  BY <1>10, SureSend
<1>11. ASSUME ReplyFilled \/ ReplyRejected PROVE SureInv'
  BY <1>11, SureReply
<1>12. ASSUME ReplyTimeout \/ Phantom PROVE SureInv'
  BY <1>0, <1>12, SureGivesUp DEF ReplyTimeout, Phantom, Leave
<1>13. ASSUME Verified PROVE SureInv'
  BY <1>13, SureVerified
<1>14. ASSUME Crash \/ Exit PROVE SureInv'
  <2>1. /\ UNCHANGED <<requests, positions>> /\ pc' = "idle"
        /\ astray' = IF pc \in Waiting THEN astray \cup {Request} ELSE astray
    BY <1>14 DEF Crash, Exit, ProcessEnds
  <2>2. CASE pc \in Waiting
    BY <1>0, <2>1, <2>2, SureGivesUp
  <2>3. CASE pc \notin Waiting
    BY <1>0, <2>1, <2>3, SureElsewhere
  <2> QED
    BY <2>2, <2>3
<1>15. ASSUME Restart PROVE SureInv'
  <2>1. UNCHANGED <<SureView, bar, crashes>>
    BY <1>15 DEF Restart, thread, SureView
  <2>2. UNCHANGED Request
    BY <2>1 DEF SureView, Request, Job
  <2> QED
    BY <1>0, <2>1, <2>2, SureStable
<1> QED
  BY <1>1, <1>2, <1>3, <1>4, <1>5, <1>6, <1>7, <1>8, <1>9, <1>10, <1>11,
     <1>12, <1>13, <1>14, <1>15 DEF Next, Environment, Runner, Mirror

LEMMA DoubleNext == DoubleInv /\ [Next]_vars => DoubleInv'
BY TypeNext, TicketStep, OnceNext, SureNext DEF DoubleInv

LEMMA DoubleInit == Init => DoubleInv
<1> SUFFICES ASSUME Init PROVE DoubleInv
  OBVIOUS
<1>1. requests = {} /\ positions = {} /\ pc = "idle"
  BY DEF Init
<1>2. OpenPositions = {} /\ Sure = {}
  BY <1>1 DEF OpenPositions, Sure
<1>3. SureInv
  BY <1>1, <1>2 DEF SureInv, SureListed, SureRequests, SendsAlone, Waiting,
                    RepliesTrue, DoublesAreAstray
<1>4. TicketInv /\ Once
  BY <1>1 DEF TicketInv, Once
<1> QED
  BY <1>3, <1>4, TypeInit DEF DoubleInv

(* Of two positions open on one symbol, one comes from an order the runner *)
(* sent without seeing the positions, or lost sight of: whatever the       *)
(* deployments share, however late fills are listed, through rejections,   *)
(* rolled-back markers, shutdowns, crashes and restarts.                   *)
THEOREM NeverDoubled == Spec => []DoublesAreAstray
<1>1. DoubleInv => DoublesAreAstray
  BY DEF DoubleInv, SureInv
<1> QED
  BY <1>1, DoubleInit, DoubleNext, PTL DEF Spec
---------------------------------------------------------------------------
(* A bar on disk.  The state file never runs ahead of the market; in a     *)
(* living process a bar not marked in memory is not marked on disk either, *)
(* though a roll-back (_last_seen_bar.pop) lowers only the memory's mark;  *)
(* and the order being mirrored, if any, is of such a bar.  All this until *)
(* the last save of a shutdown, which does not wait for the order.         *)
MarkInv ==
    /\ \A d \in Deps : saved[d] <= bar[d] /\ seen[d] <= bar[d]
    /\ up /\ ending # "saved" =>
          \A d \in Deps : seen[d] < bar[d] => saved[d] < bar[d]
    /\ cur \in Deps => /\ up
                       /\ pc \in Mirroring
                       /\ ending # "saved" => saved[cur] < bar[cur]

(* Whatever neither moves a bar, nor a mark, nor the thread to or from a   *)
(* deployment.                                                             *)
LEMMA MarkStable ==
    ASSUME MarkInv, UNCHANGED <<bar, saved, seen, up, ending, cur>>,
           cur \in Deps => pc' \in Mirroring
    PROVE  MarkInv'
BY DEF MarkInv

(* A roll-back, at the end of a deployment's turn.                         *)
LEMMA MarkForget ==
    ASSUME TypeInv, MarkInv, pc \in Mirroring,
           UNCHANGED <<bar, saved, up, ending>>,
           Forget(cur), cur' = "nobody"
    PROVE  MarkInv'
<1>1. cur \in Deps /\ up
  BY DEF TypeInv, MirrorInv, MarkInv
<1>2. /\ \A d \in Deps : seen'[d] = IF d = cur THEN 0 ELSE seen[d]
      /\ bar \in [Deps -> 0..MaxBars]
  BY <1>1 DEF TypeInv, LiveOrdersTypeOK, Forget, None
<1> QED
  BY <1>1, <1>2, OrdersAssumption DEF MarkInv

(* Every step keeps the marks in that order.                               *)
LEMMA MarkNext == TypeInv /\ MarkInv /\ [Next]_vars => MarkInv'
<1> SUFFICES ASSUME TypeInv, MarkInv, [Next]_vars PROVE MarkInv'
  OBVIOUS
<1> USE OrdersAssumption DEF process
<1>0. /\ bar \in [Deps -> 0..MaxBars]
      /\ seen \in [Deps -> 0..MaxBars]
      /\ saved \in [Deps -> 0..MaxBars]
      /\ cur \in Deps \cup {"nobody"}
      /\ pc \in Mirroring => cur \in Deps
  BY DEF TypeInv, LiveOrdersTypeOK, MirrorInv
<1>1. ASSUME NEW d \in Deps, NewBar(d) PROVE MarkInv'
  <2>1. \A e \in Deps : bar'[e] = IF e = d THEN bar[e] + 1 ELSE bar[e]
    BY <1>0, <1>1 DEF NewBar
  <2> QED
    BY <1>0, <1>1, <2>1 DEF NewBar, MarkInv, memory, thread
<1>2. ASSUME NEW r \in requests, Execute(r) \/ Reject(r) PROVE MarkInv'
  BY <1>2, MarkStable DEF Execute, Reject, MarkInv
<1>3. ASSUME NEW p \in positions, List(p) \/ ClosePosition(p) PROVE MarkInv'
  BY <1>3, MarkStable DEF List, ClosePosition, memory, thread, MarkInv
<1>4. ASSUME NEW r \in sent, KeyExpires(r) PROVE MarkInv'
  BY <1>4, MarkStable DEF KeyExpires, thread, MarkInv
<1>5. ASSUME NEW d \in Deps, NEW s \in DashStatuses, DashboardSet(d, s)
      PROVE  MarkInv'
  BY <1>5, MarkStable DEF DashboardSet, memory, thread, MarkInv
<1>6. ASSUME BeginTick \/ EndTick PROVE MarkInv'
  <2>1. cur \notin Deps
    BY <1>6 DEF BeginTick, EndTick, MarkInv, Mirroring
  <2>2. saved' \in {saved, seen}
    BY <1>6 DEF BeginTick, EndTick
  <2> QED
    BY <1>0, <1>6, <2>1, <2>2 DEF BeginTick, EndTick, MarkInv
<1>7. ASSUME NEW d \in Deps, NoNewBar(d) PROVE MarkInv'
  BY <1>7 DEF NoNewBar, Leave, MarkInv
<1>8. ASSUME NEW d \in Deps,
             SizingRefused(d) \/ TickQuiet(d) \/ TickOpenNotMirrored(d)
      PROVE  MarkInv'
  <2>1. /\ seen' = [seen EXCEPT ![d] = bar[d]] /\ bar[d] > seen[d]
        /\ cur' = "nobody" /\ UNCHANGED <<bar, saved, up, ending>>
    BY <1>8 DEF SizingRefused, TickQuiet, TickOpenNotMirrored, Marked, Leave
  <2> QED
    BY <1>0, <2>1 DEF MarkInv
<1>9. ASSUME NEW d \in Deps, TickOpen(d) PROVE MarkInv'
  <2>1. /\ seen' = [seen EXCEPT ![d] = bar[d]] /\ bar[d] > seen[d]
        /\ up /\ cur' = d /\ pc' = "guard" /\ UNCHANGED <<bar, saved, up, ending>>
    BY <1>9 DEF TickOpen, Marked
  <2>2. ending # "saved" => saved[d] < bar[d]
    BY <2>1 DEF MarkInv
  <2> QED
    BY <1>0, <2>1, <2>2 DEF MarkInv, Mirroring
<1>10. ASSUME GuardRefuses \/ Verified PROVE MarkInv'
  BY <1>10 DEF GuardRefuses, Verified, Leave, MarkInv
<1>11. ASSUME GuardPasses \/ GuardBlind \/ Send \/ ReplyFilled PROVE MarkInv'
  <2>1. pc' \in Mirroring
    BY <1>11 DEF GuardPasses, GuardBlind, Send, ReplyFilled, Mirroring
  <2> QED
    BY <1>11, <2>1, MarkStable DEF GuardPasses, GuardBlind, Send, ReplyFilled
<1>12. ASSUME SendDenied \/ ReplyRejected \/ ReplyTimeout \/ Phantom
       PROVE  MarkInv'
  BY <1>12, MarkForget DEF SendDenied, ReplyRejected, ReplyTimeout, Phantom,
     Leave, Mirroring
<1>13. ASSUME Crash \/ Exit PROVE MarkInv'
  <2>1. \A d \in Deps : seen'[d] = 0
    BY <1>13 DEF Crash, Exit, ProcessEnds, None
  <2>2. ~up' /\ cur' = "nobody" /\ UNCHANGED <<bar, saved>>
    BY <1>13 DEF Crash, Exit, ProcessEnds
  <2> QED
    BY <1>0, <2>1, <2>2 DEF MarkInv
<1>14. ASSUME Restart PROVE MarkInv'
  <2>1. cur \notin Deps
    BY <1>14 DEF Restart, MarkInv
  <2> QED
    BY <1>0, <1>14, <2>1 DEF Restart, MarkInv, thread
<1>15. ASSUME Shutdown PROVE MarkInv'
  <2>1. /\ ending = "no" /\ ending' = "join"
        /\ UNCHANGED <<bar, saved, seen, up, cur, pc>>
    BY <1>15 DEF Shutdown, memory, thread
  <2> QED
    BY <2>1 DEF MarkInv
<1>16. ASSUME LastSave PROVE MarkInv'
  <2>1. /\ saved' \in {saved, seen} /\ ending' = "saved"
        /\ UNCHANGED <<bar, seen, up, cur, pc>>
    BY <1>16 DEF LastSave, memory, thread
  <2> QED
    BY <2>1 DEF MarkInv
<1>17. CASE UNCHANGED vars
  BY <1>17, MarkStable DEF vars, memory, thread, MarkInv
<1> QED
  BY <1>1, <1>2, <1>3, <1>4, <1>5, <1>6, <1>7, <1>8, <1>9, <1>10, <1>11,
     <1>12, <1>13, <1>14, <1>15, <1>16, <1>17
     DEF Next, Environment, Runner, TickDeployment, Mirror

(* While an order is in the making, the state file does not show its bar   *)
(* as seen, through the saves at the end of a tick, roll-backs, crashes    *)
(* and restarts; only the last save of a shutdown may show it.             *)
THEOREM HandledWhenSaved == Spec => []SavedMeansHandled
<1> DEFINE I == TypeInv /\ MarkInv
<1>1. Init => I
  <2> SUFFICES ASSUME Init PROVE MarkInv
    BY TypeInit
  <2> QED
    BY OrdersAssumption DEF Init, MarkInv, None
<1>2. I /\ [Next]_vars => I'
  BY TypeNext, MarkNext
<1>3. I => SavedMeansHandled
  BY DEF TypeInv, LiveOrdersTypeOK, MarkInv, SavedMeansHandled
<1> QED
  BY <1>1, <1>2, <1>3, PTL DEF Spec

---------------------------------------------------------------------------
(* From here on, the emergency stop.                                       *)

(* A ticket leaves close_all's list of things to do only when its position *)
(* is closed or its close is given up.                                     *)
DeskInv ==
    /\ desk \in {"off", "list", "close", "kill", "halt"}
    /\ todo \subseteq due
    /\ due \subseteq 1..Cardinality(positions)
    /\ desk # "close" => todo = {}
    /\ desk \in {"off", "list"} => due = {}
    /\ \A p \in positions : p.ticket \in due \ todo => p.state = "closed"

(* The request this process would write for a bar.                         *)
RequestFor(d, b) == [signal |-> <<d, b>>, life |-> crashes]

(* While nothing is live, all that can still reach the broker was under    *)
(* way when the handler halted: nothing can join it.                       *)
LateInv ==
    /\ late \in [halted : BOOLEAN, known : 0..Cardinality(positions),
                 requests : SUBSET Requests]
    /\ late.halted =>
          /\ \A d \in Deps : status[d] # "live"
          /\ requests \subseteq late.requests
          /\ pc \in {"guard", "send"} => Request \in late.requests
          /\ \A d \in Rest, b \in Bars :
                snap[d] = "live" /\ b > seen[d] => RequestFor(d, b) \in late.requests
          /\ \A p \in positions : p.ticket > late.known => p.request \in late.requests

(* A dead runner has no tick to finish.                                    *)
DownInv == ~up => left = {}

StopsInv == stops \subseteq {StopDir}

StopInv == TypeInv /\ StopsInv /\ DownInv /\ TicketInv /\ DeskInv /\ LateInv

---------------------------------------------------------------------------
(* The steps of the handler, by what they leave alone.                     *)
OffOrders == TouchOnly \/ ClearStop \/ Activate \/ ListOpen \/ ListFails
             \/ (\E p \in positions : GiveUp(p)) \/ CloseAllDone \/ LeaveRunner

LEMMA EmergencySteps ==
    EmergencyNext <=> \/ RunnerStep \/ OffOrders \/ KillRunner \/ HaltLive
                      \/ \E p \in positions : CloseOk(p)
BY DEF EmergencyNext, OffOrders, CloseAll

LEMMA OffOrdersStutters == OffOrders => UNCHANGED vars
BY DEF OffOrders, TouchOnly, ClearStop, Activate, ListOpen, ListFails, GiveUp,
       CloseAllDone, LeaveRunner

(* A close by the handler is a close by hand to the runner.                *)
LEMMA CloseOkCloses == \A p \in positions : CloseOk(p) => ClosePosition(p)
BY DEF CloseOk, ClosePosition

(* Every step but the halt is a step, or a stutter, of LiveOrders; the     *)
(* halt changes statuses only.                                             *)
LEMMA OrdersTypeNext == TypeInv /\ [EmergencyNext]_stopVars => TypeInv'
<1> SUFFICES ASSUME TypeInv, [EmergencyNext]_stopVars PROVE TypeInv'
  OBVIOUS
<1>1. CASE RunnerStep \/ KillRunner
  <2>1. Next
    BY <1>1 DEF RunnerStep, KillRunner, Next, Runner
  <2> QED
    BY <2>1, TypeNext
<1>2. CASE OffOrders \/ UNCHANGED stopVars
  <2>1. UNCHANGED vars
    BY <1>2, OffOrdersStutters DEF stopVars
  <2> QED
    BY <2>1, TypeNext
<1>3. ASSUME NEW p \in positions, CloseOk(p) PROVE TypeInv'
  <2>1. Next
    BY <1>3, CloseOkCloses DEF Next, Environment
  <2> QED
    BY <2>1, TypeNext
<1>4. CASE HaltLive
  <2>1. status' \in [Deps -> Statuses]
    BY <1>4 DEF HaltLive, TypeInv, LiveOrdersTypeOK, Statuses
  <2>2. LiveOrdersTypeOK'
    BY <1>4, <2>1 DEF HaltLive, TypeInv, LiveOrdersTypeOK, process, memory,
                     thread, book
  <2>3. MirrorInv'
    BY <1>4 DEF HaltLive, TypeInv, MirrorInv, process, memory, thread, book
  <2> QED
    BY <2>2, <2>3 DEF TypeInv
<1> QED
  BY <1>1, <1>2, <1>3, <1>4, EmergencySteps

(* Tickets stay unique; there are never fewer positions than before.       *)
LEMMA TicketNext ==
    ASSUME TypeInv, TicketInv, [EmergencyNext]_stopVars
    PROVE  /\ TicketInv'
           /\ Cardinality(positions) \in Nat
           /\ Cardinality(positions') \in Nat
           /\ Cardinality(positions) <= Cardinality(positions')
<1> DEFINE Goal == /\ TicketInv'
                   /\ Cardinality(positions) \in Nat
                   /\ Cardinality(positions') \in Nat
                   /\ Cardinality(positions) <= Cardinality(positions')
<1>0. Cardinality(positions) \in Nat
  BY FS_CardinalityType DEF TypeInv, MirrorInv
<1>1. ASSUME UNCHANGED positions PROVE Goal
  BY <1>0, <1>1 DEF TicketInv
<1>2. ASSUME NEW p \in positions, NEW s, Move(p, s) PROVE Goal
  BY <1>2, ChangesOne
<1>3. CASE Next
  BY <1>3, TicketStep
<1>4. CASE RunnerStep \/ KillRunner
  BY <1>3, <1>4 DEF RunnerStep, KillRunner, Next, Runner
<1>5. CASE OffOrders \/ UNCHANGED stopVars
  BY <1>1, <1>5, OffOrdersStutters DEF stopVars, vars
<1>6. ASSUME NEW p \in positions, CloseOk(p) PROVE Goal
  BY <1>2, <1>6 DEF CloseOk
<1>7. CASE HaltLive
  BY <1>1, <1>7 DEF HaltLive
<1> QED
  BY <1>4, <1>5, <1>6, <1>7, EmergencySteps

---------------------------------------------------------------------------
(* What close_all has listed and not given up is closed, or still to be    *)
(* closed, whatever else opens and closes positions.                       *)
LEMMA DeskNext ==
    ASSUME TypeInv, TicketInv, DeskInv, [EmergencyNext]_stopVars
    PROVE  DeskInv'
<1>0. /\ Cardinality(positions) \in Nat
      /\ Cardinality(positions') \in Nat
      /\ Cardinality(positions) <= Cardinality(positions')
  BY TicketNext
<1>a. 1..Cardinality(positions) \subseteq 1..Cardinality(positions')
  BY <1>0
<1> DEFINE Settled(D) == \A p \in positions' : p.ticket \in D => p.state = "closed"
<1> USE DEF DeskInv
<1>1. ASSUME Next PROVE Settled(due \ todo)
  <2>1. ASSUME NEW r \in requests, Opens(r) PROVE Settled(due \ todo)
    <3>1. NextTicket \notin due
      BY <1>0 DEF NextTicket
    <3> QED
      BY <2>1, <3>1 DEF Opens
  <2>2. ASSUME NEW p \in positions, Changes(p) PROVE Settled(due \ todo)
    <3>1. PICK q : /\ q.ticket = p.ticket
                   /\ q.state = "closed" \/ p.state = "filled"
                   /\ positions' = (positions \ {p}) \cup {q}
      BY <2>2 DEF Changes, Move, TypeInv, LiveOrdersTypeOK, Positions
    <3>2. p.ticket \in due \ todo => p.state = "closed"
      OBVIOUS
    <3> QED
      BY <3>1, <3>2
  <2> QED
    BY <1>1, <2>1, <2>2, PositionSteps
<1>2. CASE RunnerStep
  <2>1. Next /\ UNCHANGED <<desk, todo, due>>
    BY <1>2 DEF RunnerStep
  <2> QED
    BY <1>1, <1>a, <2>1
<1>3. CASE KillRunner
  <2>1. Next /\ desk = "kill" /\ desk' = "halt" /\ UNCHANGED <<todo, due>>
    BY <1>3 DEF KillRunner, Next, Runner
  <2> QED
    BY <1>1, <1>a, <2>1
<1>4. CASE OffOrders \/ UNCHANGED stopVars
  <2>1. UNCHANGED positions
    BY <1>4, OffOrdersStutters DEF stopVars, vars
  <2>2. CASE TouchOnly \/ ClearStop \/ UNCHANGED stopVars
    BY <2>1, <2>2 DEF TouchOnly, ClearStop, stopVars, panel
  <2>3. CASE Activate
    BY <2>1, <2>3 DEF Activate
  <2>4. CASE ListOpen
    <3>1. due' \subseteq 1..Cardinality(positions)
      BY <2>4 DEF ListOpen, Listed, TicketInv
    <3> QED
      BY <2>1, <2>4, <3>1 DEF ListOpen
  <2>5. CASE ListFails \/ CloseAllDone \/ LeaveRunner
    BY <2>1, <2>5 DEF ListFails, CloseAllDone, LeaveRunner
  <2>6. ASSUME NEW p \in positions, GiveUp(p) PROVE DeskInv'
    BY <2>1, <2>6 DEF GiveUp
  <2> QED
    BY <1>4, <2>2, <2>3, <2>4, <2>5, <2>6 DEF OffOrders
<1>5. ASSUME NEW p \in positions, CloseOk(p) PROVE DeskInv'
  <2>1. PICK q : /\ q.ticket = p.ticket
                 /\ q.state = "closed"
                 /\ positions' = (positions \ {p}) \cup {q}
    BY <1>5 DEF CloseOk, Move, TypeInv, LiveOrdersTypeOK, Positions
  <2>2. Settled(due \ (todo \ {p.ticket}))
    <3>1. \A x \in positions \ {p} : x.ticket # p.ticket
      BY DEF TicketInv
    <3> QED
      BY <2>1, <3>1
  <2> QED
    BY <1>5, <1>a, <2>2 DEF CloseOk
<1>6. CASE HaltLive
  BY <1>6 DEF HaltLive
<1> QED
  BY <1>2, <1>3, <1>4, <1>5, <1>6, EmergencySteps

---------------------------------------------------------------------------
(* While no deployment is live, a step of the runner sends, and decides    *)
(* on, nothing that was not under way.                                     *)
Contained(S) ==
    /\ requests \subseteq S
    /\ pc \in {"guard", "send"} => Request \in S
    /\ \A d \in Rest, b \in Bars :
          snap[d] = "live" /\ b > seen[d] => RequestFor(d, b) \in S

LEMMA ContainedNext ==
    ASSUME TypeInv, DownInv, NEW S, Contained(S), \A d \in Deps : status[d] # "live",
           [Next]_vars
    PROVE  Contained(S)'
<1> USE DEF Contained, Job, Request, RequestFor, Rest, process
<1>0. /\ left \subseteq Deps
      /\ pc \in Mirroring => cur \in Deps /\ bar[cur] \in Bars
      /\ seen \in [Deps -> 0..MaxBars]
      /\ bar \in [Deps -> 0..MaxBars]
      /\ MaxBars \in Nat
  BY OrdersAssumption DEF TypeInv, LiveOrdersTypeOK, MirrorInv
<1>1. ASSUME NEW d \in Deps, NewBar(d) PROVE Contained(S)'
  <2>1. pc \in {"guard", "send"} => bar'[cur] = bar[cur]
    BY <1>0, <1>1 DEF NewBar, Mirroring
  <2> QED
    BY <1>1, <2>1 DEF NewBar, memory, thread
<1>2. ASSUME NEW r \in requests, Execute(r) \/ Reject(r) PROVE Contained(S)'
  BY <1>2 DEF Execute, Reject
<1>3. ASSUME NEW p \in positions, List(p) \/ ClosePosition(p) PROVE Contained(S)'
  BY <1>3 DEF List, ClosePosition, memory, thread
<1>4. ASSUME NEW r \in sent, KeyExpires(r) PROVE Contained(S)'
  BY <1>4 DEF KeyExpires, thread
<1>5. ASSUME NEW d \in Deps, NEW s \in DashStatuses, DashboardSet(d, s)
      PROVE  Contained(S)'
  BY <1>5 DEF DashboardSet, memory, thread
<1>6. CASE BeginTick
  BY <1>6 DEF BeginTick
<1>7. ASSUME NEW d \in Deps,
             \/ NoNewBar(d) \/ SizingRefused(d) \/ TickQuiet(d)
             \/ TickOpenNotMirrored(d)
      PROVE  Contained(S)'
  BY <1>0, <1>7 DEF NoNewBar, SizingRefused, TickQuiet, TickOpenNotMirrored,
                    Marked, Leave
<1>8. ASSUME NEW d \in Deps, TickOpen(d) PROVE Contained(S)'
  BY <1>0, <1>8 DEF TickOpen, Marked, Bars
<1>9. CASE GuardRefuses \/ GuardPasses \/ GuardBlind
  BY <1>9 DEF GuardRefuses, GuardPasses, GuardBlind, Leave
<1>10. CASE SendDenied \/ ReplyRejected \/ ReplyTimeout \/ Phantom
  BY <1>0, <1>10 DEF SendDenied, ReplyRejected, ReplyTimeout, Phantom,
                     Forget, Leave
<1>11. CASE Send
  BY <1>11 DEF Send
<1>12. CASE ReplyFilled \/ Verified
  BY <1>12 DEF ReplyFilled, Verified, Leave
<1>13. CASE EndTick
  BY <1>13 DEF EndTick
<1>14. CASE Crash \/ Exit
  BY <1>14 DEF Crash, Exit, ProcessEnds
<1>15. CASE Restart
  BY <1>15 DEF Restart, thread, DownInv
<1>16. CASE Shutdown \/ LastSave \/ UNCHANGED vars
  BY <1>16 DEF Shutdown, LastSave, vars, memory, thread
<1> QED
  BY <1>1, <1>2, <1>3, <1>4, <1>5, <1>6, <1>7, <1>8, <1>9, <1>10, <1>11,
     <1>12, <1>13, <1>14, <1>15, <1>16
     DEF Next, Environment, Runner, TickDeployment, Mirror

(* Only a crash takes the runner down, and the tick with it.               *)
LEMMA DownNext == DownInv /\ [EmergencyNext]_stopVars => DownInv'
<1> SUFFICES ASSUME DownInv, [EmergencyNext]_stopVars PROVE DownInv'
  OBVIOUS
<1> USE DEF DownInv, process
<1>1. CASE Next
  <2>1. CASE Environment
    BY <2>1 DEF Environment, NewBar, Execute, Reject, List, ClosePosition,
                KeyExpires, DashboardSet, memory, thread
  <2>2. CASE BeginTick \/ EndTick \/ Crash \/ Exit \/ Restart
    BY <2>2 DEF BeginTick, EndTick, Crash, Exit, ProcessEnds, Restart, thread
  <2>5. CASE Shutdown \/ LastSave
    BY <2>5 DEF Shutdown, LastSave, memory, thread
  <2>3. ASSUME NEW d \in Deps, TickDeployment(d) PROVE DownInv'
    <3>1. up /\ UNCHANGED up
      BY <2>3 DEF TickDeployment, NoNewBar, SizingRefused, TickQuiet,
                  TickOpenNotMirrored, TickOpen, Marked
    <3> QED
      BY <3>1
  <2>4. CASE Mirror
    <3>1. up /\ UNCHANGED up
      BY <2>4 DEF Mirror, GuardRefuses, GuardPasses, GuardBlind, SendDenied, Send,
                  ReplyFilled, ReplyRejected, ReplyTimeout, Verified, Phantom
    <3> QED
      BY <3>1
  <2> QED
    BY <1>1, <2>1, <2>2, <2>3, <2>4, <2>5 DEF Next, Runner
<1>2. CASE RunnerStep \/ KillRunner
  BY <1>1, <1>2 DEF RunnerStep, KillRunner, Next, Runner
<1>3. CASE OffOrders \/ UNCHANGED stopVars
  BY <1>3, OffOrdersStutters DEF stopVars, vars, memory, thread
<1>4. ASSUME NEW p \in positions, CloseOk(p) PROVE DownInv'
  BY <1>4 DEF CloseOk, memory, thread
<1>5. CASE HaltLive
  BY <1>5 DEF HaltLive, memory, thread
<1> QED
  BY <1>2, <1>3, <1>4, <1>5, EmergencySteps

(* The halt records all that is under way; afterwards nothing is added     *)
(* until something is live.                                                *)
LEMMA LateNext ==
    ASSUME TypeInv, DownInv, TicketInv, LateInv, [EmergencyNext]_stopVars
    PROVE  LateInv'
<1>0. /\ Cardinality(positions) \in Nat
      /\ Cardinality(positions') \in Nat
      /\ Cardinality(positions) <= Cardinality(positions')
      /\ TicketInv'
  BY TicketNext
<1>s. PICK S, k : S = late.requests /\ k = late.known
  OBVIOUS
<1> DEFINE NoneLive == \A d \in Deps : status[d] # "live"
           NewKnown == \A p \in positions' : p.ticket > k => p.request \in S
<1>1. late.halted =>
         /\ NoneLive
         /\ Contained(S)
         /\ \A p \in positions : p.ticket > k => p.request \in S
  BY <1>s DEF LateInv, Contained
<1>2. ASSUME NEW T \in SUBSET Requests, NEW n \in 0..Cardinality(positions'),
             late' = [halted |-> TRUE, known |-> n, requests |-> T],
             NoneLive', Contained(T)',
             \A p \in positions' : p.ticket > n => p.request \in T
      PROVE  LateInv'
  BY <1>2 DEF LateInv, Contained
<1>n. ASSUME ~late'.halted,
             late' \in [halted : BOOLEAN, known : 0..Cardinality(positions'),
                        requests : SUBSET Requests]
      PROVE  LateInv'
  BY <1>n DEF LateInv
<1>3. ASSUME UNCHANGED late, late.halted => NoneLive' /\ Contained(S)' /\ NewKnown
      PROVE  LateInv'
  <2>1. /\ late' \in [halted : BOOLEAN, known : 0..Cardinality(positions'),
                      requests : SUBSET Requests]
        /\ k \in 0..Cardinality(positions')
        /\ S \in SUBSET Requests
    BY <1>0, <1>3, <1>s DEF LateInv
  <2>2. CASE late.halted
    <3>1. late' = [halted |-> TRUE, known |-> k, requests |-> S]
      BY <1>3, <1>s, <2>2 DEF LateInv
    <3> QED
      BY <1>2, <1>3, <2>1, <2>2, <3>1
  <2>3. CASE ~late.halted
    BY <1>3, <1>n, <2>1, <2>3
  <2> QED
    BY <2>2, <2>3
<1>4. ASSUME NEW p \in positions, NEW s, Move(p, s), late.halted PROVE NewKnown
  <2>1. PICK q : /\ q.ticket = p.ticket
                 /\ q.request = p.request
                 /\ positions' = (positions \ {p}) \cup {q}
    BY <1>4 DEF Move, TypeInv, LiveOrdersTypeOK, Positions
  <2> QED
    BY <1>1, <1>4, <2>1
<1>5. ASSUME Next, late.halted PROVE Contained(S)' /\ NewKnown
  <2>1. Contained(S)'
    BY <1>1, <1>5, ContainedNext
  <2>2. ASSUME NEW r \in requests, Opens(r) PROVE NewKnown
    BY <1>1, <1>5, <2>2 DEF Opens, Contained
  <2>3. ASSUME NEW p \in positions, Changes(p) PROVE NewKnown
    BY <1>4, <1>5, <2>3 DEF Changes
  <2>4. ASSUME UNCHANGED positions PROVE NewKnown
    BY <1>1, <1>5, <2>4
  <2> QED
    BY <1>5, <2>1, <2>2, <2>3, <2>4, PositionSteps
<1>6. CASE RunnerStep
  <2>1. CASE \E d \in Deps : status'[d] = "live"
    BY <1>0, <1>6, <1>n, <2>1 DEF RunnerStep, NotHalted
  <2>2. CASE ~\E d \in Deps : status'[d] = "live"
    BY <1>3, <1>5, <1>6, <2>2 DEF RunnerStep
  <2> QED
    BY <2>1, <2>2
<1>7. CASE KillRunner
  <2>1. Next /\ UNCHANGED <<late, status>>
    BY <1>7 DEF KillRunner, Shutdown, Next, Runner
  <2> QED
    BY <1>1, <1>3, <1>5, <2>1
<1>8. CASE OffOrders \/ UNCHANGED stopVars
  <2>1. UNCHANGED <<vars, late>>
    BY <1>8, OffOrdersStutters
       DEF OffOrders, TouchOnly, ClearStop, Activate, ListOpen, ListFails,
           GiveUp, CloseAllDone, LeaveRunner, stopVars, panel
  <2>2. late.halted => NoneLive' /\ Contained(S)' /\ NewKnown
    BY <1>1, <2>1 DEF vars, process, memory, thread, Contained, Rest, Request, RequestFor, Job
  <2> QED
    BY <1>3, <2>1, <2>2
<1>9. ASSUME NEW p \in positions, CloseOk(p) PROVE LateInv'
  <2>1. /\ UNCHANGED <<late, status, requests, bar, crashes, memory>>
        /\ Move(p, "closed")
    BY <1>9 DEF CloseOk, process
  <2>2. late.halted => NoneLive' /\ Contained(S)'
    BY <1>1, <2>1 DEF memory, thread, Contained, Rest, Request, RequestFor, Job
  <2> QED
    BY <1>3, <1>4, <2>1, <2>2
<1>10. CASE HaltLive
  <2>s. PICK T : T = UnderWay
    OBVIOUS
  <2>n. PICK n : n = Cardinality(positions)
    OBVIOUS
  <2>1. /\ late' = [halted |-> TRUE, known |-> n, requests |-> T]
        /\ UNCHANGED <<positions, requests, bar, crashes, memory>>
    BY <1>10, <2>s, <2>n DEF HaltLive, process
  <2>2. T \subseteq Requests
    BY <2>s, RequestType DEF UnderWay, TypeInv, LiveOrdersTypeOK, Mirroring
  <2>3. NoneLive'
    BY <1>10 DEF HaltLive, TypeInv, LiveOrdersTypeOK
  <2>4. Contained(T)
    <3>1. \A d \in Rest, b \in Bars :
             RequestFor(d, b) \in Requests /\ RequestFor(d, b).signal = <<d, b>>
             /\ RequestFor(d, b).life = crashes
      BY DEF RequestFor, Requests, Signals, Rest, TypeInv, LiveOrdersTypeOK
    <3> QED
      BY <2>s, <3>1 DEF Contained, UnderWay
  <2>5. Contained(T)'
    BY <2>1, <2>4 DEF Contained, Rest, Request, RequestFor, Job, memory, thread
  <2>6. \A p \in positions' : ~(p.ticket > n)
    BY <1>0, <2>1, <2>n DEF TicketInv
  <2>7. n \in 0..Cardinality(positions')
    BY <1>0, <2>n
  <2> QED
    BY <1>2, <2>1, <2>2, <2>3, <2>5, <2>6, <2>7
<1> QED
  BY <1>6, <1>7, <1>8, <1>9, <1>10, EmergencySteps

---------------------------------------------------------------------------
(* The invariant holds at the start and is kept.                           *)
LEMMA StopInit == EmergencyInit => StopInv
<1> SUFFICES ASSUME EmergencyInit PROVE StopInv
  OBVIOUS
<1>1. TypeInv
  BY TypeInit DEF EmergencyInit
<1>2. Cardinality(positions) \in Nat
  BY <1>1, FS_CardinalityType DEF TypeInv, MirrorInv
<1>3. positions = {} /\ left = {}
  BY DEF EmergencyInit, Init
<1>4. StopsInv /\ DownInv /\ TicketInv /\ DeskInv
  BY <1>3 DEF EmergencyInit, StopsInv, DownInv, TicketInv, DeskInv
<1>5. LateInv
  BY <1>2 DEF EmergencyInit, NotHalted, LateInv
<1> QED
  BY <1>1, <1>4, <1>5 DEF StopInv

LEMMA StopNext == StopInv /\ [EmergencyNext]_stopVars => StopInv'
<1> SUFFICES ASSUME StopInv, [EmergencyNext]_stopVars PROVE StopInv'
  OBVIOUS
<1> USE DEF StopInv
<1>1. StopsInv'
  BY DEF StopsInv, EmergencyNext, CloseAll, RunnerStep, TouchOnly, ClearStop,
         Activate, ListOpen, ListFails, CloseOk, GiveUp, CloseAllDone,
         KillRunner, LeaveRunner, HaltLive, stopVars, panel
<1> QED
  BY <1>1, OrdersTypeNext, DownNext, TicketNext, DeskNext, LateNext

LEMMA StopInvariant == EmergencySpec => []StopInv
BY StopInit, StopNext, PTL DEF EmergencySpec

(* The operator's panel and the runner together stay well typed.           *)
THEOREM EmergencyTypeCorrect == EmergencySpec => []EmergencyTypeOK
<1>1. StopInv => EmergencyTypeOK
  BY DEF StopInv, TypeInv, StopsInv, DeskInv, LateInv, EmergencyTypeOK
<1> QED
  BY <1>1, StopInvariant, PTL

(* After an emergency stop nothing is open but positions whose own close   *)
(* failed, those close_all did not see, and, once the live deployments are *)
(* halted, what was under way at that moment.                              *)
THEOREM StopSettles == EmergencySpec => []OpenAfterStop
<1>1. StopInv => OpenAfterStop
  BY DEF StopInv, DeskInv, LateInv, OpenAfterStop, OpenPositions
<1> QED
  BY <1>1, StopInvariant, PTL

(* The panel's closes, kills and halts do not make the runner send a       *)
(* signal twice, and no doubles but of orders astray come of them: to the  *)
(* runner the panel's steps are its own, or change nothing but statuses.   *)
LEMMA BesidePanel ==
    ASSUME DoubleInv, [EmergencyNext]_stopVars
    PROVE  DoubleInv'
<1>1. CASE [Next]_vars
  BY <1>1, DoubleNext
<1>2. CASE RunnerStep \/ KillRunner
  BY <1>1, <1>2 DEF RunnerStep, KillRunner, Next, Runner
<1>3. CASE OffOrders \/ UNCHANGED stopVars
  BY <1>1, <1>3, OffOrdersStutters DEF stopVars
<1>4. ASSUME NEW p \in positions, CloseOk(p) PROVE DoubleInv'
  <2>1. Next
    BY <1>4, CloseOkCloses DEF Next, Environment
  <2> QED
    BY <1>1, <2>1
<1>5. CASE HaltLive
  <2>1. UNCHANGED <<bar, requests, positions, saved, process, memory, astray>>
    BY <1>5 DEF HaltLive
  <2>2. TypeInv'
    BY <1>5, OrdersTypeNext, EmergencySteps DEF DoubleInv
  <2>3. TicketInv' /\ Once'
    BY <2>1 DEF DoubleInv, TicketInv, Once, Remembered, Request, Job, process,
                memory, thread, book
  <2>4. UNCHANGED <<SureView, Request>>
    BY <2>1 DEF SureView, Request, Job, process, memory, thread
  <2> QED
    BY <2>2, <2>3, <2>4, SureStable DEF DoubleInv
<1> QED
  BY <1>2, <1>3, <1>4, <1>5, EmergencySteps

LEMMA BesidePanelAlways == EmergencySpec => []DoubleInv
BY DoubleInit, BesidePanel, PTL DEF EmergencySpec, EmergencyInit

(* Beside the operator's emergency handler, too, a process executes a      *)
(* signal at most once.                                                    *)
THEOREM ExecutedOnceBesidePanel == EmergencySpec => []OneOrderPerSignal
<1>1. DoubleInv => OneOrderPerSignal
  BY DEF DoubleInv, Once, OneOrderPerSignal
<1> QED
  BY <1>1, BesidePanelAlways, PTL

(* And of two positions open on a symbol one comes from an order the       *)
(* runner sent unseeing or lost sight of.                                  *)
THEOREM NeverDoubledBesidePanel == EmergencySpec => []DoublesAreAstray
<1>1. DoubleInv => DoublesAreAstray
  BY DEF DoubleInv, SureInv
<1> QED
  BY <1>1, BesidePanelAlways, PTL

(* The panel moves no mark; its kill is a shutdown.                        *)
LEMMA MarkBesidePanel ==
    ASSUME TypeInv, MarkInv, [EmergencyNext]_stopVars
    PROVE  MarkInv'
<1>1. CASE [Next]_vars
  BY <1>1, MarkNext
<1>2. CASE RunnerStep \/ KillRunner
  BY <1>1, <1>2 DEF RunnerStep, KillRunner, Next, Runner
<1>3. CASE OffOrders \/ UNCHANGED stopVars
  BY <1>1, <1>3, OffOrdersStutters DEF stopVars
<1>4. ASSUME NEW p \in positions, CloseOk(p) PROVE MarkInv'
  <2>1. Next
    BY <1>4, CloseOkCloses DEF Next, Environment
  <2> QED
    BY <1>1, <2>1
<1>5. CASE HaltLive
  <2>1. UNCHANGED <<bar, saved, seen, up, ending, cur, pc>>
    BY <1>5 DEF HaltLive, process, memory, thread
  <2> QED
    BY <2>1, MarkStable DEF MarkInv
<1> QED
  BY <1>2, <1>3, <1>4, <1>5, EmergencySteps

(* Beside the handler, too, only the last save of a shutdown, its own kill *)
(* of the runner included, shows the bar of an unfinished order as seen.   *)
THEOREM HandledWhenSavedBesidePanel == EmergencySpec => []SavedMeansHandled
<1> DEFINE I == DoubleInv /\ MarkInv
<1>1. EmergencyInit => I
  BY DoubleInit, OrdersAssumption DEF EmergencyInit, Init, MarkInv, None
<1>2. I /\ [EmergencyNext]_stopVars => I'
  <2>1. DoubleInv => TypeInv
    BY DEF DoubleInv
  <2> QED
    BY <2>1, BesidePanel, MarkBesidePanel
<1>3. I => SavedMeansHandled
  BY DEF DoubleInv, TypeInv, LiveOrdersTypeOK, MarkInv, SavedMeansHandled
<1> QED
  BY <1>1, <1>2, <1>3, PTL DEF EmergencySpec
=============================================================================
