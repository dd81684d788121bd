---------------------- MODULE CloseReconcilerProofs ----------------------
(***************************************************************************)
(* Proofs about CloseReconciler, for any set of tickets and deployments.   *)
(***************************************************************************)
EXTENDS CloseReconciler, FiniteSetTheorems, TLAPS

(* While a close is being persisted the job is a real one, and after       *)
(* Hydrate its counter holds a number.                                     *)
JobInv ==
    /\ pc \in {"hydrate", "insert"} => job \in Jobs
    /\ pc = "insert" => next[job.run] # Unknown

(* The table numbers a deployment's rows 0..n-1; the counter is unread, or *)
(* at most n, and exactly n if reads do not fail.                          *)
Counted(d, n) ==
    /\ Indices(d) = 0..(n - 1)
    /\ next[d] \in {Unknown} \cup 0..n
    /\ ~ReadFaults => next[d] \in {Unknown, n}

IndexInv == \A d \in Deps : \E n \in Nat : Counted(d, n)

TypeInv == TypeOK /\ JobInv /\ IndexInv

---------------------------------------------------------------------------
(* MAX(trade_idx) + 1 of a table numbered 0..n-1 is n.                     *)
LEMMA NextIndexValue ==
    ASSUME NEW d \in Deps, NEW n \in Nat, Indices(d) = 0..(n - 1)
    PROVE  NextIndex(d) = n
<1>1. CASE n = 0
  BY <1>1 DEF NextIndex
<1>2. CASE n # 0
  <2>1. n - 1 \in Indices(d) /\ \A i \in Indices(d) : i <= n - 1
    BY <1>2
  <2>2. ASSUME NEW m \in Indices(d), \A i \in Indices(d) : i <= m
        PROVE  m = n - 1
    <3>1. m \in Int /\ m <= n - 1
      OBVIOUS
    <3>2. n - 1 <= m
      BY <2>1, <2>2
    <3> QED
      BY <3>1, <3>2
  <2> DEFINE top == CHOOSE m \in Indices(d) : \A i \in Indices(d) : i <= m
  <2>3. top = n - 1
    BY <2>1, <2>2
  <2>4. NextIndex(d) = 1 + top
    BY <2>1, Zenon DEF NextIndex
  <2> HIDE DEF top
  <2> QED
    BY <2>3, <2>4
<1> QED
  BY <1>1, <1>2

(* A step that leaves the table and the counters alone keeps IndexInv.     *)
LEMMA IndexStable ==
    ASSUME IndexInv, UNCHANGED <<trades, next>>
    PROVE  IndexInv'
BY DEF IndexInv, Counted, Indices

(* The initial state is well typed: no rows, and the counters unread.      *)
LEMMA TypeInit == Init => TypeInv
<1> SUFFICES ASSUME Init PROVE TypeInv
  OBVIOUS
<1> USE ConstAssumption DEF Init
<1>1. TypeOK
  BY DEF TypeOK, Statuses, Parts, DealStates, NoSnap, PCs, Unknown
<1>2. JobInv
  BY DEF JobInv
<1>3. IndexInv
  <2>1. \A d \in Deps : Counted(d, 0)
    BY DEF Counted, Indices, Unknown
  <2> QED
    BY <2>1 DEF IndexInv
<1> QED
  BY <1>1, <1>2, <1>3 DEF TypeInv

(* Every step keeps every variable's type.                                 *)
LEMMA TypeStep ==
    ASSUME TypeOK, JobInv, \A d \in Deps : NextIndex(d) \in Nat, [Next]_vars
    PROVE  TypeOK' /\ JobInv'
<1> USE ConstAssumption
<1>1. ASSUME NEW t \in Tickets, BrokerPartial(t) PROVE TypeOK' /\ JobInv'
  <2>1. TypeOK'
    BY <1>1 DEF TypeOK, BrokerPartial, disk, memory, DealStates, Parts
  <2>2. JobInv'
    BY <1>1 DEF JobInv, BrokerPartial, memory
  <2> QED
    BY <2>1, <2>2
<1>2. ASSUME NEW t \in Tickets, BrokerClose(t) PROVE TypeOK' /\ JobInv'
  <2>1. TypeOK'
    BY <1>2 DEF TypeOK, BrokerClose, disk, memory, DealStates, Parts
  <2>2. JobInv'
    BY <1>2 DEF JobInv, BrokerClose, memory
  <2> QED
    BY <2>1, <2>2
<1>3. ASSUME NEW t \in Tickets, NEW p \in Parts, DealShows(t, p) PROVE TypeOK' /\ JobInv'
  <2>1. TypeOK'
    BY <1>3 DEF TypeOK, DealShows, disk, memory, DealStates
  <2>2. JobInv'
    BY <1>3 DEF JobInv, DealShows, memory
  <2> QED
    BY <2>1, <2>2
<1>4. ASSUME NEW t \in Tickets, NEW p \in Parts, DealAges(t, p) PROVE TypeOK' /\ JobInv'
  <2>1. TypeOK'
    BY <1>4 DEF TypeOK, DealAges, disk, memory, DealStates
  <2>2. JobInv'
    BY <1>4 DEF JobInv, DealAges, memory
  <2> QED
    BY <2>1, <2>2
<1>5. ASSUME NEW d \in Deps, NEW s \in DashStatuses, DashboardSet(d, s) PROVE TypeOK' /\ JobInv'
  <2>1. TypeOK'
    BY <1>5 DEF TypeOK, DashboardSet, broker, disk, memory
  <2>2. JobInv'
    BY <1>5 DEF JobInv, DashboardSet, memory
  <2> QED
    BY <2>1, <2>2
<1>6. ASSUME BeginTick PROVE TypeOK' /\ JobInv'
  <2>1. TypeOK'
    BY <1>6 DEF TypeOK, BeginTick, broker, disk, memory, PCs
  <2>2. JobInv'
    BY <1>6 DEF JobInv, BeginTick, memory
  <2> QED
    BY <2>1, <2>2
<1>7. ASSUME HaltTick PROVE TypeOK' /\ JobInv'
  <2>1. TypeOK'
    BY <1>7 DEF TypeOK, HaltTick, broker, disk, memory, Statuses
  <2>2. JobInv'
    BY <1>7 DEF JobInv, HaltTick, memory
  <2> QED
    BY <2>1, <2>2
<1>8. ASSUME ReadPositions PROVE TypeOK' /\ JobInv'
  <2>1. TypeOK'
    BY <1>8 DEF TypeOK, ReadPositions, broker, disk, memory, PCs
  <2>2. JobInv'
    BY <1>8 DEF JobInv, ReadPositions, memory
  <2> QED
    BY <2>1, <2>2
<1>9. ASSUME ReadPositionsFails PROVE TypeOK' /\ JobInv'
  <2>1. TypeOK'
    BY <1>9 DEF TypeOK, ReadPositionsFails, broker, disk, memory, PCs
  <2>2. JobInv'
    BY <1>9 DEF JobInv, ReadPositionsFails, memory
  <2> QED
    BY <2>1, <2>2
<1>10. ASSUME FetchHistory PROVE TypeOK' /\ JobInv'
  <2>1. TypeOK'
    BY <1>10 DEF TypeOK, FetchHistory, broker, disk, memory, PCs, ShownDeals
  <2>2. JobInv'
    BY <1>10 DEF JobInv, FetchHistory, memory
  <2> QED
    BY <2>1, <2>2
<1>11. ASSUME FetchHistoryFails PROVE TypeOK' /\ JobInv'
  <2>1. TypeOK'
    BY <1>11 DEF TypeOK, FetchHistoryFails, broker, disk, memory, PCs
  <2>2. JobInv'
    BY <1>11 DEF JobInv, FetchHistoryFails, memory
  <2> QED
    BY <2>1, <2>2
<1>12. ASSUME NEW t \in Tickets, SkipPersisted(t) PROVE TypeOK' /\ JobInv'
  <2>1. TypeOK'
    BY <1>12 DEF TypeOK, SkipPersisted, broker, disk, memory
  <2>2. JobInv'
    BY <1>12 DEF JobInv, SkipPersisted, memory
  <2> QED
    BY <2>1, <2>2
<1>13. ASSUME NEW t \in Tickets, Unmatched(t) PROVE TypeOK' /\ JobInv'
  <2>1. TypeOK'
    BY <1>13 DEF TypeOK, Unmatched, broker, disk, memory
  <2>2. JobInv'
    BY <1>13 DEF JobInv, Unmatched, memory
  <2> QED
    BY <2>1, <2>2
<1>14. ASSUME NEW t \in Tickets, BeginPersist(t) PROVE TypeOK' /\ JobInv'
  <2>1. job' \in Jobs
    <3>1. snap[Owner[t]] \in Statuses \cup {Removed}
      BY DEF TypeOK
    <3>2. RowMode(Owner[t]) \in Statuses
      BY <3>1 DEF RowMode, Statuses
    <3> QED
      BY <1>14, <3>2 DEF BeginPersist, Jobs, CloseDeal, Parts
  <2>2. TypeOK'
    BY <1>14, <2>1 DEF TypeOK, BeginPersist, broker, disk, PCs
  <2>3. JobInv'
    BY <1>14, <2>1 DEF JobInv, BeginPersist
  <2> QED
    BY <2>2, <2>3
<1>15. ASSUME Hydrate PROVE TypeOK' /\ JobInv'
  <2>1. job \in Jobs /\ job.run \in Deps
    BY <1>15 DEF Hydrate, JobInv, Jobs
  <2>2. PICK i \in HydratedIndex(job.run) : next' = [next EXCEPT ![job.run] = i]
    BY <1>15 DEF Hydrate
  <2>3. i \in Nat
    BY <2>1, <2>2 DEF HydratedIndex, TypeOK
  <2>4. TypeOK'
    BY <1>15, <2>1, <2>2, <2>3 DEF TypeOK, Hydrate, broker, disk, PCs
  <2>5. JobInv'
    BY <1>15, <2>1, <2>2, <2>3 DEF JobInv, Hydrate, TypeOK, Unknown
  <2> QED
    BY <2>4, <2>5
<1>16. ASSUME Insert PROVE TypeOK' /\ JobInv'
  <2>1. job \in Jobs /\ job.run \in Deps /\ next[job.run] \in Nat
    BY <1>16 DEF Insert, JobInv, Jobs, TypeOK
  <2>2. NewRow \in Rows
    <3>1. job.ticket \in Tickets \cup {0}
      BY <2>1 DEF Jobs
    <3>2. Tickets \cup {0} \subseteq Nat
      BY ConstAssumption
    <3>3. job.mode \in Active /\ job.deal \in Parts \cup {"none"}
      BY <1>16, <2>1 DEF Insert, Insertable, Jobs
    <3> QED
      BY <2>1, <3>1, <3>2, <3>3 DEF NewRow, Rows
  <2>3. TypeOK'
    <3>1. trades' \subseteq Rows
      BY <1>16, <2>2 DEF Insert, TypeOK
    <3>2. next' \in [Deps -> Nat \cup {Unknown}]
      BY <1>16, <2>1 DEF Insert, TypeOK
    <3>3. settled' \subseteq Tickets /\ dirty' \in BOOLEAN /\ todo' \subseteq Tickets
      BY <1>16, <2>1 DEF Insert, TypeOK, Jobs
    <3>4. pc' \in PCs /\ job' = NoJob
      BY <1>16 DEF Insert, AfterPersist, PCs
    <3> QED
      BY <1>16, <3>1, <3>2, <3>3, <3>4 DEF TypeOK, Insert, broker
  <2>4. JobInv'
    BY <1>16 DEF JobInv, Insert, AfterPersist
  <2> QED
    BY <2>3, <2>4
<1>17. ASSUME InsertFails PROVE TypeOK' /\ JobInv'
  <2>1. TypeOK'
    BY <1>17 DEF TypeOK, InsertFails, broker, disk, PCs, AfterPersist
  <2>2. JobInv'
    BY <1>17 DEF JobInv, InsertFails, AfterPersist
  <2> QED
    BY <2>1, <2>2
<1>18. ASSUME ReconcileDone PROVE TypeOK' /\ JobInv'
  <2>1. TypeOK'
    BY <1>18 DEF TypeOK, ReconcileDone, broker, disk, PCs
  <2>2. JobInv'
    BY <1>18 DEF JobInv, ReconcileDone
  <2> QED
    BY <2>1, <2>2
<1>19. ASSUME Settle PROVE TypeOK' /\ JobInv'
  <2>1. TypeOK'
    BY <1>19 DEF TypeOK, Settle, broker, PCs
  <2>2. JobInv'
    BY <1>19 DEF JobInv, Settle
  <2> QED
    BY <2>1, <2>2
<1>20. ASSUME NEW d \in Deps, ShadowClose(d) PROVE TypeOK' /\ JobInv'
  <2>1. job' \in Jobs
    BY <1>20 DEF ShadowClose, Jobs, Active, Statuses
  <2>2. TypeOK'
    BY <1>20, <2>1 DEF TypeOK, ShadowClose, broker, disk, PCs
  <2>3. JobInv'
    BY <1>20, <2>1 DEF JobInv, ShadowClose
  <2> QED
    BY <2>2, <2>3
<1>21. ASSUME EndTick PROVE TypeOK' /\ JobInv'
  <2>1. TypeOK'
    BY <1>21 DEF TypeOK, EndTick, broker, NoSnap, Statuses, PCs
  <2>2. JobInv'
    BY <1>21 DEF JobInv, EndTick
  <2> QED
    BY <2>1, <2>2
<1>22. ASSUME Crash \/ Stop PROVE TypeOK' /\ JobInv'
  <2>1. TypeOK'
    BY <1>22 DEF TypeOK,
              ProcessEnds, Crash, Stop, broker, disk, NoSnap, Statuses, PCs
  <2>2. JobInv'
    BY <1>22 DEF JobInv, ProcessEnds, Crash, Stop
  <2> QED
    BY <2>1, <2>2
<1>23. ASSUME Restart PROVE TypeOK' /\ JobInv'
  <2>1. TypeOK'
    BY <1>23 DEF TypeOK, Restart, broker, disk
  <2>2. JobInv'
    BY <1>23 DEF JobInv, Restart
  <2> QED
    BY <2>1, <2>2
<1>24. CASE UNCHANGED vars
  <2>1. TypeOK'
    BY <1>24 DEF TypeOK, vars, broker, disk, memory
  <2>2. JobInv'
    BY <1>24 DEF JobInv, vars, memory
  <2> QED
    BY <2>1, <2>2
<1> QED
  BY <1>1, <1>2, <1>3, <1>4, <1>5, <1>6, <1>7, <1>8, <1>9, <1>10, <1>11, <1>12, <1>13, <1>14, <1>15, <1>16, <1>17, <1>18, <1>19, <1>20, <1>21, <1>22, <1>23, <1>24 DEF Next, Environment, Runner

(* And the numbering and the counters right: the steps that write a row or *)
(* move a counter are Hydrate, Insert and the ends of the process.         *)
LEMMA IndexNext ==
    ASSUME TypeOK, JobInv, IndexInv, [Next]_vars
    PROVE  IndexInv'
<1>1. ASSUME Hydrate PROVE IndexInv'
  <2>1. job \in Jobs /\ job.run \in Deps
    BY <1>1 DEF Hydrate, JobInv, Jobs
  <2>2. PICK i \in HydratedIndex(job.run) : next' = [next EXCEPT ![job.run] = i]
    BY <1>1 DEF Hydrate
  <2>3. PICK n \in Nat : Counted(job.run, n)
    BY <2>1 DEF IndexInv
  <2>4. NextIndex(job.run) = n
    BY <2>1, <2>3, NextIndexValue DEF Counted
  <2>5. i \in 0..n /\ (~ReadFaults => i = n)
    BY <2>1, <2>2, <2>3, <2>4 DEF HydratedIndex, Counted, TypeOK
  <2>6. Counted(job.run, n)'
    BY <1>1, <2>1, <2>2, <2>3, <2>5 DEF Hydrate, disk, Counted, Indices, TypeOK
  <2>7. ASSUME NEW d \in Deps, d # job.run PROVE \E k \in Nat : Counted(d, k)'
    BY <1>1, <2>2, <2>7 DEF Hydrate, disk, IndexInv, Counted, Indices, TypeOK
  <2>8. job' = job
    BY <1>1 DEF Hydrate
  <2> QED
    BY <2>6, <2>7, <2>8 DEF IndexInv
<1>2. ASSUME Insert PROVE IndexInv'
  <2>1. job \in Jobs /\ job.run \in Deps /\ next[job.run] \in Nat
    BY <1>2 DEF Insert, JobInv, Jobs, TypeOK
  <2>2. PICK n \in Nat : Counted(job.run, n)
    BY <2>1 DEF IndexInv
  <2>3. next[job.run] = n
    BY <1>2, <2>1, <2>2 DEF Insert, Insertable, Counted, Unknown
  <2>4. \A d \in Deps :
            Indices(d)' = IF d = job.run THEN Indices(d) \cup {n} ELSE Indices(d)
    <3>1. NewRow.run = job.run /\ NewRow.idx = n
      BY <2>3 DEF NewRow
    <3>2. trades' = trades \cup {NewRow}
      BY <1>2 DEF Insert
    <3>3. ASSUME NEW d \in Deps, d # job.run PROVE Indices(d)' = Indices(d)
      BY <3>1, <3>2, <3>3 DEF Indices
    <3>4. ASSUME NEW d \in Deps, d = job.run
          PROVE  Indices(d)' = Indices(d) \cup {n}
      BY <3>1, <3>2, <3>4 DEF Indices
    <3> QED
      BY <3>3, <3>4
  <2>5. next' = [next EXCEPT ![job.run] = n + 1]
    BY <1>2, <2>1, <2>3 DEF Insert
  <2>6. IndexInv'
    <3>1. ASSUME NEW d \in Deps, d = job.run PROVE Counted(d, n + 1)'
      <4>1. Indices(d)' = (0..(n - 1)) \cup {n}
        BY <2>2, <2>4, <3>1 DEF Counted
      <4>2. (0..(n - 1)) \cup {n} = 0..((n + 1) - 1)
        OBVIOUS
      <4>3. next'[d] = n + 1
        BY <2>5, <3>1 DEF TypeOK
      <4> QED
        BY <4>1, <4>2, <4>3 DEF Counted
    <3>2. ASSUME NEW d \in Deps, d # job.run PROVE \E k \in Nat : Counted(d, k)'
      <4>1. Indices(d)' = Indices(d) /\ next'[d] = next[d]
        BY <2>4, <2>5, <3>2 DEF TypeOK
      <4> QED
        BY <4>1 DEF IndexInv, Counted
    <3>3. ASSUME NEW d \in Deps PROVE \E k \in Nat : Counted(d, k)'
      BY <3>1, <3>2
    <3> QED
      BY <3>3 DEF IndexInv
  <2> QED
    BY <2>6
<1>3. ASSUME Crash \/ Stop PROVE IndexInv'
  BY <1>3 DEF IndexInv, Counted, Indices, ProcessEnds, Crash, Stop, disk
<1>4. ASSUME Environment \/ UNCHANGED vars PROVE UNCHANGED <<trades, next>>
  BY <1>4 DEF Environment, BrokerPartial, BrokerClose, DealShows, DealAges,
              DashboardSet, disk, memory, vars
<1>5. ASSUME Runner, ~Hydrate, ~Insert, ~Crash, ~Stop PROVE UNCHANGED <<trades, next>>
  BY <1>5 DEF Runner, BeginTick, HaltTick, ReadPositions, ReadPositionsFails,
              FetchHistory, FetchHistoryFails, SkipPersisted, Unmatched,
              BeginPersist, InsertFails, ReconcileDone, Settle, ShadowClose,
              EndTick, Restart, disk, memory
<1> QED
  BY <1>1, <1>2, <1>3, <1>4, <1>5, IndexStable DEF Next

(* Together: every step keeps the types and the numbering.                 *)
LEMMA TypeNext == TypeInv /\ [Next]_vars => TypeInv'
<1> SUFFICES ASSUME TypeInv, [Next]_vars PROVE TypeInv'
  OBVIOUS
<1>1. \A d \in Deps : NextIndex(d) \in Nat
  BY NextIndexValue DEF TypeInv, IndexInv, Counted
<1> QED
  BY <1>1, TypeStep, IndexNext DEF TypeInv

(* Every variable keeps its type, and with it the numbering of the rows    *)
(* and the counters that continue it.                                      *)
THEOREM TypeInvariant == Spec => []TypeInv
<1> QED
  BY TypeInit, TypeNext, PTL DEF Spec

(* The type invariant that TLC checks on small instances.                  *)
THEOREM TypeCorrect == Spec => []TypeOK
<1>1. TypeInv => TypeOK
  BY DEF TypeInv
<1> QED
  BY <1>1, TypeInvariant, PTL

(* The numbers of a deployment's rows have no gaps.                        *)
THEOREM NumberingDense == Spec => []DenseIndices
<1>1. TypeInv => DenseIndices
  BY DEF TypeInv, IndexInv, Counted, DenseIndices
<1> QED
  BY <1>1, TypeInvariant, PTL

(* Unless reads of the table fail, an INSERT never meets a taken number.   *)
THEOREM NumberingFresh == ~ReadFaults => (Spec => []FreshIndex)
<1> SUFFICES ASSUME ~ReadFaults PROVE Spec => []FreshIndex
  OBVIOUS
<1>1. TypeInv => FreshIndex
  <2> SUFFICES ASSUME TypeInv, pc = "insert"
               PROVE  next[job.run] \notin Indices(job.run)
    BY DEF FreshIndex
  <2>1. job.run \in Deps /\ next[job.run] # Unknown
    BY DEF TypeInv, JobInv, Jobs
  <2>2. PICK n \in Nat : Counted(job.run, n)
    BY <2>1 DEF TypeInv, IndexInv
  <2> QED
    BY <2>1, <2>2 DEF Counted
<1> QED
  BY <1>1, TypeInvariant, PTL

---------------------------------------------------------------------------
(* No ticket is forgotten: what is being settled, or has left the map, in  *)
(* memory or on disk, has its key in the table already.                    *)
ForgetInv ==
    /\ \A t \in settled : KeyStored(t)
    /\ \A t \in Tracked : t \notin saved \/ (up /\ t \notin tracked) => KeyStored(t)

(* The table only grows.                                                   *)
LEMMA JournalGrows ==
    ASSUME Next PROVE trades \subseteq trades'
<1>1. ASSUME Environment PROVE trades' = trades
  BY <1>1 DEF Environment, BrokerPartial, BrokerClose, DealShows, DealAges,
              DashboardSet, disk
<1>2. ASSUME Runner PROVE trades \subseteq trades'
  BY <1>2 DEF Runner, BeginTick, HaltTick, ReadPositions, ReadPositionsFails,
              FetchHistory, FetchHistoryFails, SkipPersisted, Unmatched,
              BeginPersist, Hydrate, Insert, InsertFails, ReconcileDone,
              Settle, ShadowClose, EndTick,
              ProcessEnds, Crash, Stop, Restart, disk
<1> QED
  BY <1>1, <1>2 DEF Next

(* A row's key names the ticket it is about.                               *)
KeysHonest == \A r \in trades : r.key = r.ticket

(* The only step that writes a row gives it its own ticket as key.         *)
LEMMA KeysStep == KeysHonest /\ [Next]_vars => KeysHonest'
<1> SUFFICES ASSUME KeysHonest, [Next]_vars PROVE KeysHonest'
  OBVIOUS
<1>1. ASSUME Insert PROVE KeysHonest'
  BY <1>1 DEF Insert, KeysHonest, NewRow
<1>2. ASSUME [Next]_vars, ~Insert PROVE trades' = trades
  <2>1. ASSUME Environment PROVE trades' = trades
    BY <2>1 DEF Environment, BrokerPartial, BrokerClose, DealShows, DealAges,
                DashboardSet, disk
  <2>2. ASSUME Runner PROVE trades' = trades
    BY <1>2, <2>2 DEF Runner, BeginTick, HaltTick, ReadPositions,
                ReadPositionsFails, FetchHistory, FetchHistoryFails,
                SkipPersisted, Unmatched, BeginPersist, Hydrate, InsertFails,
                ReconcileDone, Settle, ShadowClose, EndTick,
                ProcessEnds, Crash, Stop, Restart,
                disk
  <2> QED
    BY <1>2, <2>1, <2>2 DEF Next, vars, disk
<1> QED
  BY <1>1, <1>2 DEF KeysHonest

(* No step drops a ticket from the map, in memory or on disk, unless its   *)
(* close is in the table: settled tickets are journalled ones.             *)
LEMMA ForgetNext ==
    ASSUME TypeOK, ForgetInv, [Next]_vars
    PROVE  ForgetInv'
<1>1. trades \subseteq trades'
  BY JournalGrows DEF vars, disk
<1>2. ASSUME NEW t, KeyStored(t) PROVE KeyStored(t)'
  BY <1>1, <1>2 DEF KeyStored
<1>3. ASSUME UNCHANGED <<saved, up, tracked, settled>> PROVE ForgetInv'
  BY <1>2, <1>3 DEF ForgetInv
<1>4. ASSUME NEW t \in Tickets, SkipPersisted(t) PROVE ForgetInv'
  <2>1. KeyStored(t) /\ settled' = settled \cup {t}
    BY <1>4 DEF SkipPersisted
  <2>2. UNCHANGED <<saved, up, tracked>>
    BY <1>4 DEF SkipPersisted, disk
  <2> QED
    BY <1>2, <2>1, <2>2 DEF ForgetInv
<1>5. ASSUME Insert PROVE ForgetInv'
  <2>1. NewRow \in trades' /\ NewRow.key = job.ticket
    BY <1>5 DEF Insert, NewRow
  <2>2. settled' \subseteq settled \cup {job.ticket}
    BY <1>5 DEF Insert
  <2>3. UNCHANGED <<saved, up, tracked>>
    BY <1>5 DEF Insert
  <2> QED
    BY <1>2, <2>1, <2>2, <2>3 DEF ForgetInv, KeyStored
<1>6. ASSUME Settle PROVE ForgetInv'
  BY <1>2, <1>6 DEF Settle, ForgetInv
<1>7. ASSUME EndTick PROVE ForgetInv'
  BY <1>2, <1>7 DEF EndTick, ForgetInv
<1>8. ASSUME Crash \/ Stop PROVE ForgetInv'
  BY <1>2, <1>8 DEF ProcessEnds, Crash, Stop, ForgetInv, disk
<1>9. ASSUME Restart PROVE ForgetInv'
  BY <1>2, <1>9 DEF Restart, ForgetInv, disk
<1>10. ASSUME Environment PROVE UNCHANGED <<saved, up, tracked, settled>>
  BY <1>10 DEF Environment, BrokerPartial, BrokerClose, DealShows, DealAges,
               DashboardSet, disk, memory
<1>11. ASSUME BeginTick \/ HaltTick \/ ReadPositions \/ ReadPositionsFails
              \/ FetchHistory \/ FetchHistoryFails
              \/ (\E t \in Tickets : Unmatched(t) \/ BeginPersist(t))
              \/ Hydrate \/ InsertFails \/ ReconcileDone
              \/ \E d \in Deps : ShadowClose(d)
       PROVE  UNCHANGED <<saved, up, tracked, settled>>
  BY <1>11 DEF BeginTick, HaltTick, ReadPositions, ReadPositionsFails,
               FetchHistory, FetchHistoryFails, Unmatched, BeginPersist,
               Hydrate, InsertFails, ReconcileDone, ShadowClose, disk, memory
<1>12. ASSUME UNCHANGED vars PROVE UNCHANGED <<saved, up, tracked, settled>>
  BY <1>12 DEF vars, disk, memory
<1> QED
  BY <1>3, <1>4, <1>5, <1>6, <1>7, <1>8, <1>9, <1>10, <1>11, <1>12
     DEF Next, Runner

(* A ticket leaves the map only when its close is in the table, whatever   *)
(* reads, writes and crashes fail.                                         *)
THEOREM NeverForgets == Spec => []NothingForgotten
<1>1. Init => KeysHonest /\ ForgetInv
  BY DEF Init, KeysHonest, ForgetInv
<1>2. TypeInv /\ ForgetInv /\ [Next]_vars => ForgetInv'
  BY ForgetNext DEF TypeInv
<1>3. KeysHonest /\ ForgetInv => NothingForgotten
  BY DEF KeysHonest, ForgetInv, NothingForgotten, KeyStored, Journalled
<1> QED
  BY <1>1, <1>2, <1>3, TypeInvariant, KeysStep, PTL DEF Spec

---------------------------------------------------------------------------
(* One row per close.  The close being persisted has no row: the key was   *)
(* looked up after the last INSERT, and only this thread inserts.          *)
Persisting == pc \in {"hydrate", "insert"} /\ job.ticket # 0

OnceInv ==
    /\ NoDoubleJournal
    /\ Persisting => ~Journalled(job.ticket)

(* With reads that answer truthfully, the check that precedes an INSERT    *)
(* still holds when the INSERT happens: nobody else writes the table.      *)
LEMMA OnceNext ==
    ASSUME ~ReadFaults, KeysHonest, OnceInv, [Next]_vars
    PROVE  OnceInv'
<1>1. ASSUME trades' = trades, pc' \notin {"hydrate", "insert"} PROVE OnceInv'
  BY <1>1 DEF OnceInv, NoDoubleJournal, Persisting
<1>2. ASSUME UNCHANGED <<trades, pc, job>> PROVE OnceInv'
  BY <1>2 DEF OnceInv, NoDoubleJournal, Persisting, Journalled
<1>3. ASSUME NEW t \in Tickets, BeginPersist(t) PROVE OnceInv'
  <2>1. ~Journalled(t)
    BY <1>3 DEF BeginPersist, SeenUnstored, KeyStored, Journalled, KeysHonest
  <2>2. trades' = trades /\ job'.ticket = t
    BY <1>3 DEF BeginPersist, disk
  <2> QED
    BY <2>1, <2>2 DEF OnceInv, NoDoubleJournal, Persisting, Journalled
<1>4. ASSUME Hydrate PROVE OnceInv'
  <2>1. trades' = trades /\ job' = job /\ pc = "hydrate"
    BY <1>4 DEF Hydrate, disk
  <2> QED
    BY <2>1 DEF OnceInv, NoDoubleJournal, Persisting, Journalled
<1>5. ASSUME Insert PROVE OnceInv'
  <2>1. /\ trades' = trades \cup {NewRow}
        /\ NewRow.ticket = job.ticket
        /\ pc = "insert" /\ pc' \notin {"hydrate", "insert"}
    BY <1>5 DEF Insert, NewRow, AfterPersist
  <2>2. job.ticket # 0 => \A r \in trades : r.ticket # job.ticket
    BY <2>1 DEF OnceInv, Persisting, Journalled
  <2>3. NoDoubleJournal'
    BY <2>1, <2>2 DEF OnceInv, NoDoubleJournal
  <2> QED
    BY <2>1, <2>3 DEF OnceInv, Persisting
<1>6. ASSUME NEW d \in Deps, ShadowClose(d) PROVE OnceInv'
  <2>1. trades' = trades /\ job'.ticket = 0
    BY <1>6 DEF ShadowClose, disk
  <2> QED
    BY <2>1 DEF OnceInv, NoDoubleJournal, Persisting
<1>7. ASSUME Environment \/ HaltTick PROVE OnceInv'
  <2>1. UNCHANGED <<trades, pc, job>>
    BY <1>7 DEF Environment, BrokerPartial, BrokerClose, DealShows, DealAges,
                DashboardSet, HaltTick, disk, memory
  <2> QED
    BY <1>2, <2>1
<1>8. ASSUME BeginTick \/ ReadPositions \/ ReadPositionsFails \/ FetchHistory
             \/ FetchHistoryFails \/ (\E t \in Tickets : SkipPersisted(t) \/ Unmatched(t))
             \/ InsertFails \/ ReconcileDone \/ Settle \/ EndTick \/ Crash \/ Stop
      PROVE  OnceInv'
  <2>1. trades' = trades /\ pc' \notin {"hydrate", "insert"}
    BY <1>8 DEF BeginTick, ReadPositions, ReadPositionsFails, FetchHistory,
                FetchHistoryFails, SkipPersisted, Unmatched, InsertFails,
                AfterPersist, ReconcileDone, Settle, EndTick,
                ProcessEnds, Crash, Stop, disk
  <2> QED
    BY <1>1, <2>1
<1>9. ASSUME Restart \/ UNCHANGED vars PROVE OnceInv'
  <2>1. UNCHANGED <<trades, pc, job>>
    BY <1>9 DEF Restart, vars, disk, memory
  <2> QED
    BY <1>2, <2>1
<1> QED
  BY <1>3, <1>4, <1>5, <1>6, <1>7, <1>8, <1>9 DEF Next, Runner

(* Unless reads of the table fail, a broker close is journalled once.      *)
THEOREM JournalledOnce == ~ReadFaults => (Spec => []NoDoubleJournal)
<1> SUFFICES ASSUME ~ReadFaults PROVE Spec => []NoDoubleJournal
  OBVIOUS
<1>1. Init => KeysHonest /\ OnceInv
  BY DEF Init, KeysHonest, OnceInv, NoDoubleJournal, Persisting
<1>2. TypeInv /\ KeysHonest /\ OnceInv /\ [Next]_vars => OnceInv'
  BY OnceNext
<1>3. OnceInv => NoDoubleJournal
  BY DEF OnceInv
<1> QED
  BY <1>1, <1>2, <1>3, TypeInvariant, KeysStep, PTL DEF Spec

---------------------------------------------------------------------------
(* Only what the broker's history has told is journalled: deals that are    *)
(* booked stay booked, so a row, the deals fetched and the close being      *)
(* persisted tell of closes that happened.                                  *)
Booked(t, p) == t \in Tickets /\ p \in Parts /\ deal[t][p] # "none"

DealtInv ==
    /\ \A r \in trades : r.ticket # 0 => Booked(r.ticket, r.deal)
    /\ \A t \in Tickets : deal[t]["final"] # "none" => position[t] = "closed"
    /\ \A t \in Tickets, p \in Parts : <<t, p>> \in fetched => Booked(t, p)
    /\ Persisting => Booked(job.ticket, job.deal)

(* No step takes a deal back.                                              *)
LEMMA BookedStays ==
    ASSUME TypeOK, [Next]_vars, NEW t, NEW p, Booked(t, p)
    PROVE  Booked(t, p)'
<1> USE DEF TypeOK, Parts, Booked
<1>1. ASSUME NEW u \in Tickets, BrokerPartial(u) PROVE Booked(t, p)'
  BY <1>1 DEF BrokerPartial
<1>2. ASSUME NEW u \in Tickets, BrokerClose(u) PROVE Booked(t, p)'
  BY <1>2 DEF BrokerClose
<1>3. ASSUME NEW u \in Tickets, NEW q \in Parts, DealShows(u, q) \/ DealAges(u, q)
      PROVE  Booked(t, p)'
  BY <1>3 DEF DealShows, DealAges
<1>4. ASSUME Runner \/ UNCHANGED vars
             \/ \E d \in Deps, s \in DashStatuses : DashboardSet(d, s)
      PROVE  deal' = deal
  BY <1>4 DEF Runner, BeginTick, HaltTick, ReadPositions, ReadPositionsFails,
              FetchHistory, FetchHistoryFails, SkipPersisted, Unmatched,
              BeginPersist, Hydrate, Insert, InsertFails, ReconcileDone,
              Settle, ShadowClose, EndTick,
              ProcessEnds, Crash, Stop, Restart, DashboardSet,
              vars, broker
<1> QED
  BY <1>1, <1>2, <1>3, <1>4 DEF Next, Environment

(* The broker books the last deal of a position when it closes it, and     *)
(* never opens it again.                                                   *)
LEMMA FinalStays ==
    ASSUME TypeOK, DealtInv, [Next]_vars, NEW t \in Tickets,
           deal'[t]["final"] # "none"
    PROVE  position'[t] = "closed"
<1> USE DEF TypeOK, Parts, DealtInv
<1>1. ASSUME NEW u \in Tickets, BrokerPartial(u) PROVE position'[t] = "closed"
  BY <1>1 DEF BrokerPartial
<1>2. ASSUME NEW u \in Tickets, BrokerClose(u) PROVE position'[t] = "closed"
  BY <1>2 DEF BrokerClose
<1>3. ASSUME NEW u \in Tickets, NEW q \in Parts, DealShows(u, q) \/ DealAges(u, q)
      PROVE  position'[t] = "closed"
  BY <1>3 DEF DealShows, DealAges
<1>4. ASSUME Runner \/ UNCHANGED vars
             \/ \E d \in Deps, s \in DashStatuses : DashboardSet(d, s)
      PROVE  UNCHANGED <<position, deal>>
  BY <1>4 DEF Runner, BeginTick, HaltTick, ReadPositions, ReadPositionsFails,
              FetchHistory, FetchHistoryFails, SkipPersisted, Unmatched,
              BeginPersist, Hydrate, Insert, InsertFails, ReconcileDone,
              Settle, ShadowClose, EndTick,
              ProcessEnds, Crash, Stop, Restart, DashboardSet,
              vars, broker
<1> QED
  BY <1>1, <1>2, <1>3, <1>4 DEF Next, Environment

(* What the runner read of the history stays true until it inserts.        *)
LEMMA DealtNext ==
    ASSUME TypeOK, JobInv, DealtInv, [Next]_vars
    PROVE  DealtInv'
<1> DEFINE Fetched == \A t \in Tickets, p \in Parts : <<t, p>> \in fetched => Booked(t, p)
           Rest == /\ \A r \in trades : r.ticket # 0 => Booked(r.ticket, r.deal)
                   /\ Fetched
                   /\ Persisting => Booked(job.ticket, job.deal)
<1>0. Rest
  BY DEF DealtInv
<1>1. ASSUME UNCHANGED <<trades, fetched, pc, job>> PROVE Rest'
  BY <1>0, <1>1, BookedStays DEF Persisting
<1>2. ASSUME trades' = trades, fetched' \subseteq fetched,
             pc' \notin {"hydrate", "insert"}
      PROVE  Rest'
  BY <1>0, <1>2, BookedStays DEF Persisting
<1>3. ASSUME FetchHistory PROVE Rest'
  <2>1. fetched' = ShownDeals /\ trades' = trades /\ pc' = "check"
    BY <1>3 DEF FetchHistory, disk
  <2>2. \A t \in Tickets, p \in Parts : <<t, p>> \in ShownDeals => Booked(t, p)
    BY DEF ShownDeals, Booked
  <2>3. Fetched'
    BY <2>1, <2>2, BookedStays
  <2> QED
    BY <1>0, <2>1, <2>3, BookedStays DEF Persisting
<1>4. ASSUME NEW t \in Tickets, BeginPersist(t) PROVE Rest'
  <2>1. CloseDeal(t) \in CloseParts(t)
    BY <1>4 DEF BeginPersist, CloseDeal, CloseParts, Parts
  <2>2. Booked(t, CloseDeal(t))
    BY <1>0, <2>1 DEF CloseParts
  <2>3. /\ UNCHANGED <<trades, fetched>>
        /\ job'.ticket = t /\ job'.deal = CloseDeal(t)
    BY <1>4 DEF BeginPersist, disk
  <2>4. Booked(t, CloseDeal(t))'
    <3>1. CloseDeal(t)' = CloseDeal(t)
      BY <2>3 DEF CloseDeal, CloseParts
    <3> QED
      BY <2>2, <3>1, BookedStays
  <2>5. CloseDeal(t)' = CloseDeal(t)
    BY <2>3 DEF CloseDeal, CloseParts
  <2> QED
    BY <1>0, <2>3, <2>4, <2>5, BookedStays DEF Persisting
<1>5. ASSUME Hydrate PROVE Rest'
  <2>1. UNCHANGED <<trades, fetched, job>> /\ pc = "hydrate"
    BY <1>5 DEF Hydrate, disk
  <2> QED
    BY <1>0, <2>1, BookedStays DEF Persisting
<1>6. ASSUME Insert PROVE Rest'
  <2>1. /\ trades' = trades \cup {NewRow} /\ fetched' = fetched
        /\ NewRow.ticket = job.ticket /\ NewRow.deal = job.deal
        /\ pc = "insert" /\ pc' \notin {"hydrate", "insert"}
    BY <1>6 DEF Insert, NewRow, AfterPersist
  <2>2. job.ticket # 0 => Booked(job.ticket, job.deal)
    BY <1>0, <2>1 DEF Persisting
  <2> QED
    BY <1>0, <2>1, <2>2, BookedStays DEF Persisting
<1>7. ASSUME NEW d \in Deps, ShadowClose(d) PROVE Rest'
  <2>1. job'.ticket = 0 /\ UNCHANGED <<trades, fetched>>
    BY <1>7 DEF ShadowClose, disk
  <2> QED
    BY <1>0, <2>1, BookedStays DEF Persisting
<1>8. ASSUME Environment \/ HaltTick \/ Restart \/ UNCHANGED vars PROVE Rest'
  <2>1. UNCHANGED <<trades, fetched, pc, job>>
    BY <1>8 DEF Environment, BrokerPartial, BrokerClose, DealShows, DealAges,
                DashboardSet, HaltTick, Restart, vars, disk, memory
  <2> QED
    BY <1>1, <2>1
<1>9. ASSUME BeginTick \/ ReadPositions \/ ReadPositionsFails
             \/ FetchHistoryFails
             \/ (\E t \in Tickets : SkipPersisted(t) \/ Unmatched(t))
             \/ InsertFails \/ ReconcileDone \/ Settle \/ EndTick \/ Crash \/ Stop
      PROVE  Rest'
  <2>1. /\ trades' = trades /\ fetched' \subseteq fetched
        /\ pc' \notin {"hydrate", "insert"}
    BY <1>9 DEF BeginTick, ReadPositions, ReadPositionsFails,
                FetchHistoryFails, SkipPersisted, Unmatched, InsertFails,
                AfterPersist, ReconcileDone, Settle, EndTick,
                ProcessEnds, Crash, Stop, disk
  <2> QED
    BY <1>2, <2>1
<1>10. Rest'
  BY <1>3, <1>4, <1>5, <1>6, <1>7, <1>8, <1>9 DEF Next, Runner
<1> QED
  BY <1>10, FinalStays DEF DealtInv

(* There is nothing to tell at first.                                      *)
LEMMA DealtInit == Init => DealtInv
BY DEF Init, DealtInv, Persisting, Parts

(* Rows of booked deals are what JournalOnlyDealt asks for.                *)
LEMMA DealtMeansDealt == DealtInv => JournalOnlyDealt
BY DEF DealtInv, JournalOnlyDealt, Booked

(* A row tells of a close, or of a part of one, that the broker made.      *)
THEOREM JournalledWhenDealt == Spec => []JournalOnlyDealt
<1>1. TypeInv /\ DealtInv /\ [Next]_vars => DealtInv'
  BY DealtNext DEF TypeInv
<1> QED
  BY <1>1, DealtInit, DealtMeansDealt, TypeInvariant, PTL DEF Spec

---------------------------------------------------------------------------
(* The runner implements the abstract journal: an Insert of a broker close *)
(* is Journal, the first deal of a position is Close, every other step     *)
(* stutters.                                                               *)
RowsOf(t) == {r \in trades : r.ticket = t}
RowCount  == [t \in Tickets |-> Cardinality(RowsOf(t))]

(* A step that changes neither deals nor rows is a stutter of the journal. *)
LEMMA MapStable ==
    ASSUME UNCHANGED <<deal, trades>>
    PROVE  UNCHANGED Journal!vars
BY DEF Journal!vars, Whole

(* Booking a deal of a position that is whole is a Close of the journal;   *)
(* another deal of it is a stutter.                                        *)
LEMMA DealIsClose ==
    ASSUME TypeOK, NEW t \in Tickets, NEW p \in Parts,
           deal' = [deal EXCEPT ![t][p] = "booked"], trades' = trades
    PROVE  [Journal!Next]_(Journal!vars)
<1>1. Whole' = Whole \ {t}
  BY DEF Whole, TypeOK, Parts
<1>2. CASE t \in Whole
  <2>1. Journal!Close(t)
    BY <1>1, <1>2 DEF Journal!Close
  <2> QED
    BY <2>1 DEF Journal!Next
<1>3. CASE t \notin Whole
  BY <1>1, <1>3 DEF Journal!vars
<1> QED
  BY <1>2, <1>3

(* Every step is a Close, a Journal or a stutter of the abstract journal.  *)
LEMMA JournalStep ==
    ASSUME ~ReadFaults, TypeInv, KeysHonest, OnceInv, DealtInv, [Next]_vars
    PROVE  [Journal!Next]_(Journal!vars)
<1>1. ASSUME NEW t \in Tickets, BrokerPartial(t) \/ BrokerClose(t)
      PROVE  [Journal!Next]_(Journal!vars)
  BY <1>1, DealIsClose DEF BrokerPartial, BrokerClose, disk, TypeInv, Parts
<1>2. ASSUME NEW t \in Tickets, Insert, job.ticket = t PROVE Journal!Journal(t)
  <2>0. t # 0
    BY ConstAssumption
  <2>1. t \in Tickets /\ t \notin Whole
    BY <1>2, <2>0 DEF Insert, DealtInv, Booked, Persisting, Whole
  <2>2. RowsOf(t) = {}
    BY <1>2, <2>0 DEF Insert, OnceInv, Persisting, Journalled, RowsOf
  <2>3. /\ trades' = trades \cup {NewRow} /\ NewRow.ticket = t
        /\ Whole' = Whole
    BY <1>2 DEF Insert, NewRow, Whole, broker
  <2>4. RowsOf(t)' = {NewRow}
    BY <2>2, <2>3 DEF RowsOf
  <2>5. \A u \in Tickets : u # t => RowsOf(u)' = RowsOf(u)
    BY <2>3 DEF RowsOf
  <2>6. Cardinality(RowsOf(t)) = 0 /\ Cardinality(RowsOf(t)') = 1
    BY <2>2, <2>4, FS_EmptySet, FS_Singleton
  <2>7. RowCount' = [RowCount EXCEPT ![t] = 1]
    BY <2>1, <2>5, <2>6 DEF RowCount
  <2> QED
    BY <2>1, <2>3, <2>6, <2>7 DEF Journal!Journal, RowCount, RowsOf
<1>3. ASSUME Insert, job.ticket = 0 PROVE UNCHANGED Journal!vars
  <2>1. /\ trades' = trades \cup {NewRow} /\ NewRow.ticket = 0
        /\ Whole' = Whole
    BY <1>3 DEF Insert, NewRow, Whole, broker
  <2>2. \A u \in Tickets : RowsOf(u)' = RowsOf(u)
    BY <2>1, ConstAssumption DEF RowsOf
  <2>3. RowCount' = RowCount
    BY <2>2 DEF RowCount
  <2> QED
    BY <2>1, <2>3 DEF Journal!vars, RowCount, RowsOf
<1>4. ASSUME Environment PROVE [Journal!Next]_(Journal!vars)
  <2>1. ASSUME NEW t \in Tickets, NEW p \in Parts, DealShows(t, p) \/ DealAges(t, p)
        PROVE  UNCHANGED Journal!vars
    <3>1. PICK s \in {"shown", "aged"} : deal' = [deal EXCEPT ![t][p] = s]
      BY <2>1 DEF DealShows, DealAges
    <3>2. deal[t][p] # "none" /\ trades' = trades
      BY <2>1 DEF DealShows, DealAges, disk
    <3>3. Whole' = Whole
      BY <3>1, <3>2 DEF Whole, TypeInv, TypeOK, Parts
    <3> QED
      BY <3>2, <3>3 DEF Journal!vars
  <2>2. ASSUME NEW d \in Deps, NEW s \in DashStatuses, DashboardSet(d, s)
        PROVE  UNCHANGED Journal!vars
    BY <2>2, MapStable DEF DashboardSet, broker, disk
  <2> QED
    BY <1>1, <1>4, <2>1, <2>2 DEF Environment
<1>5. ASSUME Runner, ~Insert PROVE UNCHANGED Journal!vars
  <2>1. UNCHANGED <<deal, trades>>
    BY <1>5 DEF Runner, BeginTick, HaltTick, ReadPositions,
                ReadPositionsFails, FetchHistory, FetchHistoryFails,
                SkipPersisted, Unmatched, BeginPersist, Hydrate, InsertFails,
                ReconcileDone, Settle, ShadowClose, EndTick,
                ProcessEnds, Crash, Stop, Restart,
                broker, disk
  <2> QED
    BY <2>1, MapStable
<1>6. ASSUME UNCHANGED vars PROVE UNCHANGED Journal!vars
  BY <1>6, MapStable DEF vars, broker, disk
<1>7. ASSUME Insert PROVE [Journal!Next]_(Journal!vars)
  <2>1. job.ticket # 0 => job.ticket \in Tickets
    BY <1>7 DEF Insert, TypeInv, JobInv, Jobs
  <2>2. job.ticket # 0 => Journal!Next
    BY <1>2, <1>7, <2>1 DEF Journal!Next
  <2> QED
    BY <1>3, <1>7, <2>2
<1> QED
  BY <1>4, <1>5, <1>6, <1>7 DEF Next

(* The initial state maps to the initial state of the abstract journal.    *)
LEMMA JournalInit == Init => Journal!Init
<1> SUFFICES ASSUME Init PROVE Journal!Init
  OBVIOUS
<1>1. Whole = Tickets
  BY DEF Init, Whole
<1>2. \A t \in Tickets : RowsOf(t) = {}
  BY DEF Init, RowsOf
<1>3. RowCount = [t \in Tickets |-> 0]
  BY <1>2, FS_EmptySet DEF RowCount
<1> QED
  BY <1>1, <1>3 DEF Journal!Init, RowCount, RowsOf

(* CloseReconciler implements TradeJournal.                                *)
THEOREM ImplementsJournal ==
    ~ReadFaults => (Spec => JournalSpec)
<1> SUFFICES ASSUME ~ReadFaults PROVE Spec => JournalSpec
  OBVIOUS
<1>1. Init => KeysHonest /\ OnceInv
  BY DEF Init, KeysHonest, OnceInv, NoDoubleJournal, Persisting
<1>2. TypeInv /\ KeysHonest /\ OnceInv /\ [Next]_vars => OnceInv'
  BY OnceNext
<1>3. TypeInv /\ DealtInv /\ [Next]_vars => DealtInv'
  BY DealtNext DEF TypeInv
<1>4. TypeInv /\ KeysHonest /\ OnceInv /\ DealtInv /\ [Next]_vars
          => [Journal!Next]_(Journal!vars)
  BY JournalStep
<1> QED
  BY <1>1, <1>2, <1>3, <1>4, DealtInit, JournalInit, TypeInvariant, KeysStep,
     PTL DEF Spec, JournalSpec, Journal!Spec
===========================================================================
