------------------------ MODULE CloseBackfillProofs ------------------------
(***************************************************************************)
(* Proofs about CloseBackfill: the runner and the recovery script as two   *)
(* writers of one table, for any tickets, deployments and candidates, and  *)
(* any number of runs of the script.  A step of the runner is a step of    *)
(* CloseReconciler, whose lemmas are used again; a step of the script      *)
(* leaves the runner's state alone but for the row it may insert.          *)
(***************************************************************************)
EXTENDS CloseBackfill, CloseReconcilerProofs

Inserting == bpc \in {"hydrate", "insert"}

(* The script's job is a real one while a close is being persisted.        *)
ScriptJobInv ==
    /\ Inserting => bjob \in BJobs
    /\ bpc = "insert" => bnext[bjob.run] # Unknown

(* A second writer leaves gaps and starts in the middle, so the numbers of *)
(* a deployment are no longer 0..n-1; still one of them is the largest.    *)
TopInv ==
    \A d \in Deps :
        Indices(d) = {} \/ \E m \in Indices(d) : \A i \in Indices(d) : i <= m

BackfillTypeInv == BackfillTypeOK /\ JobInv /\ ScriptJobInv /\ TopInv

---------------------------------------------------------------------------
(* MAX(trade_idx) + 1 is a number above every one in the table.            *)
LEMMA NextIndexTop ==
    ASSUME TypeOK, TopInv, NEW d \in Deps
    PROVE  NextIndex(d) \in Nat /\ \A i \in Indices(d) : i < NextIndex(d)
<1>1. Indices(d) \subseteq Nat
  BY DEF Indices, TypeOK, Rows
<1>2. CASE Indices(d) = {}
  BY <1>2 DEF NextIndex
<1>3. CASE Indices(d) # {}
  <2> DEFINE top == CHOOSE m \in Indices(d) : \A i \in Indices(d) : i <= m
  <2>1. top \in Indices(d) /\ \A i \in Indices(d) : i <= top
    BY <1>3 DEF TopInv
  <2>2. NextIndex(d) = 1 + top
    BY <1>3, Zenon DEF NextIndex
  <2> HIDE DEF top
  <2> QED
    BY <1>1, <2>1, <2>2
<1> QED
  BY <1>2, <1>3

(* What one more row does to the numbers of the deployments.               *)
LEMMA IndicesGrow ==
    ASSUME NEW row, trades' = trades \cup {row}, NEW d
    PROVE  Indices(d)' = IF d = row.run THEN Indices(d) \cup {row.idx}
                         ELSE Indices(d)
<1>1. CASE d = row.run
  BY <1>1 DEF Indices
<1>2. CASE d # row.run
  BY <1>2 DEF Indices
<1> QED
  BY <1>1, <1>2

(* One more row leaves a largest number.                                   *)
LEMMA TopGrow ==
    ASSUME TypeOK, TopInv, NEW row \in Rows, trades' = trades \cup {row}
    PROVE  TopInv'
<1> SUFFICES ASSUME NEW d \in Deps
             PROVE  \/ Indices(d)' = {}
                    \/ \E m \in Indices(d)' : \A i \in Indices(d)' : i <= m
  BY DEF TopInv
<1>1. Indices(d) \subseteq Nat /\ row.idx \in Nat
  BY DEF Indices, TypeOK, Rows
<1>2. CASE d # row.run
  BY <1>2, IndicesGrow DEF TopInv
<1>3. CASE d = row.run /\ Indices(d) = {}
  BY <1>1, <1>3, IndicesGrow
<1>4. CASE d = row.run /\ Indices(d) # {}
  <2>1. PICK m \in Indices(d) : \A i \in Indices(d) : i <= m
    BY <1>4 DEF TopInv
  <2>2. Indices(d)' = Indices(d) \cup {row.idx}
    BY <1>4, IndicesGrow
  <2>3. CASE row.idx <= m
    BY <2>1, <2>2, <2>3
  <2>4. CASE m <= row.idx
    BY <1>1, <2>1, <2>2, <2>4
  <2> QED
    BY <1>1, <2>1, <2>3, <2>4
<1> QED
  BY <1>2, <1>3, <1>4

(* An INSERT of the runner adds one well-typed row to the table.           *)
LEMMA InsertRow ==
    ASSUME TypeOK, JobInv, Insert
    PROVE  NewRow \in Rows /\ trades' = trades \cup {NewRow}
<1>1. job \in Jobs /\ job.run \in Deps /\ next[job.run] \in Nat
  BY DEF Insert, JobInv, Jobs, TypeOK
<1>2. job.ticket \in Tickets \cup {0} /\ Tickets \cup {0} \subseteq Nat
  BY <1>1, ConstAssumption DEF Jobs
<1>3. job.mode \in Active /\ job.deal \in Parts \cup {"none"}
  BY <1>1 DEF Insert, Insertable, Jobs
<1> QED
  BY <1>1, <1>2, <1>3 DEF Insert, NewRow, Rows

(* Every other step of the runner leaves the table alone.                  *)
LEMMA RunnerRow ==
    ASSUME TypeOK, JobInv, [Next]_vars
    PROVE  \/ trades' = trades
           \/ Insert /\ NewRow \in Rows /\ trades' = trades \cup {NewRow}
<1>1. ASSUME Insert PROVE NewRow \in Rows /\ trades' = trades \cup {NewRow}
  BY <1>1, InsertRow
<1>2. ASSUME [Next]_vars, ~Insert PROVE trades' = trades
  <2>1. ASSUME Environment PROVE trades' = trades
    BY <2>1 DEF Environment, BrokerPartial, BrokerClose, DealShows, DealAges,
                DashboardSet, disk
  <2>2. ASSUME Runner PROVE trades' = trades
    BY <1>2, <2>2 DEF Runner, BeginTick, HaltTick, ReadPositions,
                ReadPositionsFails, FetchHistory, FetchHistoryFails,
                SkipPersisted, Unmatched, BeginPersist, Hydrate, InsertFails,
                ReconcileDone, Settle, ShadowClose, EndTick,
                ProcessEnds, Crash, Stop, Restart,
                disk
  <2> QED
    BY <1>2, <2>1, <2>2 DEF Next, vars, disk
<1> QED
  BY <1>1, <1>2

(* Every step of the script but its INSERT leaves the runner alone.        *)
LEMMA ScriptKeeps ==
    ASSUME Script, ~ScriptInsert
    PROVE  UNCHANGED vars
BY DEF Script, ScriptStart, ScriptFetch, ScriptSkip, ScriptPersist,
       ScriptHydrate, ScriptInsertFails, ScriptEnd

(* Its INSERT adds one well-typed row and touches nothing else.            *)
LEMMA ScriptInsertRow ==
    ASSUME BackfillTypeInv, ScriptInsert
    PROVE  /\ trades' = trades \cup {ScriptRow}
           /\ ScriptRow \in Rows
           /\ UNCHANGED <<broker, status, saved, up, memory>>
<1>1. bjob \in BJobs /\ bnext[bjob.run] \in Nat
  BY DEF ScriptInsert, BackfillTypeInv, ScriptJobInv, Inserting,
         BackfillTypeOK, BJobs
<1>2. ScriptRow \in Rows
  BY <1>1 DEF ScriptRow, Rows, BJobs, Active
<1> QED
  BY <1>2 DEF ScriptInsert

(* A context names a deployment and a number.                              *)
LEMMA ContextTyped ==
    ASSUME NEW t \in Tickets, NEW c \in Contexts(t)
    PROVE  c.run \in Deps /\ c.key \in Nat
<1> USE ConstAssumption, BackfillAssumption
<1>1. CASE t \in bctx
  BY <1>1 DEF Contexts
<1>2. CASE t \notin bctx
  <2>1. Guess(t) \subseteq Deps
    BY DEF Guess
  <2> QED
    BY <1>2, <2>1 DEF Contexts
<1> QED
  BY <1>1, <1>2

(* The script is off and the table empty.                                  *)
LEMMA BackfillTypeInit == BackfillInit => BackfillTypeInv
<1> SUFFICES ASSUME BackfillInit PROVE BackfillTypeInv
  OBVIOUS
<1>1. TypeOK /\ JobInv
  BY TypeInit DEF BackfillInit, TypeInv
<1>2. TopInv
  BY DEF BackfillInit, Init, TopInv, Indices
<1>3. ScriptJobInv
  BY DEF BackfillInit, ScriptJobInv, Inserting
<1>4. BackfillTypeOK
  BY <1>1 DEF BackfillInit, BackfillTypeOK, BPCs, NoSnap, Statuses
<1> QED
  BY <1>1, <1>2, <1>3, <1>4 DEF BackfillTypeInv

(* The runner's types survive a step of the script, and the script's own   *)
(* are kept by each of its steps.                                          *)
LEMMA BackfillTypeNext ==
    ASSUME BackfillTypeInv, [BackfillNext]_allVars
    PROVE  BackfillTypeInv'
<1> USE DEF BackfillTypeInv
<1>1. \A d \in Deps : NextIndex(d) \in Nat
  BY NextIndexTop DEF BackfillTypeOK
<1>2. ASSUME [Next]_vars PROVE TypeOK' /\ JobInv' /\ TopInv'
  <2>1. TypeOK' /\ JobInv'
    BY <1>1, <1>2, TypeStep DEF BackfillTypeOK
  <2>2. CASE trades' = trades
    BY <2>1, <2>2 DEF TopInv, Indices
  <2>3. CASE NewRow \in Rows /\ trades' = trades \cup {NewRow}
    BY <2>1, <2>3, TopGrow DEF BackfillTypeOK
  <2> QED
    BY <1>2, <2>1, <2>2, <2>3, RunnerRow DEF BackfillTypeOK
<1>3. ASSUME [Next]_vars, UNCHANGED <<script, beside>> PROVE BackfillTypeInv'
  BY <1>2, <1>3 DEF BackfillTypeOK, ScriptJobInv, Inserting, script
<1>4. ASSUME ScriptStart PROVE BackfillTypeInv'
  <2>1. UNCHANGED vars
    BY <1>4, ScriptKeeps DEF Script, ScriptStart, ScriptInsert
  <2>2. bpc' = "fetch" /\ bsnap' = status /\ bctx' = saved
    BY <1>4 DEF ScriptStart
  <2> QED
    BY <1>2, <1>4, <2>1, <2>2 DEF ScriptStart, BackfillTypeOK, BPCs, TypeOK,
                                  ScriptJobInv, Inserting
<1>5. ASSUME ScriptFetch PROVE BackfillTypeInv'
  BY <1>2, <1>5 DEF ScriptFetch, WindowDeals, BackfillTypeOK, BPCs,
                    ScriptJobInv, Inserting
<1>6. ASSUME NEW t \in Tickets, NEW p \in Parts, ScriptSkip(t, p)
      PROVE  BackfillTypeInv'
  BY <1>2, <1>6 DEF ScriptSkip, BackfillTypeOK, ScriptJobInv, Inserting
<1>7. ASSUME NEW t \in Tickets, NEW p \in Parts, ScriptPersist(t, p)
      PROVE  BackfillTypeInv'
  <2>1. PICK c \in Contexts(t) :
            bjob' = [run |-> c.run, ticket |-> t, key |-> c.key, deal |-> p]
    BY <1>7 DEF ScriptPersist
  <2>2. bjob' \in BJobs
    BY <2>1, ContextTyped DEF BJobs
  <2> QED
    BY <1>2, <1>7, <2>2 DEF ScriptPersist, BackfillTypeOK, BPCs, ScriptJobInv,
                            Inserting
<1>8. ASSUME ScriptHydrate PROVE BackfillTypeInv'
  <2>1. bjob \in BJobs /\ bjob.run \in Deps
    BY <1>8 DEF ScriptHydrate, ScriptJobInv, Inserting, BJobs
  <2>2. PICK i \in ScriptIndex(bjob.run) : bnext' = [bnext EXCEPT ![bjob.run] = i]
    BY <1>8 DEF ScriptHydrate
  <2>3. i \in Nat
    BY <1>1, <2>1, <2>2 DEF ScriptIndex, BackfillTypeOK
  <2>4. ScriptJobInv'
    BY <1>8, <2>1, <2>2, <2>3 DEF ScriptHydrate, ScriptJobInv, Inserting,
                                  BackfillTypeOK, Unknown
  <2>5. bnext' \in [Deps -> Nat \cup {Unknown}]
    BY <2>1, <2>2, <2>3 DEF BackfillTypeOK
  <2> QED
    BY <1>2, <1>8, <2>4, <2>5 DEF ScriptHydrate, BackfillTypeOK, BPCs
<1>9. ASSUME ScriptInsert \/ ScriptInsertFails
      PROVE  /\ bnext' \in [Deps -> Nat \cup {Unknown}] /\ bjob' = NoJob
             /\ bpc' = "loop" /\ UNCHANGED <<bsnap, bctx, bdeals, beside>>
  <2>1. bjob.run \in Deps /\ bnext[bjob.run] \in Nat
    BY <1>9 DEF ScriptInsert, ScriptInsertFails, ScriptJobInv, Inserting,
                BackfillTypeOK, BJobs
  <2> QED
    BY <1>9, <2>1 DEF ScriptInsert, ScriptInsertFails, BackfillTypeOK
<1>10. ASSUME ScriptInsert PROVE BackfillTypeInv'
  <2>1. /\ trades' = trades \cup {ScriptRow} /\ ScriptRow \in Rows
        /\ UNCHANGED <<broker, status, saved, up, memory>>
    BY <1>10, ScriptInsertRow
  <2>2. TopInv'
    BY <2>1, TopGrow DEF BackfillTypeOK
  <2>3. TypeOK' /\ JobInv'
    BY <2>1 DEF BackfillTypeOK, TypeOK, JobInv, broker, memory
  <2> QED
    BY <1>9, <1>10, <2>2, <2>3 DEF BackfillTypeOK, BPCs, ScriptJobInv, Inserting
<1>11. ASSUME ScriptInsertFails PROVE BackfillTypeInv'
  <2>1. UNCHANGED vars
    BY <1>11 DEF ScriptInsertFails
  <2> QED
    BY <1>2, <1>9, <1>11, <2>1 DEF BackfillTypeOK, BPCs, ScriptJobInv, Inserting
<1>12. ASSUME ScriptEnd PROVE BackfillTypeInv'
  BY <1>2, <1>12 DEF ScriptEnd, BackfillTypeOK, BPCs, ScriptJobInv, Inserting,
                     NoSnap, Statuses
<1>13. ASSUME UNCHANGED allVars PROVE BackfillTypeInv'
  BY <1>3, <1>13 DEF allVars
<1> QED
  BY <1>3, <1>4, <1>5, <1>6, <1>7, <1>8, <1>10, <1>11, <1>12, <1>13
     DEF BackfillNext, Script

(* Two writers keep every type, and a largest number in the table.         *)
THEOREM BackfillTypeInvariant == BackfillSpec => []BackfillTypeInv
<1>1. BackfillTypeInv /\ [BackfillNext]_allVars => BackfillTypeInv'
  BY BackfillTypeNext
<1> QED
  BY <1>1, BackfillTypeInit, PTL DEF BackfillSpec

(* The type invariant that TLC checks on small instances.                  *)
THEOREM BackfillTypeCorrect == BackfillSpec => []BackfillTypeOK
<1>1. BackfillTypeInv => BackfillTypeOK
  BY DEF BackfillTypeInv
<1> QED
  BY <1>1, BackfillTypeInvariant, PTL

---------------------------------------------------------------------------
(* Beside a running runner.  The script takes only deals that have been    *)
(* booked; a key that is a ticket names the position the row is about.     *)
ScriptDealtInv ==
    /\ \A t \in Tickets, p \in Parts : <<t, p>> \in bdeals => Booked(t, p)
    /\ Inserting => Booked(bjob.ticket, bjob.deal)

KeysNamed ==
    /\ \A r \in trades : r.key \in Tickets => r.ticket = r.key
    /\ Inserting => (bjob.key \in Tickets => bjob.ticket = bjob.key)

(* No deal that opened a position has the number of a position.            *)
DealsApart == \A t \in Tickets : InDeal[t] \notin Tickets

(* The only steps that change the map, on disk or in memory, are the       *)
(* runner's; a row of the script can only help.                            *)
LEMMA BesideForgetNext ==
    ASSUME BackfillTypeInv, ForgetInv, [BackfillNext]_allVars
    PROVE  ForgetInv'
<1>1. CASE [Next]_vars
  BY <1>1, ForgetNext DEF BackfillTypeInv, BackfillTypeOK
<1>2. CASE ScriptInsert
  <2>1. trades \subseteq trades' /\ UNCHANGED <<saved, up, memory>>
    BY <1>2 DEF ScriptInsert
  <2>2. ASSUME NEW t, KeyStored(t) PROVE KeyStored(t)'
    BY <2>1, <2>2 DEF KeyStored
  <2> QED
    BY <2>1, <2>2, Zenon DEF ForgetInv, memory
<1> QED
  BY <1>1, <1>2, ScriptKeeps DEF BackfillNext, allVars

(* A close is tracked under its ticket, or made up under its deal.         *)
LEMMA KeysNamedNext ==
    ASSUME DealsApart, BackfillTypeInv, KeysNamed, [BackfillNext]_allVars
    PROVE  KeysNamed'
<1>1. ASSUME [Next]_vars, UNCHANGED script PROVE KeysNamed'
  <2>1. CASE trades' = trades
    BY <1>1, <2>1 DEF KeysNamed, Inserting, script
  <2>2. CASE trades' = trades \cup {NewRow}
    BY <1>1, <2>2 DEF KeysNamed, NewRow, Inserting, script
  <2> QED
    BY <1>1, <2>1, <2>2, RunnerRow DEF BackfillTypeInv, BackfillTypeOK
<1>2. ASSUME NEW t \in Tickets, NEW p \in Parts, ScriptPersist(t, p)
      PROVE  KeysNamed'
  <2>1. PICK c \in Contexts(t) : bjob'.ticket = t /\ bjob'.key = c.key
    BY <1>2 DEF ScriptPersist
  <2>2. c.key = t \/ c.key = InDeal[t]
    BY DEF Contexts
  <2>3. trades' = trades
    BY <1>2 DEF ScriptPersist, vars, disk
  <2> QED
    BY <2>1, <2>2, <2>3 DEF KeysNamed, DealsApart
<1>3. ASSUME ScriptInsert PROVE KeysNamed'
  <2>1. /\ trades' = trades \cup {ScriptRow}
        /\ ScriptRow.key = bjob.key /\ ScriptRow.ticket = bjob.ticket
        /\ Inserting /\ ~Inserting'
    BY <1>3 DEF ScriptInsert, ScriptRow, Inserting
  <2> QED
    BY <2>1 DEF KeysNamed
<1>4. ASSUME ScriptHydrate PROVE KeysNamed'
  <2>1. trades' = trades /\ bjob' = bjob /\ Inserting
    BY <1>4 DEF ScriptHydrate, Inserting, vars, disk
  <2> QED
    BY <2>1 DEF KeysNamed
<1>5. ASSUME trades' = trades, ~Inserting' PROVE KeysNamed'
  BY <1>5 DEF KeysNamed
<1>6. ASSUME ScriptStart \/ ScriptFetch \/ ScriptInsertFails \/ ScriptEnd
             \/ \E t \in Tickets, p \in Parts : ScriptSkip(t, p)
      PROVE  trades' = trades /\ ~Inserting'
  BY <1>6 DEF ScriptStart, ScriptFetch, ScriptInsertFails, ScriptEnd,
              ScriptSkip, Inserting, vars, disk
<1> QED
  BY <1>1, <1>2, <1>3, <1>4, <1>5, <1>6 DEF BackfillNext, Script, allVars

(* A deal once booked stays booked, so what the script read of the history *)
(* stays true until it inserts.                                            *)
LEMMA ScriptDealtNext ==
    ASSUME BackfillTypeInv, DealtInv, ScriptDealtInv, [BackfillNext]_allVars
    PROVE  DealtInv' /\ ScriptDealtInv'
<1> USE DEF BackfillTypeInv, BackfillTypeOK
<1>1. ASSUME [Next]_vars PROVE DealtInv'
  BY <1>1, DealtNext
<1>2. ASSUME [Next]_vars, NEW t, NEW p, Booked(t, p) PROVE Booked(t, p)'
  BY <1>2, BookedStays
<1>3. ASSUME [Next]_vars, UNCHANGED script PROVE ScriptDealtInv'
  BY <1>2, <1>3 DEF ScriptDealtInv, Inserting, script
<1>4. ASSUME Script, ~ScriptInsert PROVE DealtInv' /\ deal' = deal
  BY <1>1, <1>4, ScriptKeeps DEF vars, broker
<1>5. ASSUME deal' = deal, bdeals' \subseteq bdeals, ~Inserting'
      PROVE  ScriptDealtInv'
  BY <1>5 DEF ScriptDealtInv, Booked
<1>6. ASSUME ScriptInsert PROVE DealtInv' /\ ScriptDealtInv'
  <2>1. /\ trades' = trades \cup {ScriptRow}
        /\ ScriptRow.ticket = bjob.ticket /\ ScriptRow.deal = bjob.deal
        /\ UNCHANGED <<broker, memory, bdeals>> /\ Inserting /\ ~Inserting'
    BY <1>6 DEF ScriptInsert, ScriptRow, Inserting
  <2>2. DealtInv'
    BY <2>1 DEF DealtInv, Booked, Persisting, ScriptDealtInv, broker, memory
  <2> QED
    BY <1>5, <2>1, <2>2 DEF broker
<1>7. ASSUME ScriptFetch PROVE ScriptDealtInv'
  <2>1. bdeals' = WindowDeals /\ ~Inserting' /\ deal' = deal
    BY <1>7 DEF ScriptFetch, Inserting, vars, broker
  <2>2. \A t \in Tickets, p \in Parts : <<t, p>> \in WindowDeals => Booked(t, p)
    BY DEF WindowDeals, Booked
  <2> QED
    BY <2>1, <2>2 DEF ScriptDealtInv, Booked
<1>8. ASSUME NEW t \in Tickets, NEW p \in Parts, ScriptPersist(t, p)
      PROVE  ScriptDealtInv'
  <2>1. /\ <<t, p>> \in bdeals /\ bdeals' \subseteq bdeals
        /\ bjob'.ticket = t /\ bjob'.deal = p
    BY <1>8 DEF ScriptPersist, NextDeal
  <2>2. deal' = deal
    BY <1>8 DEF ScriptPersist, vars, broker
  <2>3. Booked(t, p)
    BY <2>1 DEF ScriptDealtInv
  <2> QED
    BY <2>1, <2>2, <2>3 DEF ScriptDealtInv, Booked
<1>9. ASSUME ScriptHydrate PROVE ScriptDealtInv'
  <2>1. UNCHANGED <<bjob, bdeals, deal>> /\ Inserting
    BY <1>9 DEF ScriptHydrate, Inserting, vars, broker
  <2> QED
    BY <2>1 DEF ScriptDealtInv, Booked
<1>10. ASSUME ScriptStart \/ ScriptInsertFails \/ ScriptEnd
              \/ \E t \in Tickets, p \in Parts : ScriptSkip(t, p)
       PROVE  ScriptDealtInv'
  <2>1. deal' = deal /\ bdeals' \subseteq bdeals /\ ~Inserting'
    BY <1>10 DEF ScriptStart, ScriptInsertFails, ScriptEnd, ScriptSkip,
                 Inserting, vars, broker
  <2> QED
    BY <1>5, <2>1
<1> QED
  BY <1>1, <1>3, <1>4, <1>6, <1>7, <1>8, <1>9, <1>10
     DEF BackfillNext, Script, allVars

(* Where no opening deal has the number of a position, the script beside   *)
(* the runner neither journals a close that was not made nor makes the     *)
(* runner forget one.                                                      *)
THEOREM BesideKeepsOrder == DealsApart => (BackfillSpec => []BesideInOrder)
<1> SUFFICES ASSUME DealsApart PROVE BackfillSpec => []BesideInOrder
  OBVIOUS
<1> DEFINE Inv == DealtInv /\ ScriptDealtInv /\ KeysNamed /\ ForgetInv
<1>1. BackfillInit => Inv
  <2> SUFFICES ASSUME BackfillInit PROVE Inv
    OBVIOUS
  <2>1. Init /\ bpc = "off" /\ bdeals = {}
    BY DEF BackfillInit
  <2>2. ForgetInv /\ KeysNamed /\ ScriptDealtInv
    BY <2>1 DEF Init, ForgetInv, KeysNamed, ScriptDealtInv, Inserting
  <2> QED
    BY <2>1, <2>2, DealtInit
<1>2. BackfillTypeInv /\ Inv /\ [BackfillNext]_allVars => Inv'
  BY ScriptDealtNext, KeysNamedNext, BesideForgetNext
<1>3. Inv => BesideInOrder
  <2> SUFFICES ASSUME Inv PROVE NothingForgotten
    BY DealtMeansDealt DEF BesideInOrder
  <2>1. ASSUME NEW t \in Tracked, KeyStored(t) PROVE Journalled(t)
    BY <2>1, ConstAssumption DEF KeysNamed, KeyStored, Journalled
  <2> QED
    BY <2>1 DEF ForgetInv, NothingForgotten
<1> QED
  BY <1>1, <1>2, <1>3, BackfillTypeInvariant, PTL DEF BackfillSpec

---------------------------------------------------------------------------
(* With the runner stopped.  A process that is down keeps nothing in       *)
(* memory, and of the two at most one is up; so what one has read of the   *)
(* table - a key that is missing, the largest number - stays true until it *)
(* inserts, as if it were alone.                                           *)
Asleep ==
    /\ pc = "idle" /\ job = NoJob /\ next = [d \in Deps |-> Unknown]

OneUp ==
    /\ ~up => Asleep
    /\ bpc = "off" => bnext = [d \in Deps |-> Unknown]
    /\ bpc # "off" => ~up /\ bctx = saved

(* A tracked close is keyed by its ticket: the script makes up a context   *)
(* only for a ticket that has left the map, and then its key is stored.    *)
TrackedKeys ==
    /\ \A r \in trades : r.ticket \in Tracked => r.key = r.ticket
    /\ Inserting => (bjob.ticket \in Tracked => bjob.key = bjob.ticket)

(* The close being persisted is not in the table.                          *)
StillUnstored ==
    /\ Persisting => ~KeyStored(job.ticket)
    /\ Inserting => ~KeyStored(bjob.ticket)

Above(n, d) == n # Unknown => \A i \in Indices(d) : i < n

CountersAbove == \A d \in Deps : Above(next[d], d) /\ Above(bnext[d], d)

AloneInv ==
    /\ ForgetInv /\ OneUp /\ TrackedKeys /\ StillUnstored
    /\ TrackedOnce /\ CountersAbove

(* While the script runs, only the broker and the dashboard move beside it.*)
LEMMA RunnerWaits ==
    ASSUME OneUp, bpc # "off", Next, OneAtATime, ~beside
    PROVE  Environment
<1>1. ~up /\ up' = up
  BY DEF OneUp, OneAtATime
<1> QED
  BY <1>1 DEF Next, Runner, BeginTick, HaltTick, ReadPositions,
              ReadPositionsFails, FetchHistory, FetchHistoryFails,
              SkipPersisted, Unmatched, BeginPersist, Hydrate, Insert,
              InsertFails, ReconcileDone, Settle, ShadowClose, EndTick,
              ProcessEnds, Crash, Stop,
              Restart

(* And they touch neither the table nor either process.                    *)
LEMMA EnvironmentKeeps ==
    ASSUME Environment
    PROVE  UNCHANGED <<disk, up, memory>>
BY DEF Environment, BrokerPartial, BrokerClose, DealShows, DealAges,
       DashboardSet

(* What does not touch the table, the runner's memory or the script keeps  *)
(* the invariant.                                                          *)
LEMMA AloneStable ==
    ASSUME AloneInv, ForgetInv', UNCHANGED <<disk, up, memory, script>>
    PROVE  AloneInv'
BY DEF AloneInv, OneUp, Asleep, TrackedKeys, StillUnstored, Persisting,
       Inserting, KeyStored, TrackedOnce, CountersAbove, Above, Indices,
       disk, memory, script

(* One more row, for a tracked ticket whose key is not stored yet, leaves   *)
(* one row per tracked close.                                              *)
LEMMA OnceMore ==
    ASSUME TrackedOnce, \A r \in trades : r.ticket \in Tracked => r.key = r.ticket,
           NEW row, row.ticket \in Tracked => ~KeyStored(row.ticket),
           trades' = trades \cup {row}
    PROVE  TrackedOnce'
<1>1. ASSUME NEW r \in trades, r.ticket = row.ticket, r.ticket \in Tracked
      PROVE  FALSE
  BY <1>1 DEF KeyStored
<1> QED
  BY <1>1 DEF TrackedOnce

(* A counter stays above the numbers after its own number is written.      *)
LEMMA AboveGrow ==
    ASSUME TypeOK, NEW row \in Rows, trades' = trades \cup {row}, NEW d \in Deps,
           NEW n \in Nat \cup {Unknown}, NEW m \in Nat \cup {Unknown},
           Above(n, d),
           d # row.run => m = n,
           d = row.run => row.idx = n /\ m = n + 1
    PROVE  m # Unknown => \A i \in Indices(d)' : i < m
<1>1. Indices(d) \subseteq Nat /\ row.idx \in Nat
  BY DEF Indices, TypeOK, Rows
<1>2. Indices(d)' = IF d = row.run THEN Indices(d) \cup {row.idx} ELSE Indices(d)
  BY IndicesGrow
<1>3. CASE d = row.run
  <2>1. n \in Nat /\ n # Unknown
    BY <1>1, <1>3 DEF Unknown
  <2> QED
    BY <1>1, <1>2, <1>3, <2>1 DEF Above
<1>4. CASE d # row.run
  BY <1>2, <1>4 DEF Above
<1> QED
  BY <1>3, <1>4

(* A step of the runner while the script is not running.                   *)
LEMMA AloneRunner ==
    ASSUME ~ReadFaults, BackfillTypeInv, AloneInv, bpc = "off",
           Runner, UNCHANGED script
    PROVE  AloneInv'
<1> USE DEF BackfillTypeInv, BackfillTypeOK
<1>1. ForgetInv'
  BY ForgetNext DEF AloneInv, Next
<1>2. ~Inserting /\ ~Inserting' /\ bpc' = "off" /\ bnext' = bnext
      /\ bnext = [d \in Deps |-> Unknown]
  BY DEF Inserting, script, AloneInv, OneUp
<1>3. \A d \in Deps : Above(bnext[d], d)'
  BY <1>2 DEF Above
<1>4. OneUp'
  <2>1. CASE Crash \/ Stop
    BY <1>2, <2>1 DEF ProcessEnds, Crash, Stop, OneUp, Asleep
  <2>2. CASE up'
    BY <1>2, <2>2 DEF OneUp
  <2>3. ~Crash /\ ~Stop => up'
    BY DEF Runner, BeginTick, HaltTick, ReadPositions, ReadPositionsFails,
           FetchHistory, FetchHistoryFails, SkipPersisted, Unmatched,
           BeginPersist, Hydrate, Insert, InsertFails, ReconcileDone, Settle,
           ShadowClose, EndTick, Restart, TypeOK
  <2> QED
    BY <2>1, <2>2, <2>3
<1>5. ASSUME trades' = trades, \A d \in Deps : Above(next[d], d)',
             (Persisting => ~KeyStored(job.ticket))'
      PROVE  AloneInv'
  BY <1>1, <1>2, <1>3, <1>4, <1>5 DEF AloneInv, TrackedKeys, StillUnstored,
                                      TrackedOnce, CountersAbove
<1>6. ASSUME trades' = trades, next' = next
      PROVE  \A d \in Deps : Above(next[d], d)'
  BY <1>6 DEF AloneInv, CountersAbove, Above, Indices
<1>7. ASSUME UNCHANGED <<trades, pc, job>>
      PROVE  (Persisting => ~KeyStored(job.ticket))'
  BY <1>7 DEF AloneInv, StillUnstored, Persisting, KeyStored
<1>8. ASSUME NEW t \in Tickets, BeginPersist(t) PROVE AloneInv'
  <2>1. ~KeyStored(t) /\ trades' = trades /\ next' = next /\ job'.ticket = t
    BY <1>8 DEF BeginPersist, SeenUnstored, disk
  <2>2. (Persisting => ~KeyStored(job.ticket))'
    BY <2>1 DEF KeyStored
  <2> QED
    BY <1>5, <1>6, <2>1, <2>2
<1>9. ASSUME NEW d \in Deps, ShadowClose(d) PROVE AloneInv'
  <2>1. trades' = trades /\ next' = next /\ job'.ticket = 0
    BY <1>9 DEF ShadowClose, disk
  <2> QED
    BY <1>5, <1>6, <2>1 DEF Persisting
<1>10. ASSUME Hydrate PROVE AloneInv'
  <2>1. job \in Jobs /\ job.run \in Deps /\ trades' = trades /\ job' = job
        /\ pc = "hydrate"
    BY <1>10 DEF Hydrate, JobInv, Jobs, disk
  <2>2. PICK i \in HydratedIndex(job.run) : next' = [next EXCEPT ![job.run] = i]
    BY <1>10 DEF Hydrate
  <2>3. \A k \in Indices(job.run) : k < i
    BY <2>1, <2>2, NextIndexTop DEF HydratedIndex, AloneInv, CountersAbove, Above
  <2>4. ASSUME NEW d \in Deps PROVE Above(next[d], d)'
    <3>1. Indices(d)' = Indices(d)
      BY <2>1 DEF Indices
    <3>2. CASE d = job.run
      BY <2>2, <2>3, <3>1, <3>2 DEF Above, TypeOK
    <3>3. CASE d # job.run
      BY <2>2, <3>1, <3>3 DEF Above, TypeOK, AloneInv, CountersAbove
    <3> QED
      BY <3>2, <3>3
  <2>5. (Persisting => ~KeyStored(job.ticket))'
    BY <2>1 DEF AloneInv, StillUnstored, Persisting, KeyStored
  <2> QED
    BY <1>5, <2>1, <2>4, <2>5
<1>11. ASSUME Insert PROVE AloneInv'
  <2>1. job \in Jobs /\ job.run \in Deps /\ next[job.run] \in Nat
    BY <1>11 DEF Insert, JobInv, Jobs, TypeOK
  <2>2. NewRow \in Rows /\ trades' = trades \cup {NewRow}
    BY <1>11, InsertRow
  <2>3. NewRow.ticket = job.ticket /\ NewRow.key = job.ticket
        /\ NewRow.run = job.run /\ NewRow.idx = next[job.run]
    BY DEF NewRow
  <2>4. job.ticket \in Tracked => ~KeyStored(job.ticket)
    BY <1>11, ConstAssumption DEF Insert, AloneInv, StillUnstored, Persisting
  <2>5. TrackedOnce'
    BY <2>2, <2>3, <2>4, OnceMore DEF AloneInv, TrackedKeys
  <2>6. TrackedKeys'
    BY <1>2, <2>2, <2>3 DEF AloneInv, TrackedKeys
  <2>7. StillUnstored'
    BY <1>2, <1>11 DEF Insert, AfterPersist, StillUnstored, Persisting
  <2>8. ASSUME NEW d \in Deps PROVE Above(next[d], d)'
    <3>1. next' = [next EXCEPT ![job.run] = @ + 1]
      BY <1>11 DEF Insert
    <3>2. /\ next'[d] \in Nat \cup {Unknown} /\ next[d] \in Nat \cup {Unknown}
          /\ d # job.run => next'[d] = next[d]
          /\ d = job.run => next'[d] = next[d] + 1
      BY <2>1, <3>1 DEF TypeOK
    <3>3. Above(next[d], d)
      BY DEF AloneInv, CountersAbove
    <3>4. next'[d] # Unknown => \A i \in Indices(d)' : i < next'[d]
      BY <2>2, <2>3, <3>2, <3>3, AboveGrow
    <3> QED
      BY <3>4 DEF Above
  <2> QED
    BY <1>1, <1>3, <1>4, <2>5, <2>6, <2>7, <2>8 DEF AloneInv, CountersAbove
<1>12. ASSUME Crash \/ Stop PROVE AloneInv'
  <2>1. trades' = trades /\ ~Persisting'
    BY <1>12 DEF ProcessEnds, Crash, Stop, Persisting, disk
  <2>2. \A d \in Deps : next'[d] = Unknown
    BY <1>12 DEF ProcessEnds, Crash, Stop
  <2> QED
    BY <1>5, <2>1, <2>2 DEF Above
<1>13. ASSUME BeginTick \/ ReadPositions \/ ReadPositionsFails \/ FetchHistory
              \/ FetchHistoryFails \/ (\E t \in Tickets : SkipPersisted(t) \/ Unmatched(t))
              \/ InsertFails \/ ReconcileDone \/ Settle \/ EndTick
       PROVE  AloneInv'
  <2>1. trades' = trades /\ next' = next /\ ~Persisting'
    BY <1>13 DEF BeginTick, ReadPositions, ReadPositionsFails, FetchHistory,
                 FetchHistoryFails, SkipPersisted, Unmatched, InsertFails,
                 AfterPersist, ReconcileDone, Settle, EndTick, Persisting, disk
  <2> QED
    BY <1>5, <1>6, <2>1
<1>14. ASSUME HaltTick \/ Restart PROVE AloneInv'
  <2>1. UNCHANGED <<trades, next, pc, job>>
    BY <1>14 DEF HaltTick, Restart, disk, memory
  <2> QED
    BY <1>5, <1>6, <1>7, <2>1
<1> QED
  BY <1>8, <1>9, <1>10, <1>11, <1>12, <1>13, <1>14 DEF Runner

(* A step of the script, the runner being down.                            *)
LEMMA AloneScript ==
    ASSUME ~ReadFaults, ~beside, BackfillTypeInv, AloneInv, Script
    PROVE  AloneInv'
<1> USE DEF BackfillTypeInv, BackfillTypeOK
<1>1. ForgetInv'
  BY BesideForgetNext DEF AloneInv, BackfillNext
<1>2. ~up /\ Asleep
  BY DEF Script, ScriptStart, ScriptFetch, ScriptSkip, ScriptPersist,
         ScriptHydrate, ScriptInsert, ScriptInsertFails, ScriptEnd, AloneInv,
         OneUp
<1>3. UNCHANGED <<saved, up, memory>>
  BY ScriptKeeps DEF ScriptInsert, vars, disk
<1>4. ~up' /\ Asleep' /\ ~Persisting' /\ \A d \in Deps : Above(next[d], d)'
  BY <1>2, <1>3 DEF Asleep, Persisting, Above, memory
<1>5. ASSUME trades' = trades, OneUp', \A d \in Deps : Above(bnext[d], d)',
             ~Inserting'
      PROVE  AloneInv'
  BY <1>1, <1>4, <1>5 DEF AloneInv, TrackedKeys, StillUnstored, TrackedOnce,
                          CountersAbove
<1>6. ASSUME trades' = trades, bnext' = bnext
      PROVE  \A d \in Deps : Above(bnext[d], d)'
  BY <1>6 DEF AloneInv, CountersAbove, Above, Indices
<1>7. ASSUME ~ScriptInsert PROVE trades' = trades
  BY <1>7, ScriptKeeps DEF vars, disk
<1>8. ASSUME bpc # "off", bpc' # "off", bctx' = bctx PROVE OneUp'
  BY <1>3, <1>4, <1>8 DEF AloneInv, OneUp
<1>9. ASSUME ScriptStart PROVE AloneInv'
  <2>1. trades' = trades /\ bpc' = "fetch" /\ bctx' = saved /\ bnext' = bnext
    BY <1>7, <1>9 DEF ScriptStart, ScriptInsert
  <2>2. OneUp'
    BY <1>3, <1>4, <2>1 DEF OneUp
  <2> QED
    BY <1>5, <1>6, <2>1, <2>2 DEF Inserting
<1>10. ASSUME ScriptFetch \/ \E t \in Tickets, p \in Parts : ScriptSkip(t, p)
       PROVE  AloneInv'
  <2>1. /\ trades' = trades /\ bpc # "off" /\ bpc' = "loop"
        /\ bctx' = bctx /\ bnext' = bnext
    BY <1>10 DEF ScriptFetch, ScriptSkip, vars, disk
  <2> QED
    BY <1>5, <1>6, <1>8, <2>1 DEF Inserting
<1>11. ASSUME NEW t \in Tickets, NEW p \in Parts, ScriptPersist(t, p)
       PROVE  AloneInv'
  <2>1. PICK c \in Contexts(t) : bjob'.ticket = t /\ bjob'.key = c.key
    BY <1>11 DEF ScriptPersist
  <2>2. /\ trades' = trades /\ bpc = "loop" /\ bpc' = "hydrate"
        /\ bctx' = bctx /\ bnext' = bnext /\ ~KeyStored(t)
    BY <1>11 DEF ScriptPersist, SeenUnstored, vars, disk
  <2>3. ASSUME t \in Tracked PROVE c.key = t
    <3>1. t \in bctx
      BY <2>2, <2>3 DEF AloneInv, ForgetInv, OneUp
    <3> QED
      BY <3>1 DEF Contexts
  <2>4. TrackedKeys' /\ StillUnstored' /\ TrackedOnce'
    BY <1>4, <2>1, <2>2, <2>3 DEF AloneInv, TrackedKeys, StillUnstored,
                                  TrackedOnce, KeyStored
  <2> QED
    BY <1>1, <1>4, <1>6, <1>8, <2>2, <2>4 DEF AloneInv, CountersAbove
<1>12. ASSUME ScriptHydrate PROVE AloneInv'
  <2>1. /\ trades' = trades /\ bjob' = bjob /\ bpc = "hydrate"
        /\ bpc' = "insert" /\ bctx' = bctx /\ bjob.run \in Deps
    BY <1>12 DEF ScriptHydrate, ScriptJobInv, Inserting, BJobs, vars, disk
  <2>2. PICK i \in ScriptIndex(bjob.run) : bnext' = [bnext EXCEPT ![bjob.run] = i]
    BY <1>12 DEF ScriptHydrate
  <2>3. \A k \in Indices(bjob.run) : k < i
    BY <2>1, <2>2, NextIndexTop DEF ScriptIndex, AloneInv, CountersAbove, Above
  <2>4. ASSUME NEW d \in Deps PROVE Above(bnext[d], d)'
    <3>1. Indices(d)' = Indices(d)
      BY <2>1 DEF Indices
    <3>2. CASE d = bjob.run
      BY <2>2, <2>3, <3>1, <3>2 DEF Above
    <3>3. CASE d # bjob.run
      BY <2>2, <3>1, <3>3 DEF Above, AloneInv, CountersAbove
    <3> QED
      BY <3>2, <3>3
  <2>5. TrackedKeys' /\ StillUnstored' /\ TrackedOnce'
    BY <1>4, <2>1 DEF AloneInv, TrackedKeys, StillUnstored, TrackedOnce,
                      KeyStored, Inserting
  <2> QED
    BY <1>1, <1>4, <1>8, <2>1, <2>4, <2>5 DEF AloneInv, CountersAbove
<1>13. ASSUME ScriptInsert \/ ScriptInsertFails
       PROVE  /\ bjob \in BJobs /\ bjob.run \in Deps /\ bnext[bjob.run] \in Nat
              /\ bnext' = [bnext EXCEPT ![bjob.run] = bnext[bjob.run] + 1]
              /\ bpc = "insert" /\ bpc' = "loop" /\ bctx' = bctx
  BY <1>13 DEF ScriptInsert, ScriptInsertFails, ScriptJobInv, Inserting, BJobs
<1>14. ASSUME ScriptInsert PROVE AloneInv'
  <2>1. trades' = trades \cup {ScriptRow} /\ ScriptRow \in Rows
    BY <1>14, ScriptInsertRow
  <2>2. ScriptRow.ticket = bjob.ticket /\ ScriptRow.key = bjob.key
        /\ ScriptRow.run = bjob.run /\ ScriptRow.idx = bnext[bjob.run]
    BY DEF ScriptRow
  <2>3. Inserting /\ ~Inserting'
    BY <1>13, <1>14 DEF Inserting
  <2>4. ~KeyStored(bjob.ticket)
    BY <2>3 DEF AloneInv, StillUnstored
  <2>5. TrackedOnce'
    BY <2>1, <2>2, <2>4, OnceMore DEF AloneInv, TrackedKeys
  <2>6. TrackedKeys'
    BY <2>1, <2>2, <2>3 DEF AloneInv, TrackedKeys
  <2>7. ASSUME NEW d \in Deps PROVE Above(bnext[d], d)'
    <3>1. /\ bnext'[d] \in Nat \cup {Unknown} /\ bnext[d] \in Nat \cup {Unknown}
          /\ d # bjob.run => bnext'[d] = bnext[d]
          /\ d = bjob.run => bnext'[d] = bnext[d] + 1
      BY <1>13, <1>14
    <3>2. Above(bnext[d], d)
      BY DEF AloneInv, CountersAbove
    <3>3. bnext'[d] # Unknown => \A i \in Indices(d)' : i < bnext'[d]
      BY <2>1, <2>2, <3>1, <3>2, AboveGrow
    <3> QED
      BY <3>3 DEF Above
  <2> QED
    BY <1>1, <1>4, <1>8, <1>13, <1>14, <2>3, <2>5, <2>6, <2>7
       DEF AloneInv, StillUnstored, CountersAbove
<1>15. ASSUME ScriptInsertFails PROVE AloneInv'
  <2>1. trades' = trades
    BY <1>15 DEF ScriptInsertFails, vars, disk
  <2>2. ASSUME NEW d \in Deps PROVE Above(bnext[d], d)'
    <3>1. Indices(d)' = Indices(d) /\ Indices(d) \subseteq Nat
      BY <2>1 DEF Indices, TypeOK, Rows
    <3>2. Above(bnext[d], d)
      BY DEF AloneInv, CountersAbove
    <3>3. CASE d = bjob.run
      BY <1>13, <1>15, <3>1, <3>2, <3>3 DEF Above, Unknown
    <3>4. CASE d # bjob.run
      BY <1>13, <1>15, <3>1, <3>2, <3>4 DEF Above
    <3> QED
      BY <3>3, <3>4
  <2> QED
    BY <1>5, <1>8, <1>13, <1>15, <2>1, <2>2 DEF Inserting
<1>16. ASSUME ScriptEnd PROVE AloneInv'
  <2>1. trades' = trades /\ bpc' = "off" /\ bnext' = [d \in Deps |-> Unknown]
    BY <1>16 DEF ScriptEnd, vars, disk
  <2>2. OneUp'
    BY <1>4, <2>1 DEF OneUp
  <2>3. \A d \in Deps : Above(bnext[d], d)'
    BY <2>1 DEF Above
  <2> QED
    BY <1>5, <2>1, <2>2, <2>3 DEF Inserting
<1> QED
  BY <1>9, <1>10, <1>11, <1>12, <1>14, <1>15, <1>16 DEF Script

(* With the runner stopped each step keeps the invariant, whoever takes it.*)
LEMMA AloneNext ==
    ASSUME ~ReadFaults, ~beside, BackfillTypeInv, AloneInv,
           [BackfillNext]_allVars
    PROVE  AloneInv'
<1>1. ForgetInv'
  BY BesideForgetNext DEF AloneInv
<1>2. CASE Script
  BY <1>2, AloneScript
<1>3. ASSUME Environment, UNCHANGED script PROVE AloneInv'
  BY <1>1, <1>3, EnvironmentKeeps, AloneStable
<1>4. ASSUME Next, OneAtATime, UNCHANGED script PROVE AloneInv'
  <2>1. CASE bpc # "off"
    BY <1>3, <1>4, <2>1, RunnerWaits DEF AloneInv
  <2>2. CASE bpc = "off" /\ Runner
    BY <1>4, <2>2, AloneRunner
  <2> QED
    BY <1>3, <1>4, <2>1, <2>2 DEF Next
<1>5. CASE UNCHANGED allVars
  BY <1>1, <1>5, AloneStable DEF allVars, vars
<1> QED
  BY <1>2, <1>4, <1>5 DEF BackfillNext

(* If reads of the table do not fail and the script is run only while the  *)
(* runner is stopped, a tracked close is one row, and the number that      *)
(* either of them is about to insert is free.                              *)
THEOREM AloneKeepsOrder == ~ReadFaults => (BackfillSpec => []AloneInOrder)
<1> SUFFICES ASSUME ~ReadFaults PROVE BackfillSpec => []AloneInOrder
  OBVIOUS
<1> DEFINE Inv == ~beside => AloneInv
<1>1. BackfillInit => Inv
  <2> SUFFICES ASSUME BackfillInit PROVE AloneInv
    OBVIOUS
  <2>1. Init /\ bpc = "off" /\ bnext = [d \in Deps |-> Unknown]
    BY DEF BackfillInit
  <2>2. ForgetInv /\ TrackedKeys /\ TrackedOnce
    BY <2>1 DEF Init, ForgetInv, TrackedKeys, TrackedOnce, Inserting
  <2>3. OneUp /\ StillUnstored
    BY <2>1 DEF Init, OneUp, StillUnstored, Persisting, Inserting
  <2>4. CountersAbove
    BY <2>1 DEF Init, CountersAbove, Above
  <2> QED
    BY <2>2, <2>3, <2>4 DEF AloneInv
<1>2. BackfillTypeInv /\ Inv /\ [BackfillNext]_allVars => Inv'
  <2>1. [BackfillNext]_allVars => beside' = beside
    BY DEF BackfillNext, Script, ScriptStart, ScriptFetch, ScriptSkip,
           ScriptPersist, ScriptHydrate, ScriptInsert, ScriptInsertFails,
           ScriptEnd, allVars
  <2> QED
    BY <2>1, AloneNext
<1>3. BackfillTypeInv /\ Inv => AloneInOrder
  <2> SUFFICES ASSUME BackfillTypeInv, AloneInv
               PROVE  TrackedOnce /\ FreshIndex /\ ScriptIndexFresh
    BY DEF AloneInOrder
  <2>1. \A d \in Deps : next[d] # Unknown => next[d] \notin Indices(d)
    <3> SUFFICES ASSUME NEW d \in Deps, next[d] # Unknown, next[d] \in Indices(d)
                 PROVE  FALSE
      OBVIOUS
    <3>1. next[d] < next[d] /\ next[d] \in Nat
      BY DEF AloneInv, CountersAbove, Above, BackfillTypeInv, BackfillTypeOK,
             TypeOK
    <3> QED
      BY <3>1
  <2>2. \A d \in Deps : bnext[d] # Unknown => bnext[d] \notin Indices(d)
    <3> SUFFICES ASSUME NEW d \in Deps, bnext[d] # Unknown, bnext[d] \in Indices(d)
                 PROVE  FALSE
      OBVIOUS
    <3>1. bnext[d] < bnext[d] /\ bnext[d] \in Nat
      BY DEF AloneInv, CountersAbove, Above, BackfillTypeInv, BackfillTypeOK
    <3> QED
      BY <3>1
  <2>3. FreshIndex
    BY <2>1 DEF FreshIndex, BackfillTypeInv, JobInv, Jobs
  <2>4. ScriptIndexFresh
    BY <2>2 DEF ScriptIndexFresh, BackfillTypeInv, ScriptJobInv, Inserting, BJobs
  <2> QED
    BY <2>3, <2>4 DEF AloneInv
<1> QED
  BY <1>1, <1>2, <1>3, BackfillTypeInvariant, PTL DEF BackfillSpec
===========================================================================
