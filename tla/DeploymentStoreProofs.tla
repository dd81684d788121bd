----------------------- MODULE DeploymentStoreProofs -----------------------
(***************************************************************************)
(* What is proved about deployments.json: the state is well typed, no      *)
(* status "live" is invented by the races of its writers, and a stop holds *)
(* as long as the updates of the file do not overlap.                      *)
(***************************************************************************)
EXTENDS DeploymentStore, FiniteSetTheorems, TLAPS

LEMMA AskType ==
    ASSUME NEW asks \in Seq(Asks), NEW i \in DOMAIN asks
    PROVE  /\ asks[i] \in Asks
           /\ asks[i].dep \in Deps
           /\ asks[i].status \in Statuses \cup {Removed}
<1>1. asks[i] \in Asks
  OBVIOUS
<1>. QED  BY <1>1 DEF Asks

(* A button that is pressed asks for well-formed changes.                  *)
LEMMA ClickType ==
    ASSUME StoreTypeOK, NEW s \in Sessions, NEW asks \in Seq(Asks), Click(s, asks)
    PROVE  StoreTypeOK'
<1> USE DEF StoreTypeOK, Click, file, wishes, tick, users, local, Free, Lists,
            Nothing, Writers, OnPage
<1>1. todo' \in [Sessions -> Seq(Asks)]
  OBVIOUS
<1>2. mem' \in [Writers -> Lists]
  OBVIOUS
<1>3. promoted' \subseteq Deps
  <2>1. \A i \in DOMAIN asks : asks[i].dep \in Deps
    BY AskType
  <2>. QED  BY <2>1
<1>. QED  BY <1>1, <1>2, <1>3

LEMMA OrderType ==
    ASSUME NEW ds \in SUBSET Deps, NEW ask \in [ds -> Asks],
           NEW order \in [1..Cardinality(ds) -> ds]
    PROVE  [i \in DOMAIN order |-> ask[order[i]]] \in Seq(Asks)
<1>1. Cardinality(ds) \in Nat
  <2>1. IsFiniteSet(ds)
    BY StoreAssumption, FS_Subset
  <2>. QED  BY <2>1, FS_CardinalityType
<1>2. [i \in 1..Cardinality(ds) |-> ask[order[i]]] \in [1..Cardinality(ds) -> Asks]
  OBVIOUS
<1>3. DOMAIN order = 1..Cardinality(ds)
  OBVIOUS
<1>. QED  BY <1>1, <1>2, <1>3, SMT

LEMMA ClickEachType ==
    ASSUME StoreTypeOK, NEW s \in Sessions, NEW ds \in SUBSET Deps,
           NEW ask \in [ds -> Asks], ClickEach(s, ds, ask)
    PROVE  StoreTypeOK'
<1>1. PICK order \in [1..Cardinality(ds) -> ds] :
         Click(s, [i \in DOMAIN order |-> ask[order[i]]])
  BY DEF ClickEach
<1>2. [i \in DOMAIN order |-> ask[order[i]]] \in Seq(Asks)
  BY OrderType
<1>. QED  BY <1>1, <1>2, ClickType

(* The buttons that ask for several deployments ask for well-formed things. *)
LEMMA EachAsk ==
    ASSUME StoreTypeOK, NEW s \in Sessions, NEW ds \in SUBSET Deps
    PROVE  /\ \A status \in Statuses : [d \in ds |-> Update(d, status)] \in [ds -> Asks]
           /\ \A choice \in [ds -> Statuses \cup {Removed}] :
                 [d \in ds |-> Row(d, choice[d])] \in [ds -> Asks]
           /\ [d \in ds |-> Edit(d, mem[s][d])] \in [ds -> Asks]
<1>1. \A d \in ds : mem[s][d] \in Statuses \cup {Removed}
  BY DEF StoreTypeOK, Writers, Lists
<1>2. \A d \in ds : Edit(d, mem[s][d]) \in Asks
  BY <1>1 DEF Edit, Asks
<1>. QED  BY <1>2 DEF Update, Row, Asks

(* Every step of a session keeps the types.                                *)
LEMMA DashboardType ==
    ASSUME StoreTypeOK, NEW s \in Sessions, Dashboard(s)
    PROVE  StoreTypeOK'
<1> USE StoreAssumption
<1> USE DEF StoreTypeOK, Writers, Lists, Nothing, file, local, users, tick, wishes
<1>1. CASE OpenPage(s)
  BY <1>1 DEF OpenPage
<1>2. CASE LeavePage(s)
  <2>1. todo' \in [Sessions -> Seq(Asks)]
    BY <1>2 DEF LeavePage
  <2>2. stage' \in [Writers -> {"idle", "page", "loaded", "truncated"}]
    BY <1>2 DEF LeavePage
  <2>3. mem' \in [Writers -> Lists]
    BY <1>2 DEF LeavePage, Free
  <2>. QED  BY <1>2, <2>1, <2>2, <2>3 DEF LeavePage
<1>3. CASE StartAll(s)
  BY <1>3, EachAsk, ClickEachType DEF StartAll, ClickAll, Statuses
<1>4. CASE StopAll(s)
  BY <1>4, EachAsk, ClickEachType DEF StopAll, ClickAll, Statuses
<1>5. CASE Ask(s)
  <2> DEFINE ask == Head(todo[s])
  <2>1. ask \in Asks /\ Tail(todo[s]) \in Seq(Asks)
    BY <1>5 DEF Ask
  <2>2. ask.dep \in Deps /\ ask.status \in Statuses \cup {Removed}
    BY <2>1 DEF Asks
  <2>3. Changed(disk, ask) \in Lists
    BY <2>2 DEF Changed
  <2>4. todo' \in [Sessions -> Seq(Asks)]
    BY <1>5, <2>1 DEF Ask
  <2>5. mem' \in [Writers -> Lists]
    BY <1>5, <2>3 DEF Ask, Save
  <2>6. stage' \in [Writers -> {"idle", "page", "loaded", "truncated"}]
    BY <1>5 DEF Ask, Save
  <2>7. goal' \in [Sessions -> SUBSET (Deps \X (Statuses \cup {Removed}))]
    <3>1. {<<ask.dep, ask.status>>} \in SUBSET (Deps \X (Statuses \cup {Removed}))
      BY <2>2
    <3>2. \/ goal' = goal
          \/ goal' = [goal EXCEPT ![s] = {}]
          \/ goal' = [goal EXCEPT ![s] = {<<ask.dep, ask.status>>}]
      BY <1>5 DEF Ask
    <3>. QED  BY <3>1, <3>2
  <2>. QED  BY <1>5, <2>4, <2>5, <2>6, <2>7 DEF Ask
<1>6. CASE SaveSettings(s)
  BY <1>6 DEF SaveSettings, Save
<1>7. CASE EmergencyStop(s)
  <2>1. [d \in Deps |-> IF disk[d] = "live" THEN "halted" ELSE disk[d]] \in Lists
    BY DEF Statuses
  <2>2. LiveIn(disk) \X {"halted"} \in SUBSET (Deps \X (Statuses \cup {Removed}))
    BY DEF LiveIn, Statuses
  <2>3. mem' \in [Writers -> Lists]
    BY <1>7, <2>1 DEF EmergencyStop, Save
  <2>4. stage' \in [Writers -> {"idle", "page", "loaded", "truncated"}]
    BY <1>7 DEF EmergencyStop, Save
  <2>5. goal' \in [Sessions -> SUBSET (Deps \X (Statuses \cup {Removed}))]
    BY <1>7, <2>2 DEF EmergencyStop
  <2>. QED  BY <1>7, <2>3, <2>4, <2>5 DEF EmergencyStop
<1>8. ASSUME NEW d \in Deps,
             Press(s, d) \/ DeployCell(s, d) \/ AddRow(s, d) \/ Rewrite(s, d) \/ EditSetting(s, d)
      PROVE  StoreTypeOK'
  <2>1. \A status \in Statuses \cup {Removed} :
          /\ <<Update(d, status)>> \in Seq(Asks)
          /\ <<Row(d, status)>> \in Seq(Asks)
          /\ <<Row(d, status), Update(d, status)>> \in Seq(Asks)
          /\ <<Update(d, status), Note(d)>> \in Seq(Asks)
    BY DEF Update, Row, Note, Asks, Statuses
  <2>2. <<Edit(d, mem[s][d])>> \in Seq(Asks)
    BY DEF Edit, Asks
  <2>3. CASE Press(s, d)
    BY <2>1, <2>3, ClickType DEF Press
  <2>4. CASE DeployCell(s, d)
    BY <2>1, <2>4, ClickType DEF DeployCell
  <2>5. CASE AddRow(s, d)
    BY <2>1, <2>5, ClickType DEF AddRow
  <2>6. CASE Rewrite(s, d)
    BY <2>1, <2>6, ClickType DEF Rewrite
  <2>7. CASE EditSetting(s, d)
    BY <2>2, <2>7, ClickType DEF EditSetting
  <2>. QED  BY <1>8, <2>3, <2>4, <2>5, <2>6, <2>7
<1>9. CASE DeployPortfolio(s)
  <2>0. PICK ds \in SUBSET Deps : \E choice \in [ds -> Wishes \cap {"paper", "live"}] :
           ClickEach(s, ds, [d \in ds |-> Row(d, choice[d])])
    BY <1>9 DEF DeployPortfolio
  <2>1. PICK choice \in [ds -> Wishes \cap {"paper", "live"}] :
           ClickEach(s, ds, [d \in ds |-> Row(d, choice[d])])
    BY <2>0
  <2>2. choice \in [ds -> Statuses \cup {Removed}]
    BY DEF Statuses
  <2>3. [d \in ds |-> Row(d, choice[d])] \in [ds -> Asks]
    BY <2>2 DEF Row, Asks
  <2>. HIDE DEF StoreTypeOK
  <2>. QED  BY <2>1, <2>3, ClickEachType
<1>10. CASE EditTable(s)
  <2>1. PICK ds \in SUBSET Deps : ClickEach(s, ds, [d \in ds |-> Edit(d, mem[s][d])])
    BY <1>10 DEF EditTable
  <2>2. [d \in ds |-> Edit(d, mem[s][d])] \in [ds -> Asks]
    BY EachAsk
  <2>. HIDE DEF StoreTypeOK
  <2>. QED  BY <2>1, <2>2, ClickEachType
<1>. QED  BY <1>1, <1>2, <1>3, <1>4, <1>5, <1>6, <1>7, <1>8, <1>9, <1>10 DEF Dashboard

(* So does every step of the runner, and every write and death.            *)
LEMMA RunnerType ==
    ASSUME StoreTypeOK, RunnerStep
    PROVE  StoreTypeOK'
<1> USE StoreAssumption
<1> USE DEF StoreTypeOK, Writers, Lists, Lefts, PCs, AllDone,
            file, local, users, tick, wishes
<1>0. Runner \in Writers
  OBVIOUS
<1>a. ASSUME NEW list \in Lists, HaltNext(list)
      PROVE  /\ stage' \in [Writers -> {"idle", "page", "loaded", "truncated"}]
             /\ mem' \in [Writers -> Lists]
             /\ pc' \in PCs
  <2>1. \A d \in Deps : [list EXCEPT ![d] = "halted"] \in Lists
    BY DEF Statuses
  <2>2. CASE LiveIn(list) = {}
    BY <1>a, <2>2 DEF HaltNext, Save
  <2>3. CASE LiveIn(list) # {}
    <3>1. PICK d \in LiveIn(list) :
             Save(Runner, [list EXCEPT ![d] = "halted"]) /\ pc' = "halting"
      BY <1>a, <2>3 DEF HaltNext
    <3>. QED  BY <2>1, <3>1 DEF LiveIn, Save
  <2>. QED  BY <2>2, <2>3
<1>1. CASE BeginTick
  <2>1. left' \in Lefts
    BY <1>1 DEF BeginTick, Active
  <2>. QED  BY <1>1, <2>1 DEF BeginTick
<1>2. CASE Enforce
  <2>1. CASE LiveIn(disk) = {}
    BY <1>2, <2>1 DEF Enforce
  <2>2. CASE LiveIn(disk) # {}
    BY <1>2, <2>2, <1>a DEF Enforce
  <2>. QED  BY <2>1, <2>2
<1>3. CASE Halting
  BY <1>3, <1>0, <1>a DEF Halting
<1>4. CASE Flush
  BY <1>4 DEF Flush, Save
<1>5. CASE EndTick
  BY <1>5 DEF EndTick
<1>6. ASSUME NEW d \in Deps, Demote(d)
      PROVE  StoreTypeOK'
  <2>1. (IF disk[d] = Removed THEN disk ELSE [disk EXCEPT ![d] = "paper"]) \in Lists
    BY DEF Statuses
  <2>. QED  BY <1>6, <2>1 DEF Demote, Save
<1>7. ASSUME NEW d \in Deps, TickDeployment(d)
      PROVE  StoreTypeOK'
  BY <1>7 DEF TickDeployment
<1>. QED  BY <1>1, <1>2, <1>3, <1>4, <1>5, <1>6, <1>7 DEF RunnerStep

LEMMA WriterType ==
    ASSUME StoreTypeOK, NEW w \in Writers, Truncate(w) \/ Write(w) \/ Crash(w)
    PROVE  StoreTypeOK'
<1> USE StoreAssumption
<1> USE DEF StoreTypeOK, Writers, Lists, Lefts, PCs, AllDone, Nothing, Free,
            file, local, users, tick, wishes
<1>1. CASE Truncate(w)
  BY <1>1 DEF Truncate
<1>2. CASE Write(w)
  <2>1. form' \in {"whole", "empty", "mixed"} /\ disk' \in Lists
    BY <1>2 DEF Write, Written
  <2>2. CASE w = Runner
    BY <1>2, <2>1, <2>2 DEF Write, RunnerWrote
  <2>3. CASE w # Runner
    <3>1. stopped' \subseteq Deps
      <4>1. {g[1] : g \in goal[w]} \subseteq Deps
        BY <2>3
      <4>2. SessionWrote(w)
        BY <1>2, <2>3 DEF Write
      <4>. QED  BY <4>1, <4>2 DEF SessionWrote
    <3>2. SessionWrote(w) /\ w \in Sessions
      BY <1>2, <2>3 DEF Write
    <3>3. stage' \in [Writers -> {"idle", "page", "loaded", "truncated"}]
      BY <3>2 DEF SessionWrote
    <3>4. mem' \in [Writers -> Lists]
      BY <3>2 DEF SessionWrote
    <3>5. goal' \in [Sessions -> SUBSET (Deps \X (Statuses \cup {Removed}))]
      BY <3>2 DEF SessionWrote
    <3>6. pc' = pc /\ left' = left
      BY <3>2 DEF SessionWrote
    <3>. QED  BY <1>2, <2>1, <3>1, <3>3, <3>4, <3>5, <3>6 DEF Write
  <2>. QED  BY <2>2, <2>3
<1>3. CASE Crash(w)
  <2>1. CASE w = Runner
    BY <1>3, <2>1 DEF Crash
  <2>2. CASE w # Runner
    <3>0. /\ w \in Sessions
          /\ goal' = [goal EXCEPT ![w] = {}]
          /\ todo' = [todo EXCEPT ![w] = <<>>]
      BY <1>3, <2>2 DEF Crash
    <3>1. todo' \in [Sessions -> Seq(Asks)]
      BY <3>0
    <3>2. goal' \in [Sessions -> SUBSET (Deps \X (Statuses \cup {Removed}))]
      BY <3>0
    <3>3. /\ stage' \in [Writers -> {"idle", "page", "loaded", "truncated"}]
          /\ mem' \in [Writers -> Lists]
          /\ crashes' \in 0..MaxCrashes
      BY <1>3 DEF Crash
    <3>. QED  BY <1>3, <2>2, <3>1, <3>2, <3>3 DEF Crash
  <2>. QED  BY <2>1, <2>2
<1>. QED  BY <1>1, <1>2, <1>3

(* deployments.json and everyone's copies of it hold declared statuses.    *)
THEOREM StoreTypeCorrect == Spec => []StoreTypeOK
<1>1. Init => StoreTypeOK
  <2> SUFFICES ASSUME Init PROVE StoreTypeOK
    OBVIOUS
  <2>1. disk \in Lists /\ mem \in [Writers -> Lists]
    BY DEF Init, Lists, Nothing, Statuses
  <2>2. todo \in [Sessions -> Seq(Asks)]
    BY DEF Init
  <2>3. stage \in [Writers -> {"idle", "page", "loaded", "truncated"}]
    BY DEF Init
  <2>4. goal \in [Sessions -> SUBSET (Deps \X (Statuses \cup {Removed}))]
    BY DEF Init
  <2>5. pc \in PCs /\ left \in Lefts /\ crashes \in 0..MaxCrashes
    BY StoreAssumption DEF Init, PCs, Lefts, AllDone
  <2>. QED  BY <2>1, <2>2, <2>3, <2>4, <2>5 DEF Verdicts, Init, StoreTypeOK, LiveIn
<1>2. StoreTypeOK /\ [Next]_vars => StoreTypeOK'
  <2> SUFFICES ASSUME StoreTypeOK, [Next]_vars PROVE StoreTypeOK'
    OBVIOUS
  <2>1. CASE UNCHANGED vars
    BY <2>1 DEF vars, StoreTypeOK, file, local, users, tick, wishes
  <2>2. CASE Verdict \/ SetHalting
    BY <2>2 DEF Verdict, Verdicts, SetHalting, StoreTypeOK, file, local, users, tick, wishes
  <2>. QED  BY <2>1, <2>2, DashboardType, RunnerType, WriterType DEF Next
<1>. QED  BY <1>1, <1>2, PTL DEF Spec
----------------------------------------------------------------------------
(* Where a status "live" may be found: in the file, in a writer's copy, or *)
(* in what a handler still has to ask.  All of it once was a user's wish.  *)
AskedLive(asks) == {asks[i].dep : i \in {j \in DOMAIN asks : asks[j].status = "live"}}

OriginInv ==
    /\ LiveIn(disk) \subseteq promoted
    /\ \A w \in Writers : LiveIn(mem[w]) \subseteq promoted
    /\ \A s \in Sessions : AskedLive(todo[s]) \subseteq promoted

LEMMA ClickOrigin ==
    ASSUME StoreTypeOK, OriginInv, NEW s \in Sessions, NEW asks \in Seq(Asks),
           Click(s, asks),
           \A i \in DOMAIN asks : asks[i].how = "edit" =>
                asks[i].status = mem[s][asks[i].dep]
    PROVE  OriginInv'
<1>1. AskedLive(asks) \subseteq promoted'
  <2> SUFFICES ASSUME NEW i \in DOMAIN asks, asks[i].status = "live"
               PROVE  asks[i].dep \in promoted'
    BY DEF AskedLive
  <2>1. CASE asks[i].how = "edit"
    <3>1. asks[i].dep \in LiveIn(mem[s])
      BY <2>1, AskType DEF LiveIn
    <3>. QED  BY <3>1 DEF OriginInv, Click, Writers
  <2>2. CASE asks[i].how # "edit"
    BY <2>2 DEF Click
  <2>. QED  BY <2>1, <2>2
<1>2. promoted \subseteq promoted'
  BY DEF Click
<1>3. \A w \in Writers : LiveIn(mem'[w]) \subseteq LiveIn(mem[w])
  BY DEF Click, Free, LiveIn, Nothing, Removed, StoreTypeOK
<1>4. disk' = disk
  BY DEF Click, file
<1>5. todo' = [todo EXCEPT ![s] = asks]
  BY DEF Click
<1>6. LiveIn(disk') \subseteq promoted'
  BY <1>2, <1>4 DEF OriginInv, LiveIn
<1>7. \A w \in Writers : LiveIn(mem'[w]) \subseteq promoted'
  BY <1>2, <1>3 DEF OriginInv
<1>8. \A v \in Sessions : AskedLive(todo'[v]) \subseteq promoted'
  <2> SUFFICES ASSUME NEW v \in Sessions PROVE AskedLive(todo'[v]) \subseteq promoted'
    OBVIOUS
  <2>1. CASE v = s
    BY <2>1, <1>1, <1>5 DEF StoreTypeOK
  <2>2. CASE v # s
    BY <2>2, <1>2, <1>5 DEF StoreTypeOK, OriginInv
  <2>. QED  BY <2>1, <2>2
<1>. QED  BY <1>6, <1>7, <1>8 DEF OriginInv, LiveIn, AskedLive

LEMMA DashboardOrigin ==
    ASSUME StoreTypeOK, OriginInv, NEW s \in Sessions, Dashboard(s)
    PROVE  OriginInv'
<1>1. CASE OpenPage(s)
  <2>1. \A w \in Writers : LiveIn(mem'[w]) \subseteq promoted
    BY <1>1 DEF OpenPage, OriginInv, StoreTypeOK, Writers
  <2>. QED  BY <1>1, <2>1 DEF OpenPage, OriginInv, LiveIn, AskedLive,
                              file, users, wishes
<1>2. CASE LeavePage(s)
  <2>1. todo' = [todo EXCEPT ![s] = <<>>]
    BY <1>2 DEF LeavePage
  <2>2. AskedLive(<<>>) = {}
    BY DEF AskedLive
  <2>3. \A v \in Sessions : AskedLive(todo'[v]) \subseteq promoted
    BY <2>1, <2>2 DEF OriginInv, StoreTypeOK
  <2>4. \A w \in Writers : LiveIn(mem'[w]) \subseteq promoted
    BY <1>2 DEF LeavePage, Free, OriginInv, StoreTypeOK, LiveIn, Nothing, Removed
  <2>. QED  BY <1>2, <2>3, <2>4 DEF LeavePage, OriginInv, AskedLive, LiveIn, file, wishes
<1>3. ASSUME NEW ds \in SUBSET Deps, NEW ask \in [ds -> Asks], ClickEach(s, ds, ask),
             \A d \in ds : /\ ask[d].dep = d
                           /\ ask[d].how = "edit" => ask[d].status = mem[s][d]
      PROVE  OriginInv'
  <2>1. PICK order \in [1..Cardinality(ds) -> ds] :
           Click(s, [i \in DOMAIN order |-> ask[order[i]]])
    BY <1>3 DEF ClickEach
  <2> DEFINE asks == [i \in DOMAIN order |-> ask[order[i]]]
  <2>2. asks \in Seq(Asks)
    BY OrderType
  <2>3. \A i \in DOMAIN asks : asks[i].how = "edit" =>
           asks[i].status = mem[s][asks[i].dep]
    BY <1>3
  <2>4. Click(s, asks)
    BY <2>1
  <2>. HIDE DEF asks
  <2>. QED  BY <2>2, <2>3, <2>4, ClickOrigin
<1>4. CASE StartAll(s) \/ StopAll(s)
  <2>1. PICK ds \in SUBSET Deps, status \in {"paper", "idle"} :
           ClickEach(s, ds, [d \in ds |-> Update(d, status)])
    BY <1>4 DEF StartAll, StopAll, ClickAll
  <2>2. [d \in ds |-> Update(d, status)] \in [ds -> Asks]
    BY DEF Update, Asks, Statuses
  <2>. QED  BY <1>3, <2>1, <2>2 DEF Update
<1>10. CASE DeployPortfolio(s)
  <2>0. PICK ds \in SUBSET Deps : \E choice \in [ds -> Wishes \cap {"paper", "live"}] :
           ClickEach(s, ds, [d \in ds |-> Row(d, choice[d])])
    BY <1>10 DEF DeployPortfolio
  <2>1. PICK choice \in [ds -> Wishes \cap {"paper", "live"}] :
           ClickEach(s, ds, [d \in ds |-> Row(d, choice[d])])
    BY <2>0
  <2>2. choice \in [ds -> Statuses \cup {Removed}]
    BY DEF Statuses
  <2>3. [d \in ds |-> Row(d, choice[d])] \in [ds -> Asks]
    BY <2>2, EachAsk
  <2>. QED  BY <1>3, <2>1, <2>3 DEF Row
<1>11. CASE EditTable(s)
  <2>1. PICK ds \in SUBSET Deps : ClickEach(s, ds, [d \in ds |-> Edit(d, mem[s][d])])
    BY <1>11 DEF EditTable
  <2>2. [d \in ds |-> Edit(d, mem[s][d])] \in [ds -> Asks]
    BY EachAsk
  <2>. QED  BY <1>3, <2>1, <2>2 DEF Edit
<1>5. CASE Ask(s)
  <2> DEFINE ask == Head(todo[s])
  <2>1. /\ todo[s] \in Seq(Asks) /\ todo[s] # <<>>
        /\ 1 \in DOMAIN todo[s] /\ ask = todo[s][1]
        /\ todo' = [todo EXCEPT ![s] = Tail(@)]
    BY <1>5 DEF Ask, StoreTypeOK
  <2>2. AskedLive(Tail(todo[s])) \subseteq AskedLive(todo[s])
    <3>. DEFINE rest == Tail(todo[s])
    <3>1. \A i \in DOMAIN rest : i + 1 \in DOMAIN todo[s] /\ rest[i] = todo[s][i + 1]
      BY <2>1
    <3>2. SUFFICES ASSUME NEW i \in DOMAIN rest, rest[i].status = "live"
                   PROVE  rest[i].dep \in AskedLive(todo[s])
      BY DEF AskedLive
    <3>. QED  BY <3>1, <3>2 DEF AskedLive
  <2>3. \A v \in Sessions : AskedLive(todo'[v]) \subseteq promoted
    BY <2>1, <2>2 DEF OriginInv, StoreTypeOK
  <2>4. LiveIn(Changed(disk, ask)) \subseteq promoted
    <3>1. ask.status = "live" => ask.dep \in AskedLive(todo[s])
      BY <2>1 DEF AskedLive
    <3>2. disk \in [Deps -> Statuses \cup {Removed}]
      BY DEF StoreTypeOK, Lists
    <3>3. LiveIn(Changed(disk, ask)) \subseteq LiveIn(disk) \cup (IF ask.status = "live" THEN {ask.dep} ELSE {})
      BY <3>2 DEF LiveIn, Changed
    <3>. QED  BY <3>1, <3>3 DEF OriginInv
  <2>5. mem' = mem \/ mem' = [mem EXCEPT ![s] = Changed(disk, ask)]
    BY <1>5 DEF Ask, Save
  <2>6. \A w \in Writers : LiveIn(mem'[w]) \subseteq promoted
    BY <2>4, <2>5 DEF OriginInv, StoreTypeOK, Writers
  <2>. QED  BY <1>5, <2>3, <2>6 DEF Ask, OriginInv, AskedLive, LiveIn, file, wishes
<1>6. CASE SaveSettings(s)
  BY <1>6 DEF SaveSettings, Save, OriginInv, StoreTypeOK, LiveIn, AskedLive, Writers,
              file, users, wishes
<1>7. CASE EmergencyStop(s)
  <2>1. LiveIn([d \in Deps |-> IF disk[d] = "live" THEN "halted" ELSE disk[d]]) = {}
    BY DEF LiveIn
  <2>. QED  BY <1>7, <2>1 DEF EmergencyStop, Save, OriginInv, StoreTypeOK, LiveIn,
                              AskedLive, Writers, file, wishes
<1>8. ASSUME NEW d \in Deps,
             Press(s, d) \/ DeployCell(s, d) \/ AddRow(s, d) \/ Rewrite(s, d)
      PROVE  OriginInv'
  <2>1. PICK status \in Statuses \cup {Removed}, asks \in Seq(Asks) :
           /\ Click(s, asks)
           /\ asks \in {<<Update(d, status)>>, <<Row(d, status)>>,
                        <<Row(d, status), Update(d, status)>>,
                        <<Update(d, status), Note(d)>>}
    <3>1. \A status \in Statuses \cup {Removed} :
            /\ <<Update(d, status)>> \in Seq(Asks)
            /\ <<Row(d, status)>> \in Seq(Asks)
            /\ <<Row(d, status), Update(d, status)>> \in Seq(Asks)
            /\ <<Update(d, status), Note(d)>> \in Seq(Asks)
      BY DEF Update, Row, Note, Asks, Statuses
    <3>2. Wishes \subseteq Statuses \cup {Removed}
      BY StoreAssumption
    <3>. QED  BY <1>8, <3>1, <3>2 DEF Press, DeployCell, AddRow, Rewrite
  <2>2. \A i \in DOMAIN asks : asks[i].how # "edit"
    BY <2>1 DEF Update, Row, Note
  <2>. QED  BY <2>1, <2>2, ClickOrigin
<1>9. ASSUME NEW d \in Deps, EditSetting(s, d)
      PROVE  OriginInv'
  <2> DEFINE asks == <<Edit(d, mem[s][d])>>
  <2>1. asks \in Seq(Asks)
    BY DEF Edit, Asks, StoreTypeOK, Writers, Lists
  <2>2. \A i \in DOMAIN asks : asks[i].status = mem[s][asks[i].dep]
    BY DEF Edit
  <2>3. Click(s, asks)
    BY <1>9 DEF EditSetting
  <2>. HIDE DEF asks
  <2>. QED  BY <2>1, <2>2, <2>3, ClickOrigin
<1>. QED  BY <1>1, <1>2, <1>4, <1>5, <1>6, <1>7, <1>8, <1>9, <1>10, <1>11
             DEF Dashboard

LEMMA RunnerOrigin ==
    ASSUME StoreTypeOK, OriginInv, RunnerStep
    PROVE  OriginInv'
<1>1. ASSUME NEW list \in Lists, LiveIn(list) \subseteq promoted, HaltNext(list)
      PROVE  \A w \in Writers : LiveIn(mem'[w]) \subseteq promoted
  <2>1. \A d \in Deps : LiveIn([list EXCEPT ![d] = "halted"]) \subseteq LiveIn(list)
    BY DEF LiveIn, Lists
  <2>2. PICK l : LiveIn(l) \subseteq LiveIn(list) /\ mem' = [mem EXCEPT ![Runner] = l]
    BY <1>1, <2>1 DEF HaltNext, Save, LiveIn
  <2>. QED  BY <1>1, <2>2 DEF OriginInv, StoreTypeOK, Writers
<1>a. disk \in Lists /\ LiveIn(disk) \subseteq promoted
  BY DEF StoreTypeOK, OriginInv
<1>b. mem[Runner] \in Lists /\ LiveIn(mem[Runner]) \subseteq promoted
  BY DEF StoreTypeOK, OriginInv, Writers
<1>c. ASSUME UNCHANGED <<disk, todo, promoted>>,
             \A w \in Writers : LiveIn(mem'[w]) \subseteq promoted
      PROVE  OriginInv'
  BY <1>c DEF OriginInv, LiveIn, AskedLive
<1>d. ASSUME NEW l, LiveIn(l) \subseteq promoted, Save(Runner, l)
      PROVE  \A w \in Writers : LiveIn(mem'[w]) \subseteq promoted
  BY <1>d DEF Save, OriginInv, StoreTypeOK, Writers
<1>2. CASE BeginTick
  BY <1>2, <1>c DEF BeginTick, OriginInv, file, local, users, wishes
<1>3. CASE Enforce
  <2>1. CASE breach # "halt" \/ LiveIn(disk) = {}
    BY <1>3, <2>1, <1>c DEF Enforce, OriginInv, file, local, users, wishes
  <2>2. CASE breach = "halt" /\ LiveIn(disk) # {}
    <3>1. HaltNext(disk) /\ UNCHANGED <<disk, todo, promoted>>
      BY <1>3, <2>2 DEF Enforce, file, users, wishes
    <3>. QED  BY <3>1, <1>1, <1>a, <1>c
  <2>. QED  BY <2>1, <2>2
<1>4. CASE Halting
  BY <1>4, <1>1, <1>b, <1>c DEF Halting, file, users, wishes
<1>5. CASE Flush
  BY <1>5, <1>a, <1>c, <1>d DEF Flush, file, users, wishes
<1>6. CASE EndTick
  BY <1>6, <1>c DEF EndTick, OriginInv, file, local, users, wishes
<1>7. ASSUME NEW d \in Deps, Demote(d)
      PROVE  OriginInv'
  <2>1. LiveIn(IF disk[d] = Removed THEN disk ELSE [disk EXCEPT ![d] = "paper"]) \subseteq promoted
    BY <1>a DEF LiveIn, Lists
  <2>. QED  BY <1>7, <2>1, <1>c, <1>d DEF Demote, file, users, wishes
<1>8. ASSUME NEW d \in Deps, TickDeployment(d)
      PROVE  OriginInv'
  BY <1>8, <1>c DEF TickDeployment, OriginInv, file, local, users, wishes
<1>. QED  BY <1>2, <1>3, <1>4, <1>5, <1>6, <1>7, <1>8 DEF RunnerStep

LEMMA WriterOrigin ==
    ASSUME StoreTypeOK, OriginInv, NEW w \in Writers, Truncate(w) \/ Write(w) \/ Crash(w)
    PROVE  OriginInv'
<1>0. LiveIn(Nothing) = {} /\ AskedLive(<<>>) = {}
  BY DEF LiveIn, Nothing, AskedLive, Removed
<1>1. \A v \in Writers : LiveIn(mem'[v]) \subseteq promoted
  BY <1>0 DEF Truncate, Write, RunnerWrote, SessionWrote, Crash, Free, OriginInv, StoreTypeOK
<1>2. LiveIn(disk') \subseteq promoted
  BY <1>0 DEF Truncate, Write, Crash, OriginInv, file
<1>3. \A s \in Sessions : AskedLive(todo'[s]) \subseteq promoted
  <2>1. CASE Crash(w) /\ w # Runner
    BY <2>1, <1>0 DEF Crash, OriginInv, StoreTypeOK
  <2>2. CASE ~(Crash(w) /\ w # Runner)
    BY <2>2 DEF Truncate, Write, Crash, OriginInv, users
  <2>. QED  BY <2>1, <2>2
<1>4. promoted' = promoted
  BY DEF Truncate, Write, Crash, wishes
<1>. QED  BY <1>1, <1>2, <1>3, <1>4 DEF OriginInv, LiveIn, AskedLive

(* Whatever overlaps, is torn or dies, a deployment is never traded live   *)
(* that no user ever asked to be live.                                     *)
THEOREM NeverInvented == Spec => []NoneInvented
<1>1. Init => OriginInv
  BY DEF Init, OriginInv, LiveIn, Nothing, AskedLive, Removed
<1>2. StoreTypeOK /\ OriginInv /\ [Next]_vars => OriginInv'
  <2> SUFFICES ASSUME StoreTypeOK, OriginInv, [Next]_vars PROVE OriginInv'
    OBVIOUS
  <2>1. CASE UNCHANGED vars \/ Verdict \/ SetHalting
    BY <2>1 DEF Verdict, SetHalting, vars, OriginInv, LiveIn, AskedLive, file, local, users, wishes
  <2>. QED  BY <2>1, DashboardOrigin, RunnerOrigin, WriterOrigin DEF Next
<1>3. OriginInv => NoneInvented
  BY DEF OriginInv, NoneInvented, Tradable
<1>. QED  BY <1>1, <1>2, <1>3, StoreTypeCorrect, PTL DEF Spec
----------------------------------------------------------------------------
(* With careful writers: at most one update at a time, and what is being   *)
(* written holds no stopped deployment as live unless a user asks for it.  *)
Wished(list, g) ==
    /\ \A d \in LiveIn(list) \cap stopped : <<d, "live">> \in g
    /\ \A p \in g : list[p[1]] = p[2]

StopInv ==
    /\ \A v, w \in Updating : v = w
    /\ \A w \in Writers : stage[w] = "truncated" => form = "empty"
    /\ LiveIn(disk) \cap stopped = {}
    /\ Runner \in Updating => LiveIn(mem[Runner]) \cap stopped = {}
    /\ \A s \in Sessions : IF s \in Writing THEN Wished(mem[s], goal[s])
                                            ELSE goal[s] = {}

(* A save by w while nobody updates.                                       *)
LEMMA SaveStops ==
    ASSUME StoreTypeOK, StopInv, Updating = {}, NEW w \in Writers, NEW list,
           Save(w, list), UNCHANGED <<form, disk, stopped>>,
           \/ w = Runner /\ LiveIn(list) \cap stopped = {} /\ goal' = goal
           \/ /\ w \in Sessions
              /\ pc' = pc
              /\ \E g : goal' = [goal EXCEPT ![w] = g] /\ Wished(list, g)
    PROVE  StopInv'
<1> USE DEF StoreTypeOK, Writers
<1> USE StoreAssumption
<1>1. Writing = {} /\ pc # "halting"
  BY DEF Updating
<1>2. Writing' = {w}
  BY <1>1 DEF Writing, Save
<1>3. Updating' \subseteq {w}
  BY <1>1, <1>2 DEF Updating
<1>4. \A v \in Writers : stage'[v] # "truncated"
  BY <1>1 DEF Writing, Save
<1>5. mem'[w] = list
  BY DEF Save
<1>6. (LiveIn(disk) \cap stopped = {})'
  BY DEF StopInv, LiveIn
<1>7. CASE w = Runner
  <2>1. (LiveIn(mem[Runner]) \cap stopped = {})'
    BY <1>5, <1>7 DEF LiveIn
  <2>2. \A s \in Sessions : s \notin Writing' /\ goal'[s] = {}
    BY <1>1, <1>2, <1>7 DEF StopInv
  <2>. QED  BY <1>3, <1>4, <1>6, <2>1, <2>2 DEF StopInv
<1>8. CASE w \in Sessions
  <2>1. PICK g : goal' = [goal EXCEPT ![w] = g] /\ Wished(list, g)
    BY <1>8
  <2>2. Runner \notin Updating'
    BY <1>3, <1>8
  <2>3. Wished(mem[w], goal[w])'
    BY <1>5, <1>8, <2>1 DEF Wished, LiveIn
  <2>4. \A s \in Sessions \ {w} : s \notin Writing' /\ goal'[s] = {}
    BY <1>1, <1>2, <2>1 DEF StopInv
  <2>. QED  BY <1>2, <1>3, <1>4, <1>6, <2>2, <2>3, <2>4 DEF StopInv
<1>. QED  BY <1>7, <1>8

(* A step that begins no update and writes nothing.                        *)
LEMMA IdleStops ==
    ASSUME StoreTypeOK, StopInv, UNCHANGED <<disk, stopped>>,
           Updating' \subseteq Updating, Writing' \subseteq Writing,
           \A w \in Writers : stage'[w] = "truncated" => form' = "empty",
           \A w \in Updating' : mem'[w] = mem[w],
           \A s \in Sessions : goal'[s] = IF s \in Writing' THEN goal[s] ELSE {}
    PROVE  StopInv'
<1> USE DEF StopInv
<1>1. (\A v, w \in Updating : v = w)'
  OBVIOUS
<1>2. (LiveIn(disk) \cap stopped = {})'
  BY DEF LiveIn
<1>3. (Runner \in Updating => LiveIn(mem[Runner]) \cap stopped = {})'
  BY DEF LiveIn
<1>4. ASSUME NEW s \in Sessions
      PROVE  (IF s \in Writing THEN Wished(mem[s], goal[s]) ELSE goal[s] = {})'
  <2>1. CASE s \in Writing'
    <3>1. s \in Writing /\ mem'[s] = mem[s] /\ goal'[s] = goal[s]
      BY <2>1 DEF Updating
    <3>. QED  BY <2>1, <3>1 DEF Wished, LiveIn
  <2>2. CASE s \notin Writing'
    BY <2>2
  <2>. QED  BY <2>1, <2>2
<1>. QED  BY <1>1, <1>2, <1>3, <1>4

LEMMA DashboardStops ==
    ASSUME StoreTypeOK, StopInv, careful, NEW s \in Sessions, Dashboard(s)
    PROVE  StopInv'
<1> USE DEF StoreTypeOK, Writers
<1> USE StoreAssumption
<1>a. s \in Writers /\ s # Runner
  OBVIOUS
<1>0. ASSUME stage[s] \in {"idle", "page"}, stage'[s] \in {"idle", "page"},
             \E x : stage' = [stage EXCEPT ![s] = x],
             \E l : mem' = [mem EXCEPT ![s] = l],
             UNCHANGED <<form, disk, stopped, goal, pc>>
      PROVE  StopInv'
  <2>1. Writing' = Writing /\ Updating' = Updating
    BY <1>0 DEF Writing, Updating
  <2>2. s \notin Updating
    BY <1>0, <1>a DEF Writing, Updating
  <2>3. \A w \in Updating' : mem'[w] = mem[w]
    BY <1>0, <2>1, <2>2
  <2>4. \A w \in Writers : stage'[w] = "truncated" => form' = "empty"
    BY <1>0 DEF StopInv
  <2>. QED  BY <1>0, <2>1, <2>3, <2>4, IdleStops DEF StopInv
<1>1. CASE OpenPage(s)
  BY <1>0, <1>1 DEF OpenPage, file, users, tick, wishes
<1>2. CASE LeavePage(s)
  BY <1>0, <1>2 DEF LeavePage, Free, file, tick, wishes
<1>3. ASSUME NEW asks, Click(s, asks)
      PROVE  StopInv'
  <2>1. stage' = [stage EXCEPT ![s] = stage[s]]
    BY <1>3 DEF Click
  <2>. QED  BY <1>0, <1>3, <2>1 DEF Click, OnPage, Free, file, tick
<1>4. CASE Ask(s)
  <2> DEFINE ask == Head(todo[s])
  <2>1. Updating = {} /\ UNCHANGED <<form, disk, stopped, pc>>
    BY <1>4 DEF Ask, Loads, file, tick, wishes
  <2>2. CASE ask.how = "update" /\ disk[ask.dep] = Removed
    <3>1. mem' = [mem EXCEPT ![s] = mem[s]]
      BY <1>4, <2>2 DEF Ask
    <3>. QED  BY <1>0, <1>4, <2>1, <2>2, <3>1 DEF Ask
  <2>3. CASE ~(ask.how = "update" /\ disk[ask.dep] = Removed)
    <3> DEFINE g == IF ask.how \in {"edit", "note"} THEN {} ELSE {<<ask.dep, ask.status>>}
    <3>1. Save(s, Changed(disk, ask)) /\ goal' = [goal EXCEPT ![s] = g]
      BY <1>4, <2>3 DEF Ask
    <3>2. ask.how = "edit" => disk[ask.dep] = ask.status
      BY <1>4 DEF Ask
    <3>3. ask \in Asks
      BY <1>4 DEF Ask
    <3>4. disk \in [Deps -> Statuses \cup {Removed}] /\ ask.dep \in Deps
      BY <3>3 DEF Lists, Asks
    <3>5. \A d \in LiveIn(Changed(disk, ask)) : d \in LiveIn(disk) \/ <<d, "live">> \in g
      BY <3>2, <3>4 DEF LiveIn, Changed
    <3>6. \A p \in g : Changed(disk, ask)[p[1]] = p[2]
      BY <3>4 DEF Changed
    <3>7. Wished(Changed(disk, ask), g)
      BY <3>5, <3>6 DEF Wished, StopInv
    <3>. HIDE DEF g, ask
    <3>. QED  BY <2>1, <3>1, <3>7, <1>a, SaveStops
  <2>. QED  BY <2>2, <2>3
<1>5. CASE SaveSettings(s)
  <2>1. Updating = {} /\ mem[s] = disk /\ Save(s, disk) /\ s \notin Writing
    BY <1>5 DEF SaveSettings, OnPage, Writing
  <2>2. goal[s] = {} /\ goal' = [goal EXCEPT ![s] = {}]
    BY <1>5, <2>1 DEF StopInv, SaveSettings, users
  <2>3. Wished(disk, {})
    BY DEF Wished, StopInv
  <2>. QED  BY <1>5, <1>a, <2>1, <2>2, <2>3, SaveStops DEF SaveSettings, file, tick, wishes
<1>6. CASE EmergencyStop(s)
  <2> DEFINE list == [d \in Deps |-> IF disk[d] = "live" THEN "halted" ELSE disk[d]]
             g == LiveIn(disk) \X {"halted"}
  <2>1. Wished(list, g)
    BY DEF Wished, LiveIn
  <2>2. Save(s, list) /\ goal' = [goal EXCEPT ![s] = g] /\ Updating = {}
    BY <1>6 DEF EmergencyStop, Loads
  <2>3. UNCHANGED <<form, disk, stopped, pc>>
    BY <1>6 DEF EmergencyStop, file, tick, wishes
  <2>. HIDE DEF list, g
  <2>. QED  BY <1>a, <2>1, <2>2, <2>3, SaveStops
<1>7. CASE StartAll(s) \/ StopAll(s) \/ DeployPortfolio(s) \/ EditTable(s)
  BY <1>3, <1>7 DEF StartAll, StopAll, ClickAll, ClickEach, DeployPortfolio, EditTable
<1>8. ASSUME NEW d \in Deps,
             Press(s, d) \/ DeployCell(s, d) \/ AddRow(s, d) \/ Rewrite(s, d) \/ EditSetting(s, d)
      PROVE  StopInv'
  BY <1>3, <1>8 DEF Press, DeployCell, AddRow, Rewrite, EditSetting
<1>. QED  BY <1>1, <1>2, <1>4, <1>5, <1>6, <1>7, <1>8 DEF Dashboard

LEMMA RunnerStops ==
    ASSUME StoreTypeOK, StopInv, careful, RunnerStep
    PROVE  StopInv'
<1> USE DEF StoreTypeOK, Writers
<1> USE StoreAssumption
<1>a. Runner \in Writers
  OBVIOUS
<1>b. ASSUME UNCHANGED <<form, disk, stage, mem, goal, stopped>>, pc' # "halting"
      PROVE  StopInv'
  <2>1. Writing' = Writing /\ Updating' \subseteq Updating
    BY <1>b DEF Writing, Updating
  <2>. QED  BY <1>b, <2>1, IdleStops DEF StopInv
<1>c. ASSUME NEW list \in Lists, LiveIn(list) \cap stopped = {}, HaltNext(list)
      PROVE  \E l : Save(Runner, l) /\ LiveIn(l) \cap stopped = {}
  <2>1. \A d \in Deps : LiveIn([list EXCEPT ![d] = "halted"]) \subseteq LiveIn(list)
    BY DEF LiveIn, Lists
  <2>2. CASE LiveIn(list) = {}
    BY <1>c, <2>2 DEF HaltNext
  <2>3. CASE LiveIn(list) # {}
    <3>1. PICK d \in LiveIn(list) : Save(Runner, [list EXCEPT ![d] = "halted"])
      BY <1>c, <2>3 DEF HaltNext
    <3>2. LiveIn([list EXCEPT ![d] = "halted"]) \cap stopped = {}
      BY <1>c, <2>1, <3>1 DEF LiveIn
    <3>. QED  BY <3>1, <3>2
  <2>. QED  BY <2>2, <2>3
<1>d. ASSUME NEW l, Save(Runner, l), LiveIn(l) \cap stopped = {}, Updating = {},
             UNCHANGED <<form, disk, stopped, goal>>
      PROVE  StopInv'
  BY <1>a, <1>d, SaveStops
<1>e. disk \in Lists /\ LiveIn(disk) \cap stopped = {}
  BY DEF StopInv
<1>1. CASE BeginTick
  <2>1. pc' # "halting"
    BY <1>1 DEF BeginTick
  <2>. QED  BY <1>1, <1>b, <2>1 DEF BeginTick, file, local, users, wishes
<1>2. CASE Enforce
  <2>1. CASE breach # "halt" \/ LiveIn(disk) = {}
    BY <1>2, <1>b, <2>1 DEF Enforce, file, local, users, wishes
  <2>2. CASE breach = "halt" /\ LiveIn(disk) # {}
    <3>1. HaltNext(disk) /\ Loads /\ UNCHANGED <<form, disk, stopped, goal>>
      BY <1>2, <2>2 DEF Enforce, file, users, wishes
    <3>2. PICK l : Save(Runner, l) /\ LiveIn(l) \cap stopped = {}
      BY <1>c, <1>e, <3>1
    <3>. QED  BY <1>d, <3>1, <3>2 DEF Loads
  <2>. QED  BY <2>1, <2>2
<1>3. CASE Halting
  <2>1. Runner \in Updating
    BY <1>3 DEF Halting, Updating
  <2>2. Updating = {Runner}
    BY <2>1 DEF StopInv
  <2>3. Writing = {}
    BY <1>3, <2>2 DEF Halting, Updating, Writing
  <2>4. PICK l : Save(Runner, l) /\ LiveIn(l) \cap stopped = {}
    <3>1. mem[Runner] \in Lists /\ LiveIn(mem[Runner]) \cap stopped = {}
      BY <2>1 DEF StopInv
    <3>. QED  BY <1>3, <1>c, <3>1 DEF Halting
  <2>5. UNCHANGED <<form, disk, stopped, goal>>
    BY <1>3 DEF Halting, file, users, wishes
  <2>6. Writing' = {Runner} /\ Updating' = {Runner}
    BY <2>3, <2>4 DEF Save, Writing, Updating
  <2>7. \A w \in Writers : stage'[w] # "truncated"
    BY <2>3, <2>4 DEF Save, Writing
  <2>8. (LiveIn(mem[Runner]) \cap stopped = {})'
    BY <2>4, <2>5 DEF Save, LiveIn
  <2>9. (LiveIn(disk) \cap stopped = {})'
    BY <1>e, <2>5 DEF LiveIn
  <2>10. \A s \in Sessions : s \notin Writing' /\ goal'[s] = {}
    BY <2>3, <2>5, <2>6 DEF StopInv
  <2>. QED  BY <2>6, <2>7, <2>8, <2>9, <2>10 DEF StopInv
<1>4. CASE Flush
  BY <1>4, <1>d, <1>e DEF Flush, Loads, file, users, wishes
<1>5. CASE EndTick
  BY <1>5, <1>b DEF EndTick, file, local, users, wishes
<1>6. ASSUME NEW d \in Deps, Demote(d)
      PROVE  StopInv'
  <2> DEFINE l == IF disk[d] = Removed THEN disk ELSE [disk EXCEPT ![d] = "paper"]
  <2>1. LiveIn(l) \subseteq LiveIn(disk)
    BY DEF LiveIn, Lists
  <2>2. Save(Runner, l) /\ Updating = {} /\ UNCHANGED <<form, disk, stopped, goal>>
    BY <1>6 DEF Demote, Loads, file, users, wishes
  <2>3. LiveIn(l) \cap stopped = {}
    BY <1>e, <2>1
  <2>. HIDE DEF l
  <2>. QED  BY <1>d, <2>2, <2>3
<1>7. ASSUME NEW d \in Deps, TickDeployment(d)
      PROVE  StopInv'
  BY <1>7, <1>b DEF TickDeployment, file, local, users, wishes
<1>. QED  BY <1>1, <1>2, <1>3, <1>4, <1>5, <1>6, <1>7 DEF RunnerStep

LEMMA WriterStops ==
    ASSUME StoreTypeOK, StopInv, NEW w \in Writers, Truncate(w) \/ Write(w) \/ Crash(w)
    PROVE  StopInv'
<1> USE DEF StoreTypeOK, Writers
<1> USE StoreAssumption
<1>0. LiveIn(Nothing) = {}
  BY DEF LiveIn, Nothing, Removed
<1>1. CASE Truncate(w)
  <2>1. /\ stage' = [stage EXCEPT ![w] = "truncated"] /\ stage[w] = "loaded"
        /\ form' = "empty" /\ disk' = Nothing
        /\ UNCHANGED <<mem, goal, pc, stopped>>
    BY <1>1 DEF Truncate, users, tick, wishes
  <2>2. Writing' = Writing /\ Updating' = Updating
    BY <2>1 DEF Writing, Updating
  <2>3. (LiveIn(disk) \cap stopped = {})'
    BY <1>0, <2>1 DEF LiveIn
  <2>4. \A s \in Sessions : Wished(mem[s], goal[s])' = Wished(mem[s], goal[s])
    BY <2>1 DEF Wished, LiveIn
  <2>5. (LiveIn(mem[Runner]) \cap stopped)' = LiveIn(mem[Runner]) \cap stopped
    BY <2>1 DEF LiveIn
  <2>. QED  BY <2>1, <2>2, <2>3, <2>4, <2>5 DEF StopInv
<1>2. CASE Write(w)
  <2>1. w \in Writing /\ w \in Updating /\ form = "empty"
    BY <1>2 DEF Write, StopInv, Writing, Updating
  <2>2. Updating = {w} /\ Writing = {w}
    BY <2>1 DEF StopInv, Updating
  <2>3. disk' = mem[w]
    BY <1>2, <2>1 DEF Write, Written
  <2>4. stage'[w] \in {"idle", "page"} /\ \A v \in Writers \ {w} : stage'[v] = stage[v]
    BY <1>2 DEF Write, RunnerWrote, SessionWrote
  <2>5. Writing' = {}
    BY <2>2, <2>4 DEF Writing
  <2>6. \A v \in Writers : stage'[v] # "truncated"
    BY <2>5 DEF Writing
  <2>7. CASE w = Runner
    <3>1. UNCHANGED <<goal, stopped>> /\ (pc' = "halting" => mem' = mem)
      BY <1>2, <2>7 DEF Write, RunnerWrote
    <3>2. Updating' \subseteq {Runner} /\ (Runner \in Updating' => mem' = mem)
      BY <2>5, <3>1 DEF Updating
    <3>3. (LiveIn(disk) \cap stopped = {})'
      BY <2>1, <2>3, <2>7, <3>1 DEF StopInv, LiveIn
    <3>4. (Runner \in Updating => LiveIn(mem[Runner]) \cap stopped = {})'
      BY <2>1, <2>7, <3>1, <3>2 DEF StopInv, LiveIn
    <3>5. \A s \in Sessions : goal'[s] = {}
      BY <2>2, <2>7, <3>1 DEF StopInv
    <3>. QED  BY <2>5, <2>6, <3>2, <3>3, <3>4, <3>5 DEF StopInv
  <2>8. CASE w # Runner
    <3>1. w \in Sessions /\ SessionWrote(w)
      BY <1>2, <2>8 DEF Write
    <3>2. Updating' = {}
      <4>1. pc' = pc /\ pc # "halting"
        BY <2>2, <2>8, <3>1 DEF Updating, SessionWrote, tick
      <4>. QED  BY <2>5, <4>1 DEF Updating
    <3>3. \A s \in Sessions : goal'[s] = {}
      BY <2>2, <3>1 DEF StopInv, SessionWrote
    <3>4. (LiveIn(disk) \cap stopped = {})'
      <4>1. Wished(mem[w], goal[w])
        BY <2>1, <3>1 DEF StopInv
      <4>2. stopped' = (stopped \cup {g[1] : g \in goal[w]})
                         \ {d \in Deps : <<d, "live">> \in goal[w]}
        BY <3>1 DEF SessionWrote
      <4>3. ASSUME NEW d \in LiveIn(mem[w]), d \in stopped'
            PROVE  FALSE
        <5>1. d \in Deps /\ mem[w][d] = "live" /\ <<d, "live">> \notin goal[w]
          BY <4>2, <4>3 DEF LiveIn
        <5>2. d \notin stopped
          BY <4>1, <4>3, <5>1 DEF Wished
        <5>3. PICK g \in goal[w] : g[1] = d
          BY <4>2, <4>3, <5>2
        <5>4. g = <<d, g[2]>> /\ mem[w][d] = g[2]
          BY <3>1, <4>1, <5>3 DEF Wished
        <5>. QED  BY <5>1, <5>3, <5>4
      <4>. QED  BY <2>3, <4>3 DEF LiveIn
    <3>. QED  BY <2>5, <2>6, <3>2, <3>3, <3>4 DEF StopInv
  <2>. QED  BY <2>7, <2>8
<1>3. CASE Crash(w)
  <2>1. /\ stage' = [stage EXCEPT ![w] = "idle"] /\ mem' = [mem EXCEPT ![w] = Nothing]
        /\ UNCHANGED <<form, disk, stopped>>
    BY <1>3 DEF Crash, Free, file, wishes
  <2>2. pc' = IF w = Runner THEN "idle" ELSE pc
    BY <1>3 DEF Crash, tick
  <2>3. Writing' = Writing \ {w} /\ Updating' = Updating \ {w}
    BY <2>1, <2>2 DEF Writing, Updating
  <2>4. goal' = goal \/ (w \in Sessions /\ goal' = [goal EXCEPT ![w] = {}])
    BY <1>3 DEF Crash, users
  <2>5. w \in Sessions => goal'[w] = {}
    BY <1>3, <2>4 DEF Crash
  <2>6. \A s \in Sessions : goal'[s] = IF s \in Writing' THEN goal[s] ELSE {}
    BY <2>3, <2>4, <2>5 DEF StopInv
  <2>7. \A v \in Writers : stage'[v] = "truncated" => form' = "empty"
    BY <2>1 DEF StopInv
  <2>8. \A v \in Updating' : mem'[v] = mem[v]
    BY <2>1, <2>3 DEF Updating, Writing
  <2>. QED  BY <2>1, <2>3, <2>6, <2>7, <2>8, IdleStops
<1>. QED  BY <1>1, <1>2, <1>3

LEMMA CarefulFixed == [Next]_vars => careful' = careful
<1>1. \A w \in Writers : Truncate(w) \/ Write(w) \/ Crash(w) => careful' = careful
  BY DEF Truncate, Write, Crash
<1>2. \A s \in Sessions : \A asks : Click(s, asks) => careful' = careful
  BY DEF Click
<1>3. \A s \in Sessions : Dashboard(s) => careful' = careful
  <2>1. \A s \in Sessions :
           StartAll(s) \/ StopAll(s) \/ DeployPortfolio(s) \/ EditTable(s)
              => careful' = careful
    BY <1>2 DEF StartAll, StopAll, ClickAll, ClickEach, DeployPortfolio, EditTable
  <2>2. \A s \in Sessions, d \in Deps :
           Press(s, d) \/ DeployCell(s, d) \/ AddRow(s, d) \/ Rewrite(s, d) \/ EditSetting(s, d)
              => careful' = careful
    BY <1>2 DEF Press, DeployCell, AddRow, Rewrite, EditSetting
  <2>3. \A s \in Sessions :
           OpenPage(s) \/ LeavePage(s) \/ Ask(s) \/ SaveSettings(s) \/ EmergencyStop(s)
              => careful' = careful
    BY DEF OpenPage, LeavePage, Ask, SaveSettings, EmergencyStop
  <2>. QED  BY <2>1, <2>2, <2>3 DEF Dashboard
<1>4. RunnerStep => careful' = careful
  BY DEF RunnerStep, BeginTick, Enforce, Halting, Flush, EndTick, Demote, TickDeployment
<1>5. Verdict \/ SetHalting \/ UNCHANGED vars => careful' = careful
  BY DEF Verdict, SetHalting, vars
<1>. QED  BY <1>1, <1>3, <1>4, <1>5 DEF Next

(* If the updates of the file never overlap and no row is edited after it  *)
(* has changed, a stop asked by a user holds until a user asks otherwise,  *)
(* through demotions, halts, flushes, half-written files and deaths.       *)
THEOREM StopIsFinal == Spec => []StopsHold
<1> DEFINE Inv == careful => StopInv
<1>1. Init => Inv
  <2> SUFFICES ASSUME Init PROVE StopInv
    OBVIOUS
  <2>1. Updating = {} /\ Writing = {}
    BY DEF Init, Updating, Writing, Writers
  <2>. QED  BY <2>1 DEF Init, StopInv, Writers
<1>2. StoreTypeOK /\ Inv /\ [Next]_vars => Inv'
  <2> SUFFICES ASSUME StoreTypeOK, Inv, [Next]_vars, careful' PROVE StopInv'
    OBVIOUS
  <2>1. careful
    BY CarefulFixed
  <2>2. StopInv
    BY <2>1
  <2>3. CASE UNCHANGED vars \/ Verdict \/ SetHalting
    BY <2>2, <2>3 DEF Verdict, SetHalting, vars, StopInv, Wished, LiveIn, Updating, Writing,
                      file, local, users, tick, wishes
  <2>. QED  BY <2>1, <2>2, <2>3, DashboardStops, RunnerStops, WriterStops DEF Next
<1>3. Inv => StopsHold
  BY DEF StopInv, StopsHold, Tradable
<1>. QED  BY <1>1, <1>2, <1>3, StoreTypeCorrect, PTL DEF Spec
============================================================================
