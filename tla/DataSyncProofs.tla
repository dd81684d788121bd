--------------------------- MODULE DataSyncProofs ---------------------------
(***************************************************************************)
(* What holds of the candle file for any number of bars, any windows and   *)
(* any interleaving of runner and refreshers.                              *)
(*                                                                         *)
(* A fetched table is a window of the market, hence without a hole; merging*)
(* a window into a table whose tail is whole leaves its tail whole         *)
(* (MergedWhole).  DataInv says this of every table some process holds,    *)
(* and that where only the runner writes it still holds what is stored.    *)
(***************************************************************************)
EXTENDS DataSync, TLAPS

USE DataAssumption

Window(m, k) == {c \in 1 .. m : c > m - k}

LEMMA NoBarsTyped == NoBars \in Tables /\ DOMAIN NoBars = {}
<1>1. DOMAIN NoBars = {}
  BY DEF NoBars
<1>2. {} \in SUBSET NumberedBars /\ NoBars \in [{} -> BarStates]
  BY DEF NoBars
<1> QED
  BY <1>1, <1>2 DEF Tables

LEMMA TableDomain ==
  ASSUME NEW table \in Tables
  PROVE  /\ DOMAIN table \subseteq NumberedBars
         /\ DOMAIN table \subseteq Int
         /\ \A b \in DOMAIN table : table[b] \in BarStates
<1>1. PICK S \in SUBSET NumberedBars : table \in [S -> BarStates]
  BY DEF Tables
<1> QED
  BY <1>1 DEF NumberedBars

LEMMA FetchedWindow ==
  ASSUME now \in NumberedBars, NEW k \in Nat \ {0}
  PROVE  Fetched(k) \in Tables /\ DOMAIN Fetched(k) = Window(now, k)
<1>1. Window(now, k) \in SUBSET NumberedBars
  BY DEF Window, NumberedBars
<1>2. Fetched(k) = [b \in Window(now, k) |-> IF b = now THEN "forming" ELSE "closed"]
  BY DEF Fetched, Window
<1>3. Fetched(k) \in [Window(now, k) -> BarStates]
  BY <1>2 DEF BarStates
<1> QED
  BY <1>1, <1>2, <1>3 DEF Tables

\* A window has no hole.
LEMMA WindowWhole ==
  ASSUME NEW table \in Tables, NEW m \in NumberedBars, NEW k \in Nat \ {0},
         DOMAIN table = Window(m, k)
  PROVE  WholeTail(table)
  BY DEF WholeTail, Window, NumberedBars

LEMMA EmptyWhole == WholeTail(NoBars)
  BY NoBarsTyped DEF WholeTail

LEMMA MergedTyped ==
  ASSUME NEW old \in Tables, NEW bars \in Tables
  PROVE  /\ Merged(old, bars) \in Tables
         /\ DOMAIN Merged(old, bars) = DOMAIN old \cup NewOnly(old, bars)
         /\ \A b \in DOMAIN old : Merged(old, bars)[b] = old[b]
<1> DEFINE D == DOMAIN old \cup NewOnly(old, bars)
<1>1. D \in SUBSET NumberedBars
  BY TableDomain DEF NewOnly
<1>2. Merged(old, bars) = [b \in D |-> IF b \in DOMAIN old THEN old[b] ELSE bars[b]]
  BY DEF Merged
<1>3. \A b \in D : (IF b \in DOMAIN old THEN old[b] ELSE bars[b]) \in BarStates
  BY TableDomain DEF NewOnly
<1> HIDE DEF D
<1>4. Merged(old, bars) \in [D -> BarStates]
  BY <1>2, <1>3
<1>5. \A b \in DOMAIN old : b \in D
  BY DEF D
<1> QED
  BY <1>1, <1>2, <1>4, <1>5 DEF Tables, D

\* Appending the new bars of a window keeps the tail whole and ends no earlier
\* than the window.
LEMMA MergedWhole ==
  ASSUME NEW old \in Tables, WholeTail(old), NEW bars \in Tables,
         NEW m \in NumberedBars, DOMAIN bars = Window(m, Count)
  PROVE  /\ WholeTail(Merged(old, bars))
         /\ \A b \in DOMAIN bars : \E c \in DOMAIN Merged(old, bars) : c >= b
<1> DEFINE D == DOMAIN Merged(old, bars)
           O == DOMAIN old
           New == NewOnly(old, bars)
           W == DOMAIN bars
<1>1. /\ D = O \cup New /\ O \subseteq NumberedBars /\ O \subseteq Int
      /\ New = {b \in W : \A c \in O : b > c}
      /\ W = {c \in 1 .. m : c > m - Count}
      /\ m \in Int /\ m <= MaxBar /\ Count \in Int /\ MaxBar \in Int
  <2>1. D = O \cup New
    BY MergedTyped
  <2>2. O \subseteq NumberedBars /\ O \subseteq Int
    BY TableDomain
  <2>3. New = {b \in W : \A c \in O : b > c}
    BY DEF NewOnly
  <2>4. W = {c \in 1 .. m : c > m - Count}
    BY DEF Window
  <2>5. m \in Int /\ m <= MaxBar /\ Count \in Int /\ MaxBar \in Int
    BY DEF NumberedBars
  <2> QED
    BY <2>1, <2>2, <2>3, <2>4, <2>5
<1>2. \A g \in NumberedBars \ O : (\E a, c \in O : a < g /\ g < c)
         => \E d \in NumberedBars : d > g /\ d .. d + Count - 1 \subseteq O
  BY DEF WholeTail
<1> HIDE DEF D, O, New, W
<1>3. \A b \in W : \E c \in D : c >= b
  <2> SUFFICES ASSUME NEW b \in W PROVE \E c \in D : c >= b
    OBVIOUS
  <2>1. CASE \A c \in O : b > c
    BY <1>1, <2>1
  <2>2. CASE ~ \A c \in O : b > c
    BY <1>1, <2>2
  <2> QED
    BY <2>1, <2>2
<1>4. ASSUME NEW g \in NumberedBars \ D, NEW a \in D, NEW c \in D, a < g, g < c
      PROVE  \E d \in NumberedBars : d > g /\ d .. d + Count - 1 \subseteq D
  <2>1. g \in Int /\ g >= 1 /\ g \notin O /\ g \notin New /\ a \in Int /\ c \in Int
    BY <1>1, <1>4 DEF NumberedBars
  <2>2. CASE \E e \in O : e > g
    <3>1. PICK e \in O : e > g
      BY <2>2
    <3>2. a \in O
      BY <1>1, <1>4, <2>1, <3>1
    <3> QED
      BY <1>1, <1>2, <1>4, <2>1, <3>1, <3>2
  <2>3. CASE \A e \in O : e < g
    <3>1. c \in New /\ c \in W /\ c <= m
      BY <1>1, <1>4, <2>1, <2>3
    <3>2. g \notin W
      BY <1>1, <2>1, <2>3
    <3>3. g <= m - Count
      BY <1>1, <1>4, <2>1, <3>1, <3>2
    <3>4. W \subseteq New
      BY <1>1, <2>1, <2>3, <3>3
    <3>5. m - Count + 1 \in NumberedBars /\ m - Count + 1 > g
      BY <1>1, <2>1, <3>3 DEF NumberedBars
    <3>6. (m - Count + 1) .. (m - Count + 1) + Count - 1 \subseteq W
      BY <1>1, <2>1, <3>3
    <3> QED
      BY <1>1, <3>4, <3>5, <3>6
  <2> QED
    BY <1>1, <2>1, <2>2, <2>3
<1>5. WholeTail(Merged(old, bars))
  BY <1>4 DEF WholeTail, D
<1> QED
  BY <1>3, <1>5 DEF D, W

-----------------------------------------------------------------------------
(* The inductive invariant.                                                *)

Held(table) == table \in Tables /\ WholeTail(table)

DataInv ==
  /\ DataTypeOK
  /\ Held(disk.bars)
  /\ Held(loaded)
  /\ \A r \in Refreshers : Held(copy[r])
  /\ pc = "fetched" => \E m \in NumberedBars : DOMAIN fresh = Window(m, Count)
  /\ helpers = {} => /\ disk.is # "torn"
                     /\ pc # "idle" => loaded = disk.bars

LEMMA InitData == Init => DataInv
<1> SUFFICES ASSUME Init PROVE DataInv
  OBVIOUS
<1> QED
  BY NoBarsTyped, EmptyWhole DEF Init, DataInv, DataTypeOK, Held, Files, NumberedBars

\* What a sync may store.
LEMMA ViewHeld ==
  ASSUME DataInv, pc = "fetched"
  PROVE  /\ Held(View)
         /\ \A b \in DOMAIN fresh : \E c \in DOMAIN View : c >= b
         /\ \A b \in DOMAIN loaded : b \in DOMAIN View /\ View[b] = loaded[b]
<1>1. loaded \in Tables /\ fresh \in Tables /\ WholeTail(loaded)
  BY DEF DataInv, DataTypeOK, Held
<1>2. PICK m \in NumberedBars : DOMAIN fresh = Window(m, Count)
  BY DEF DataInv
<1> QED
  BY <1>1, <1>2, MergedTyped, MergedWhole DEF Held, View

LEMMA SyncKeeps == ASSUME DataInv, Sync PROVE DataInv'
<1> USE NoBarsTyped, EmptyWhole
<1>1. CASE LoadExisting
  BY <1>1 DEF LoadExisting, DataInv, DataTypeOK, Held, Files
<1>2. CASE LiveFetch
  <2>1. Fetched(Count) \in Tables /\ DOMAIN Fetched(Count) = Window(now, Count)
    BY FetchedWindow DEF DataInv, DataTypeOK
  <2> QED
    BY <1>2, <2>1 DEF LiveFetch, DataInv, DataTypeOK, Held
<1>3. CASE LiveFetchFails
  BY <1>3 DEF LiveFetchFails, Idle, DataInv, DataTypeOK, Held
<1>4. CASE CaughtUp
  BY <1>4 DEF CaughtUp, Idle, DataInv, DataTypeOK, Held
<1>5. CASE AtomicSave
  <2>1. Held(View)
    BY <1>5, ViewHeld DEF AtomicSave
  <2>2. disk' = [is |-> "whole", bars |-> View]
    BY <1>5 DEF AtomicSave, File, View
  <2>3. stage' \in [Refreshers -> {"idle", "checked", "fetched", "writing", "clashing",
                                   "orphaned"}]
    BY <1>5 DEF AtomicSave, DataInv, DataTypeOK
  <2> QED
    BY <1>5, <2>1, <2>2, <2>3 DEF AtomicSave, Idle, DataInv, DataTypeOK, Held, Files
<1>6. CASE AtomicSaveFails
  BY <1>6 DEF AtomicSaveFails, Idle, DataInv, DataTypeOK, Held
<1>7. CASE KillRunner
  BY <1>7 DEF KillRunner, Idle, DataInv, DataTypeOK, Held
<1> QED
  BY <1>1, <1>2, <1>3, <1>4, <1>5, <1>6, <1>7 DEF Sync

LEMMA RefreshKeeps == ASSUME DataInv, NEW r \in helpers, Refresh(r) PROVE DataInv'
<1> USE NoBarsTyped, EmptyWhole
<1>1. r \in Refreshers /\ helpers # {} /\ helpers \in SUBSET Refreshers
  BY DEF DataInv, DataTypeOK
<1>2. CASE LoadOld(r)
  BY <1>1, <1>2 DEF LoadOld, Move, runner, DataInv, DataTypeOK, Held
<1>3. CASE FetchFromBridge(r)
  <2>1. Fetched(Depth) \in Tables /\ DOMAIN Fetched(Depth) = Window(now, Depth)
    BY FetchedWindow DEF DataInv, DataTypeOK
  <2>2. Held(Fetched(Depth))
    BY <2>1, WindowWhole DEF Held, DataInv, DataTypeOK
  <2>3. copy' \in [Refreshers -> Tables] /\ \A o \in Refreshers : Held(copy'[o])
    BY <1>1, <1>3, <2>2 DEF FetchFromBridge, Held, DataInv, DataTypeOK
  <2> QED
    BY <1>1, <1>3, <2>3 DEF FetchFromBridge, Move, runner, DataInv, DataTypeOK, Held
<1>4. CASE FetchFromBridgeFails(r)
  BY <1>1, <1>4 DEF FetchFromBridgeFails, Move, runner, DataInv, DataTypeOK, Held
<1>5. CASE SaveParquet(r)
  <2>1. stage' \in [Refreshers -> {"idle", "checked", "fetched", "writing", "clashing",
                                   "orphaned"}]
    BY <1>5 DEF SaveParquet, DataInv, DataTypeOK
  <2> QED
    BY <1>1, <1>5, <2>1 DEF SaveParquet, Torn, runner, DataInv, DataTypeOK, Held, Files
<1>6. CASE SaveParquetDone(r)
  <2>1. disk' \in Files /\ Held(disk'.bars)
    BY <1>1, <1>6 DEF SaveParquetDone, File, Torn, DataInv, DataTypeOK, Held, Files
  <2>2. copy' \in [Refreshers -> Tables] /\ \A o \in Refreshers : Held(copy'[o])
    BY <1>1, <1>6 DEF SaveParquetDone, Held, DataInv, DataTypeOK
  <2> QED
    BY <1>1, <1>6, <2>1, <2>2 DEF SaveParquetDone, Move, runner, DataInv, DataTypeOK, Held
<1>7. CASE KillRefresher(r)
  <2>1. copy' \in [Refreshers -> Tables] /\ \A o \in Refreshers : Held(copy'[o])
    BY <1>1, <1>7 DEF KillRefresher, Held, DataInv, DataTypeOK
  <2> QED
    BY <1>1, <1>7, <2>1 DEF KillRefresher, Move, runner, DataInv, DataTypeOK, Held
<1> QED
  BY <1>2, <1>3, <1>4, <1>5, <1>6, <1>7 DEF Refresh

LEMMA DataHolds == Spec => []DataInv
<1>1. DataInv /\ [Next]_vars => DataInv'
  <2> SUFFICES ASSUME DataInv, [Next]_vars PROVE DataInv'
    OBVIOUS
  <2>1. CASE Sync
    BY <2>1, SyncKeeps
  <2>2. CASE NewBar
    BY <2>2 DEF NewBar, runner, DataInv, DataTypeOK, Held, NumberedBars
  <2>3. CASE \E r \in helpers : Refresh(r)
    BY <2>3, RefreshKeeps
  <2>4. CASE UNCHANGED vars
    BY <2>4 DEF vars, runner, DataInv, DataTypeOK, Held
  <2> QED
    BY <2>1, <2>2, <2>3, <2>4 DEF Next
<1> QED
  BY InitData, <1>1, PTL DEF Spec

-----------------------------------------------------------------------------
(* The theorems.                                                           *)

\* The file and what its writers hold are well formed, for any windows.
THEOREM DataTypeCorrect == Spec => []DataTypeOK
<1>1. DataInv => DataTypeOK
  BY DEF DataInv
<1> QED
  BY <1>1, DataHolds, PTL

\* No hole among the last Count bars of the file or of the runner's view, and
\* a view that reaches the newest bar fetched, for any windows and writers.
THEOREM NoRecentHole == Spec => []RecentBarsWhole
<1>1. DataInv => RecentBarsWhole
  BY ViewHeld DEF DataInv, Held, RecentBarsWhole
<1> QED
  BY <1>1, DataHolds, PTL

\* Without refreshers no step of the runner, a kill included, loses a stored
\* bar, turns a closed one back into a forming one or tears the file.
THEOREM AloneKeeps == Spec => KeptAlone
<1>1. ASSUME DataInv, Next, helpers = {}
      PROVE  /\ disk'.is # "torn"
             /\ \A b \in Stored : b \in Stored' /\ disk'.bars[b] = disk.bars[b]
  <2>1. CASE AtomicSave
    <3>1. disk' = [is |-> "whole", bars |-> View] /\ loaded = disk.bars
      BY <1>1, <2>1 DEF AtomicSave, File, View, DataInv
    <3>2. \A b \in DOMAIN loaded : b \in DOMAIN View /\ View[b] = loaded[b]
      BY <1>1, <2>1, ViewHeld DEF AtomicSave
    <3> QED
      BY <3>1, <3>2 DEF Stored
  <2>2. CASE ~ AtomicSave
    <3>1. UNCHANGED disk
      BY <1>1, <2>2 DEF Next, Sync, NewBar, LoadExisting, LiveFetch, LiveFetchFails,
         CaughtUp, AtomicSaveFails, KillRunner
    <3> QED
      BY <1>1, <3>1 DEF Stored, DataInv
  <2> QED
    BY <2>1, <2>2
<1>2. DataInv /\ [Next]_vars =>
        [helpers = {} =>
           /\ disk'.is # "torn"
           /\ \A b \in Stored : /\ b \in Stored'
                                /\ disk.bars[b] = "closed" => disk'.bars[b] = "closed"]_vars
  BY <1>1
<1> QED
  BY <1>2, DataHolds, PTL DEF Spec, KeptAlone
=============================================================================
