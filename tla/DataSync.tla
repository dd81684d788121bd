------------------------------ MODULE DataSync ------------------------------
(***************************************************************************)
(* The candle file of one market and time frame, data/<TICKER>_<TF>        *)
(* .parquet, and its writers.                                              *)
(*                                                                         *)
(* The runner calls sync_to_now (core/data_sync.py) on every tick: load,   *)
(* fetch the last Count bars, append those newer than the last stored one, *)
(* and replace the file by a renamed temporary one.  The temporary file is *)
(* read by nobody, so writing and renaming it is one step.                 *)
(*                                                                         *)
(* The refreshers, scripts/refresh_all_data.py ("script") and the Data     *)
(* Manager page ("page"), fetch Depth bars and write the file itself in    *)
(* place (save_parquet): it is torn from the opening to the last byte, and *)
(* for good when the writer is killed in between.  A rename under an open  *)
(* file leaves the writer with a file that has no name any more.           *)
(*                                                                         *)
(* A bar is its number and whether it was closed when it was fetched: the  *)
(* advisor's CopyRates starts with the bar still forming.                  *)
(***************************************************************************)
EXTENDS Integers

CONSTANTS
  Refreshers,    \* the processes that may refresh: "script", "page"
  Count,         \* max_history_bars of the runner
  Depth,         \* bars a refresher asks for
  MaxBar,        \* bound: bars that open
  MaxKills       \* bound: writers killed, the runner included

ASSUME DataAssumption ==
  /\ Refreshers \subseteq {"script", "page"}
  /\ Count \in Nat \ {0}
  /\ Depth \in Nat \ {0}
  /\ MaxBar \in Nat \ {0}
  /\ MaxKills \in Nat

VARIABLES
  helpers,       \* frozen: the refreshers ever used
  now,           \* the market: the bar that is forming
  disk,          \* the file: missing, torn (unreadable) or whole, and its bars
  pc,            \* the runner: idle, loaded or fetched
  loaded,        \* existing: the bars it loaded, empty for None
  fresh,         \* the bars it fetched
  stage,         \* refreshers: idle, checked, fetched, writing, clashing, orphaned
  copy,          \* the bars they fetched
  kills

runner == <<pc, loaded, fresh>>
vars == <<helpers, now, disk, runner, stage, copy, kills>>

NumberedBars == 1 .. MaxBar
BarStates == {"forming", "closed"}
Tables == UNION {[S -> BarStates] : S \in SUBSET NumberedBars}
NoBars == [b \in {} |-> "closed"]

File(bars) == [is |-> "whole", bars |-> bars]
Torn == [is |-> "torn", bars |-> NoBars]
Files == [is : {"missing", "torn", "whole"}, bars : Tables]

Stored == DOMAIN disk.bars

\* One bar before the oldest is fetched as well.
Fetched_Shifted(k) ==
  [b \in {c \in 0 .. now : c >= now - k} |-> IF b = now THEN "forming" ELSE "closed"]

\* The last k bars of the market, as the bridge returns them now.
Fetched(k) ==
  [b \in {c \in 1 .. now : c > now - k} |-> IF b = now THEN "forming" ELSE "closed"]

-----------------------------------------------------------------------------
(* sync_to_now                                                             *)

\* Only the newest bar is appended.
NewOnly_Last(existing, bars) ==
  {b \in DOMAIN bars : b \notin DOMAIN existing /\ \A c \in DOMAIN bars : c <= b}

\* Bars that would leave a hole are not appended.
NewOnly_Joined(existing, bars) ==
  {b \in DOMAIN bars :
     \A c \in DOMAIN existing : b > c /\ \A g \in c + 1 .. b : g \in DOMAIN existing \cup DOMAIN bars}

\* The fetched bars after the last stored one, all if nothing is stored.
NewOnly(existing, bars) ==
  {b \in DOMAIN bars : \A c \in DOMAIN existing : b > c}

\* The fetched bars alone.
Merged_Fresh(existing, bars) == IF NewOnly(existing, bars) = {} THEN existing ELSE bars

Merged(existing, bars) ==
  [b \in DOMAIN existing \cup NewOnly(existing, bars) |->
     IF b \in DOMAIN existing THEN existing[b] ELSE bars[b]]

\* What sync_to_now returns after a successful fetch.
View == Merged(loaded, fresh)

Idle ==
  /\ pc' = "idle"
  /\ loaded' = NoBars
  /\ fresh' = NoBars

\* A missing or unreadable file is treated as empty.
LoadExisting ==
  /\ pc = "idle"
  /\ pc' = "loaded"
  /\ loaded' = disk.bars
  /\ UNCHANGED <<helpers, now, disk, fresh, stage, copy, kills>>

LiveFetch ==
  /\ pc = "loaded"
  /\ pc' = "fetched"
  /\ fresh' = Fetched(Count)
  /\ UNCHANGED <<helpers, now, disk, loaded, stage, copy, kills>>

\* The fetcher failed or returned nothing: existing is returned.
LiveFetchFails ==
  /\ pc = "loaded"
  /\ Idle
  /\ UNCHANGED <<helpers, now, disk, stage, copy, kills>>

\* No new bar, no write.
CaughtUp ==
  /\ pc = "fetched"
  /\ NewOnly(loaded, fresh) = {}
  /\ Idle
  /\ UNCHANGED <<helpers, now, disk, stage, copy, kills>>

\* _atomic_save
AtomicSave ==
  /\ pc = "fetched"
  /\ NewOnly(loaded, fresh) # {}
  /\ disk' = File(Merged(loaded, fresh))
  /\ stage' = [r \in Refreshers |->
                 IF stage[r] \in {"writing", "clashing"} THEN "orphaned" ELSE stage[r]]
  /\ Idle
  /\ UNCHANGED <<helpers, now, copy, kills>>

\* Validation, the temporary file or the rename fails: the error is logged.
AtomicSaveFails ==
  /\ pc = "fetched"
  /\ NewOnly(loaded, fresh) # {}
  /\ Idle
  /\ UNCHANGED <<helpers, now, disk, stage, copy, kills>>

KillRunner ==
  /\ kills < MaxKills
  /\ pc # "idle"
  /\ kills' = kills + 1
  /\ Idle
  /\ UNCHANGED <<helpers, now, disk, stage, copy>>

-----------------------------------------------------------------------------
(* refresh_one and _refresh_one                                            *)

Move(r, to) == stage' = [stage EXCEPT ![r] = to]

\* The script loads the file for its report, and skips the market if it cannot.
LoadOld(r) ==
  /\ r = "script"
  /\ stage[r] = "idle"
  /\ disk.is # "torn"
  /\ Move(r, "checked")
  /\ UNCHANGED <<helpers, now, disk, runner, copy, kills>>

FetchFromBridge(r) ==
  /\ stage[r] = IF r = "script" THEN "checked" ELSE "idle"
  /\ Move(r, "fetched")
  /\ copy' = [copy EXCEPT ![r] = Fetched(Depth)]
  /\ UNCHANGED <<helpers, now, disk, runner, kills>>

FetchFromBridgeFails(r) ==
  /\ stage[r] = "checked"
  /\ Move(r, "idle")
  /\ UNCHANGED <<helpers, now, disk, runner, copy, kills>>

\* save_parquet opens the file, which empties it.
SaveParquet(r) ==
  /\ stage[r] = "fetched"
  /\ disk' = Torn
  /\ LET others == {o \in Refreshers \ {r} : stage[o] \in {"writing", "clashing"}}
     IN  stage' = [o \in Refreshers |->
                     CASE o \in others -> "clashing"
                       [] o = r -> IF others = {} THEN "writing" ELSE "clashing"
                       [] OTHER -> stage[o]]
  /\ UNCHANGED <<helpers, now, runner, copy, kills>>

\* Two writers of one file may leave it torn.
SaveParquetDone(r) ==
  /\ stage[r] \in {"writing", "clashing", "orphaned"}
  /\ \/ stage[r] # "orphaned" /\ disk' = File(copy[r])
     \/ stage[r] = "clashing" /\ disk' = Torn
     \/ stage[r] = "orphaned" /\ UNCHANGED disk
  /\ Move(r, "idle")
  /\ copy' = [copy EXCEPT ![r] = NoBars]
  /\ UNCHANGED <<helpers, now, runner, kills>>

KillRefresher(r) ==
  /\ kills < MaxKills
  /\ stage[r] # "idle"
  /\ kills' = kills + 1
  /\ Move(r, "idle")
  /\ copy' = [copy EXCEPT ![r] = NoBars]
  /\ UNCHANGED <<helpers, now, disk, runner>>

-----------------------------------------------------------------------------
\* The market: the forming bar closes, the next one opens.
NewBar ==
  /\ now < MaxBar
  /\ now' = now + 1
  /\ UNCHANGED <<helpers, disk, runner, stage, copy, kills>>

Init ==
  /\ helpers \in SUBSET Refreshers
  /\ now = 1
  /\ disk = [is |-> "missing", bars |-> NoBars]
  /\ pc = "idle"
  /\ loaded = NoBars
  /\ fresh = NoBars
  /\ stage = [r \in Refreshers |-> "idle"]
  /\ copy = [r \in Refreshers |-> NoBars]
  /\ kills = 0

Sync ==
  \/ LoadExisting
  \/ LiveFetch
  \/ LiveFetchFails
  \/ CaughtUp
  \/ AtomicSave
  \/ AtomicSaveFails
  \/ KillRunner

Refresh(r) ==
  \/ LoadOld(r)
  \/ FetchFromBridge(r)
  \/ FetchFromBridgeFails(r)
  \/ SaveParquet(r)
  \/ SaveParquetDone(r)
  \/ KillRefresher(r)

Next == Sync \/ NewBar \/ \E r \in helpers : Refresh(r)

Spec == Init /\ [][Next]_vars

\* The runner ticks for ever; bridge and disk do not fail every time.
FairSpec ==
  /\ Spec
  /\ WF_vars(LoadExisting)
  /\ SF_vars(LiveFetch)
  /\ WF_vars(CaughtUp)
  /\ SF_vars(AtomicSave)

-----------------------------------------------------------------------------
(* Properties.                                                             *)

\* The file, the bars held by the writers and their stages are well formed.
DataTypeOK ==
  /\ helpers \in SUBSET Refreshers
  /\ now \in NumberedBars
  /\ disk \in Files
  /\ pc \in {"idle", "loaded", "fetched"}
  /\ loaded \in Tables
  /\ fresh \in Tables
  /\ stage \in [Refreshers -> {"idle", "checked", "fetched", "writing", "clashing",
                               "orphaned"}]
  /\ copy \in [Refreshers -> Tables]
  /\ kills \in 0 .. MaxKills

\* A bar may be missing (the runner was away for longer than Count bars), but
\* never among the last Count ones: what strategies and backtests look at has
\* no hole, whoever wrote the file in between.
WholeTail(table) ==
  \A m \in NumberedBars \ DOMAIN table :
    (\E a, c \in DOMAIN table : a < m /\ m < c)
      => \E d \in NumberedBars : d > m /\ d .. d + Count - 1 \subseteq DOMAIN table

\* After a fetch the runner also sees the newest bar of the market it fetched.
RecentBarsWhole ==
  /\ WholeTail(disk.bars)
  /\ pc = "fetched" =>
       /\ WholeTail(View)
       /\ \A b \in DOMAIN fresh : \E c \in DOMAIN View : c >= b

\* "don't corrupt good data with bad fetch", "never half" (data_sync.py): where
\* only the runner writes, no stored bar is lost, none that was stored closed
\* goes back to a forming one, and the file is never torn, whatever fails and
\* whenever the runner is killed.  (A bar stored while it was forming may well
\* be replaced by the closed one; sync_to_now never does it.)
KeptAlone ==
  [][helpers = {} =>
       /\ disk'.is # "torn"
       /\ \A b \in Stored : /\ b \in Stored'
                            /\ disk.bars[b] = "closed" => disk'.bars[b] = "closed"]_vars

\* "parquet is always within ~poll_seconds of the live market"
\* (deployment_runner.py): every bar that opens reaches the file, which also
\* means that a torn file is repaired.
BarsReachDisk ==
  \A b \in NumberedBars : now >= b ~> \E c \in Stored : c >= b
=============================================================================
