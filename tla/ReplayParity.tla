---------------------------- MODULE ReplayParity ----------------------------
(***************************************************************************)
(* The two engines that must agree before a strategy may trade             *)
(* (INVARIANT-2): core/backtest.py, which keeps its one position in local  *)
(* variables, and core/replay.py, which walks the same bars with the       *)
(* PaperExecutor the runner uses.  core/parity_check.py runs both on the   *)
(* same candles, signals and time guards and compares trades and money.    *)
(*                                                                         *)
(* One action handles one bar in both engines, each in its own order of    *)
(* levels, holding time, forced flats, entry, end of data and marking.     *)
(* The candles and what the strategy emits on them are chosen bar by bar;  *)
(* both engines index the signals by bar, so that the last one of a bar    *)
(* counts, and neither looks at later bars.                                *)
(*                                                                         *)
(* What a fill slips on a bar (a fraction of its ATR) is part of the bar.  *)
(* The signal's stop and target lie at a multiple of its risk from its     *)
(* entry, the bar's close, so that the geometry checks, which raise, never *)
(* fail.  Money is an integer and so are lots (PositionSizer).             *)
(***************************************************************************)
EXTENDS PositionSizer, TimeGuards, Sequences, FiniteSets

CONSTANTS
  Bars,          \* the candles: lo, cl, hi and what a fill slips
  Emissions,     \* what a strategy emits on one bar: sequences of dir, risk, hold
  Calendars,     \* the opening minutes of the bars of a run, in order
  Configs,       \* time guards and sizing of a run
  Class,         \* the asset class of the symbol
  Symbol,        \* its volumes and tick value
  RiskPct,       \* what one trade may lose, in percent
  StartBalance,
  Commission     \* paid when a trade closes

Directions == {"LONG", "SHORT"}
Signals == [dir : Directions, risk : Nat \ {0}, hold : Nat]

ASSUME BarsAssumption ==
  Bars \subseteq [lo : Int, cl : Int, hi : Int, slip : Nat]
ASSUME EmissionsAssumption == Emissions \subseteq Seq(Signals)
ASSUME CalendarsAssumption == Calendars \subseteq Seq(Nat)
ASSUME MoneyAssumption ==
  /\ StartBalance \in Int
  /\ RiskPct \in Int
  /\ Commission \in Int
  /\ Symbol \in [step : Nat \ {0}, min : Nat \ {0}, max : Nat \ {0}, tick : Nat \ {0}]

ASSUME ConfigsAssumption ==
  Configs \subseteq [weekend : BOOLEAN, daily : BOOLEAN, classes : SUBSET STRING,
                     close : Int, buffer : Nat, noEntry : Nat, running : BOOLEAN]

VARIABLES
  cfg,           \* frozen: the TimeGuardCfg and sizing_uses_running_balance
  times,         \* frozen: the calendar of the run
  i,             \* bars handled so far
  bt,            \* run_backtest's position, balance, equity, the trades of this
                 \* bar and the sum of what all trades realized
  rp             \* replay_run's

vars == <<cfg, times, i, bt, rp>>

n == Len(times)

\* The median distance between two bars, 0 for a single bar.
Gap(k) == times[k + 1] - times[k]
Ranked(h) ==
  Gap(CHOOSE k \in 1 .. n - 1 :
        /\ Cardinality({j \in 1 .. n - 1 : Gap(j) < Gap(k)}) <= h
        /\ Cardinality({j \in 1 .. n - 1 : Gap(j) <= Gap(k)}) > h)
TfMinutes ==
  IF n < 2 THEN 0 ELSE (Ranked((n - 2) \div 2) + Ranked((n - 1) \div 2)) \div 2

BarClose(k) == times[k] + TfMinutes

-----------------------------------------------------------------------------
(* Positions, closed trades and the state of an engine.                    *)

\* No open position.
Flat == [dir |-> "none", entry |-> 0, fill |-> 0, stop |-> 0, target |-> 0,
         lots |-> 0, at |-> 0, hold |-> 0]

Positions ==
  [dir : Directions, entry : Int, fill : Int, stop : Int, target : Int,
   lots : Int, at : Nat, hold : Nat] \cup {Flat}

Reasons == {"stop", "target", "time", "weekend_flat", "daily_close_flat", "end_of_data"}

Trades == [dir : Directions, at : Nat, out : Nat, lots : Int, pnl : Int, reason : Reasons]

Books == [pos : Positions, balance : Int, equity : Int, closed : Seq(Trades),
          realized : Int]

Holds(b) == b.pos # Flat

\* The trade of a position closed on bar k.
TradeOf(pos, k, pnl, reason) ==
  [dir |-> pos.dir, at |-> pos.at, out |-> k, lots |-> pos.lots, pnl |-> pnl,
   reason |-> reason]

Sign(dir) == IF dir = "LONG" THEN 1 ELSE -1

\* The levels of a signal seen on a bar.
StopOf(sig, bar)   == bar.cl - Sign(sig.dir) * sig.risk
TargetOf(sig, bar) == bar.cl + Sign(sig.dir) * sig.risk

\* The lots of a signal, 0 when sizing refuses it.
LotsFor(b, sig, bar) ==
  CalcLots(IF cfg.running THEN b.balance ELSE StartBalance,
           RiskPct, bar.cl, StopOf(sig, bar), Symbol, 0, 0)

HitStop(pos, bar) ==
  IF pos.dir = "LONG" THEN bar.lo <= pos.stop ELSE bar.hi >= pos.stop
HitTarget(pos, bar) ==
  IF pos.dir = "LONG" THEN bar.hi >= pos.target ELSE bar.lo <= pos.target

-----------------------------------------------------------------------------
(* core/backtest.py                                                        *)

\* The bug of the first version: what a trade realizes is not booked.
ClosedAtBar_NotBooked(b, k, bar, level, reason) ==
  LET exit == IF b.pos.dir = "LONG" THEN level - bar.slip ELSE level + bar.slip
      pnl  == (exit - b.pos.fill) * Sign(b.pos.dir) * b.pos.lots * Symbol.tick - Commission
  IN  [b EXCEPT !.pos = Flat,
                !.closed = Append(@, TradeOf(b.pos, k, pnl, reason)),
                !.realized = @ + pnl]

\* _close_at_bar
ClosedAtBar(b, k, bar, level, reason) ==
  LET exit == IF b.pos.dir = "LONG" THEN level - bar.slip ELSE level + bar.slip
      pnl  == (exit - b.pos.fill) * Sign(b.pos.dir) * b.pos.lots * Symbol.tick - Commission
  IN  [pos |-> Flat,
       balance |-> b.balance + pnl,
       equity |-> b.equity,
       closed |-> Append(b.closed, TradeOf(b.pos, k, pnl, reason)),
       realized |-> b.realized + TradeOf(b.pos, k, pnl, reason).pnl]

\* Stop, target or holding time of a position opened on an earlier bar.
Levels(b, k, bar) ==
  CASE ~ Holds(b) -> b
    [] Holds(b) /\ HitStop(b.pos, bar) -> ClosedAtBar(b, k, bar, b.pos.stop, "stop")
    [] Holds(b) /\ ~ HitStop(b.pos, bar) /\ HitTarget(b.pos, bar) ->
         ClosedAtBar(b, k, bar, b.pos.target, "target")
    [] Holds(b) /\ ~ HitStop(b.pos, bar) /\ ~ HitTarget(b.pos, bar) ->
         IF b.pos.hold > 0 /\ k >= b.pos.at + b.pos.hold
         THEN ClosedAtBar(b, k, bar, bar.cl, "time") ELSE b

\* run_parity's enforce_daily_flat = bool(daily_close_flat_classes); the replay
\* has the flag of the configuration.
EnforceDaily == cfg.classes # {}
GuardsActive == (cfg.weekend \/ EnforceDaily \/ cfg.noEntry > 0) /\ TfMinutes > 0

\* On a Friday the daily flat is looked at before the weekend's.
ForcedFlat_DailyFirst(b, k, bar) ==
  CASE ~ (Holds(b) /\ GuardsActive) -> b
    [] Holds(b) /\ GuardsActive /\ EnforceDaily
         /\ NeedsDailyFlat(Class, BarClose(k), cfg) ->
         ClosedAtBar(b, k, bar, bar.cl, "daily_close_flat")
    [] OTHER -> IF NeedsWeekendFlat(BarClose(k), cfg)
                THEN ClosedAtBar(b, k, bar, bar.cl, "weekend_flat") ELSE b

ForcedFlat(b, k, bar) ==
  CASE ~ (Holds(b) /\ GuardsActive) -> b
    [] Holds(b) /\ GuardsActive /\ NeedsWeekendFlat(BarClose(k), cfg) ->
         ClosedAtBar(b, k, bar, bar.cl, "weekend_flat")
    [] Holds(b) /\ GuardsActive /\ ~ NeedsWeekendFlat(BarClose(k), cfg) ->
         IF EnforceDaily /\ NeedsDailyFlat(Class, BarClose(k), cfg)
         THEN ClosedAtBar(b, k, bar, bar.cl, "daily_close_flat") ELSE b

\* Step 2: the signal of the bar, unless held, too late or refused by sizing.
Entered(b, k, bar, sigs) ==
  IF \/ Holds(b) \/ sigs = <<>>
     \/ cfg.noEntry > 0 /\ TfMinutes > 0 /\ InNoEntryWindow(BarClose(k), cfg)
     \/ LotsFor(b, sigs[Len(sigs)], bar) = 0
  THEN b
  ELSE LET sig == sigs[Len(sigs)]
       IN  [b EXCEPT !.pos =
              [dir |-> sig.dir, entry |-> bar.cl,
               fill |-> IF sig.dir = "LONG" THEN bar.cl + bar.slip ELSE bar.cl - bar.slip,
               stop |-> StopOf(sig, bar), target |-> TargetOf(sig, bar),
               lots |-> LotsFor(b, sig, bar), at |-> k, hold |-> sig.hold]]

EndOfData(b, k, bar) ==
  IF Holds(b) /\ k = n THEN ClosedAtBar(b, k, bar, bar.cl, "end_of_data") ELSE b

Marked(b, bar) ==
  LET floating == (bar.cl - b.pos.fill) * Sign(b.pos.dir) * b.pos.lots * Symbol.tick
  IN  [b EXCEPT !.equity = IF Holds(b) THEN b.balance + floating ELSE b.balance]

BacktestBar(b, k, bar, sigs) ==
  LET resolved == ForcedFlat(Levels([b EXCEPT !.closed = <<>>], k, bar), k, bar)
  IN  Marked(EndOfData(Entered(resolved, k, bar, sigs), k, bar), bar)

-----------------------------------------------------------------------------
(* core/paper_executor.py and core/replay.py                               *)

EntrySlipped(dir, price, slip) == IF dir = "LONG" THEN price + slip ELSE price - slip
ExitSlipped(dir, level, slip)  == IF dir = "LONG" THEN level - slip ELSE level + slip
RealizedPnl(dir, fill, exit, lots, commission) ==
  (exit - fill) * Sign(dir) * lots * Symbol.tick - commission

\* PaperExecutor._close_at_level, and the trade booked by replay_run
ClosedAtLevel(b, k, bar, level, reason) ==
  LET exit == ExitSlipped(b.pos.dir, level, bar.slip)
      pnl  == RealizedPnl(b.pos.dir, b.pos.fill, exit, b.pos.lots, Commission)
  IN  [pos |-> Flat,
       balance |-> b.balance + pnl,
       equity |-> b.equity,
       closed |-> Append(b.closed, TradeOf(b.pos, k, pnl, reason)),
       realized |-> b.realized + TradeOf(b.pos, k, pnl, reason).pnl]

\* The forced flat is looked at before the levels.
UpdateBar_FlatFirst(b, k, bar) ==
  IF Holds(b) /\ TfMinutes > 0 /\ NeedsWeekendFlat(BarClose(k), cfg)
  THEN ClosedAtLevel(b, k, bar, bar.cl, "weekend_flat")
  ELSE CASE ~ Holds(b) -> b
         [] Holds(b) /\ HitStop(b.pos, bar) ->
              ClosedAtLevel(b, k, bar, b.pos.stop, "stop")
         [] Holds(b) /\ ~ HitStop(b.pos, bar) -> b

\* PaperExecutor.update_bar: levels first, then the forced flats.
UpdateBar(b, k, bar) ==
  CASE ~ Holds(b) -> b
    [] Holds(b) /\ HitStop(b.pos, bar) -> ClosedAtLevel(b, k, bar, b.pos.stop, "stop")
    [] Holds(b) /\ ~ HitStop(b.pos, bar) /\ HitTarget(b.pos, bar) ->
         ClosedAtLevel(b, k, bar, b.pos.target, "target")
    [] Holds(b) /\ ~ HitStop(b.pos, bar) /\ ~ HitTarget(b.pos, bar) ->
         IF TfMinutes > 0 /\ NeedsWeekendFlat(BarClose(k), cfg)
         THEN ClosedAtLevel(b, k, bar, bar.cl, "weekend_flat")
         ELSE IF TfMinutes > 0 /\ cfg.daily /\ NeedsDailyFlat(Class, BarClose(k), cfg)
              THEN ClosedAtLevel(b, k, bar, bar.cl, "daily_close_flat") ELSE b

\* A reason no reader of the trades knows.
HeldTooLong_Renamed(b, k, bar) ==
  IF Holds(b) /\ b.pos.hold > 0 /\ k >= b.pos.at + b.pos.hold
  THEN ClosedAtLevel(b, k, bar, bar.cl, "max_hold") ELSE b

\* Step 1c: the holding time, read from the signal of the opening bar.
HeldTooLong(b, k, bar) ==
  IF Holds(b) /\ b.pos.hold > 0 /\ k >= b.pos.at + b.pos.hold
  THEN ClosedAtLevel(b, k, bar, bar.cl, "time") ELSE b

\* Step 2, with PaperExecutor.open
Opened(b, k, bar, sigs) ==
  IF \/ Holds(b) \/ sigs = <<>>
     \/ cfg.noEntry > 0 /\ TfMinutes > 0 /\ InNoEntryWindow(BarClose(k), cfg)
     \/ LotsFor(b, sigs[Len(sigs)], bar) = 0
  THEN b
  ELSE LET sig == sigs[Len(sigs)]
       IN  [b EXCEPT !.pos =
              [dir |-> sig.dir, entry |-> bar.cl,
               fill |-> EntrySlipped(sig.dir, bar.cl, bar.slip),
               stop |-> StopOf(sig, bar), target |-> TargetOf(sig, bar),
               lots |-> LotsFor(b, sig, bar), at |-> k, hold |-> sig.hold]]

Finished(b, k, bar) ==
  IF k = n /\ Holds(b) THEN ClosedAtLevel(b, k, bar, bar.cl, "end_of_data") ELSE b

\* mark_to_market is 0 without a position.
MarkedToMarket(b, bar) ==
  [b EXCEPT !.equity =
     b.balance + IF Holds(b) THEN RealizedPnl(b.pos.dir, b.pos.fill, bar.cl, b.pos.lots, 0)
                 ELSE 0]

ReplayBar(b, k, bar, sigs) ==
  LET resolved == HeldTooLong(UpdateBar([b EXCEPT !.closed = <<>>], k, bar), k, bar)
  IN  MarkedToMarket(Finished(Opened(resolved, k, bar, sigs), k, bar), bar)

-----------------------------------------------------------------------------
Fresh == [pos |-> Flat, balance |-> StartBalance, equity |-> StartBalance,
          closed |-> <<>>, realized |-> 0]

Init ==
  /\ cfg \in Configs
  /\ times \in Calendars
  /\ i = 0
  /\ bt = Fresh
  /\ rp = Fresh

\* The next bar, in both engines.
Bar(bar, sigs) ==
  /\ i < n
  /\ i' = i + 1
  /\ bt' = BacktestBar(bt, i + 1, bar, sigs)
  /\ rp' = ReplayBar(rp, i + 1, bar, sigs)
  /\ UNCHANGED <<cfg, times>>

Next == \E bar \in Bars, sigs \in Emissions : Bar(bar, sigs)

Spec == Init /\ [][Next]_vars

-----------------------------------------------------------------------------
(* Properties.                                                             *)

\* Positions, money and trades of both engines are well formed.
ParityTypeOK ==
  /\ cfg \in Configs
  /\ times \in Calendars
  /\ i \in 0 .. n
  /\ bt \in Books
  /\ rp \in Books

\* The two engines are told the same of the daily flat of this symbol.  They
\* are not by the configuration run_parity makes up when it is given none:
\* that one names classes, so that the backtest flattens them, and switches
\* the daily flat off, so that the replay does not.
Aligned == cfg.daily \/ Class \notin cfg.classes

\* INVARIANT-2, money: after every bar both engines hold the same position
\* and have the same balance and the same equity, whatever bars, signals,
\* guards and sizing came before, if they are told the same.
SameBooks ==
  Aligned =>
    /\ bt.pos = rp.pos
    /\ bt.balance = rp.balance
    /\ bt.equity = rp.equity

\* Where a bar ends both the holding time and the session, the backtest looks
\* at the holding time first and the replay at the session: the one trade
\* they close has another reason in the replay.
ReplayReason(t) ==
  IF t.reason = "time" /\ TfMinutes > 0 /\ NeedsWeekendFlat(BarClose(t.out), cfg)
  THEN "weekend_flat"
  ELSE IF t.reason = "time" /\ TfMinutes > 0
            /\ NeedsDailyFlat(Class, BarClose(t.out), cfg)
       THEN "daily_close_flat" ELSE t.reason

\* INVARIANT-2, trades: if both engines are told the same, they close the same
\* trades on the same bar at the same profit, and for the same reason but on
\* the bars described above, where the reasons do differ.
SameTrades ==
  Aligned =>
    rp.closed = [k \in DOMAIN bt.closed |->
                   [bt.closed[k] EXCEPT !.reason = ReplayReason(bt.closed[k])]]

\* INVARIANT-2 as it is promised: the same trades, direction, opening bar,
\* reason and profit, whatever the configuration.
Parity == bt.closed = rp.closed

\* INVARIANT-1, the engines' own reconciliation: from the starting balance to
\* the end of the data the equity curve has moved by exactly what the trades
\* realized.
Reconciles ==
  i = n => \A b \in {bt, rp} : b.equity = StartBalance + b.realized

\* INVARIANT-8: no position is held through a bar whose close forces it flat,
\* the bar it was opened on excepted, and that one only where entries are
\* not refused for at least as long as the flat window.  Each engine flattens
\* daily as it is told to.
FlatAt(k, daily) ==
  LET day    == (BarClose(k) \div Day) % 7
      minute == BarClose(k) % Day
  IN  /\ TfMinutes > 0
      /\ day < 5
      /\ minute \in cfg.close - cfg.buffer .. cfg.close
      /\ (day = 4 /\ cfg.weekend) \/ (daily /\ Class \in cfg.classes)
NoLateEntries == cfg.noEntry >= cfg.buffer /\ cfg.noEntry > 0
HeldThrough(pos, daily) ==
  {k \in pos.at .. i : FlatAt(k, daily) /\ (k > pos.at \/ NoLateEntries)}
FlatsHold ==
  /\ Holds(bt) => HeldThrough(bt.pos, EnforceDaily) = {}
  /\ Holds(rp) => HeldThrough(rp.pos, cfg.daily) = {}

\* A position just opened risks at most 10% more than the percentage of the
\* balance it was sized from, and one more volume step would exceed it unless
\* the broker's maximum stands in the way.
Base(b) == IF cfg.running THEN b.balance ELSE StartBalance
SizedToBudget ==
  \A b \in {bt, rp} :
    Holds(b) /\ b.pos.at = i =>
      LET risk   == Distance(b.pos.entry, b.pos.stop) * Symbol.tick
          budget == Base(b) * RiskPct
      IN  /\ 1000 * b.pos.lots * risk <= 11 * budget
          /\ Symbol.min <= b.pos.lots /\ b.pos.lots <= Symbol.max
          /\ b.pos.lots % Symbol.step = 0
          /\ \/ b.pos.lots + Symbol.step > Symbol.max
             \/ 100 * (b.pos.lots + Symbol.step) * risk > budget
=============================================================================
