----------------------------- MODULE LiveSignals -----------------------------
(***************************************************************************)
(* A deployed strategy as its stored history grows.  sync_to_now appends   *)
(* a bar when it first sees it, as a rule while the bar is still forming,  *)
(* and never revises it (module DataSync); core/runner.py hands the whole  *)
(* stored history to the strategy and acts on the signals of the last bar  *)
(* only, once.  A bar no tick judges as the last one is missed: the runner *)
(* was down, or the bridge out of reach, until a later bar was there, or   *)
(* the runner gave the tick up after noting the bar (a position held, no   *)
(* sizing).  A backtest acts on every signal of the complete history.  It  *)
(* is a backtest of the file as the runner wrote it: one of the bars as    *)
(* they closed in the end is a backtest of another history.                *)
(***************************************************************************)
EXTENDS BarStrategies, SessionStrategies, PatternStrategies

CONSTANTS
    Strategies,     \* pairs <<name, filter>> of the deployed strategies
    Shapes,         \* strategy -> the bars the market may print for it
    DayEnds,        \* strategy -> numbers of bars after which a day may end
    Length          \* strategy -> number of bars of the longest history

(* Prices, levels, multiples and volumes are numbers, and the wicks of a   *)
(* bar lie outside its body.                                               *)
ASSUME PricesAssumption ==
    /\ {P.price, P.oversold, P.overbought, P.stop, P.target, P.rr, P.pad, P.k,
        P.zone} \subseteq Int
    /\ P.wide \in Nat \ {0}
    /\ \A s \in Strategies : \A shape \in Shapes[s] :
           /\ {shape.gap, shape.move, shape.vol} \subseteq Int
           /\ {shape.up, shape.down} \subseteq Nat

VARIABLES
    strategy,       \* the deployed strategy
    candles,        \* the stored bars, each as it was first seen
    backtest,       \* the signals a backtest of those bars acts on
    live,           \* the signals the ticks acted on
    missed          \* the signals of the bars no tick judged

vars == <<strategy, candles, backtest, live, missed>>

Name(s) == s[1]

(* The registry of strategies of the dashboard and the runner.             *)
Judge(s, cs) ==
    CASE Name(s) = "bbands_meanrev"            -> BBandsMeanRev(cs)
      [] Name(s) = "donchian_breakout"         -> DonchianBreakout(cs)
      [] Name(s) = "double_bottom"             -> DoubleBottom(cs)
      [] Name(s) = "ema_cross"                 -> EmaCross(cs)
      [] Name(s) = "ema_pullback"              -> EmaPullback(cs)
      [] Name(s) = "ema_spread_pullback"       -> EmaSpreadPullback(cs)
      [] Name(s) = "ema_spread_pullback_short" -> EmaSpreadPullbackShort(cs)
      [] Name(s) = "engulfing_at_extreme"      -> EngulfingAtExtreme(cs)
      [] Name(s) = "first30_meanrev"           -> First30MeanRev(cs)
      [] Name(s) = "ibs"                       -> Ibs(cs)
      [] Name(s) = "inside_bar"                -> InsideBar(cs)
      [] Name(s) = "last_week_high"            -> LastWeekHigh(cs)
      [] Name(s) = "last_week_low"             -> LastWeekLow(cs)
      [] Name(s) = "orb"                       -> Orb(cs)
      [] Name(s) = "orb_vol_filtered"          -> OrbVolFiltered(cs)
      [] Name(s) = "overnight_drift"           -> OvernightDrift(cs)
      [] Name(s) = "pivot_reaction_zone"       -> PivotReactionZone(cs)
      [] Name(s) = "range_reversal"            -> RangeReversal(cs)
      [] Name(s) = "rsi_meanrev"               -> RsiMeanRev(cs)
      [] Name(s) = "support_resistance"        -> SupportResistance(cs, s[2])
      [] Name(s) = "support_resistance_short"  -> SupportResistanceShort(cs, s[2])
      [] Name(s) = "trend_pullback"            -> TrendPullback(cs)
      [] Name(s) = "trend_pullback_regime"     -> TrendPullbackRegime(cs)
      [] Name(s) = "tsmom"                     -> Tsmom(cs)
      [] Name(s) = "vol_break"                 -> VolBreak(cs)
      [] Name(s) = "vol_breakout"              -> VolBreakout(cs)
      [] Name(s) = "vwap_fade"                 -> VwapFade(cs)
      [] Name(s) = "vwap_first_touch"          -> VwapFirstTouch(cs)

Init ==
    /\ strategy \in Strategies
    /\ candles = <<>>
    /\ backtest = {}
    /\ live = {}
    /\ missed = {}

Last == candles[Len(candles)]

(* A bar as it is when it is first seen, a gap after the stored close of   *)
(* the bar before.                                                         *)
Candle(shape, day, slot) ==
    LET open == IF candles = <<>> THEN P.price ELSE Last.c + shape.gap
        close == open + shape.move
    IN  [o |-> open, c |-> close,
         h |-> Max({open, close}) + shape.up, l |-> Min({open, close}) - shape.down,
         vol |-> shape.vol, wild |-> shape.wild, day |-> day, slot |-> slot]

(* runner.tick: the signals of the last bar of the view.                   *)
Tick(found, n) == {s \in found : s.bar = n}

(* The market does not fall so low that a distance of P.wide thousandths   *)
(* of a price is less than a point.                                        *)
Worth(bar) == P.wide * bar.l >= 1000

(* A bar is appended, and judged by a tick or missed.                      *)
Store(bar) ==
    LET cs == Append(candles, bar)
    IN  /\ Len(cs) <= Length[strategy] /\ Worth(bar)
        /\ candles' = cs
        /\ backtest' = Judge(strategy, cs).signals
        /\ LET now == Tick(backtest', Len(cs))
           IN  \/ live' = live \cup now /\ UNCHANGED missed
               \/ missed' = missed \cup now /\ UNCHANGED live
        /\ UNCHANGED strategy

NextBar ==
    \E shape \in Shapes[strategy] :
        IF candles = <<>> THEN Store(Candle(shape, 0, 0))
        ELSE /\ Last.slot + 1 < Max(DayEnds[strategy])
             /\ Store(Candle(shape, Last.day, Last.slot + 1))

NextDay ==
    \E shape \in Shapes[strategy] :
        /\ candles # <<>> /\ Last.slot + 1 \in DayEnds[strategy]
        /\ Store(Candle(shape, Last.day + 1, 0))

Next == NextBar \/ NextDay

Spec == Init /\ [][Next]_vars

-----------------------------------------------------------------------------
(* The market is a market, and a signal sits on a bar and brackets its     *)
(* entry: a strategy that returns a stop or a target on the wrong side is  *)
(* filled and stopped in one step.                                         *)
SignalTypeOK ==
    /\ \A k \in DOMAIN candles : /\ candles[k].l > 0
                                 /\ candles[k].l <= candles[k].h
    /\ \A s \in backtest \cup live :
           /\ s.bar \in DOMAIN candles /\ s.side \in Sides
           /\ Sign(s.side) * (s.entry - s.stop) > 0
           /\ Sign(s.side) * (s.target - s.entry) > 0

(* The number of bars the strategy asks for, the same for every history.   *)
Needs == Judge(strategy, <<>>).needs

(* What an order is made of: a maximal holding time may count the bars the *)
(* session has had so far, and the live executor ignores it.               *)
Order(s) == [s EXCEPT !.hold = 0]

(* What a tick finds on the last bar stands: once the history is long      *)
(* enough for the strategy to speak, the signals the ticks acted on and    *)
(* those of the bars they missed are exactly the signals a backtest of the *)
(* complete stored history finds, none that the bars stored later take     *)
(* back and none that only they bring about.                               *)
SignalsStand ==
    {Order(s) : s \in live \cup missed} =
        {Order(s) : s \in {b \in backtest : b.bar >= Needs}}

(* A bar never carries two signals: the runner would open the first of     *)
(* them and the backtest, which keeps them by bar, the last.               *)
OneSignalPerBar == \A s, t \in backtest : s.bar = t.bar => s = t

(* How far apart two signals of a strategy are that promises to trade once *)
(* per session, per day, per holding period, or to rest after a signal.    *)
Apart(s, t) ==
    CASE Name(strategy) = "orb" ->
             \A k \in Sessions(candles) : t.bar <= SessionEnd(candles, k) => s.bar < k
      [] Name(strategy) \in {"vwap_first_touch", "first30_meanrev"} ->
             candles[s.bar].day < candles[t.bar].day
      [] Name(strategy) = "tsmom" -> t.bar >= s.bar + P.hold
      [] Name(strategy) \in {"donchian_breakout", "vol_break", "ema_cross"} ->
             s.side = t.side => t.bar > s.bar + 1
      [] OTHER -> TRUE

(* A strategy that trades once per session, per day or per holding period, *)
(* or only on a fresh break, does so: what the tick remembers of the trades*)
(* before is only what the strategy finds again in the history.            *)
TradesApart == \A s, t \in live : s.bar < t.bar => Apart(s, t)
=============================================================================
