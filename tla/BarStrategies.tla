---------------------------- MODULE BarStrategies ----------------------------
(***************************************************************************)
(* The strategies of src/strategies that judge a bar by indicators and by  *)
(* a fixed number of bars before it.  Bars are numbered from 1: the code's *)
(* range(w, n) is (w + 1) .. n here.  A long and a short of the same       *)
(* strategy are one definition, the sign of the side turns it around.      *)
(***************************************************************************)
EXTENDS Signals

(* Regime filter: the close is on the right side of a slow average.        *)
InRegime(cs, k, side) ==
    P.regime > 0 => Sign(side) * (cs[k].c - Ema(Closes(cs), P.regime)[k]) > 0

EmaCrossAt(cs, k, side) ==
    LET fast == Ema(Closes(cs), P.fast)
        slow == Ema(Closes(cs), P.slow)
        Gap(j) == Sign(side) * (fast[j] - slow[j])
    IN  IF Gap(k - 1) <= 0 /\ Gap(k) > 0 /\ InRegime(cs, k, side)
        THEN ByAtr(cs, k, side, P.stop, P.target, 0) ELSE {}
EmaCross(cs) ==
    Strategy(cs, Max({P.fast, P.slow, P.atr}) + 2, Scan(cs, 2, EmaCrossAt))

(* The close breaks out of the closes of the `period` bars before; the     *)
(* close before did not break out of its own.                              *)
Outside(cs, k, side) ==
    /\ k > P.period
    /\ Sign(side) * (cs[k].c - Best(side, {cs[j].c : j \in Trailing(k - 1, P.period)})) > 0
BreaksOut_Again(cs, k, side) == Outside(cs, k, side)
BreaksOut(cs, k, side) == Outside(cs, k, side) /\ ~Outside(cs, k - 1, side)

DonchianBreakoutAt(cs, k, side) ==
    IF BreaksOut(cs, k, side) /\ InRegime(cs, k, side)
    THEN ByAtr(cs, k, side, P.stop, P.target, 0) ELSE {}
DonchianBreakout(cs) ==
    Strategy(cs, Max({P.period, P.atr}) + 2, Scan(cs, 2, DonchianBreakoutAt))

(* The ratio of two realised volatilities is a reading of the bar (its     *)
(* field `wild`): logarithms are not computed here.                        *)
VolBreakAt(cs, k, side) ==
    IF cs[k].wild /\ BreaksOut(cs, k, side)
    THEN ByAtr(cs, k, side, P.stop, P.target, 0) ELSE {}
VolBreak(cs) ==
    Strategy(cs, Max({P.period, P.atr, P.volWindow}) + 2, Scan(cs, 2, VolBreakAt))

RsiMeanRevAt(cs, k, side) ==
    LET rsi == RsiWilder(cs, P.rsi)
        left == IF side = "LONG"
                THEN rsi[k - 1] <= P.oversold /\ rsi[k] > P.oversold
                ELSE rsi[k - 1] >= P.overbought /\ rsi[k] < P.overbought
    IN  IF left THEN ByAtr(cs, k, side, P.stop, P.target, 0) ELSE {}
RsiMeanRev(cs) ==
    Strategy(cs, Max({P.rsi, P.atr}) + 2, Scan(cs, 3, RsiMeanRevAt))

(* How far the close is beyond the Bollinger band on the trade's far side. *)
Mid(cs, k) == Mean(Closes(cs), Trailing(k, P.bb))
Beyond(cs, k, side) ==
    Sign(side) * (Mid(cs, k) - cs[k].c)
        - Tenths(P.bands, Deviation(Closes(cs), Trailing(k, P.bb), 0))

(* A target at the middle band, if it lies ahead.                          *)
ToMid(cs, k, side, stop) ==
    {s \in {Signal(k, side, cs[k].c, stop, Mid(cs, k), 0)} :
        Sign(side) * (s.target - s.entry) > 0}

BBandsMeanRevAt(cs, k, side) ==
    IF /\ Beyond(cs, k - 1, side) > 0 /\ Beyond(cs, k, side) < 0
       /\ AtrWilder(cs, P.atr)[k] > 0
    THEN {s \in ToMid(cs, k, side, Padded(cs, k, side, cs[k].c, P.stop)) : s.stop > 0}
    ELSE {}
BBandsMeanRev(cs) ==
    Strategy(cs, Max({P.bb, P.atr}) + 2, Scan(cs, P.bb + 1, BBandsMeanRevAt))

(* range_reversal's own RSI: 0 when nothing moved.                         *)
PlainRsi(cs, period) ==
    [k \in DOMAIN cs |->
        IF Wilder(Moves(cs, 1), period)[k] = 0 THEN 0
        ELSE RsiWilder(cs, period)[k]]

Band(cs, k, side) ==
    Mid(cs, k) - Sign(side) *
        Tenths(P.bands, Deviation(Closes(cs), Trailing(k, P.bb), 0))
RangeReversalAt(cs, k, side) ==
    LET mid == Ema(Closes(cs), P.bb)
        rsi == PlainRsi(cs, P.rsi)
        stretched == IF side = "LONG" THEN rsi[k] < P.oversold + 10
                     ELSE rsi[k] > P.overbought - 10
    IN  IF /\ AtrWilder(cs, P.atr)[k] > 0
           /\ Size(mid[k] - mid[k - P.bb]) <= Tenths(P.slope, AtrWilder(cs, P.atr)[k])
           /\ Beyond(cs, k - 1, side) > 0 /\ Beyond(cs, k, side) < 0
           /\ Confirms(side, cs[k]) /\ stretched
        THEN {s \in ToMid(cs, k, side, Padded(cs, k, side, Band(cs, k, side), P.pad)) :
                 /\ Sign(side) * (s.entry - s.stop) > 0
                 /\ Min({s.stop, s.target}) > 0}
        ELSE {}
RangeReversal(cs) ==
    LET warm == Max({P.bb, P.atr, P.rsi}) + 2
    IN  Strategy(cs, warm, Scan(cs, warm + 1, RangeReversalAt))

EmaPullbackAt(cs, k, side) ==
    LET fast == Ema(Closes(cs), P.fast)[k]
        slow == Ema(Closes(cs), P.slow)[k]
        near == Padded(cs, k, side, fast, -P.pullback)
    IN  IF /\ AtrWilder(cs, P.atr)[k] > 0
           /\ Sign(side) * (cs[k].c - slow) > 0
           /\ Sign(side) * (Adverse(side, cs[k]) - near) <= 0
           /\ Confirms(side, cs[k])
        THEN ByPositiveStop(k, side, cs[k].c,
                 Padded(cs, k, side, Adverse(side, cs[k]), P.pad), P.rr)
        ELSE {}
EmaPullback(cs) ==
    Strategy(cs, Max({P.fast, P.slow, P.atr}) + 2, Scan(cs, 2, EmaPullbackAt))

(* A fan of three averages in the direction of the trade.                  *)
Fanned(cs, k, side) ==
    LET e(period) == Sign(side) * Ema(Closes(cs), period)[k]
    IN  e(P.fast) > e(P.mid) /\ e(P.mid) > e(P.slow)

SpreadPullbackAt(cs, k, side) ==
    LET c == Closes(cs)
    IN  IF /\ AtrWilder(cs, P.atr)[k] > 0 /\ Fanned(cs, k, side)
           /\ 1000 * Sign(side) * (Ema(c, P.fast)[k] - Ema(c, P.slow)[k])
                  >= P.spread * c[k]
           /\ Touches(side, cs[k], Ema(c, P.mid)[k], P.touch)
           /\ Confirms(side, cs[k]) /\ Sign(side) * (c[k] - Ema(c, P.fast)[k]) > 0
        THEN ByPositiveStop(k, side, c[k],
                 Padded(cs, k, side, Adverse(side, cs[k]), P.pad), P.rr)
        ELSE {}
SpreadPullback(cs, side) ==
    Strategy(cs, Max({P.slow, P.atr}) + P.start,
             UNION {SpreadPullbackAt(cs, k, side) : k \in (P.slow + P.start + 1) .. Len(cs)})
EmaSpreadPullback(cs)      == SpreadPullback(cs, "LONG")
EmaSpreadPullbackShort(cs) == SpreadPullback(cs, "SHORT")

(* A close in the outer third of a bar that pulled back in a fanned trend. *)
TrendPullbackAt(cs, k, side) ==
    LET fast == Ema(Closes(cs), P.fast)[k]
        slow == Ema(Closes(cs), P.slow)[k]
        height == cs[k].h - cs[k].l
    IN  IF /\ AtrWilder(cs, P.atr)[k] > 0 /\ height > 0
           /\ Fanned(cs, k, side) /\ Sign(side) * (cs[k].c - slow) > 0
           /\ Sign(side) * (Adverse(side, cs[k])
                            - Padded(cs, k, side, fast, -P.pullback)) <= 0
           /\ Confirms(side, cs[k])
           /\ 100 * Sign(side) * (cs[k].c - Adverse(side, cs[k])) >= 66 * height
        THEN ByPositiveStop(k, side, cs[k].c,
                 Padded(cs, k, side, Adverse(side, cs[k]), P.pad), P.rr)
        ELSE {}
TrendPullback(cs) ==
    LET warm == Max({P.fast, P.mid, P.slow, P.atr}) + 2
    IN  Strategy(cs, warm, Scan(cs, warm + 1, TrendPullbackAt))

(* A bar whose body swallows the opposite body before it, at an RSI        *)
(* extreme of the bar before.                                              *)
Engulfs(side, bar, before) ==
    /\ Sign(side) * (before.o - before.c) > 0 /\ Confirms(side, bar)
    /\ Sign(side) * (bar.c - before.o) >= 0
    /\ Sign(side) * (bar.o - before.c) <= 0
EngulfingAtExtremeAt(cs, k, side) ==
    LET rsi == RsiWilder(cs, P.rsi)[k - 1]
        extreme == IF side = "LONG" THEN rsi < P.oversold ELSE rsi > P.overbought
    IN  IF /\ rsi # Unknown /\ extreme
           /\ AtrWilder(cs, P.atr)[k] > 0
           /\ InRegime(cs, k, side) /\ Engulfs(side, cs[k], cs[k - 1])
        THEN ByRisk(k, side, cs[k].c,
                 Padded(cs, k, side, Adverse(side, cs[k]), P.pad), P.rr, 0)
        ELSE {}
EngulfingAtExtreme(cs) ==
    LET warm == Max({3 * P.rsi, 3 * P.atr, 2 * P.regime, P.warm})
    IN  Strategy(cs, warm + 2, Scan(cs, warm + 1, EngulfingAtExtremeAt))

(* An up close after a bar that closed at the bottom of its range.         *)
Weak(bar) ==
    /\ bar.h > bar.l
    /\ 1000 * (bar.c - bar.l) < P.ibs * (bar.h - bar.l)
IbsAt(cs, k) ==
    IF Weak(cs[k - 1]) /\ cs[k].c > cs[k - 1].c
    THEN ByAtr(cs, k, "LONG", P.stop, P.target, P.hold) ELSE {}
Ibs(cs) ==
    Strategy(cs, Max({P.atr + 2, 3}), UNION {IbsAt(cs, k) : k \in 3 .. Len(cs)})

(* The close of the bar after an inside bar breaks out of it.              *)
Inside(bar, before) ==
    /\ bar.h <= before.h /\ bar.l >= before.l
    /\ bar.h < before.h \/ bar.l > before.l
InsideBarAt(cs, k, side) ==
    IF /\ Inside(cs[k - 1], cs[k - 2])
       /\ Sign(side) * (cs[k].c - Favourable(side, cs[k - 1])) > 0
    THEN ByRisk(k, side, cs[k].c, Adverse(side, cs[k - 1]), P.rr, 0) ELSE {}
InsideBar(cs) == Strategy(cs, 3, Scan(cs, 3, InsideBarAt))

(* Entry at the open plus a part of the range of the bar before, if only   *)
(* that trigger was met; the other trigger is the stop.                    *)
Other(side) == IF side = "LONG" THEN "SHORT" ELSE "LONG"
Trigger(cs, k, side) ==
    cs[k].o + Sign(side) * Tenths(P.k, cs[k - 1].h - cs[k - 1].l)
Hit(cs, k, side) ==
    Sign(side) * (Favourable(side, cs[k]) - Trigger(cs, k, side)) >= 0
OneHit_Any(cs, k, side) == Hit(cs, k, side)
OneHit(cs, k, side) == Hit(cs, k, side) /\ ~Hit(cs, k, Other(side))

VolBreakoutAt(cs, k, side) ==
    IF cs[k - 1].h > cs[k - 1].l /\ OneHit(cs, k, side)
    THEN ByRisk(k, side, Trigger(cs, k, side), Trigger(cs, k, Other(side)), P.rr, 0)
    ELSE {}
VolBreakout(cs) == Strategy(cs, 3, Scan(cs, 2, VolBreakoutAt))

(* Every bar is bought, except the last one of the history.                *)
OvernightDrift(cs) ==
    Strategy(cs, P.atr + 2,
             UNION {ByAtr(cs, k, "LONG", P.wide, P.wide, 1)
                        : k \in (P.atr + 1) .. (Len(cs) - 1)})
=============================================================================
