------------------------------- MODULE Signals -------------------------------
(***************************************************************************)
(* The Signal of core/strategy.py and the two ways in which the modules of *)
(* src/strategies compute its prices.  A strategy is a pure function of    *)
(* the candles: here a record of the number of candles it asks for and the *)
(* set of the signals it finds in them.  The parameters all strategies     *)
(* take from their dataclasses are the fields of P; multiples of the ATR   *)
(* and of the risk are in tenths, fractions of a price in thousandths, RSI *)
(* levels in percent.  P.warm and P.start are the fixed numbers of bars    *)
(* some strategies wait for (50, 100, 200, 220, 250 in the code).          *)
(***************************************************************************)
EXTENDS Indicators

CONSTANT P

(* The counts of bars and of days are positive; `regime` may be switched   *)
(* off, `hold` may be left out, and the bands fit into the longest wait.   *)
Counts ==
    {P.fast, P.mid, P.slow, P.atr, P.rsi, P.bb, P.period, P.volWindow, P.warm,
     P.start, P.week, P.sessionBars, P.orBars, P.pivot, P.lookback, P.cooldown,
     P.swing, P.fresh, P.momentum}
ASSUME CountsAssumption ==
    Counts \subseteq Nat \ {0} /\ {P.regime, P.hold} \subseteq Nat /\ P.bb <= P.warm

Sides == {"LONG", "SHORT"}

Sign(side) == IF side = "LONG" THEN 1 ELSE -1

(* The end of a bar a trade on this side is stopped beyond, the other end. *)
Adverse(side, bar) == IF side = "LONG" THEN bar.l ELSE bar.h
Favourable(side, bar) == IF side = "LONG" THEN bar.h ELSE bar.l

(* The highest price for a long, the lowest for a short.                   *)
Best(side, prices) == IF side = "LONG" THEN Max(prices) ELSE Min(prices)
Worst(side, prices) == IF side = "LONG" THEN Min(prices) ELSE Max(prices)

(* The bar closes in the direction of the trade.                           *)
Confirms(side, bar) == Sign(side) * (bar.c - bar.o) > 0

(* The end of the bar is within a fraction of a level, or the bar spans it.*)
Touches(side, bar, level, part) ==
    \/ 1000 * Size(Adverse(side, bar) - level) < part * level
    \/ bar.l <= level /\ level <= bar.h

Signal(k, side, entry, stop, target, hold) ==
    [bar |-> k, side |-> side, entry |-> entry, stop |-> stop,
     target |-> target, hold |-> hold]

(* A history that is too short returns nothing before it is looked at.     *)
Strategy(cs, needs, signals) ==
    [needs |-> needs, signals |-> IF Len(cs) < needs THEN {} ELSE signals]

Tenths(m, x) == (m * x) \div 10

(* Stop and target at multiples of the ATR from the close.                 *)
ByAtr(cs, k, side, stopMult, targetMult, hold) ==
    LET a == AtrWilder(cs, P.atr)[k]
        stop == cs[k].c - Sign(side) * Tenths(stopMult, a)
        target == cs[k].c + Sign(side) * Tenths(targetMult, a)
    IN  IF a > 0 /\ Min({stop, target}) > 0
        THEN {Signal(k, side, cs[k].c, stop, target, hold)} ELSE {}

ByRisk_LongTarget(k, side, entry, stop, mult, hold) ==
    LET risk == Sign(side) * (entry - stop)
    IN  IF risk > 0
        THEN {Signal(k, side, entry, stop, entry + Tenths(mult, risk), hold)} ELSE {}
(* Target at a multiple of the distance from the entry to the given stop.  *)
ByRisk(k, side, entry, stop, mult, hold) ==
    LET risk == Sign(side) * (entry - stop)
        target == entry + Sign(side) * Tenths(mult, risk)
    IN  IF risk > 0 /\ (side = "SHORT" => target > 0)
        THEN {Signal(k, side, entry, stop, target, hold)} ELSE {}

(* The same for the strategies that also ask for a stop above zero.        *)
ByPositiveStop(k, side, entry, stop, mult) ==
    {s \in ByRisk(k, side, entry, stop, mult, 0) : s.stop > 0}

(* The stop a padding of the ATR beyond a price.                           *)
Padded(cs, k, side, price, pad) ==
    price - Sign(side) * Tenths(pad, AtrWilder(cs, P.atr)[k])

(* What the loop over the bars from `first` on collects; Found is its body.*)
Scan(cs, first, Found(_, _, _)) ==
    UNION {Found(cs, k, side) : k \in first .. Len(cs), side \in Sides}
=============================================================================
