----------------------------- MODULE Indicators -----------------------------
(***************************************************************************)
(* The technical indicators of core/indicators.py, as functions of a       *)
(* history of candles: a sequence of records with the fields o, h, l, c    *)
(* (prices), vol, day and slot.  Prices are integers on a grid fine enough *)
(* for the averages of a short history; a division rounds down to it.      *)
(* Unknown stands for NaN where a reading can be missing.                  *)
(***************************************************************************)
EXTENDS Integers, Sequences, FiniteSetsExt

Unknown == -1

Size(x) == IF x < 0 THEN -x ELSE x

Closes(cs) == [k \in DOMAIN cs |-> cs[k].c]

(* Exponential smoothing from the first value on: the weights of the new   *)
(* value and of the average so far are as `new` to `old`.                  *)
Smooth(x, new, old) ==
    LET e[k \in DOMAIN x] ==
            IF k = 1 THEN x[1] ELSE (new * x[k] + old * e[k - 1]) \div (new + old)
    IN  e

(* Weight 2 / (period + 1) for the new value, and Wilder's 1 / period.     *)
Ema(x, period)    == Smooth(x, 2, period - 1)
Wilder(x, period) == Smooth(x, 1, period - 1)

TrueRange(cs) ==
    [k \in DOMAIN cs |->
        Max({cs[k].h - cs[k].l} \cup
            IF k = 1 THEN {}
            ELSE {Size(cs[k].h - cs[k - 1].c), Size(cs[k].l - cs[k - 1].c)})]

AtrWilder(cs, period) == Wilder(TrueRange(cs), period)

(* The moves of the close in one direction, 0 for the first bar.           *)
Moves(cs, sign) ==
    [k \in DOMAIN cs |->
        IF k = 1 THEN 0 ELSE Max({sign * (cs[k].c - cs[k - 1].c), 0})]

(* 100 - 100 / (1 + gain / loss); a market that did not move is neutral.   *)
RsiWilder(cs, period) ==
    LET gain == Wilder(Moves(cs, 1), period)
        loss == Wilder(Moves(cs, -1), period)
    IN  [k \in DOMAIN cs |->
            IF k = 1 THEN Unknown
            ELSE IF gain[k] + loss[k] = 0 THEN 50
            ELSE (100 * gain[k]) \div (gain[k] + loss[k])]

(* The window of the last `period` bars up to k, and its readings.         *)
Trailing(k, period) == (k - period + 1) .. k

Sum(x, S)  == MapThenSumSet(LAMBDA j : x[j], S)
Mean(x, S) == Sum(x, S) \div Cardinality(S)

Sqrt(v) == CHOOSE r \in 0 .. v : r * r <= v /\ v < (r + 1) * (r + 1)

(* Standard deviation over the bars S, with the population (ddof = 0) or   *)
(* the sample (ddof = 1) divisor.                                          *)
Deviation(x, S, ddof) ==
    LET squares == [j \in S |-> (x[j] - Mean(x, S)) * (x[j] - Mean(x, S))]
    IN  Sqrt(Sum(squares, S) \div (Cardinality(S) - ddof))
=============================================================================
