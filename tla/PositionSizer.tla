--------------------------- MODULE PositionSizer ---------------------------
(***************************************************************************)
(* core/position_sizer.py: how many lots a signal is traded with.          *)
(*                                                                         *)
(* Lots are counted in hundredths of a lot, money in whole units, prices   *)
(* in ticks, and a percentage of an equity is kept multiplied by 100, so   *)
(* that every comparison of the code is one of integers.  A refusal is 0   *)
(* lots: the code returns ok = False with 0.0 lots.                        *)
(*                                                                         *)
(* A symbol is a record of its volume step, minimum and maximum and of     *)
(* what a tick is worth on a hundredth of a lot.                           *)
(***************************************************************************)
EXTENDS Integers

Distance(a, b) == IF a < b THEN b - a ELSE a - b

Smaller(a, b) == IF a < b THEN a ELSE b

FloorToStep(lots, step) == (lots \div step) * step

\* The last written digit of a lot size: 0.01, 0.1 or 1.
Precision(step) == IF step < 10 THEN 1 ELSE IF step < 100 THEN 10 ELSE 100

\* Python's round(): to the nearest multiple, ties to the even one.
RoundTo(v, p) ==
  LET down == v \div p
      rest == v % p
  IN  p * (IF 2 * rest < p \/ (2 * rest = p /\ down % 2 = 0) THEN down ELSE down + 1)

\* A hundred times the money a trade may lose, the user's ceiling applied.
Budget(equity, pct, maxRisk) ==
  IF maxRisk > 0 THEN Smaller(equity * pct, 100 * maxRisk) ELSE equity * pct

\* Twice the budget is let through.
Overshoots_Double(lots, perLot, budget) == 1000 * lots * perLot > 20 * budget

\* More than 10% over the budget.
Overshoots(lots, perLot, budget) == 1000 * lots * perLot > 11 * budget

\* calc_lots.  maxLots and maxRisk are 0 where the deployment sets none.
CalcLots(equity, pct, entry, stop, sym, maxLots, maxRisk) ==
  LET budget  == Budget(equity, pct, maxRisk)
      perLot  == Distance(entry, stop) * sym.tick
      fits    == FloorToStep(budget \div (100 * perLot), sym.step)
      raised  == IF fits < sym.min THEN sym.min ELSE fits
      clamped == IF raised > sym.max THEN FloorToStep(sym.max, sym.step) ELSE raised
      capped  == IF maxLots > 0 /\ clamped > maxLots
                 THEN FloorToStep(maxLots, sym.step) ELSE clamped
      lots    == RoundTo(capped, Precision(sym.step))
  IN  IF \/ equity <= 0 \/ pct <= 0
         \/ perLot <= 0
         \/ fits < sym.min /\ Overshoots(sym.min, perLot, budget)
         \/ maxLots > 0 /\ clamped > maxLots /\ capped < sym.min
         \/ Overshoots(lots, perLot, budget)
      THEN 0 ELSE lots
=============================================================================
