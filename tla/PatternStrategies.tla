-------------------------- MODULE PatternStrategies --------------------------
(***************************************************************************)
(* The strategies of src/strategies that remember: pivots, levels, zones,  *)
(* setups, or the last signal.                                             *)
(***************************************************************************)
EXTENDS Signals

(* Bars that are alone the extreme of the P.pivot bars on both sides.  A   *)
(* long looks for pivot lows, a short for pivot highs.                     *)
Pivots(cs, side) ==
    {k \in (P.pivot + 1) .. (Len(cs) - P.pivot) :
        \A j \in (k - P.pivot) .. (k + P.pivot) : j # k =>
            Sign(side) * (Adverse(side, cs[j]) - Adverse(side, cs[k])) > 0}

(* Two lows B and A of about the same price, the second on a higher RSI;   *)
(* bought when a later close, the last bar excepted, breaks the highest    *)
(* high between them.  The earliest matching A counts.                     *)
DoubleBottom(cs) ==
    LET lows == Pivots(cs, "LONG")
        rsi == RsiWilder(cs, P.rsi)
        Firsts(B) ==
            {A \in lows : /\ A >= B - P.maxSeparation /\ A < B - P.minSeparation
                          /\ 1000 * Size(cs[A].l - cs[B].l) <= P.touch * cs[B].l
                          /\ rsi[B] > rsi[A]}
        Neckline(A, B) == Max({cs[j].h : j \in A .. B})
        Breaks(A, B) == {j \in (B + 1) .. Min({B + P.maxWait, Len(cs) - 1}) :
                            cs[j].c > Neckline(A, B)}
        Found(B) ==
            IF Firsts(B) = {} \/ Breaks(Min(Firsts(B)), B) = {} THEN {}
            ELSE LET A == Min(Firsts(B))
                     j == Min(Breaks(A, B))
                     base == Min({cs[A].l, cs[B].l})
                 IN  ByRisk(j, "LONG", cs[j].c,
                            Padded(cs, j, "LONG", base, P.pad), P.rr, 0)
        needs == Max({2 * P.pivot + P.maxSeparation + P.maxWait,
                      3 * P.rsi, 3 * P.atr, P.warm})
    IN  Strategy(cs, needs, UNION {Found(B) : B \in
            {k \in lows : k > P.pivot + P.minSeparation /\ k < Len(cs)}})

(* The bars a pivot counts for a setup: the last `keep` of those given.    *)
Latest(S, keep) == {j \in S : Cardinality({i \in S : i > j}) < keep}

(* A confirmed pivot is a zone for a while; a bar that reaches into one    *)
(* and turns fires, and the zone rests.  fired[k] is the zone that fired.  *)
ZoneWarm == Max({2 * P.pivot + P.lookback, 3 * P.atr, P.warm})
Zones(cs, k, side) ==
    Latest({j \in Pivots(cs, side) : j \in (k - P.lookback) .. (k - P.pivot)}, P.keep)
Reaches(side, bar, level) ==
    LET x == Adverse(side, bar)
        s == Sign(side)
    IN  /\ s * (1000 * x - level * (1000 + s * P.zone)) <= 0
        /\ s * (100000 * x - level * (1000 - s * P.zone) * (100 - s * 2)) >= 0
Turns(side, bar) ==
    LET wick == Sign(side) * (Worst(side, {bar.o, bar.c}) - Adverse(side, bar))
    IN  Confirms(side, bar) /\ 10 * wick >= P.wick * Size(bar.c - bar.o)
ZoneEntry(cs, k, side, j) ==
    LET edge == (Adverse(side, cs[j]) * (1000 - Sign(side) * P.zone)) \div 1000
    IN  ByRisk(k, side, cs[k].c, Padded(cs, k, side, edge, P.pad), P.rr, 0)
Ready(cs, k, side) ==
    {j \in Zones(cs, k, side) : /\ Reaches(side, cs[k], Adverse(side, cs[j]))
                                /\ Turns(side, cs[k])
                                /\ ZoneEntry(cs, k, side, j) # {}}
Fired(cs) ==
    LET fired[k \in DOMAIN cs] ==
            IF k <= ZoneWarm \/ AtrWilder(cs, P.atr)[k] <= 0 THEN {}
            ELSE LET resting == UNION {fired[i] : i \in Max({1, k - P.cooldown + 1}) .. (k - 1)}
                     open == (UNION {Ready(cs, k, side) : side \in Sides}) \ resting
                 IN  IF open = {} THEN {} ELSE {Max(open)}
    IN  fired
PivotReactionZoneAt(cs, k, side) ==
    UNION {ZoneEntry(cs, k, side, j) : j \in Fired(cs)[k] \cap Ready(cs, k, side)}
PivotReactionZone(cs) ==
    Strategy(cs, ZoneWarm + 2, Scan(cs, ZoneWarm + 1, PivotReactionZoneAt))

(* The five filters of the level bounce.                                   *)
Filtered(cs, k, side, variant) ==
    LET bar == cs[k]
        c == Closes(cs)
        S == Trailing(k, P.bb)
        volume == Mean([j \in DOMAIN cs |-> cs[j].vol], S)
        band == Mean(c, S) - Sign(side) * Tenths(P.bands, Deviation(c, S, 1))
    IN  CASE variant = "plain" -> TRUE
          [] variant = "rsi" -> IF side = "LONG" THEN RsiWilder(cs, P.rsi)[k] < P.oversold
                                                ELSE RsiWilder(cs, P.rsi)[k] > P.overbought
          [] variant = "ema_filter" -> Sign(side) * (bar.c - Ema(c, P.slow)[k]) > 0
          [] variant = "volume" -> 10 * bar.vol > P.volMult * Max({volume, 1})
          [] variant \in {"bb_lower", "bb_upper"} -> Sign(side) * (Adverse(side, bar) - band) <= 0

(* Bounces off the last confirmed pivots that no close has broken.         *)
(* active[k] are the bars of those pivots.                                 *)
Confirmed(cs, side, k) == {j \in Pivots(cs, side) : j + P.pivot <= k}
Holds(cs, side, j, k) ==
    Sign(side) * (1000 * cs[k].c
                  - Adverse(side, cs[j]) * (1000 - Sign(side) * P.break)) > 0
Active(cs, side) ==
    LET active[k \in DOMAIN cs] ==
            IF k <= P.warm THEN {}
            ELSE LET new == IF k = P.warm + 1 THEN Confirmed(cs, side, k)
                            ELSE Confirmed(cs, side, k) \ Confirmed(cs, side, k - 1)
                 IN  {j \in Confirmed(cs, side, k) \cap Latest(active[k - 1] \cup new, P.keep) :
                         Holds(cs, side, j, k - 1)}
    IN  active
Touched(cs, side, k) ==
    {j \in Active(cs, side)[k] : Touches(side, cs[k], Adverse(side, cs[j]), P.touch)}
LevelBounceAt(cs, k, side, variant) ==
    IF /\ AtrWilder(cs, P.atr)[k] > 0 /\ Touched(cs, side, k) # {}
       /\ Confirms(side, cs[k]) /\ Filtered(cs, k, side, variant)
    THEN LET level == Adverse(side, cs[Min(Touched(cs, side, k))])
         IN  ByPositiveStop(k, side, cs[k].c, Padded(cs, k, side, level, P.pad), P.rr)
    ELSE {}
LevelBounce(cs, side, variant) ==
    Strategy(cs, P.warm,
             UNION {LevelBounceAt(cs, k, side, variant) : k \in (P.warm + 1) .. Len(cs)})
SupportResistance(cs, variant)      == LevelBounce(cs, "LONG", variant)
SupportResistanceShort(cs, variant) == LevelBounce(cs, "SHORT", variant)

(* A fresh extreme in the direction of the regime arms a setup; the first  *)
(* bar that comes back to the fast average takes it.  setup[k][side] is    *)
(* the pivot price of the armed setup after bar k, or Unknown.             *)
RegimeWarm == Max({P.slow, P.atr, P.swing}) + 4
Window(k, size) == Max({1, k - size}) .. k
Regime(cs, k, side) ==
    /\ AtrWilder(cs, P.atr)[k] > 0
    /\ Sign(side) * (Ema(Closes(cs), P.mid)[k] - Ema(Closes(cs), P.slow)[k]) > 0
Fresh(cs, k, side) ==
    Favourable(side, cs[k]) =
        Best(side, {Favourable(side, cs[j]) : j \in Window(k, P.fresh)})
Armed(cs, k, side, pivot) == IF Fresh(cs, k, side) THEN Adverse(side, cs[k]) ELSE pivot
SetupEntry(cs, k, side, pivot) ==
    LET swing == Worst(side, {pivot} \cup
                     {Adverse(side, cs[j]) : j \in Window(k, P.swing)})
        fast == Ema(Closes(cs), P.fast)[k]
    IN  IF pivot # Unknown /\ cs[k].l <= fast /\ fast <= cs[k].h
        THEN ByRisk(k, side, cs[k].c, Padded(cs, k, side, swing, 1), P.rr, 0)
        ELSE {}
Setup(cs) ==
    LET setup[k \in DOMAIN cs] ==
            [side \in Sides |->
                IF k <= RegimeWarm THEN Unknown
                ELSE IF ~Regime(cs, k, side) THEN setup[k - 1][side]
                ELSE LET pivot == Armed(cs, k, side, setup[k - 1][side])
                     IN  IF SetupEntry(cs, k, side, pivot) = {} THEN pivot ELSE Unknown]
    IN  setup
TrendPullbackRegimeAt(cs, k, side) ==
    IF Regime(cs, k, side)
    THEN SetupEntry(cs, k, side, Armed(cs, k, side, Setup(cs)[k - 1][side])) ELSE {}
TrendPullbackRegime(cs) ==
    Strategy(cs, RegimeWarm, Scan(cs, RegimeWarm + 1, TrendPullbackRegimeAt))

(* The sign of the return over a long window, at most once per holding     *)
(* period; the stop and the target are fractions of the price.             *)
Trend(cs, k) == cs[k].c - cs[k - P.momentum].c
Rebalance(cs, k) ==
    LET side == IF Trend(cs, k) > 0 THEN "LONG" ELSE "SHORT"
        s == Sign(side) * ((cs[k].c * P.wide) \div 1000)
    IN  IF 1000 * Size(Trend(cs, k)) < 5 * cs[k - P.momentum].c THEN {}
        ELSE {x \in {Signal(k, side, cs[k].c, cs[k].c - s, cs[k].c + s, P.hold)} :
                 Min({x.stop, x.target}) > 0}
Rebalances(cs) ==
    LET fires[k \in DOMAIN cs] ==
            /\ k > P.momentum
            /\ \A j \in Max({1, k - P.hold + 1}) .. (k - 1) : ~fires[j]
            /\ Rebalance(cs, k) # {}
    IN  fires
Tsmom(cs) ==
    Strategy(cs, P.momentum + 2,
             UNION {Rebalance(cs, k) : k \in {j \in DOMAIN cs : Rebalances(cs)[j]}})
=============================================================================
