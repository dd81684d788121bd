-------------------------- MODULE SessionStrategies --------------------------
(***************************************************************************)
(* The strategies of src/strategies that group bars by the clock: a bar    *)
(* has a UTC day and, within it, a slot; a week is P.week days.            *)
(***************************************************************************)
EXTENDS Signals

(* The bars of the day of bar k.                                           *)
DayOf(cs, k) == {j \in DOMAIN cs : cs[j].day = cs[k].day}
DayStart(cs, k) == Min(DayOf(cs, k))

(* 50 and 200 bar averages in order (the code's numbers are fixed).        *)
Trending(cs, k, side) ==
    Sign(side) * (Ema(Closes(cs), P.mid)[k] - Ema(Closes(cs), P.slow)[k]) > 0

(* Fade the first quarter of an hour: bar A at the open, bar B after it.   *)
First30MeanRevAt(cs, k, side) ==
    LET a == AtrWilder(cs, P.atr)[k]
        A == cs[k - 1]
        stop == Padded(cs, k, side, cs[k].c, P.stop)
    IN  IF /\ cs[k].slot = P.open + 1 /\ A.slot = P.open /\ a > 0
           /\ 10 * Sign(side) * (A.o - A.c) > P.strength * a
           /\ stop > 0 /\ Sign(side) * (A.o - cs[k].c) > 0
        THEN {Signal(k, side, cs[k].c, stop, A.o, P.hold)} ELSE {}
First30MeanRev(cs) == Strategy(cs, P.atr + 2, Scan(cs, 2, First30MeanRevAt))

(* The extreme of the latest earlier week of the history; the bar tags it  *)
(* and turns.                                                              *)
WeekOf(bar) == bar.day \div P.week
Earlier(cs, k) == {j \in DOMAIN cs : WeekOf(cs[j]) < WeekOf(cs[k])}
LastWeekLevel_ThisWeek(cs, k, side) ==
    Worst(side, {Adverse(side, cs[j]) : j \in {i \in DOMAIN cs : WeekOf(cs[i]) = WeekOf(cs[k])}})
LastWeekLevel(cs, k, side) ==
    LET last == Max({WeekOf(cs[j]) : j \in Earlier(cs, k)})
    IN  Worst(side, {Adverse(side, cs[j]) : j \in {i \in DOMAIN cs : WeekOf(cs[i]) = last}})

LastWeekAt(cs, k, side) ==
    LET level == LastWeekLevel(cs, k, side)
    IN  IF /\ Earlier(cs, k) # {}
           /\ AtrWilder(cs, P.atr)[k] > 0 /\ Trending(cs, k, side)
           /\ 1000 * Size(Adverse(side, cs[k]) - level) <= P.touch * level
           /\ Confirms(side, cs[k])
        THEN ByPositiveStop(k, side, cs[k].c,
                 Padded(cs, k, side, level, P.pad), P.rr)
        ELSE {}
LastWeek(cs, side) ==
    Strategy(cs, P.warm, UNION {LastWeekAt(cs, k, side) : k \in (P.start + 1) .. Len(cs)})
LastWeekLow(cs)  == LastWeek(cs, "LONG")
LastWeekHigh(cs) == LastWeek(cs, "SHORT")

(* The first close outside the opening range of a session.  A session is   *)
(* counted in bars from its first one; bars inside a session that was      *)
(* found do not open another.                                              *)
SessionEnd(cs, s) == Min({s + P.sessionBars - 1, Len(cs)})
Opens(cs) ==
    LET opens[k \in DOMAIN cs] ==
            /\ cs[k].slot = P.open
            /\ \A s \in 1 .. (k - 1) : opens[s] => k > SessionEnd(cs, s)
    IN  opens
Sessions(cs) == {k \in DOMAIN cs : Opens(cs)[k]}

Opening(cs, s, side) ==
    Best(side, {Favourable(side, cs[j]) : j \in s .. (s + P.orBars - 1)})
Opposite(cs, s, side) ==
    Worst(side, {Adverse(side, cs[j]) : j \in s .. (s + P.orBars - 1)})
BreaksOpening(cs, s, k, side) == Sign(side) * (cs[k].c - Opening(cs, s, side)) > 0
OrbBreaks(cs, s) ==
    {k \in (s + P.orBars) .. SessionEnd(cs, s) :
        \E side \in Sides : BreaksOpening(cs, s, k, side)}
OrbIn(cs, s, side) ==
    LET k == Min(OrbBreaks(cs, s))
    IN  IF OrbBreaks(cs, s) # {} /\ BreaksOpening(cs, s, k, side)
        THEN ByRisk(k, side, cs[k].c, Opposite(cs, s, side), P.rr,
                    Max({1, SessionEnd(cs, s) - k}))
        ELSE {}
Orb(cs) ==
    Strategy(cs, P.orBars + 2,
             IF P.sessionBars <= P.orBars THEN {}
             ELSE UNION {OrbIn(cs, s, side) : s \in Sessions(cs), side \in Sides})

(* The first break per day and side of the range of the day's first bars,  *)
(* in an expanding market; a day counts once it has two bars more.         *)
OrbVolFiltered(cs) ==
    LET Breaks(k, side) ==
            /\ k - DayStart(cs, k) \in P.orBars .. (P.cutoff - 1)
            /\ Cardinality(DayOf(cs, k)) >= P.orBars + 2
            /\ AtrWilder(cs, P.atr)[k] > 0 /\ cs[k].wild
            /\ BreaksOpening(cs, DayStart(cs, k), k, side)
        Found(h, k, side) ==
            IF Breaks(k, side) /\ \A j \in DayStart(cs, k) .. (k - 1) : ~Breaks(j, side)
            THEN ByAtr(cs, k, side, P.stop, P.target, 0) ELSE {}
    IN  Strategy(cs, Max({P.orBars, P.atr, P.volWindow}) + 2, Scan(cs, 1, Found))

(* Volume weighted average price of the bars of a day up to k.             *)
Typical(bar) == (bar.h + bar.l + bar.c) \div 3
Vwap(cs, k) ==
    LET S == {j \in DayOf(cs, k) : j <= k}
        volume == Sum([j \in S |-> cs[j].vol], S)
    IN  IF volume > 0
        THEN Sum([j \in S |-> cs[j].vol * Typical(cs[j])], S) \div volume
        ELSE Typical(cs[k])

(* Fade a close some deviations away from the day's average, not in the    *)
(* first and the last bars of the day.                                     *)
VwapFade(cs) ==
    LET dev == [k \in DOMAIN cs |-> cs[k].c - Vwap(cs, k)]
        Sigma(k) == Deviation(dev, {j \in DayOf(cs, k) : j <= k}, 1)
        Found(h, k, side) ==
            LET vwap == Vwap(cs, k)
                stop == vwap - Sign(side) * Tenths(P.kStop, Sigma(k))
            IN  IF /\ Cardinality(DayOf(cs, k)) >= P.minSession
                   /\ k - DayStart(cs, k) >= P.skipOpen
                   /\ Max(DayOf(cs, k)) - k >= P.skipClose
                   /\ Sigma(k) > 0 /\ Min({stop, vwap}) > 0
                   /\ Sign(side) * (vwap - cs[k].c) > Tenths(P.kEntry, Sigma(k))
                   /\ Sign(side) * (cs[k].c - stop) > 0
                THEN {Signal(k, side, cs[k].c, stop, vwap, 0)} ELSE {}
    IN  Strategy(cs, P.minSession + 4, Scan(cs, 1, Found))

(* Once a day: the first return to the day's average after a close above   *)
(* it.  `day` carries the two flags of the loop from bar to bar.           *)
FilledVwap(cs, k) == Vwap([j \in DOMAIN cs |-> [cs[j] EXCEPT !.vol = Max({@, 1})]], k)
Above(cs, k) == cs[k].c > FilledVwap(cs, k)
Bounces(cs, k) ==
    LET v == FilledVwap(cs, k)
    IN  /\ k - DayStart(cs, k) + 1 >= P.settle
        /\ AtrWilder(cs, P.atr)[k] > 0 /\ Trending(cs, k, "LONG")
        /\ 1000 * Size(cs[k].l - v) <= P.touch * v
        /\ Confirms("LONG", cs[k]) /\ Above(cs, k)
        /\ RsiWilder(cs, P.rsi)[k] < P.rsiMax
Touch(cs, k) ==
    ByPositiveStop(k, "LONG", cs[k].c,
        Padded(cs, k, "LONG", FilledVwap(cs, k), P.pad), P.rr)
DayBefore(cs, day, k) ==
    IF k <= P.start + 1 \/ k = DayStart(cs, k)
    THEN [above |-> FALSE, traded |-> FALSE] ELSE day[k - 1]
Fires(cs, b, k) == ~b.traded /\ b.above /\ Bounces(cs, k) /\ Touch(cs, k) # {}
DayFlags(cs) ==
    LET day[k \in DOMAIN cs] ==
            LET b == DayBefore(cs, day, k)
            IN  [above |-> b.above \/ Above(cs, k), traded |-> b.traded \/ Fires(cs, b, k)]
    IN  day
VwapFirstTouchAt(cs, k) ==
    IF Fires(cs, DayBefore(cs, DayFlags(cs), k), k) THEN Touch(cs, k) ELSE {}
VwapFirstTouch(cs) ==
    Strategy(cs, P.warm, UNION {VwapFirstTouchAt(cs, k) : k \in (P.start + 1) .. Len(cs)})
=============================================================================
