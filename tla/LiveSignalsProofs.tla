------------------------- MODULE LiveSignalsProofs -------------------------
(***************************************************************************)
(* What the strategies find in a history does not depend on how it goes    *)
(* on.  Of two histories, one the beginning of the other, every indicator  *)
(* has the same readings on the bars of the shorter one; so has what a     *)
(* loop remembers from bar to bar; hence a strategy finds the same signals *)
(* there.  What the ticks, one stored history after the other, acted on or *)
(* missed is then exactly what a backtest of the last one finds            *)
(* (SignalsStand).  In a market, whose prices are numbers and whose bars   *)
(* follow one another, no strategy finds two signals on a bar              *)
(* (OneSignalPerBar), those that promise to rest between two trades do     *)
(* (TradesApart), and every signal has its stop behind its entry and its   *)
(* target ahead of it (SignalTypeOK).                                      *)
(***************************************************************************)
EXTENDS LiveSignals, FiniteSetTheorems, SequenceTheorems, WellFoundedInduction, TLAPS

(* A nonempty set of naturals has a least element.                         *)
LEMMA Least ==
  ASSUME NEW T \in SUBSET Nat, T # {}
  PROVE  \E m \in T : \A k \in T : m <= k
<1> DEFINE R == {ss \in Nat \X Nat : ss[1] < ss[2]}
<1>1. IsWellFoundedOn(R, Nat)
  BY NatLessThanWellFounded DEF OpToRel
<1> HIDE DEF R
<1>2. PICK m \in T : \A k \in T : <<k, m>> \notin R
  BY <1>1, WFMin
<1>3. \A k \in T : ~ (k < m)
  BY <1>2 DEF R
<1> QED
  BY <1>3

(* Two functions that agree at k if they agree below k agree.              *)
LEMMA Everywhere ==
  ASSUME NEW n \in Nat, NEW f, NEW g,
         \A k \in 1 .. n : (\A j \in 1 .. (k - 1) : f[j] = g[j]) => f[k] = g[k]
  PROVE  \A k \in 1 .. n : f[k] = g[k]
<1> DEFINE Off == {k \in 1 .. n : f[k] # g[k]}
<1> SUFFICES ASSUME Off # {} PROVE FALSE
  OBVIOUS
<1>1. Off \in SUBSET Nat
  OBVIOUS
<1>2. PICK k \in Off : \A j \in Off : k <= j
  BY <1>1, Least
<1>3. \A j \in 1 .. (k - 1) : j \in 1 .. n /\ j \notin Off
  BY <1>2
<1> QED
  BY <1>2, <1>3

(* x, with the indices 1..n, is the beginning of y, with 1..m.             *)
Begins(x, n, y, m) ==
    /\ n \in Nat /\ m \in Nat /\ n <= m
    /\ DOMAIN x = 1 .. n /\ DOMAIN y = 1 .. m
    /\ \A k \in 1 .. n : x[k] = y[k]

Grown(cs, ds) == Begins(cs, Len(cs), ds, Len(ds))

LEMMA GrownBars ==
  ASSUME NEW cs, NEW ds, Grown(cs, ds)
  PROVE  /\ Len(cs) \in Nat /\ Len(ds) \in Nat /\ Len(cs) <= Len(ds)
         /\ DOMAIN cs = 1 .. Len(cs) /\ DOMAIN ds = 1 .. Len(ds)
         /\ \A k \in 1 .. Len(cs) : cs[k] = ds[k]
BY DEF Grown, Begins

---------------------------------------------------------------------------
(* A recursive function is the one that satisfies its equation: the value  *)
(* at k is a step from the value at k - 1, and if functions on 1..m exist  *)
(* that satisfy the equation, so do functions on 1..m+1.                   *)
SmoothStep(x, a, b, k, v) ==
    IF k = 1 THEN x[1] ELSE (a * x[k] + b * v) \div (a + b)

LEMMA SmoothFunction ==
  ASSUME NEW n \in Nat, NEW x, DOMAIN x = 1 .. n, NEW a, NEW b
  PROVE  Smooth(x, a, b) = [k \in 1 .. n |-> SmoothStep(x, a, b, k, Smooth(x, a, b)[k - 1])]
<1> DEFINE Step(k, v) == SmoothStep(x, a, b, k, v)
           Upto(m, f) == f = [k \in 1 .. m |-> Step(k, f[k - 1])]
           Lacking == {m \in Nat : ~ \E f : Upto(m, f)}
<1>1. Smooth(x, a, b) = CHOOSE f : Upto(n, f)
  BY Zenon DEF Smooth, SmoothStep
<1>2. ASSUME NEW m \in Nat, NEW f, Upto(m, f) PROVE \E g : Upto(m + 1, g)
  <2> DEFINE g == [k \in 1 .. m + 1 |-> IF k = m + 1 THEN Step(m + 1, f[m]) ELSE f[k]]
  <2>1. \A u, v : Step(1, u) = Step(1, v)
    BY DEF SmoothStep
  <2> HIDE DEF Step
  <2>2. \A k \in 1 .. m : f[k] = Step(k, f[k - 1])
    BY <1>2
  <2>3. ASSUME NEW k \in 1 .. m + 1 PROVE g[k] = Step(k, g[k - 1])
    <3>1. CASE k = 1
      BY <2>1, <2>2, <3>1
    <3>2. CASE k # 1
      <4>1. k - 1 \in 1 .. m /\ g[k - 1] = f[k - 1]
        BY <3>2
      <4>2. g[k] = IF k = m + 1 THEN Step(m + 1, f[m]) ELSE f[k]
        OBVIOUS
      <4> HIDE DEF g
      <4> QED
        BY <2>2, <4>1, <4>2
    <3> QED
      BY <3>1, <3>2
  <2> QED
    BY <2>3
<1> HIDE DEF Step
<1>3. \E f : Upto(0, f)
  OBVIOUS
<1> HIDE DEF Upto
<1>4. Lacking = {}
  <2> SUFFICES ASSUME Lacking # {} PROVE FALSE
    OBVIOUS
  <2>1. PICK m \in Lacking : \A j \in Lacking : m <= j
    BY Least
  <2>2. m # 0 /\ m - 1 \in Nat /\ m - 1 \notin Lacking
    BY <1>3, <2>1
  <2> QED
    BY <1>2, <2>1, <2>2
<1> QED
  BY <1>1, <1>4 DEF Upto, Step

LEMMA SmoothBegins ==
  ASSUME NEW x, NEW n, NEW y, NEW m, Begins(x, n, y, m), NEW a, NEW b
  PROVE  Begins(Smooth(x, a, b), n, Smooth(y, a, b), m)
<1>1. /\ Smooth(x, a, b) = [k \in 1 .. n |-> SmoothStep(x, a, b, k, Smooth(x, a, b)[k - 1])]
      /\ Smooth(y, a, b) = [k \in 1 .. m |-> SmoothStep(y, a, b, k, Smooth(y, a, b)[k - 1])]
      /\ n \in Nat /\ m \in Nat /\ n <= m
  BY SmoothFunction DEF Begins
<1>2. ASSUME NEW k \in 1 .. n,
             \A j \in 1 .. (k - 1) : Smooth(x, a, b)[j] = Smooth(y, a, b)[j]
      PROVE  Smooth(x, a, b)[k] = Smooth(y, a, b)[k]
  <2>1. /\ Smooth(x, a, b)[k] = SmoothStep(x, a, b, k, Smooth(x, a, b)[k - 1])
        /\ Smooth(y, a, b)[k] = SmoothStep(y, a, b, k, Smooth(y, a, b)[k - 1])
    BY <1>1
  <2>2. x[k] = y[k] /\ x[1] = y[1]
    <3>1. 1 \in 1 .. n
      BY <1>1
    <3> QED
      BY <3>1 DEF Begins
  <2>3. k # 1 => Smooth(x, a, b)[k - 1] = Smooth(y, a, b)[k - 1]
    <3>1. k # 1 => k - 1 \in 1 .. (k - 1)
      BY <1>1
    <3> QED
      BY <1>2, <3>1, Zenon
  <2> QED
    BY <2>1, <2>2, <2>3, Zenon DEF SmoothStep
<1>3. \A k \in 1 .. n : Smooth(x, a, b)[k] = Smooth(y, a, b)[k]
  <2>1. n \in Nat
    BY <1>1
  <2> QED
    BY <1>2, <2>1, Everywhere
<1> QED
  BY <1>1, <1>3, Zenon DEF Begins

---------------------------------------------------------------------------
(* Every indicator of the shorter history begins that of the longer one.   *)
LEMMA ClosesBegin ==
  ASSUME NEW cs, NEW ds, Grown(cs, ds)
  PROVE  Begins(Closes(cs), Len(cs), Closes(ds), Len(ds))
BY DEF Grown, Begins, Closes

LEMMA RangesBegin ==
  ASSUME NEW cs, NEW ds, Grown(cs, ds)
  PROVE  Begins(TrueRange(cs), Len(cs), TrueRange(ds), Len(ds))
<1>1. ASSUME NEW k \in 1 .. Len(cs) PROVE TrueRange(cs)[k] = TrueRange(ds)[k]
  <2>1. k \in DOMAIN cs /\ k \in DOMAIN ds /\ cs[k] = ds[k]
    BY GrownBars
  <2>2. k # 1 => cs[k - 1] = ds[k - 1]
    BY GrownBars
  <2> QED
    BY <2>1, <2>2, Zenon DEF TrueRange
<1> QED
  BY <1>1, Zenon DEF Grown, Begins, TrueRange

LEMMA MovesBegin ==
  ASSUME NEW cs, NEW ds, Grown(cs, ds), NEW sign
  PROVE  Begins(Moves(cs, sign), Len(cs), Moves(ds, sign), Len(ds))
<1>1. ASSUME NEW k \in 1 .. Len(cs) PROVE Moves(cs, sign)[k] = Moves(ds, sign)[k]
  <2>1. k \in DOMAIN cs /\ k \in DOMAIN ds /\ cs[k] = ds[k]
    BY GrownBars
  <2>2. k # 1 => cs[k - 1] = ds[k - 1]
    BY GrownBars
  <2> QED
    BY <2>1, <2>2, Zenon DEF Moves
<1> QED
  BY <1>1, Zenon DEF Grown, Begins, Moves

(* What the strategies read at a bar is the same in both histories.        *)
Alike(cs, ds, k) ==
    /\ cs[k] = ds[k] /\ Closes(cs)[k] = Closes(ds)[k]
    /\ Closes(cs)[k] = cs[k].c
    /\ \A p : Ema(Closes(cs), p)[k] = Ema(Closes(ds), p)[k]
    /\ \A p : AtrWilder(cs, p)[k] = AtrWilder(ds, p)[k]
    /\ \A p, sign : Wilder(Moves(cs, sign), p)[k] = Wilder(Moves(ds, sign), p)[k]
    /\ \A p : RsiWilder(cs, p)[k] = RsiWilder(ds, p)[k]

LEMMA BarsAlike ==
  ASSUME NEW cs, NEW ds, Grown(cs, ds), NEW k \in 1 .. Len(cs)
  PROVE  Alike(cs, ds, k)
<1>1. cs[k] = ds[k] /\ k \in DOMAIN cs /\ k \in DOMAIN ds
  BY GrownBars
<1>2. Closes(cs)[k] = Closes(ds)[k] /\ Closes(cs)[k] = cs[k].c
  BY <1>1 DEF Closes
<1>3. \A p : Ema(Closes(cs), p)[k] = Ema(Closes(ds), p)[k]
  BY ClosesBegin, SmoothBegins DEF Begins, Ema
<1>4. \A p : AtrWilder(cs, p)[k] = AtrWilder(ds, p)[k]
  BY RangesBegin, SmoothBegins DEF Begins, AtrWilder, Wilder
<1>5. \A p, sign : Wilder(Moves(cs, sign), p)[k] = Wilder(Moves(ds, sign), p)[k]
  BY MovesBegin, SmoothBegins DEF Begins, Wilder
<1>6. \A p : RsiWilder(cs, p)[k] = RsiWilder(ds, p)[k]
  BY <1>1, <1>5, Zenon DEF RsiWilder
<1> QED
  BY <1>1, <1>2, <1>3, <1>4, <1>5, <1>6 DEF Alike

(* A sum depends on the summands only.                                     *)
LEMMA SumSame ==
  ASSUME NEW S, NEW x, NEW y, \A j \in S : x[j] = y[j]
  PROVE  Sum(x, S) = Sum(y, S)
<1> DEFINE Body(z, it) ==
             [s \in SUBSET S |->
                IF s = {} THEN 0
                ELSE z[CHOOSE t \in s : TRUE] + it[s \ {CHOOSE t \in s : TRUE}]]
<1>1. ASSUME NEW it PROVE Body(x, it) = Body(y, it)
  <2>1. \A s \in SUBSET S : s # {} => (CHOOSE t \in s : TRUE) \in S
    OBVIOUS
  <2> QED
    BY <2>1
<1> HIDE DEF Body
<1>2. (CHOOSE it : it = Body(x, it)) = (CHOOSE it : it = Body(y, it))
  BY <1>1, Zenon
<1>3. Sum(x, S) = (CHOOSE it : it = Body(x, it))[S]
  BY Zenon DEF Sum, MapThenSumSet, MapThenFoldSet, Body
<1>4. Sum(y, S) = (CHOOSE it : it = Body(y, it))[S]
  BY Zenon DEF Sum, MapThenSumSet, MapThenFoldSet, Body
<1> QED
  BY <1>2, <1>3, <1>4, Zenon

Agree(S, x, y) == \A j \in S : x[j] = y[j]

LEMMA DeviationSame ==
  ASSUME NEW S, NEW x, NEW y, Agree(S, x, y)
  PROVE  /\ Sum(x, S) = Sum(y, S) /\ Mean(x, S) = Mean(y, S)
         /\ \A ddof : Deviation(x, S, ddof) = Deviation(y, S, ddof)
<1>1. Sum(x, S) = Sum(y, S)
  BY SumSame DEF Agree
<1>2. Mean(x, S) = Mean(y, S)
  BY <1>1, Zenon DEF Mean
<1>3. [j \in S |-> (x[j] - Mean(x, S)) * (x[j] - Mean(x, S))] =
      [j \in S |-> (y[j] - Mean(y, S)) * (y[j] - Mean(y, S))]
  BY <1>2, Zenon DEF Agree
<1> QED
  BY <1>1, <1>2, <1>3, Zenon DEF Deviation

LEMMA TrailingBars ==
  ASSUME NEW n \in Int, NEW k \in Int, NEW p \in Int, p <= k, k <= n
  PROVE  Trailing(k, p) \subseteq 1 .. n
BY DEF Trailing

(* The averages over bars of the shorter history.                          *)
LEMMA AveragesAlike ==
  ASSUME NEW cs, NEW ds, Grown(cs, ds), NEW T, T \subseteq 1 .. Len(cs)
  PROVE  /\ Mean(Closes(cs), T) = Mean(Closes(ds), T)
         /\ \A ddof : Deviation(Closes(cs), T, ddof) = Deviation(Closes(ds), T, ddof)
<1>1. Agree(T, Closes(cs), Closes(ds))
  BY ClosesBegin DEF Begins, Agree
<1> QED
  BY <1>1, DeviationSame

---------------------------------------------------------------------------
(* What the strategies make of the readings of a bar.                      *)
LEMMA OrdersAlike ==
  ASSUME NEW cs, NEW ds, NEW k, Alike(cs, ds, k), NEW side
  PROVE  /\ InRegime(cs, k, side) <=> InRegime(ds, k, side)
         /\ \A m, t, h : ByAtr(cs, k, side, m, t, h) = ByAtr(ds, k, side, m, t, h)
         /\ \A price, pad : Padded(cs, k, side, price, pad) = Padded(ds, k, side, price, pad)
<1>1. InRegime(cs, k, side) <=> InRegime(ds, k, side)
  BY Zenon DEF Alike, InRegime
<1>2. \A m, t, h : ByAtr(cs, k, side, m, t, h) = ByAtr(ds, k, side, m, t, h)
  BY Zenon DEF Alike, ByAtr
<1>3. \A price, pad : Padded(cs, k, side, price, pad) = Padded(ds, k, side, price, pad)
  BY Zenon DEF Alike, Padded
<1> QED
  BY <1>1, <1>2, <1>3

(* A signal sits on the bar it was found at.                               *)
LEMMA OrdersAtBar ==
  ASSUME NEW k, NEW side
  PROVE  /\ \A cs, m, t, h : \A s \in ByAtr(cs, k, side, m, t, h) : s.bar = k
         /\ \A e, p, m, h : \A s \in ByRisk(k, side, e, p, m, h) : s.bar = k
         /\ \A e, p, m : \A s \in ByPositiveStop(k, side, e, p, m) : s.bar = k
         /\ \A cs, p : \A s \in ToMid(cs, k, side, p) : s.bar = k
<1>1. \A cs, m, t, h : \A s \in ByAtr(cs, k, side, m, t, h) : s.bar = k
  BY DEF ByAtr, Signal
<1>2. \A e, p, m, h : \A s \in ByRisk(k, side, e, p, m, h) : s.bar = k
  BY DEF ByRisk, Signal
<1>3. \A e, p, m : \A s \in ByPositiveStop(k, side, e, p, m) : s.bar = k
  BY <1>2 DEF ByPositiveStop
<1>4. \A cs, p : \A s \in ToMid(cs, k, side, p) : s.bar = k
  BY DEF ToMid, Signal
<1> QED
  BY <1>1, <1>2, <1>3, <1>4

LEMMA MaxOfInts ==
  ASSUME NEW a \in Int, NEW b \in Int
  PROVE  /\ Max({a, b}) \in Int /\ Max({a, b}) >= a /\ Max({a, b}) >= b
         /\ \A c \in Int :
                /\ Max({a, b, c}) \in Int /\ Max({a, b, c}) >= a
                /\ Max({a, b, c}) >= b /\ Max({a, b, c}) >= c
         /\ \A c, d \in Int :
                /\ Max({a, b, c, d}) \in Int
                /\ Max({a, b, c, d}) >= a /\ Max({a, b, c, d}) >= b
                /\ Max({a, b, c, d}) >= c /\ Max({a, b, c, d}) >= d
<1>1. \A c, d \in Int : \E m \in {a, b, c, d} : \A y \in {a, b, c, d} : m >= y
  OBVIOUS
<1>2. \A c \in Int : \E m \in {a, b, c} : \A y \in {a, b, c} : m >= y
  OBVIOUS
<1>3. \E m \in {a, b} : \A y \in {a, b} : m >= y
  OBVIOUS
<1> QED
  BY <1>1, <1>2, <1>3 DEF Max

LEMMA CountsAreNumbers ==
    /\ P.fast \in Int /\ P.fast > 0 /\ P.mid \in Int /\ P.mid > 0
    /\ P.slow \in Int /\ P.slow > 0 /\ P.atr \in Int /\ P.atr > 0
    /\ P.rsi \in Int /\ P.rsi > 0 /\ P.bb \in Int /\ P.bb > 0
    /\ P.period \in Int /\ P.period > 0 /\ P.volWindow \in Int /\ P.volWindow > 0
    /\ P.warm \in Int /\ P.warm > 0 /\ P.start \in Int /\ P.start > 0
    /\ P.week \in Int /\ P.week > 0 /\ P.sessionBars \in Int /\ P.sessionBars > 0
    /\ P.orBars \in Int /\ P.orBars > 0 /\ P.pivot \in Int /\ P.pivot > 0
    /\ P.lookback \in Int /\ P.lookback > 0 /\ P.cooldown \in Int /\ P.cooldown > 0
    /\ P.swing \in Int /\ P.swing > 0 /\ P.fresh \in Int /\ P.fresh > 0
    /\ P.momentum \in Int /\ P.momentum > 0
    /\ P.regime \in Int /\ P.regime >= 0 /\ P.hold \in Int /\ P.hold >= 0
    /\ P.bb <= P.warm
BY CountsAssumption DEF Counts

(* The numbers of bars the strategies ask for.                             *)
LEMMA NeedsAreNumbers ==
    /\ Max({P.fast, P.slow, P.atr}) \in Int
    /\ Max({P.period, P.atr}) \in Int
    /\ Max({P.period, P.atr, P.volWindow}) \in Int
    /\ Max({P.rsi, P.atr}) \in Int
    /\ Max({P.bb, P.atr}) \in Int
    /\ Max({P.bb, P.atr, P.rsi}) \in Int /\ Max({P.bb, P.atr, P.rsi}) >= P.bb
    /\ Max({P.slow, P.atr}) \in Int
    /\ Max({P.fast, P.mid, P.slow, P.atr}) \in Int
    /\ Max({P.fast, P.mid, P.slow, P.atr}) >= P.fast
    /\ Max({3 * P.rsi, 3 * P.atr, 2 * P.regime, P.warm}) \in Int
    /\ Max({3 * P.rsi, 3 * P.atr, 2 * P.regime, P.warm}) >= P.warm
    /\ Max({P.atr + 2, 3}) \in Int
    /\ ZoneWarm \in Int /\ ZoneWarm >= P.warm
    /\ RegimeWarm \in Int /\ RegimeWarm >= P.slow
<1>1. /\ P.fast \in Int /\ P.mid \in Int /\ P.slow \in Int /\ P.atr \in Int
      /\ P.rsi \in Int /\ P.bb \in Int /\ P.period \in Int /\ P.volWindow \in Int
      /\ P.swing \in Int /\ P.warm \in Int
  BY CountsAreNumbers
<1>2. /\ 3 * P.rsi \in Int /\ 3 * P.atr \in Int /\ 2 * P.regime \in Int
      /\ P.atr + 2 \in Int /\ 2 * P.pivot + P.lookback \in Int
  BY CountsAreNumbers
<1>3. /\ Max({P.fast, P.slow, P.atr}) \in Int
      /\ Max({P.period, P.atr, P.volWindow}) \in Int
      /\ Max({P.bb, P.atr, P.rsi}) \in Int /\ Max({P.bb, P.atr, P.rsi}) >= P.bb
  BY <1>1, MaxOfInts
<1>4. /\ Max({P.period, P.atr}) \in Int /\ Max({P.rsi, P.atr}) \in Int
      /\ Max({P.bb, P.atr}) \in Int /\ Max({P.slow, P.atr}) \in Int
  BY <1>1, MaxOfInts
<1>5. /\ Max({P.fast, P.mid, P.slow, P.atr}) \in Int
      /\ Max({P.fast, P.mid, P.slow, P.atr}) >= P.fast
  BY <1>1, MaxOfInts
<1>6. /\ Max({3 * P.rsi, 3 * P.atr, 2 * P.regime, P.warm}) \in Int
      /\ Max({3 * P.rsi, 3 * P.atr, 2 * P.regime, P.warm}) >= P.warm
  BY <1>1, <1>2, MaxOfInts
<1>7. Max({P.atr + 2, 3}) \in Int
  <2>1. P.atr + 2 \in Int /\ 3 \in Int
    BY <1>2
  <2> QED
    BY <2>1, MaxOfInts, Zenon
<1>8. ZoneWarm \in Int /\ ZoneWarm >= P.warm
  BY <1>1, <1>2, MaxOfInts DEF ZoneWarm
<1>9. RegimeWarm \in Int /\ RegimeWarm >= P.slow
  <2>1. Max({P.slow, P.atr, P.swing}) \in Int /\ Max({P.slow, P.atr, P.swing}) >= P.slow
    BY <1>1, MaxOfInts
  <2> QED
    BY <1>1, <2>1 DEF RegimeWarm
<1> QED
  BY <1>3, <1>4, <1>5, <1>6, <1>7, <1>8, <1>9

---------------------------------------------------------------------------
(* What a strategy makes of the shorter history it makes of the longer one *)
(* too, and at the bars of the shorter one it makes nothing else of it.    *)
Same(before, after, n) ==
    /\ before.needs = after.needs /\ before.needs \in Int
    /\ n < before.needs => before.signals = {}
    /\ \A s \in before.signals : s.bar \in 1 .. n /\
           \E t \in after.signals : t.bar = s.bar /\ Order(t) = Order(s)
    /\ \A t \in after.signals : t.bar \in Int /\
           (before.needs <= n /\ t.bar <= n =>
               \E s \in before.signals : s.bar = t.bar /\ Order(s) = Order(t))

(* A loop whose body finds the same at every bar of both histories.        *)
LEMMA LoopSame ==
  ASSUME NEW cs, NEW ds, Grown(cs, ds), NEW needs \in Int, NEW A, NEW B,
         \A s \in A : s \in B /\ s.bar \in 1 .. Len(cs),
         \A s \in B : s.bar \in Int /\ (s.bar <= Len(cs) => s \in A)
  PROVE  Same(Strategy(cs, needs, A), Strategy(ds, needs, B), Len(cs))
<1>1. Len(cs) \in Nat /\ Len(ds) \in Nat /\ Len(cs) <= Len(ds)
  BY GrownBars
<1>2. /\ Strategy(cs, needs, A).signals = (IF Len(cs) < needs THEN {} ELSE A)
      /\ Strategy(ds, needs, B).signals = (IF Len(ds) < needs THEN {} ELSE B)
      /\ Strategy(cs, needs, A).needs = needs /\ Strategy(ds, needs, B).needs = needs
  BY DEF Strategy
<1> QED
  BY <1>1, <1>2 DEF Same

LEMMA EmaCrossSame ==
  ASSUME NEW cs, NEW ds, Grown(cs, ds)
  PROVE  Same(EmaCross(cs), EmaCross(ds), Len(cs))
<1> DEFINE needs == Max({P.fast, P.slow, P.atr}) + 2
           first == 2
           Loop(h) == UNION {EmaCrossAt(h, k, side) : k \in first .. Len(h), side \in Sides}
<1>1. \A h : EmaCross(h) = Strategy(h, needs, Loop(h))
  BY DEF EmaCross, Scan
<1> HIDE DEF first, needs
<1>2. \A h, s : s \in Loop(h) <=>
          \E k \in first .. Len(h), side \in Sides : s \in EmaCrossAt(h, k, side)
  OBVIOUS
<1>3. needs \in Int /\ first \in Int /\ first >= 2
  BY CountsAreNumbers, NeedsAreNumbers DEF needs, first
<1> HIDE DEF Loop
<1>4. ASSUME NEW k \in first .. Len(cs), NEW side \in Sides
      PROVE  EmaCrossAt(cs, k, side) = EmaCrossAt(ds, k, side)
  <2>1. /\ k \in 2 .. Len(cs) /\ k \in 1 .. Len(cs) /\ k - 1 \in 1 .. Len(cs)
        /\ k \in Int /\ first <= k
    BY <1>3, GrownBars
  <2>2. Alike(cs, ds, k) /\ Alike(cs, ds, k - 1)
    BY <2>1, BarsAlike
  <2>3. /\ InRegime(cs, k, side) <=> InRegime(ds, k, side)
        /\ \A m, t, h : ByAtr(cs, k, side, m, t, h) = ByAtr(ds, k, side, m, t, h)
    BY <2>2, OrdersAlike
  <2>4. \A p : \A j \in {k - 1, k} : Ema(Closes(cs), p)[j] = Ema(Closes(ds), p)[j]
    BY <2>2 DEF Alike
  <2> QED
    BY <2>3, <2>4, Zenon DEF EmaCrossAt
<1>5. \A h, k, side : \A s \in EmaCrossAt(h, k, side) : s.bar = k
  BY OrdersAtBar DEF EmaCrossAt
<1>6. \A s \in Loop(cs) : s \in Loop(ds) /\ s.bar \in 1 .. Len(cs)
  BY <1>2, <1>3, <1>4, <1>5, GrownBars
<1>7. \A s \in Loop(ds) : s.bar \in Int /\ (s.bar <= Len(cs) => s \in Loop(cs))
  BY <1>2, <1>3, <1>4, <1>5, GrownBars
<1> QED
  BY <1>1, <1>3, <1>6, <1>7, LoopSame

LEMMA BreaksOutSame ==
  ASSUME NEW cs, NEW ds, Grown(cs, ds), NEW k \in 2 .. Len(cs), NEW side
  PROVE  BreaksOut(cs, k, side) <=> BreaksOut(ds, k, side)
<1>1. ASSUME NEW j \in 1 .. Len(cs) PROVE Outside(cs, j, side) <=> Outside(ds, j, side)
  <2>1. \A i \in Trailing(j - 1, P.period) : j > P.period => cs[i] = ds[i]
    <3>1. Len(cs) \in Int /\ j - 1 \in Int /\ P.period \in Int
      BY GrownBars, CountsAreNumbers
    <3>2. j > P.period => Trailing(j - 1, P.period) \subseteq 1 .. Len(cs)
      BY <3>1, TrailingBars
    <3> QED
      BY <3>2, GrownBars
  <2>2. j > P.period => {cs[i].c : i \in Trailing(j - 1, P.period)} =
                        {ds[i].c : i \in Trailing(j - 1, P.period)}
    BY <2>1
  <2>3. cs[j] = ds[j]
    BY GrownBars
  <2> QED
    BY <2>2, <2>3, Zenon DEF Outside
<1>2. k \in 1 .. Len(cs) /\ k - 1 \in 1 .. Len(cs)
  BY GrownBars
<1> QED
  BY <1>1, <1>2 DEF BreaksOut

LEMMA DonchianBreakoutSame ==
  ASSUME NEW cs, NEW ds, Grown(cs, ds)
  PROVE  Same(DonchianBreakout(cs), DonchianBreakout(ds), Len(cs))
<1> DEFINE needs == Max({P.period, P.atr}) + 2
           first == 2
           Loop(h) == UNION {DonchianBreakoutAt(h, k, side) : k \in first .. Len(h), side \in Sides}
<1>1. \A h : DonchianBreakout(h) = Strategy(h, needs, Loop(h))
  BY DEF DonchianBreakout, Scan
<1> HIDE DEF first, needs
<1>2. \A h, s : s \in Loop(h) <=>
          \E k \in first .. Len(h), side \in Sides : s \in DonchianBreakoutAt(h, k, side)
  OBVIOUS
<1>3. needs \in Int /\ first \in Int /\ first >= 2
  BY CountsAreNumbers, NeedsAreNumbers DEF needs, first
<1> HIDE DEF Loop
<1>4. ASSUME NEW k \in first .. Len(cs), NEW side \in Sides
      PROVE  DonchianBreakoutAt(cs, k, side) = DonchianBreakoutAt(ds, k, side)
  <2>1. /\ k \in 2 .. Len(cs) /\ k \in 1 .. Len(cs) /\ k - 1 \in 1 .. Len(cs)
        /\ k \in Int /\ first <= k
    BY <1>3, GrownBars
  <2>2. Alike(cs, ds, k) /\ Alike(cs, ds, k - 1)
    BY <2>1, BarsAlike
  <2>3. /\ InRegime(cs, k, side) <=> InRegime(ds, k, side)
        /\ \A m, t, h : ByAtr(cs, k, side, m, t, h) = ByAtr(ds, k, side, m, t, h)
    BY <2>2, OrdersAlike
  <2>4. BreaksOut(cs, k, side) <=> BreaksOut(ds, k, side)
    BY <2>1, BreaksOutSame
  <2> QED
    BY <2>3, <2>4, Zenon DEF DonchianBreakoutAt
<1>5. \A h, k, side : \A s \in DonchianBreakoutAt(h, k, side) : s.bar = k
  BY OrdersAtBar DEF DonchianBreakoutAt
<1>6. \A s \in Loop(cs) : s \in Loop(ds) /\ s.bar \in 1 .. Len(cs)
  BY <1>2, <1>3, <1>4, <1>5, GrownBars
<1>7. \A s \in Loop(ds) : s.bar \in Int /\ (s.bar <= Len(cs) => s \in Loop(cs))
  BY <1>2, <1>3, <1>4, <1>5, GrownBars
<1> QED
  BY <1>1, <1>3, <1>6, <1>7, LoopSame

LEMMA VolBreakSame ==
  ASSUME NEW cs, NEW ds, Grown(cs, ds)
  PROVE  Same(VolBreak(cs), VolBreak(ds), Len(cs))
<1> DEFINE needs == Max({P.period, P.atr, P.volWindow}) + 2
           first == 2
           Loop(h) == UNION {VolBreakAt(h, k, side) : k \in first .. Len(h), side \in Sides}
<1>1. \A h : VolBreak(h) = Strategy(h, needs, Loop(h))
  BY DEF VolBreak, Scan
<1> HIDE DEF first, needs
<1>2. \A h, s : s \in Loop(h) <=>
          \E k \in first .. Len(h), side \in Sides : s \in VolBreakAt(h, k, side)
  OBVIOUS
<1>3. needs \in Int /\ first \in Int /\ first >= 2
  BY CountsAreNumbers, NeedsAreNumbers DEF needs, first
<1> HIDE DEF Loop
<1>4. ASSUME NEW k \in first .. Len(cs), NEW side \in Sides
      PROVE  VolBreakAt(cs, k, side) = VolBreakAt(ds, k, side)
  <2>1. /\ k \in 2 .. Len(cs) /\ k \in 1 .. Len(cs) /\ k - 1 \in 1 .. Len(cs)
        /\ k \in Int /\ first <= k
    BY <1>3, GrownBars
  <2>2. Alike(cs, ds, k) /\ Alike(cs, ds, k - 1)
    BY <2>1, BarsAlike
  <2>3. /\ InRegime(cs, k, side) <=> InRegime(ds, k, side)
        /\ \A m, t, h : ByAtr(cs, k, side, m, t, h) = ByAtr(ds, k, side, m, t, h)
    BY <2>2, OrdersAlike
  <2>4. cs[k] = ds[k] /\ (BreaksOut(cs, k, side) <=> BreaksOut(ds, k, side))
    BY <2>1, <2>2, BreaksOutSame DEF Alike
  <2> QED
    BY <2>3, <2>4, Zenon DEF VolBreakAt
<1>5. \A h, k, side : \A s \in VolBreakAt(h, k, side) : s.bar = k
  BY OrdersAtBar DEF VolBreakAt
<1>6. \A s \in Loop(cs) : s \in Loop(ds) /\ s.bar \in 1 .. Len(cs)
  BY <1>2, <1>3, <1>4, <1>5, GrownBars
<1>7. \A s \in Loop(ds) : s.bar \in Int /\ (s.bar <= Len(cs) => s \in Loop(cs))
  BY <1>2, <1>3, <1>4, <1>5, GrownBars
<1> QED
  BY <1>1, <1>3, <1>6, <1>7, LoopSame

LEMMA RsiMeanRevSame ==
  ASSUME NEW cs, NEW ds, Grown(cs, ds)
  PROVE  Same(RsiMeanRev(cs), RsiMeanRev(ds), Len(cs))
<1> DEFINE needs == Max({P.rsi, P.atr}) + 2
           first == 3
           Loop(h) == UNION {RsiMeanRevAt(h, k, side) : k \in first .. Len(h), side \in Sides}
<1>1. \A h : RsiMeanRev(h) = Strategy(h, needs, Loop(h))
  BY DEF RsiMeanRev, Scan
<1> HIDE DEF first, needs
<1>2. \A h, s : s \in Loop(h) <=>
          \E k \in first .. Len(h), side \in Sides : s \in RsiMeanRevAt(h, k, side)
  OBVIOUS
<1>3. needs \in Int /\ first \in Int /\ first >= 2
  BY CountsAreNumbers, NeedsAreNumbers DEF needs, first
<1> HIDE DEF Loop
<1>4. ASSUME NEW k \in first .. Len(cs), NEW side \in Sides
      PROVE  RsiMeanRevAt(cs, k, side) = RsiMeanRevAt(ds, k, side)
  <2>1. /\ k \in 2 .. Len(cs) /\ k \in 1 .. Len(cs) /\ k - 1 \in 1 .. Len(cs)
        /\ k \in Int /\ first <= k
    BY <1>3, GrownBars
  <2>2. Alike(cs, ds, k) /\ Alike(cs, ds, k - 1)
    BY <2>1, BarsAlike
  <2>3. /\ InRegime(cs, k, side) <=> InRegime(ds, k, side)
        /\ \A m, t, h : ByAtr(cs, k, side, m, t, h) = ByAtr(ds, k, side, m, t, h)
    BY <2>2, OrdersAlike
  <2>4. \A p : \A j \in {k - 1, k} : RsiWilder(cs, p)[j] = RsiWilder(ds, p)[j]
    BY <2>2 DEF Alike
  <2> QED
    BY <2>3, <2>4, Zenon DEF RsiMeanRevAt
<1>5. \A h, k, side : \A s \in RsiMeanRevAt(h, k, side) : s.bar = k
  BY OrdersAtBar DEF RsiMeanRevAt
<1>6. \A s \in Loop(cs) : s \in Loop(ds) /\ s.bar \in 1 .. Len(cs)
  BY <1>2, <1>3, <1>4, <1>5, GrownBars
<1>7. \A s \in Loop(ds) : s.bar \in Int /\ (s.bar <= Len(cs) => s \in Loop(cs))
  BY <1>2, <1>3, <1>4, <1>5, GrownBars
<1> QED
  BY <1>1, <1>3, <1>6, <1>7, LoopSame

LEMMA BandsSame ==
  ASSUME NEW cs, NEW ds, Grown(cs, ds), NEW k \in 1 .. Len(cs), P.bb <= k, NEW side
  PROVE  /\ Mid(cs, k) = Mid(ds, k)
         /\ Beyond(cs, k, side) = Beyond(ds, k, side)
         /\ Band(cs, k, side) = Band(ds, k, side)
         /\ \A stop : ToMid(cs, k, side, stop) = ToMid(ds, k, side, stop)
<1>1. Trailing(k, P.bb) \subseteq 1 .. Len(cs)
  <2>1. Len(cs) \in Int /\ P.bb \in Int /\ k \in Int /\ k <= Len(cs)
    BY GrownBars, CountsAreNumbers
  <2> QED
    BY <2>1, TrailingBars
<1>2. /\ Mean(Closes(cs), Trailing(k, P.bb)) = Mean(Closes(ds), Trailing(k, P.bb))
      /\ \A ddof : Deviation(Closes(cs), Trailing(k, P.bb), ddof) =
                    Deviation(Closes(ds), Trailing(k, P.bb), ddof)
  BY <1>1, AveragesAlike
<1>3. cs[k] = ds[k]
  BY GrownBars
<1>4. Mid(cs, k) = Mid(ds, k)
  BY <1>2 DEF Mid
<1>5. Beyond(cs, k, side) = Beyond(ds, k, side) /\ Band(cs, k, side) = Band(ds, k, side)
  BY <1>2, <1>3, <1>4, Zenon DEF Beyond, Band
<1>6. \A stop : ToMid(cs, k, side, stop) = ToMid(ds, k, side, stop)
  BY <1>3, <1>4, Zenon DEF ToMid
<1> QED
  BY <1>4, <1>5, <1>6

LEMMA BBandsMeanRevSame ==
  ASSUME NEW cs, NEW ds, Grown(cs, ds)
  PROVE  Same(BBandsMeanRev(cs), BBandsMeanRev(ds), Len(cs))
<1> DEFINE needs == Max({P.bb, P.atr}) + 2
           first == P.bb + 1
           Loop(h) == UNION {BBandsMeanRevAt(h, k, side) : k \in first .. Len(h), side \in Sides}
<1>1. \A h : BBandsMeanRev(h) = Strategy(h, needs, Loop(h))
  BY DEF BBandsMeanRev, Scan
<1> HIDE DEF first, needs
<1>2. \A h, s : s \in Loop(h) <=>
          \E k \in first .. Len(h), side \in Sides : s \in BBandsMeanRevAt(h, k, side)
  OBVIOUS
<1>3. needs \in Int /\ first \in Int /\ first >= 2 /\ first >= P.bb + 1
  BY CountsAreNumbers, NeedsAreNumbers DEF needs, first
<1> HIDE DEF Loop
<1>4. ASSUME NEW k \in first .. Len(cs), NEW side \in Sides
      PROVE  BBandsMeanRevAt(cs, k, side) = BBandsMeanRevAt(ds, k, side)
  <2>1. /\ k \in 2 .. Len(cs) /\ k \in 1 .. Len(cs) /\ k - 1 \in 1 .. Len(cs)
        /\ k \in Int /\ first <= k
    BY <1>3, GrownBars
  <2>2. Alike(cs, ds, k) /\ Alike(cs, ds, k - 1)
    BY <2>1, BarsAlike
  <2>3. \A price, pad : Padded(cs, k, side, price, pad) = Padded(ds, k, side, price, pad)
    BY <2>2, OrdersAlike
  <2>8. P.bb \in Int
    BY CountsAreNumbers
  <2>4. P.bb <= k /\ P.bb <= k - 1
    BY <1>3, <2>1, <2>8
  <2>5. /\ Beyond(cs, k, side) = Beyond(ds, k, side)
        /\ \A stop : ToMid(cs, k, side, stop) = ToMid(ds, k, side, stop)
    BY <2>1, <2>4, BandsSame
  <2>7. Beyond(cs, k - 1, side) = Beyond(ds, k - 1, side)
    BY <2>1, <2>4, BandsSame
  <2>6. cs[k] = ds[k] /\ \A p : AtrWilder(cs, p)[k] = AtrWilder(ds, p)[k]
    BY <2>2 DEF Alike
  <2> QED
    BY <2>3, <2>5, <2>6, <2>7, Zenon DEF BBandsMeanRevAt
<1>5. \A h, k, side : \A s \in BBandsMeanRevAt(h, k, side) : s.bar = k
  BY OrdersAtBar DEF BBandsMeanRevAt
<1>6. \A s \in Loop(cs) : s \in Loop(ds) /\ s.bar \in 1 .. Len(cs)
  BY <1>2, <1>3, <1>4, <1>5, GrownBars
<1>7. \A s \in Loop(ds) : s.bar \in Int /\ (s.bar <= Len(cs) => s \in Loop(cs))
  BY <1>2, <1>3, <1>4, <1>5, GrownBars
<1> QED
  BY <1>1, <1>3, <1>6, <1>7, LoopSame

LEMMA RangeReversalSame ==
  ASSUME NEW cs, NEW ds, Grown(cs, ds)
  PROVE  Same(RangeReversal(cs), RangeReversal(ds), Len(cs))
<1> DEFINE needs == Max({P.bb, P.atr, P.rsi}) + 2
           first == Max({P.bb, P.atr, P.rsi}) + 2 + 1
           Loop(h) == UNION {RangeReversalAt(h, k, side) : k \in first .. Len(h), side \in Sides}
<1>1. \A h : RangeReversal(h) = Strategy(h, needs, Loop(h))
  BY DEF RangeReversal, Scan
<1> HIDE DEF first, needs
<1>2. \A h, s : s \in Loop(h) <=>
          \E k \in first .. Len(h), side \in Sides : s \in RangeReversalAt(h, k, side)
  OBVIOUS
<1>3. needs \in Int /\ first \in Int /\ first >= 2 /\ first >= P.bb + 2
  BY CountsAreNumbers, NeedsAreNumbers DEF needs, first
<1> HIDE DEF Loop
<1>4. ASSUME NEW k \in first .. Len(cs), NEW side \in Sides
      PROVE  RangeReversalAt(cs, k, side) = RangeReversalAt(ds, k, side)
  <2>1. /\ k \in 2 .. Len(cs) /\ k \in 1 .. Len(cs) /\ k - 1 \in 1 .. Len(cs)
        /\ k \in Int /\ first <= k
    BY <1>3, GrownBars
  <2>2. Alike(cs, ds, k) /\ Alike(cs, ds, k - 1)
    BY <2>1, BarsAlike
  <2>3. \A price, pad : Padded(cs, k, side, price, pad) = Padded(ds, k, side, price, pad)
    BY <2>2, OrdersAlike
  <2>9. P.bb \in Int /\ P.bb > 0
    BY CountsAreNumbers
  <2>11. Len(cs) \in Int
    BY GrownBars
  <2>4. P.bb <= k /\ P.bb <= k - 1 /\ k - P.bb \in 1 .. Len(cs)
    BY <1>3, <2>1, <2>9, <2>11
  <2>5. /\ Beyond(cs, k, side) = Beyond(ds, k, side)
        /\ Band(cs, k, side) = Band(ds, k, side)
        /\ \A stop : ToMid(cs, k, side, stop) = ToMid(ds, k, side, stop)
    BY <2>1, <2>4, BandsSame
  <2>10. Beyond(cs, k - 1, side) = Beyond(ds, k - 1, side)
    BY <2>1, <2>4, BandsSame
  <2>6. cs[k] = ds[k] /\ \A p : AtrWilder(cs, p)[k] = AtrWilder(ds, p)[k]
    BY <2>2 DEF Alike
  <2>7. /\ \A p : Ema(Closes(cs), p)[k] = Ema(Closes(ds), p)[k]
        /\ \A p : Ema(Closes(cs), p)[k - P.bb] = Ema(Closes(ds), p)[k - P.bb]
    BY <2>2, <2>4, BarsAlike DEF Alike
  <2>8. \A p : PlainRsi(cs, p)[k] = PlainRsi(ds, p)[k]
    <3>1. k \in DOMAIN cs /\ k \in DOMAIN ds
      BY <2>1, GrownBars
    <3>2. \A p : /\ Wilder(Moves(cs, 1), p)[k] = Wilder(Moves(ds, 1), p)[k]
                 /\ RsiWilder(cs, p)[k] = RsiWilder(ds, p)[k]
      BY <2>2 DEF Alike
    <3> QED
      BY <3>1, <3>2, Zenon DEF PlainRsi
  <2> QED
    BY <2>3, <2>5, <2>6, <2>7, <2>8, <2>10, Zenon DEF RangeReversalAt
<1>5. \A h, k, side : \A s \in RangeReversalAt(h, k, side) : s.bar = k
  BY OrdersAtBar DEF RangeReversalAt
<1>6. \A s \in Loop(cs) : s \in Loop(ds) /\ s.bar \in 1 .. Len(cs)
  BY <1>2, <1>3, <1>4, <1>5, GrownBars
<1>7. \A s \in Loop(ds) : s.bar \in Int /\ (s.bar <= Len(cs) => s \in Loop(cs))
  BY <1>2, <1>3, <1>4, <1>5, GrownBars
<1> QED
  BY <1>1, <1>3, <1>6, <1>7, LoopSame

LEMMA EmaPullbackSame ==
  ASSUME NEW cs, NEW ds, Grown(cs, ds)
  PROVE  Same(EmaPullback(cs), EmaPullback(ds), Len(cs))
<1> DEFINE needs == Max({P.fast, P.slow, P.atr}) + 2
           first == 2
           Loop(h) == UNION {EmaPullbackAt(h, k, side) : k \in first .. Len(h), side \in Sides}
<1>1. \A h : EmaPullback(h) = Strategy(h, needs, Loop(h))
  BY DEF EmaPullback, Scan
<1> HIDE DEF first, needs
<1>2. \A h, s : s \in Loop(h) <=>
          \E k \in first .. Len(h), side \in Sides : s \in EmaPullbackAt(h, k, side)
  OBVIOUS
<1>3. needs \in Int /\ first \in Int /\ first >= 2
  BY CountsAreNumbers, NeedsAreNumbers DEF needs, first
<1> HIDE DEF Loop
<1>4. ASSUME NEW k \in first .. Len(cs), NEW side \in Sides
      PROVE  EmaPullbackAt(cs, k, side) = EmaPullbackAt(ds, k, side)
  <2>1. /\ k \in 2 .. Len(cs) /\ k \in 1 .. Len(cs) /\ k - 1 \in 1 .. Len(cs)
        /\ k \in Int /\ first <= k
    BY <1>3, GrownBars
  <2>2. Alike(cs, ds, k) /\ Alike(cs, ds, k - 1)
    BY <2>1, BarsAlike
  <2>3. \A price, pad : Padded(cs, k, side, price, pad) = Padded(ds, k, side, price, pad)
    BY <2>2, OrdersAlike
  <2>4. /\ cs[k] = ds[k] /\ Closes(cs)[k] = Closes(ds)[k]
        /\ \A p : Ema(Closes(cs), p)[k] = Ema(Closes(ds), p)[k]
        /\ \A p : AtrWilder(cs, p)[k] = AtrWilder(ds, p)[k]
    BY <2>2 DEF Alike
  <2> QED
    BY <2>3, <2>4, Zenon DEF EmaPullbackAt
<1>5. \A h, k, side : \A s \in EmaPullbackAt(h, k, side) : s.bar = k
  BY OrdersAtBar DEF EmaPullbackAt
<1>6. \A s \in Loop(cs) : s \in Loop(ds) /\ s.bar \in 1 .. Len(cs)
  BY <1>2, <1>3, <1>4, <1>5, GrownBars
<1>7. \A s \in Loop(ds) : s.bar \in Int /\ (s.bar <= Len(cs) => s \in Loop(cs))
  BY <1>2, <1>3, <1>4, <1>5, GrownBars
<1> QED
  BY <1>1, <1>3, <1>6, <1>7, LoopSame

LEMMA SpreadPullbackSame ==
  ASSUME NEW cs, NEW ds, Grown(cs, ds), NEW side
  PROVE  Same(SpreadPullback(cs, side), SpreadPullback(ds, side), Len(cs))
<1> DEFINE needs == Max({P.slow, P.atr}) + P.start
           first == P.slow + P.start + 1
           Loop(h) == UNION {SpreadPullbackAt(h, k, side) : k \in first .. Len(h)}
<1>1. \A h : SpreadPullback(h, side) = Strategy(h, needs, Loop(h))
  BY DEF SpreadPullback
<1> HIDE DEF first, needs
<1>2. \A h, s : s \in Loop(h) <=> \E k \in first .. Len(h) : s \in SpreadPullbackAt(h, k, side)
  OBVIOUS
<1>3. needs \in Int /\ first \in Int /\ first >= 2
  BY CountsAreNumbers, NeedsAreNumbers DEF needs, first
<1> HIDE DEF Loop
<1>4. ASSUME NEW k \in first .. Len(cs)
      PROVE  SpreadPullbackAt(cs, k, side) = SpreadPullbackAt(ds, k, side)
  <2>1. /\ k \in 2 .. Len(cs) /\ k \in 1 .. Len(cs) /\ k - 1 \in 1 .. Len(cs)
        /\ k \in Int /\ first <= k
    BY <1>3, GrownBars
  <2>2. Alike(cs, ds, k) /\ Alike(cs, ds, k - 1)
    BY <2>1, BarsAlike
  <2>3. \A price, pad : Padded(cs, k, side, price, pad) = Padded(ds, k, side, price, pad)
    BY <2>2, OrdersAlike
  <2>4. /\ cs[k] = ds[k] /\ Closes(cs)[k] = Closes(ds)[k]
        /\ \A p : Ema(Closes(cs), p)[k] = Ema(Closes(ds), p)[k]
        /\ \A p : AtrWilder(cs, p)[k] = AtrWilder(ds, p)[k]
    BY <2>2 DEF Alike
  <2>5. Fanned(cs, k, side) <=> Fanned(ds, k, side)
    BY <2>4, Zenon DEF Fanned
  <2> QED
    BY <2>3, <2>4, <2>5 DEF SpreadPullbackAt
<1>5. \A h, k : \A s \in SpreadPullbackAt(h, k, side) : s.bar = k
  BY OrdersAtBar DEF SpreadPullbackAt
<1>6. \A s \in Loop(cs) : s \in Loop(ds) /\ s.bar \in 1 .. Len(cs)
  BY <1>2, <1>3, <1>4, <1>5, GrownBars
<1>7. \A s \in Loop(ds) : s.bar \in Int /\ (s.bar <= Len(cs) => s \in Loop(cs))
  BY <1>2, <1>3, <1>4, <1>5, GrownBars
<1> QED
  BY <1>1, <1>3, <1>6, <1>7, LoopSame

LEMMA TrendPullbackSame ==
  ASSUME NEW cs, NEW ds, Grown(cs, ds)
  PROVE  Same(TrendPullback(cs), TrendPullback(ds), Len(cs))
<1> DEFINE needs == Max({P.fast, P.mid, P.slow, P.atr}) + 2
           first == Max({P.fast, P.mid, P.slow, P.atr}) + 2 + 1
           Loop(h) == UNION {TrendPullbackAt(h, k, side) : k \in first .. Len(h), side \in Sides}
<1>1. \A h : TrendPullback(h) = Strategy(h, needs, Loop(h))
  BY DEF TrendPullback, Scan
<1> HIDE DEF first, needs
<1>2. \A h, s : s \in Loop(h) <=>
          \E k \in first .. Len(h), side \in Sides : s \in TrendPullbackAt(h, k, side)
  OBVIOUS
<1>3. needs \in Int /\ first \in Int /\ first >= 2
  BY CountsAreNumbers, NeedsAreNumbers DEF needs, first
<1> HIDE DEF Loop
<1>4. ASSUME NEW k \in first .. Len(cs), NEW side \in Sides
      PROVE  TrendPullbackAt(cs, k, side) = TrendPullbackAt(ds, k, side)
  <2>1. /\ k \in 2 .. Len(cs) /\ k \in 1 .. Len(cs) /\ k - 1 \in 1 .. Len(cs)
        /\ k \in Int /\ first <= k
    BY <1>3, GrownBars
  <2>2. Alike(cs, ds, k) /\ Alike(cs, ds, k - 1)
    BY <2>1, BarsAlike
  <2>3. \A price, pad : Padded(cs, k, side, price, pad) = Padded(ds, k, side, price, pad)
    BY <2>2, OrdersAlike
  <2>4. /\ cs[k] = ds[k] /\ Closes(cs)[k] = Closes(ds)[k]
        /\ \A p : Ema(Closes(cs), p)[k] = Ema(Closes(ds), p)[k]
        /\ \A p : AtrWilder(cs, p)[k] = AtrWilder(ds, p)[k]
    BY <2>2 DEF Alike
  <2>5. Fanned(cs, k, side) <=> Fanned(ds, k, side)
    BY <2>4, Zenon DEF Fanned
  <2> QED
    BY <2>3, <2>4, <2>5, Zenon DEF TrendPullbackAt
<1>5. \A h, k, side : \A s \in TrendPullbackAt(h, k, side) : s.bar = k
  BY OrdersAtBar DEF TrendPullbackAt
<1>6. \A s \in Loop(cs) : s \in Loop(ds) /\ s.bar \in 1 .. Len(cs)
  BY <1>2, <1>3, <1>4, <1>5, GrownBars
<1>7. \A s \in Loop(ds) : s.bar \in Int /\ (s.bar <= Len(cs) => s \in Loop(cs))
  BY <1>2, <1>3, <1>4, <1>5, GrownBars
<1> QED
  BY <1>1, <1>3, <1>6, <1>7, LoopSame

LEMMA EngulfingAtExtremeSame ==
  ASSUME NEW cs, NEW ds, Grown(cs, ds)
  PROVE  Same(EngulfingAtExtreme(cs), EngulfingAtExtreme(ds), Len(cs))
<1> DEFINE needs == Max({3 * P.rsi, 3 * P.atr, 2 * P.regime, P.warm}) + 2
           first == Max({3 * P.rsi, 3 * P.atr, 2 * P.regime, P.warm}) + 1
           Loop(h) == UNION {EngulfingAtExtremeAt(h, k, side) : k \in first .. Len(h), side \in Sides}
<1>1. \A h : EngulfingAtExtreme(h) = Strategy(h, needs, Loop(h))
  BY DEF EngulfingAtExtreme, Scan
<1> HIDE DEF first, needs
<1>2. \A h, s : s \in Loop(h) <=>
          \E k \in first .. Len(h), side \in Sides : s \in EngulfingAtExtremeAt(h, k, side)
  OBVIOUS
<1>3. needs \in Int /\ first \in Int /\ first >= 2
  BY CountsAreNumbers, NeedsAreNumbers DEF needs, first
<1> HIDE DEF Loop
<1>4. ASSUME NEW k \in first .. Len(cs), NEW side \in Sides
      PROVE  EngulfingAtExtremeAt(cs, k, side) = EngulfingAtExtremeAt(ds, k, side)
  <2>1. /\ k \in 2 .. Len(cs) /\ k \in 1 .. Len(cs) /\ k - 1 \in 1 .. Len(cs)
        /\ k \in Int /\ first <= k
    BY <1>3, GrownBars
  <2>2. Alike(cs, ds, k) /\ Alike(cs, ds, k - 1)
    BY <2>1, BarsAlike
  <2>3. \A price, pad : Padded(cs, k, side, price, pad) = Padded(ds, k, side, price, pad)
    BY <2>2, OrdersAlike
  <2>4. /\ cs[k] = ds[k] /\ cs[k - 1] = ds[k - 1]
        /\ \A p : RsiWilder(cs, p)[k - 1] = RsiWilder(ds, p)[k - 1]
        /\ \A p : AtrWilder(cs, p)[k] = AtrWilder(ds, p)[k]
    BY <2>2 DEF Alike
  <2>5. InRegime(cs, k, side) <=> InRegime(ds, k, side)
    BY <2>2, OrdersAlike
  <2> QED
    BY <2>3, <2>4, <2>5, Zenon DEF EngulfingAtExtremeAt
<1>5. \A h, k, side : \A s \in EngulfingAtExtremeAt(h, k, side) : s.bar = k
  BY OrdersAtBar DEF EngulfingAtExtremeAt
<1>6. \A s \in Loop(cs) : s \in Loop(ds) /\ s.bar \in 1 .. Len(cs)
  BY <1>2, <1>3, <1>4, <1>5, GrownBars
<1>7. \A s \in Loop(ds) : s.bar \in Int /\ (s.bar <= Len(cs) => s \in Loop(cs))
  BY <1>2, <1>3, <1>4, <1>5, GrownBars
<1> QED
  BY <1>1, <1>3, <1>6, <1>7, LoopSame

LEMMA IbsSame ==
  ASSUME NEW cs, NEW ds, Grown(cs, ds)
  PROVE  Same(Ibs(cs), Ibs(ds), Len(cs))
<1> DEFINE needs == Max({P.atr + 2, 3})
           first == 3
           Loop(h) == UNION {IbsAt(h, k) : k \in first .. Len(h)}
<1>1. \A h : Ibs(h) = Strategy(h, needs, Loop(h))
  BY DEF Ibs
<1> HIDE DEF first, needs
<1>2. \A h, s : s \in Loop(h) <=> \E k \in first .. Len(h) : s \in IbsAt(h, k)
  OBVIOUS
<1>3. needs \in Int /\ first \in Int /\ first >= 2
  BY CountsAreNumbers, NeedsAreNumbers DEF needs, first
<1> HIDE DEF Loop
<1>4. ASSUME NEW k \in first .. Len(cs)
      PROVE  IbsAt(cs, k) = IbsAt(ds, k)
  <2>1. /\ k \in 2 .. Len(cs) /\ k \in 1 .. Len(cs) /\ k - 1 \in 1 .. Len(cs)
        /\ k \in Int /\ first <= k
    BY <1>3, GrownBars
  <2>2. Alike(cs, ds, k) /\ Alike(cs, ds, k - 1)
    BY <2>1, BarsAlike
  <2>3. \A m, t, h : ByAtr(cs, k, "LONG", m, t, h) = ByAtr(ds, k, "LONG", m, t, h)
    BY <2>2, Zenon DEF Alike, ByAtr
  <2>4. cs[k] = ds[k] /\ cs[k - 1] = ds[k - 1]
    BY <2>2 DEF Alike
  <2> QED
    BY <2>3, <2>4, Zenon DEF IbsAt
<1>5. \A h, k : \A s \in IbsAt(h, k) : s.bar = k
  BY OrdersAtBar DEF IbsAt
<1>6. \A s \in Loop(cs) : s \in Loop(ds) /\ s.bar \in 1 .. Len(cs)
  BY <1>2, <1>3, <1>4, <1>5, GrownBars
<1>7. \A s \in Loop(ds) : s.bar \in Int /\ (s.bar <= Len(cs) => s \in Loop(cs))
  BY <1>2, <1>3, <1>4, <1>5, GrownBars
<1> QED
  BY <1>1, <1>3, <1>6, <1>7, LoopSame

LEMMA InsideBarSame ==
  ASSUME NEW cs, NEW ds, Grown(cs, ds)
  PROVE  Same(InsideBar(cs), InsideBar(ds), Len(cs))
<1> DEFINE needs == 3
           first == 3
           Loop(h) == UNION {InsideBarAt(h, k, side) : k \in first .. Len(h), side \in Sides}
<1>1. \A h : InsideBar(h) = Strategy(h, needs, Loop(h))
  BY DEF InsideBar, Scan
<1> HIDE DEF first, needs
<1>2. \A h, s : s \in Loop(h) <=>
          \E k \in first .. Len(h), side \in Sides : s \in InsideBarAt(h, k, side)
  OBVIOUS
<1>3. needs \in Int /\ first \in Int /\ first >= 2 /\ first >= 3
  BY CountsAreNumbers, NeedsAreNumbers DEF needs, first
<1> HIDE DEF Loop
<1>4. ASSUME NEW k \in first .. Len(cs), NEW side \in Sides
      PROVE  InsideBarAt(cs, k, side) = InsideBarAt(ds, k, side)
  <2>1. /\ k \in 2 .. Len(cs) /\ k \in 1 .. Len(cs) /\ k - 1 \in 1 .. Len(cs)
        /\ k \in Int /\ first <= k
    BY <1>3, GrownBars
  <2>2. Alike(cs, ds, k) /\ Alike(cs, ds, k - 1)
    BY <2>1, BarsAlike
  <2>3. cs[k] = ds[k] /\ cs[k - 1] = ds[k - 1]
    BY <2>2 DEF Alike
  <2>4. cs[k - 2] = ds[k - 2]
    BY <1>3, <2>1, GrownBars
  <2> QED
    BY <2>3, <2>4, Zenon DEF InsideBarAt
<1>5. \A h, k, side : \A s \in InsideBarAt(h, k, side) : s.bar = k
  BY OrdersAtBar DEF InsideBarAt
<1>6. \A s \in Loop(cs) : s \in Loop(ds) /\ s.bar \in 1 .. Len(cs)
  BY <1>2, <1>3, <1>4, <1>5, GrownBars
<1>7. \A s \in Loop(ds) : s.bar \in Int /\ (s.bar <= Len(cs) => s \in Loop(cs))
  BY <1>2, <1>3, <1>4, <1>5, GrownBars
<1> QED
  BY <1>1, <1>3, <1>6, <1>7, LoopSame

LEMMA VolBreakoutSame ==
  ASSUME NEW cs, NEW ds, Grown(cs, ds)
  PROVE  Same(VolBreakout(cs), VolBreakout(ds), Len(cs))
<1> DEFINE needs == 3
           first == 2
           Loop(h) == UNION {VolBreakoutAt(h, k, side) : k \in first .. Len(h), side \in Sides}
<1>1. \A h : VolBreakout(h) = Strategy(h, needs, Loop(h))
  BY DEF VolBreakout, Scan
<1> HIDE DEF first, needs
<1>2. \A h, s : s \in Loop(h) <=>
          \E k \in first .. Len(h), side \in Sides : s \in VolBreakoutAt(h, k, side)
  OBVIOUS
<1>3. needs \in Int /\ first \in Int /\ first >= 2
  BY CountsAreNumbers, NeedsAreNumbers DEF needs, first
<1> HIDE DEF Loop
<1>4. ASSUME NEW k \in first .. Len(cs), NEW side \in Sides
      PROVE  VolBreakoutAt(cs, k, side) = VolBreakoutAt(ds, k, side)
  <2>1. /\ k \in 2 .. Len(cs) /\ k \in 1 .. Len(cs) /\ k - 1 \in 1 .. Len(cs)
        /\ k \in Int /\ first <= k
    BY <1>3, GrownBars
  <2>2. Alike(cs, ds, k) /\ Alike(cs, ds, k - 1)
    BY <2>1, BarsAlike
  <2>3. cs[k] = ds[k] /\ cs[k - 1] = ds[k - 1]
    BY <2>2 DEF Alike
  <2>4. \A sd : Trigger(cs, k, sd) = Trigger(ds, k, sd)
    BY <2>3, Zenon DEF Trigger
  <2>5. \A sd : Hit(cs, k, sd) <=> Hit(ds, k, sd)
    BY <2>3, <2>4, Zenon DEF Hit
  <2>7. /\ Trigger(cs, k, side) = Trigger(ds, k, side)
        /\ Trigger(cs, k, Other(side)) = Trigger(ds, k, Other(side))
    BY <2>4
  <2>6. OneHit(cs, k, side) <=> OneHit(ds, k, side)
    BY <2>5, Zenon DEF OneHit
  <2> QED
    BY <2>3, <2>6, <2>7, Zenon DEF VolBreakoutAt
<1>5. \A h, k, side : \A s \in VolBreakoutAt(h, k, side) : s.bar = k
  BY OrdersAtBar DEF VolBreakoutAt
<1>6. \A s \in Loop(cs) : s \in Loop(ds) /\ s.bar \in 1 .. Len(cs)
  BY <1>2, <1>3, <1>4, <1>5, GrownBars
<1>7. \A s \in Loop(ds) : s.bar \in Int /\ (s.bar <= Len(cs) => s \in Loop(cs))
  BY <1>2, <1>3, <1>4, <1>5, GrownBars
<1> QED
  BY <1>1, <1>3, <1>6, <1>7, LoopSame

LEMMA First30MeanRevSame ==
  ASSUME NEW cs, NEW ds, Grown(cs, ds)
  PROVE  Same(First30MeanRev(cs), First30MeanRev(ds), Len(cs))
<1> DEFINE needs == P.atr + 2
           first == 2
           Loop(h) == UNION {First30MeanRevAt(h, k, side) : k \in first .. Len(h), side \in Sides}
<1>1. \A h : First30MeanRev(h) = Strategy(h, needs, Loop(h))
  BY DEF First30MeanRev, Scan
<1> HIDE DEF first, needs
<1>2. \A h, s : s \in Loop(h) <=>
          \E k \in first .. Len(h), side \in Sides : s \in First30MeanRevAt(h, k, side)
  OBVIOUS
<1>3. needs \in Int /\ first \in Int /\ first >= 2
  BY CountsAreNumbers, NeedsAreNumbers DEF needs, first
<1> HIDE DEF Loop
<1>4. ASSUME NEW k \in first .. Len(cs), NEW side \in Sides
      PROVE  First30MeanRevAt(cs, k, side) = First30MeanRevAt(ds, k, side)
  <2>1. /\ k \in 2 .. Len(cs) /\ k \in 1 .. Len(cs) /\ k - 1 \in 1 .. Len(cs)
        /\ k \in Int /\ first <= k
    BY <1>3, GrownBars
  <2>2. Alike(cs, ds, k) /\ Alike(cs, ds, k - 1)
    BY <2>1, BarsAlike
  <2>3. \A price, pad : Padded(cs, k, side, price, pad) = Padded(ds, k, side, price, pad)
    BY <2>2, OrdersAlike
  <2>4. /\ cs[k] = ds[k] /\ cs[k - 1] = ds[k - 1]
        /\ \A p : AtrWilder(cs, p)[k] = AtrWilder(ds, p)[k]
    BY <2>2 DEF Alike
  <2> QED
    BY <2>3, <2>4, Zenon DEF First30MeanRevAt
<1>5. \A h, k, side : \A s \in First30MeanRevAt(h, k, side) : s.bar = k
  BY DEF First30MeanRevAt, Signal
<1>6. \A s \in Loop(cs) : s \in Loop(ds) /\ s.bar \in 1 .. Len(cs)
  BY <1>2, <1>3, <1>4, <1>5, GrownBars
<1>7. \A s \in Loop(ds) : s.bar \in Int /\ (s.bar <= Len(cs) => s \in Loop(cs))
  BY <1>2, <1>3, <1>4, <1>5, GrownBars
<1> QED
  BY <1>1, <1>3, <1>6, <1>7, LoopSame

---------------------------------------------------------------------------
(* What the loops remember: the sessions found, the zones that fired, the  *)
(* levels that hold, the setups that are armed, the holding periods and    *)
(* the flags of the day.  Each is a function f on the bars; its value at k *)
(* is a step from its values at the bars before.                           *)
OpensStep(cs, k, f) ==
    /\ cs[k].slot = P.open
    /\ \A s \in 1 .. (k - 1) : f[s] => k > SessionEnd(cs, s)

FiredStep(cs, k, f) ==
    IF k <= ZoneWarm \/ AtrWilder(cs, P.atr)[k] <= 0 THEN {}
    ELSE LET resting == UNION {f[i] : i \in Max({1, k - P.cooldown + 1}) .. (k - 1)}
             open == (UNION {Ready(cs, k, side) : side \in Sides}) \ resting
         IN  IF open = {} THEN {} ELSE {Max(open)}

ActiveStep(cs, side, k, f) ==
    IF k <= P.warm THEN {}
    ELSE LET new == IF k = P.warm + 1 THEN Confirmed(cs, side, k)
                    ELSE Confirmed(cs, side, k) \ Confirmed(cs, side, k - 1)
         IN  {j \in Confirmed(cs, side, k) \cap Latest(f[k - 1] \cup new, P.keep) :
                 Holds(cs, side, j, k - 1)}

SetupStep(cs, k, f) ==
    [side \in Sides |->
        IF k <= RegimeWarm THEN Unknown
        ELSE IF ~Regime(cs, k, side) THEN f[k - 1][side]
        ELSE LET pivot == Armed(cs, k, side, f[k - 1][side])
             IN  IF SetupEntry(cs, k, side, pivot) = {} THEN pivot ELSE Unknown]

RebalancesStep(cs, k, f) ==
    /\ k > P.momentum
    /\ \A j \in Max({1, k - P.hold + 1}) .. (k - 1) : ~f[j]
    /\ Rebalance(cs, k) # {}

FlagsStep(cs, k, f) ==
    LET b == DayBefore(cs, f, k)
    IN  [above |-> b.above \/ Above(cs, k), traded |-> b.traded \/ Fires(cs, b, k)]

Step(loop, cs, side, k, f) ==
    CASE loop = "opens"      -> OpensStep(cs, k, f)
      [] loop = "fired"      -> FiredStep(cs, k, f)
      [] loop = "active"     -> ActiveStep(cs, side, k, f)
      [] loop = "setup"      -> SetupStep(cs, k, f)
      [] loop = "rebalances" -> RebalancesStep(cs, k, f)
      [] loop = "flags"      -> FlagsStep(cs, k, f)

Loops == {"opens", "fired", "active", "setup", "rebalances", "flags"}

(* A pivot is known for good P.pivot bars later.                           *)
LEMMA PivotsSame ==
  ASSUME NEW cs, NEW ds, Grown(cs, ds), NEW side
  PROVE  /\ Pivots(cs, side) \subseteq 1 .. Len(cs)
         /\ \A j \in Pivots(cs, side) : j + P.pivot <= Len(cs)
         /\ \A j \in Int : j + P.pivot <= Len(cs) =>
                (j \in Pivots(cs, side) <=> j \in Pivots(ds, side))
<1>1. Len(cs) \in Int /\ Len(ds) \in Int /\ Len(cs) <= Len(ds)
  BY GrownBars
<1>2. P.pivot \in Int /\ P.pivot > 0
  BY CountsAreNumbers
<1>3. \A h, j : j \in Pivots(h, side) <=>
          /\ j \in (P.pivot + 1) .. (Len(h) - P.pivot)
          /\ \A i \in (j - P.pivot) .. (j + P.pivot) : i # j =>
                 Sign(side) * (Adverse(side, h[i]) - Adverse(side, h[j])) > 0
  BY DEF Pivots
<1>4. ASSUME NEW j \in Int, j + P.pivot <= Len(cs), j > P.pivot
      PROVE  j \in Pivots(cs, side) <=> j \in Pivots(ds, side)
  <2>1. /\ j \in (P.pivot + 1) .. (Len(cs) - P.pivot)
        /\ j \in (P.pivot + 1) .. (Len(ds) - P.pivot)
    BY <1>1, <1>2, <1>4
  <2>2. \A i \in (j - P.pivot) .. (j + P.pivot) : i \in 1 .. Len(cs)
    BY <1>1, <1>2, <1>4
  <2>3. j \in 1 .. Len(cs)
    BY <1>1, <1>2, <1>4
  <2>4. cs[j] = ds[j] /\ \A i \in (j - P.pivot) .. (j + P.pivot) : cs[i] = ds[i]
    BY <2>2, <2>3, GrownBars
  <2> QED
    BY <1>3, <2>1, <2>4, Zenon
<1>5. \A h, j : j \in Pivots(h, side) => j \in (P.pivot + 1) .. (Len(h) - P.pivot)
  BY <1>3
<1> QED
  BY <1>1, <1>2, <1>4, <1>5

LEMMA ZonesSame ==
  ASSUME NEW cs, NEW ds, Grown(cs, ds), NEW side, NEW k \in 1 .. Len(cs)
  PROVE  /\ Zones(cs, k, side) = Zones(ds, k, side)
         /\ Zones(cs, k, side) \subseteq 1 .. Len(cs)
         /\ Confirmed(cs, side, k) = Confirmed(ds, side, k)
         /\ Confirmed(cs, side, k) \subseteq 1 .. Len(cs)
<1> DEFINE Seen(h) == {j \in Pivots(h, side) : j \in (k - P.lookback) .. (k - P.pivot)}
<1>1. Len(cs) \in Int /\ Len(ds) \in Int /\ Len(cs) <= Len(ds)
  BY GrownBars
<1>2. P.pivot \in Int /\ P.pivot > 0 /\ P.lookback \in Int
  BY CountsAreNumbers
<1>3. /\ Pivots(cs, side) \subseteq 1 .. Len(cs) /\ Pivots(ds, side) \subseteq 1 .. Len(ds)
      /\ \A j \in Int : j + P.pivot <= Len(cs) =>
             (j \in Pivots(cs, side) <=> j \in Pivots(ds, side))
  <2>1. Grown(ds, ds)
    BY DEF Grown, Begins
  <2> QED
    BY <2>1, PivotsSame
<1>4. Seen(cs) = Seen(ds) /\ Seen(cs) \subseteq 1 .. Len(cs)
  BY <1>1, <1>2, <1>3
<1>5. Zones(cs, k, side) = Zones(ds, k, side) /\ Zones(cs, k, side) \subseteq 1 .. Len(cs)
  BY <1>4 DEF Zones, Latest
<1>6. /\ Confirmed(cs, side, k) = Confirmed(ds, side, k)
      /\ Confirmed(cs, side, k) \subseteq 1 .. Len(cs)
  BY <1>1, <1>2, <1>3 DEF Confirmed
<1> QED
  BY <1>5, <1>6

LEMMA ReadySame ==
  ASSUME NEW cs, NEW ds, Grown(cs, ds), NEW side, NEW k \in 1 .. Len(cs)
  PROVE  /\ Ready(cs, k, side) = Ready(ds, k, side)
         /\ \A j \in Ready(cs, k, side) :
                ZoneEntry(cs, k, side, j) = ZoneEntry(ds, k, side, j)
<1>1. cs[k] = ds[k]
  BY GrownBars
<1>2. \A price, pad : Padded(cs, k, side, price, pad) = Padded(ds, k, side, price, pad)
  BY BarsAlike, OrdersAlike
<1>3. /\ Zones(cs, k, side) = Zones(ds, k, side)
      /\ \A j \in Zones(cs, k, side) : cs[j] = ds[j]
  BY ZonesSame, GrownBars
<1>4. \A j \in Zones(cs, k, side) : ZoneEntry(cs, k, side, j) = ZoneEntry(ds, k, side, j)
  <2> SUFFICES ASSUME NEW j \in Zones(cs, k, side)
               PROVE  ZoneEntry(cs, k, side, j) = ZoneEntry(ds, k, side, j)
    OBVIOUS
  <2>1. cs[j] = ds[j]
    BY <1>3
  <2>2. ASSUME NEW edge
        PROVE  Padded(cs, k, side, edge, P.pad) = Padded(ds, k, side, edge, P.pad)
    BY <1>2
  <2> QED
    BY <1>1, <2>1, <2>2 DEF ZoneEntry
<1>5. Ready(cs, k, side) = Ready(ds, k, side)
  BY <1>1, <1>3, <1>4, Zenon DEF Ready
<1>6. Ready(cs, k, side) \subseteq Zones(cs, k, side)
  BY DEF Ready
<1> QED
  BY <1>4, <1>5, <1>6

LEMMA WindowBars ==
  ASSUME NEW k \in Int, k >= 1, NEW size \in Int
  PROVE  /\ Window(k, size) \subseteq 1 .. k
         /\ Max({1, k - size + 1}) \in Int /\ Max({1, k - size + 1}) >= 1
<1>1. 1 \in Int /\ k - size \in Int /\ k - size + 1 \in Int
  OBVIOUS
<1>2. /\ Max({1, k - size}) \in Int /\ Max({1, k - size}) >= 1
      /\ Max({1, k - size + 1}) \in Int /\ Max({1, k - size + 1}) >= 1
  BY <1>1, MaxOfInts
<1> QED
  BY <1>2 DEF Window

LEMMA SetupSame ==
  ASSUME NEW cs, NEW ds, Grown(cs, ds), NEW side, NEW k \in 1 .. Len(cs), NEW pivot
  PROVE  /\ Regime(cs, k, side) <=> Regime(ds, k, side)
         /\ Armed(cs, k, side, pivot) = Armed(ds, k, side, pivot)
         /\ SetupEntry(cs, k, side, pivot) = SetupEntry(ds, k, side, pivot)
<1>1. Alike(cs, ds, k)
  BY BarsAlike
<1>2. \A size \in Int : \A j \in Window(k, size) : cs[j] = ds[j]
  <2>1. k \in Int /\ k >= 1 /\ k <= Len(cs) /\ Len(cs) \in Int
    BY GrownBars
  <2>2. \A size \in Int : Window(k, size) \subseteq 1 .. k
    BY <2>1, WindowBars
  <2> QED
    BY <2>1, <2>2, GrownBars
<1>3. P.fresh \in Int /\ P.swing \in Int
  BY CountsAreNumbers
<1>4. {Favourable(side, cs[j]) : j \in Window(k, P.fresh)} =
      {Favourable(side, ds[j]) : j \in Window(k, P.fresh)}
  BY <1>2, <1>3
<1>5. {Adverse(side, cs[j]) : j \in Window(k, P.swing)} =
      {Adverse(side, ds[j]) : j \in Window(k, P.swing)}
  BY <1>2, <1>3
<1>6. Regime(cs, k, side) <=> Regime(ds, k, side)
  BY <1>1, Zenon DEF Regime, Alike
<1>7. cs[k] = ds[k] /\ Ema(Closes(cs), P.fast)[k] = Ema(Closes(ds), P.fast)[k]
  BY <1>1 DEF Alike
<1>8. Armed(cs, k, side, pivot) = Armed(ds, k, side, pivot)
  BY <1>4, <1>7, Zenon DEF Armed, Fresh
<1>9. \A price, pad : Padded(cs, k, side, price, pad) = Padded(ds, k, side, price, pad)
  BY <1>1, OrdersAlike
<1>10. SetupEntry(cs, k, side, pivot) = SetupEntry(ds, k, side, pivot)
  BY <1>5, <1>7, <1>9, Zenon DEF SetupEntry
<1> QED
  BY <1>6, <1>8, <1>10

(* The first bar of a day, and its average price up to a bar.              *)
LEMMA MinIs ==
  ASSUME NEW T \in SUBSET Int, NEW m \in T, \A j \in T : m <= j
  PROVE  Min(T) = m
<1>1. \A x \in T : (\A y \in T : x <= y) => x = m
  OBVIOUS
<1>2. Min(T) = CHOOSE x \in T : \A y \in T : x <= y
  BY Zenon DEF Min
<1>3. \E x \in T : \A y \in T : x <= y
  OBVIOUS
<1>4. Min(T) \in T /\ \A y \in T : Min(T) <= y
  BY <1>2, <1>3, Zenon
<1> QED
  BY <1>1, <1>4

LEMMA DaySame ==
  ASSUME NEW x, NEW n, NEW y, NEW m, Begins(x, n, y, m), NEW k \in 1 .. n
  PROVE  /\ DayStart(x, k) = DayStart(y, k)
         /\ {j \in DayOf(x, k) : j <= k} = {j \in DayOf(y, k) : j <= k}
         /\ {j \in DayOf(x, k) : j <= k} \subseteq 1 .. n
         /\ \A j \in {j \in DayOf(x, k) : j <= k} : x[j] = y[j]
<1>1. n \in Nat /\ m \in Nat /\ n <= m /\ k \in 1 .. m
  BY DEF Begins
<1>2. /\ \A j : j \in DayOf(x, k) <=> j \in 1 .. n /\ x[j].day = x[k].day
      /\ \A j : j \in DayOf(y, k) <=> j \in 1 .. m /\ y[j].day = y[k].day
      /\ \A j \in 1 .. n : x[j] = y[j]
  BY DEF DayOf, Begins
<1>3. \A j \in 1 .. n : j \in DayOf(x, k) <=> j \in DayOf(y, k)
  BY <1>1, <1>2
<1>4. DayOf(x, k) \in SUBSET Nat /\ k \in DayOf(x, k) /\ DayOf(y, k) \in SUBSET Nat
  BY <1>1, <1>2
<1>5. PICK d \in DayOf(x, k) : \A j \in DayOf(x, k) : d <= j
  BY <1>4, Least
<1>6. d \in DayOf(y, k) /\ \A j \in DayOf(y, k) : d <= j
  BY <1>1, <1>2, <1>3, <1>5
<1>7. DayStart(x, k) = d /\ DayStart(y, k) = d
  BY <1>4, <1>5, <1>6, MinIs DEF DayStart
<1>8. \A j \in 1 .. k : j \in 1 .. n
  BY <1>1
<1>9. /\ {j \in DayOf(x, k) : j <= k} = {j \in DayOf(y, k) : j <= k}
      /\ {j \in DayOf(x, k) : j <= k} \subseteq 1 .. n
  BY <1>1, <1>2, <1>3
<1> QED
  BY <1>2, <1>7, <1>9

LEMMA VwapSame ==
  ASSUME NEW x, NEW n, NEW y, NEW m, Begins(x, n, y, m), NEW k \in 1 .. n
  PROVE  Vwap(x, k) = Vwap(y, k)
<1> DEFINE S == {j \in DayOf(x, k) : j <= k}
<1>1. S = {j \in DayOf(y, k) : j <= k} /\ \A j \in S : x[j] = y[j]
  BY DaySame
<1>2. x[k] = y[k]
  BY DEF Begins
<1>3. /\ Vwap(x, k) = LET volume == Sum([j \in S |-> x[j].vol], S)
                      IN  IF volume > 0
                          THEN Sum([j \in S |-> x[j].vol * Typical(x[j])], S) \div volume
                          ELSE Typical(x[k])
      /\ Vwap(y, k) = LET volume == Sum([j \in S |-> y[j].vol], S)
                      IN  IF volume > 0
                          THEN Sum([j \in S |-> y[j].vol * Typical(y[j])], S) \div volume
                          ELSE Typical(y[k])
  BY <1>1, Zenon DEF Vwap
<1> HIDE DEF S
<1>4. /\ [j \in S |-> x[j].vol] = [j \in S |-> y[j].vol]
      /\ [j \in S |-> x[j].vol * Typical(x[j])] = [j \in S |-> y[j].vol * Typical(y[j])]
  BY <1>1
<1>5. /\ Sum([j \in S |-> x[j].vol], S) = Sum([j \in S |-> y[j].vol], S)
      /\ Sum([j \in S |-> x[j].vol * Typical(x[j])], S) =
         Sum([j \in S |-> y[j].vol * Typical(y[j])], S)
      /\ Typical(x[k]) = Typical(y[k])
  BY <1>2, <1>4, Zenon
<1> QED
  BY <1>3, <1>5

LEMMA FlagsSame ==
  ASSUME NEW cs, NEW ds, Grown(cs, ds), NEW k \in 1 .. Len(cs)
  PROVE  /\ DayStart(cs, k) = DayStart(ds, k)
         /\ Above(cs, k) <=> Above(ds, k)
         /\ Touch(cs, k) = Touch(ds, k)
         /\ \A b : (Fires(cs, b, k) <=> Fires(ds, b, k))
<1> DEFINE Filled(h) == [j \in DOMAIN h |-> [h[j] EXCEPT !.vol = Max({@, 1})]]
<1>1. Alike(cs, ds, k)
  BY BarsAlike
<1>2. DayStart(cs, k) = DayStart(ds, k)
  BY DaySame DEF Grown
<1>3. Begins(Filled(cs), Len(cs), Filled(ds), Len(ds))
  BY DEF Grown, Begins
<1>4. FilledVwap(cs, k) = FilledVwap(ds, k)
  BY <1>3, VwapSame DEF FilledVwap
<1>5. cs[k] = ds[k]
  BY GrownBars
<1>6. Above(cs, k) <=> Above(ds, k)
  BY <1>4, <1>5, Zenon DEF Above
<1>7. \A price, pad :
          Padded(cs, k, "LONG", price, pad) = Padded(ds, k, "LONG", price, pad)
  BY <1>1, Zenon DEF Padded, Alike
<1>8. Touch(cs, k) = Touch(ds, k)
  BY <1>4, <1>5, <1>7, Zenon DEF Touch
<1>9. /\ AtrWilder(cs, P.atr)[k] = AtrWilder(ds, P.atr)[k]
      /\ RsiWilder(cs, P.rsi)[k] = RsiWilder(ds, P.rsi)[k]
      /\ Ema(Closes(cs), P.mid)[k] = Ema(Closes(ds), P.mid)[k]
      /\ Ema(Closes(cs), P.slow)[k] = Ema(Closes(ds), P.slow)[k]
  BY <1>1 DEF Alike
<1>10. Trending(cs, k, "LONG") <=> Trending(ds, k, "LONG")
  BY <1>9, Zenon DEF Trending
<1>11. Bounces(cs, k) <=> Bounces(ds, k)
  BY <1>2, <1>4, <1>5, <1>6, <1>9, <1>10 DEF Bounces
<1>12. \A b : (Fires(cs, b, k) <=> Fires(ds, b, k))
  BY <1>8, <1>11, Zenon DEF Fires
<1> QED
  BY <1>2, <1>6, <1>8, <1>12

(* A session that was found lasts beyond a bar of the shorter history in   *)
(* both histories or in neither.                                           *)
LEMMA SessionEnds ==
  ASSUME NEW h, NEW n \in Int, Len(h) \in Int, n <= Len(h), NEW s \in Int, NEW k \in Int, k <= n
  PROVE  /\ k > SessionEnd(h, s) <=> k > s + P.sessionBars - 1
         /\ SessionEnd(h, s) \in Int /\ SessionEnd(h, s) <= Len(h)
<1>1. s + P.sessionBars - 1 \in Int
  BY CountsAreNumbers
<1>2. \A a \in Int : /\ Min({a, Len(h)}) \in {a, Len(h)}
                     /\ Min({a, Len(h)}) <= a /\ Min({a, Len(h)}) <= Len(h)
  <2>1. \A a \in Int : \E m \in {a, Len(h)} : \A j \in {a, Len(h)} : m <= j
    OBVIOUS
  <2> QED
    BY <2>1 DEF Min
<1> QED
  BY <1>1, <1>2 DEF SessionEnd

LEMMA RebalanceSame ==
  ASSUME NEW cs, NEW ds, Grown(cs, ds), NEW k \in 1 .. Len(cs), k > P.momentum
  PROVE  Rebalance(cs, k) = Rebalance(ds, k)
<1>1. k - P.momentum \in 1 .. Len(cs)
  <2>1. P.momentum \in Int /\ P.momentum > 0
    BY CountsAreNumbers
  <2>2. Len(cs) \in Int
    BY GrownBars
  <2> QED
    BY <2>1, <2>2
<1>2. cs[k] = ds[k] /\ cs[k - P.momentum] = ds[k - P.momentum]
  BY <1>1, GrownBars
<1>3. Trend(cs, k) = Trend(ds, k)
  BY <1>2 DEF Trend
<1> QED
  BY <1>2, <1>3 DEF Rebalance


(* The step a loop takes at a bar of the shorter history is the same in    *)
(* both histories, and depends only on what it remembers of the bars       *)
(* before.                                                                 *)
Below(k, f, g) == \A j \in 1 .. (k - 1) : f[j] = g[j]

LEMMA OpensStepSame ==
  ASSUME NEW cs, NEW ds, Grown(cs, ds), NEW k \in 1 .. Len(cs), NEW f, NEW g, Below(k, f, g)
  PROVE  OpensStep(cs, k, f) = OpensStep(ds, k, g)
<1>1. cs[k] = ds[k] /\ k \in Int /\ k <= Len(cs) /\ Len(cs) \in Int /\ Len(ds) \in Int
      /\ Len(cs) <= Len(ds)
  BY GrownBars
<1>2. \A s \in 1 .. (k - 1) : k > SessionEnd(cs, s) <=> k > SessionEnd(ds, s)
  <2>1. \A s \in Int : k > SessionEnd(cs, s) <=> k > s + P.sessionBars - 1
    BY <1>1, SessionEnds
  <2>2. \A s \in Int : k > SessionEnd(ds, s) <=> k > s + P.sessionBars - 1
    BY <1>1, SessionEnds
  <2> QED
    BY <2>1, <2>2
<1>3. (\A s \in 1 .. (k - 1) : f[s] => k > SessionEnd(cs, s)) <=>
      (\A s \in 1 .. (k - 1) : g[s] => k > SessionEnd(ds, s))
  BY <1>2, Zenon DEF Below
<1> QED
  BY <1>1, <1>3 DEF OpensStep

LEMMA FiredStepSame ==
  ASSUME NEW cs, NEW ds, Grown(cs, ds), NEW k \in 1 .. Len(cs), NEW f, NEW g, Below(k, f, g)
  PROVE  FiredStep(cs, k, f) = FiredStep(ds, k, g)
<1>1. AtrWilder(cs, P.atr)[k] = AtrWilder(ds, P.atr)[k]
  BY BarsAlike DEF Alike
<1>2. \A side : Ready(cs, k, side) = Ready(ds, k, side)
  BY ReadySame
<1>3. UNION {Ready(cs, k, side) : side \in Sides} = UNION {Ready(ds, k, side) : side \in Sides}
  BY <1>2, Zenon
<1>4. \A j \in Max({1, k - P.cooldown + 1}) .. (k - 1) : f[j] = g[j]
  <2>1. k \in Int /\ k >= 1
    BY GrownBars
  <2>2. P.cooldown \in Int
    BY CountsAreNumbers
  <2>3. /\ Max({1, k - P.cooldown + 1}) \in Int /\ Max({1, k - P.cooldown + 1}) >= 1
    BY <2>1, <2>2, WindowBars
  <2> QED
    BY <2>1, <2>3 DEF Below
<1>5. UNION {f[i] : i \in Max({1, k - P.cooldown + 1}) .. (k - 1)} =
      UNION {g[i] : i \in Max({1, k - P.cooldown + 1}) .. (k - 1)}
  BY <1>4, Zenon
<1> QED
  BY <1>1, <1>3, <1>5, Zenon DEF FiredStep

LEMMA ActiveStepSame ==
  ASSUME NEW cs, NEW ds, Grown(cs, ds), NEW side, NEW k \in 1 .. Len(cs), NEW f, NEW g,
         Below(k, f, g)
  PROVE  ActiveStep(cs, side, k, f) = ActiveStep(ds, side, k, g)
<1>1. CASE k <= P.warm
  BY <1>1, Zenon DEF ActiveStep
<1>2. CASE ~(k <= P.warm)
  <2>1. k \in Int /\ k - 1 \in 1 .. Len(cs) /\ k - 1 \in 1 .. (k - 1)
    <3>1. P.warm \in Int /\ P.warm > 0
      BY CountsAreNumbers
    <3>2. Len(cs) \in Int
      BY GrownBars
    <3> QED
      BY <1>2, <3>1, <3>2
  <2>2. f[k - 1] = g[k - 1] /\ cs[k - 1] = ds[k - 1]
    BY <2>1, GrownBars DEF Below
  <2>3. /\ Confirmed(cs, side, k) = Confirmed(ds, side, k)
        /\ Confirmed(cs, side, k - 1) = Confirmed(ds, side, k - 1)
        /\ \A j \in Confirmed(cs, side, k) : cs[j] = ds[j]
    BY <2>1, ZonesSame, GrownBars
  <2>4. \A j \in Confirmed(cs, side, k) : Holds(cs, side, j, k - 1) <=> Holds(ds, side, j, k - 1)
    <3> SUFFICES ASSUME NEW j \in Confirmed(cs, side, k)
                 PROVE  Holds(cs, side, j, k - 1) <=> Holds(ds, side, j, k - 1)
      OBVIOUS
    <3>1. cs[j] = ds[j]
      BY <2>3
    <3> QED
      BY <2>2, <3>1 DEF Holds
  <2> DEFINE Old(h, z) == Latest(z[k - 1] \cup (IF k = P.warm + 1 THEN Confirmed(h, side, k)
                             ELSE Confirmed(h, side, k) \ Confirmed(h, side, k - 1)), P.keep)
  <2>5. Old(cs, f) = Old(ds, g)
    BY <2>2, <2>3, Zenon
  <2>6. \A h, z : ActiveStep(h, side, k, z) =
            {j \in Confirmed(h, side, k) \cap Old(h, z) : Holds(h, side, j, k - 1)}
    BY <1>2, Zenon DEF ActiveStep
  <2> HIDE DEF Old
  <2> QED
    BY <2>3, <2>4, <2>5, <2>6
<1> QED
  BY <1>1, <1>2, Zenon

LEMMA SetupStepSame ==
  ASSUME NEW cs, NEW ds, Grown(cs, ds), NEW k \in 1 .. Len(cs), NEW f, NEW g, Below(k, f, g)
  PROVE  SetupStep(cs, k, f) = SetupStep(ds, k, g)
<1>1. CASE k <= RegimeWarm
  BY <1>1, Zenon DEF SetupStep
<1>2. CASE ~(k <= RegimeWarm)
  <2>1. k - 1 \in 1 .. (k - 1)
    <3>1. RegimeWarm \in Int /\ RegimeWarm > 0
      BY CountsAreNumbers, NeedsAreNumbers
    <3> QED
      BY <1>2, <3>1
  <2>2. f[k - 1] = g[k - 1]
    BY <2>1 DEF Below
  <2>3. \A side, pivot :
            /\ Regime(cs, k, side) <=> Regime(ds, k, side)
            /\ Armed(cs, k, side, pivot) = Armed(ds, k, side, pivot)
            /\ SetupEntry(cs, k, side, pivot) = SetupEntry(ds, k, side, pivot)
    BY SetupSame
  <2> QED
    BY <2>2, <2>3, Zenon DEF SetupStep
<1> QED
  BY <1>1, <1>2, Zenon

LEMMA RebalancesStepSame ==
  ASSUME NEW cs, NEW ds, Grown(cs, ds), NEW k \in 1 .. Len(cs), NEW f, NEW g, Below(k, f, g)
  PROVE  RebalancesStep(cs, k, f) = RebalancesStep(ds, k, g)
<1>1. k > P.momentum => Rebalance(cs, k) = Rebalance(ds, k)
  BY RebalanceSame
<1>2. \A j \in Max({1, k - P.hold + 1}) .. (k - 1) : f[j] = g[j]
  <2>1. k \in Int /\ k >= 1
    BY GrownBars
  <2>2. P.hold \in Int
    BY CountsAreNumbers
  <2>3. /\ Max({1, k - P.hold + 1}) \in Int /\ Max({1, k - P.hold + 1}) >= 1
    BY <2>1, <2>2, WindowBars
  <2> QED
    BY <2>1, <2>3 DEF Below
<1> QED
  BY <1>1, <1>2 DEF RebalancesStep

LEMMA FlagsStepSame ==
  ASSUME NEW cs, NEW ds, Grown(cs, ds), NEW k \in 1 .. Len(cs), NEW f, NEW g, Below(k, f, g)
  PROVE  /\ DayBefore(cs, f, k) = DayBefore(ds, g, k)
         /\ FlagsStep(cs, k, f) = FlagsStep(ds, k, g)
<1>1. /\ DayStart(cs, k) = DayStart(ds, k) /\ (Above(cs, k) <=> Above(ds, k))
      /\ \A b : Fires(cs, b, k) <=> Fires(ds, b, k)
  BY FlagsSame
<1>2. ~(k <= P.start + 1) => f[k - 1] = g[k - 1]
  <2>1. P.start \in Int /\ P.start > 0
    BY CountsAreNumbers
  <2>2. ~(k <= P.start + 1) => k - 1 \in 1 .. (k - 1)
    BY <2>1
  <2> QED
    BY <2>2 DEF Below
<1>3. DayBefore(cs, f, k) = DayBefore(ds, g, k)
  BY <1>1, <1>2, Zenon DEF DayBefore
<1> QED
  BY <1>1, <1>3 DEF FlagsStep

LEMMA StepSame ==
  ASSUME NEW cs, NEW ds, Grown(cs, ds), NEW loop \in Loops, NEW side,
         NEW k \in 1 .. Len(cs), NEW f, NEW g, \A j \in 1 .. (k - 1) : f[j] = g[j]
  PROVE  Step(loop, cs, side, k, f) = Step(loop, ds, side, k, g)
<1>0. Below(k, f, g)
  BY DEF Below
<1>1. CASE loop = "opens"
  BY <1>0, <1>1, OpensStepSame DEF Step
<1>2. CASE loop = "fired"
  BY <1>0, <1>2, FiredStepSame DEF Step
<1>3. CASE loop = "active"
  BY <1>0, <1>3, ActiveStepSame DEF Step
<1>4. CASE loop = "setup"
  BY <1>0, <1>4, SetupStepSame DEF Step
<1>5. CASE loop = "rebalances"
  BY <1>0, <1>5, RebalancesStepSame DEF Step
<1>6. CASE loop = "flags"
  BY <1>0, <1>6, FlagsStepSame DEF Step
<1> QED
  BY <1>1, <1>2, <1>3, <1>4, <1>5, <1>6 DEF Loops

Follows(loop, cs, side, f) == f = [k \in DOMAIN cs |-> Step(loop, cs, side, k, f)]

LEMMA LoopExists ==
  ASSUME NEW cs, Grown(cs, cs), NEW loop \in Loops, NEW side
  PROVE  \E f : Follows(loop, cs, side, f)
<1> DEFINE n == Len(cs)
           St(k, f) == Step(loop, cs, side, k, f)
           Upto(m, f) == f = [k \in 1 .. m |-> St(k, f)]
           Lacking == {m \in 0 .. n : ~ \E f : Upto(m, f)}
<1>1. \A k \in 1 .. n : \A f, g :
          (\A j \in 1 .. (k - 1) : f[j] = g[j]) => St(k, f) = St(k, g)
  BY StepSame
<1>2. n \in Nat /\ DOMAIN cs = 1 .. n
  BY GrownBars
<1> HIDE DEF St, n
<1>3. ASSUME NEW m \in 0 .. n, m < n, NEW f, Upto(m, f) PROVE \E g : Upto(m + 1, g)
  <2> DEFINE g == [k \in 1 .. m + 1 |-> IF k = m + 1 THEN St(m + 1, f) ELSE f[k]]
  <2>1. \A k \in 1 .. m : f[k] = St(k, f)
    BY <1>3
  <2>2. ASSUME NEW k \in 1 .. m + 1 PROVE g[k] = St(k, g)
    <3>1. \A j \in 1 .. (k - 1) : f[j] = g[j]
      BY <1>2
    <3>2. k \in 1 .. n
      BY <1>2, <1>3
    <3>3. g[k] = IF k = m + 1 THEN St(m + 1, f) ELSE f[k]
      OBVIOUS
    <3> HIDE DEF g
    <3>4. St(k, f) = St(k, g)
      BY <1>1, <3>1, <3>2
    <3> QED
      BY <2>1, <3>3, <3>4
  <2> QED
    BY <2>2
<1>4. \E f : Upto(0, f)
  OBVIOUS
<1> HIDE DEF Upto
<1>5. Lacking = {}
  <2> SUFFICES ASSUME Lacking # {} PROVE FALSE
    OBVIOUS
  <2>0. Lacking \in SUBSET Nat
    BY <1>2
  <2>1. PICK m \in Lacking : \A j \in Lacking : m <= j
    BY <2>0, Least
  <2>2. m # 0 /\ m - 1 \in 0 .. n /\ m - 1 < n /\ m - 1 \notin Lacking
    BY <1>2, <1>4, <2>1
  <2> QED
    BY <1>2, <1>3, <2>1, <2>2
<1> QED
  BY <1>2, <1>5 DEF Upto, St, Follows, n

LEMMA LoopsRemember ==
  ASSUME NEW cs, Grown(cs, cs), NEW side
  PROVE  /\ Opens(cs) = [k \in DOMAIN cs |-> OpensStep(cs, k, Opens(cs))]
         /\ Fired(cs) = [k \in DOMAIN cs |-> FiredStep(cs, k, Fired(cs))]
         /\ Active(cs, side) = [k \in DOMAIN cs |-> ActiveStep(cs, side, k, Active(cs, side))]
         /\ Setup(cs) = [k \in DOMAIN cs |-> SetupStep(cs, k, Setup(cs))]
         /\ Rebalances(cs) = [k \in DOMAIN cs |-> RebalancesStep(cs, k, Rebalances(cs))]
         /\ DayFlags(cs) = [k \in DOMAIN cs |-> FlagsStep(cs, k, DayFlags(cs))]
<1>1. Opens(cs) = [k \in DOMAIN cs |-> OpensStep(cs, k, Opens(cs))]
  <2>1. Opens(cs) = CHOOSE f : f = [k \in DOMAIN cs |-> OpensStep(cs, k, f)]
    BY Zenon DEF Opens, OpensStep
  <2>2. \A k, f : Step("opens", cs, side, k, f) = OpensStep(cs, k, f)
    BY DEF Step
  <2>3. \E f : f = [k \in DOMAIN cs |-> OpensStep(cs, k, f)]
    <3>1. "opens" \in Loops
      BY DEF Loops
    <3>2. PICK h : Follows("opens", cs, side, h)
      BY <3>1, LoopExists
    <3>3. h = [k \in DOMAIN cs |-> OpensStep(cs, k, h)]
      BY <2>2, <3>2, Zenon DEF Follows
    <3> QED
      BY <3>3
  <2> QED
    BY <2>1, <2>3, Zenon
<1>2. Fired(cs) = [k \in DOMAIN cs |-> FiredStep(cs, k, Fired(cs))]
  <2>1. Fired(cs) = CHOOSE f : f = [k \in DOMAIN cs |-> FiredStep(cs, k, f)]
    BY Zenon DEF Fired, FiredStep
  <2>2. \A k, f : Step("fired", cs, side, k, f) = FiredStep(cs, k, f)
    BY DEF Step
  <2>3. \E f : f = [k \in DOMAIN cs |-> FiredStep(cs, k, f)]
    <3>1. "fired" \in Loops
      BY DEF Loops
    <3>2. PICK h : Follows("fired", cs, side, h)
      BY <3>1, LoopExists
    <3>3. h = [k \in DOMAIN cs |-> FiredStep(cs, k, h)]
      BY <2>2, <3>2, Zenon DEF Follows
    <3> QED
      BY <3>3
  <2> QED
    BY <2>1, <2>3, Zenon
<1>3. Active(cs, side) = [k \in DOMAIN cs |-> ActiveStep(cs, side, k, Active(cs, side))]
  <2>1. Active(cs, side) = CHOOSE f : f = [k \in DOMAIN cs |-> ActiveStep(cs, side, k, f)]
    BY Zenon DEF Active, ActiveStep
  <2>2. \A k, f : Step("active", cs, side, k, f) = ActiveStep(cs, side, k, f)
    BY DEF Step
  <2>3. \E f : f = [k \in DOMAIN cs |-> ActiveStep(cs, side, k, f)]
    <3>1. "active" \in Loops
      BY DEF Loops
    <3>2. PICK h : Follows("active", cs, side, h)
      BY <3>1, LoopExists
    <3>3. h = [k \in DOMAIN cs |-> ActiveStep(cs, side, k, h)]
      BY <2>2, <3>2, Zenon DEF Follows
    <3> QED
      BY <3>3
  <2> QED
    BY <2>1, <2>3, Zenon
<1>4. Setup(cs) = [k \in DOMAIN cs |-> SetupStep(cs, k, Setup(cs))]
  <2>1. Setup(cs) = CHOOSE f : f = [k \in DOMAIN cs |-> SetupStep(cs, k, f)]
    BY Zenon DEF Setup, SetupStep
  <2>2. \A k, f : Step("setup", cs, side, k, f) = SetupStep(cs, k, f)
    BY DEF Step
  <2>3. \E f : f = [k \in DOMAIN cs |-> SetupStep(cs, k, f)]
    <3>1. "setup" \in Loops
      BY DEF Loops
    <3>2. PICK h : Follows("setup", cs, side, h)
      BY <3>1, LoopExists
    <3>3. h = [k \in DOMAIN cs |-> SetupStep(cs, k, h)]
      BY <2>2, <3>2, Zenon DEF Follows
    <3> QED
      BY <3>3
  <2> QED
    BY <2>1, <2>3, Zenon
<1>5. Rebalances(cs) = [k \in DOMAIN cs |-> RebalancesStep(cs, k, Rebalances(cs))]
  <2>1. Rebalances(cs) = CHOOSE f : f = [k \in DOMAIN cs |-> RebalancesStep(cs, k, f)]
    BY Zenon DEF Rebalances, RebalancesStep
  <2>2. \A k, f : Step("rebalances", cs, side, k, f) = RebalancesStep(cs, k, f)
    BY DEF Step
  <2>3. \E f : f = [k \in DOMAIN cs |-> RebalancesStep(cs, k, f)]
    <3>1. "rebalances" \in Loops
      BY DEF Loops
    <3>2. PICK h : Follows("rebalances", cs, side, h)
      BY <3>1, LoopExists
    <3>3. h = [k \in DOMAIN cs |-> RebalancesStep(cs, k, h)]
      BY <2>2, <3>2, Zenon DEF Follows
    <3> QED
      BY <3>3
  <2> QED
    BY <2>1, <2>3, Zenon
<1>6. DayFlags(cs) = [k \in DOMAIN cs |-> FlagsStep(cs, k, DayFlags(cs))]
  <2>1. DayFlags(cs) = CHOOSE f : f = [k \in DOMAIN cs |-> FlagsStep(cs, k, f)]
    BY Zenon DEF DayFlags, FlagsStep
  <2>2. \A k, f : Step("flags", cs, side, k, f) = FlagsStep(cs, k, f)
    BY DEF Step
  <2>3. \E f : f = [k \in DOMAIN cs |-> FlagsStep(cs, k, f)]
    <3>1. "flags" \in Loops
      BY DEF Loops
    <3>2. PICK h : Follows("flags", cs, side, h)
      BY <3>1, LoopExists
    <3>3. h = [k \in DOMAIN cs |-> FlagsStep(cs, k, h)]
      BY <2>2, <3>2, Zenon DEF Follows
    <3> QED
      BY <3>3
  <2> QED
    BY <2>1, <2>3, Zenon
<1> QED
  BY <1>1, <1>2, <1>3, <1>4, <1>5, <1>6


(* What the loops remember of the bars of the shorter history is the same  *)
(* in both histories.                                                      *)
LEMMA GrownItself ==
  ASSUME NEW cs, NEW ds, Grown(cs, ds)
  PROVE  Grown(cs, cs) /\ Grown(ds, ds)
BY DEF Grown, Begins

InStep(n, f, g) ==
    \A k \in 1 .. n : (\A j \in 1 .. (k - 1) : f[j] = g[j]) => f[k] = g[k]

LEMMA Together ==
  ASSUME NEW n \in Nat, NEW f, NEW g, InStep(n, f, g)
  PROVE  \A k \in 1 .. n : f[k] = g[k]
BY Everywhere DEF InStep

LEMMA RemembersSame ==
  ASSUME NEW cs, NEW ds, Grown(cs, ds), NEW side
  PROVE  /\ \A k \in 1 .. Len(cs) : Opens(cs)[k] = Opens(ds)[k]
         /\ \A k \in 1 .. Len(cs) : Fired(cs)[k] = Fired(ds)[k]
         /\ \A k \in 1 .. Len(cs) : Active(cs, side)[k] = Active(ds, side)[k]
         /\ \A k \in 1 .. Len(cs) : Setup(cs)[k] = Setup(ds)[k]
         /\ \A k \in 1 .. Len(cs) : Rebalances(cs)[k] = Rebalances(ds)[k]
         /\ \A k \in 1 .. Len(cs) : DayFlags(cs)[k] = DayFlags(ds)[k]
<1>0. /\ Grown(cs, cs) /\ Grown(ds, ds) /\ Len(cs) \in Nat
      /\ \A k \in 1 .. Len(cs) : k \in DOMAIN cs /\ k \in DOMAIN ds
  BY GrownItself, GrownBars
<1>1. \A k \in 1 .. Len(cs) : Opens(cs)[k] = Opens(ds)[k]
  <2>1. /\ Opens(cs) = [k \in DOMAIN cs |-> OpensStep(cs, k, Opens(cs))]
        /\ Opens(ds) = [k \in DOMAIN ds |-> OpensStep(ds, k, Opens(ds))]
    BY <1>0, LoopsRemember
  <2>2. ASSUME NEW k \in 1 .. Len(cs), \A j \in 1 .. (k - 1) : Opens(cs)[j] = Opens(ds)[j]
        PROVE  Opens(cs)[k] = Opens(ds)[k]
    <3>1. /\ Opens(cs)[k] = OpensStep(cs, k, Opens(cs))
          /\ Opens(ds)[k] = OpensStep(ds, k, Opens(ds))
      BY <1>0, <2>1, Zenon
    <3>2. Below(k, Opens(cs), Opens(ds))
      BY <2>2 DEF Below
    <3>3. OpensStep(cs, k, Opens(cs)) = OpensStep(ds, k, Opens(ds))
      BY <3>2, OpensStepSame
    <3> QED
      BY <3>1, <3>3
  <2>3. InStep(Len(cs), Opens(cs), Opens(ds))
    BY <2>2, Zenon DEF InStep
  <2>4. Len(cs) \in Nat
    BY <1>0
  <2> QED
    BY <2>3, <2>4, Together
<1>2. \A k \in 1 .. Len(cs) : Fired(cs)[k] = Fired(ds)[k]
  <2>1. /\ Fired(cs) = [k \in DOMAIN cs |-> FiredStep(cs, k, Fired(cs))]
        /\ Fired(ds) = [k \in DOMAIN ds |-> FiredStep(ds, k, Fired(ds))]
    BY <1>0, LoopsRemember
  <2>2. ASSUME NEW k \in 1 .. Len(cs), \A j \in 1 .. (k - 1) : Fired(cs)[j] = Fired(ds)[j]
        PROVE  Fired(cs)[k] = Fired(ds)[k]
    <3>1. /\ Fired(cs)[k] = FiredStep(cs, k, Fired(cs))
          /\ Fired(ds)[k] = FiredStep(ds, k, Fired(ds))
      BY <1>0, <2>1, Zenon
    <3>2. Below(k, Fired(cs), Fired(ds))
      BY <2>2 DEF Below
    <3>3. FiredStep(cs, k, Fired(cs)) = FiredStep(ds, k, Fired(ds))
      BY <3>2, FiredStepSame
    <3> QED
      BY <3>1, <3>3
  <2>3. InStep(Len(cs), Fired(cs), Fired(ds))
    BY <2>2, Zenon DEF InStep
  <2>4. Len(cs) \in Nat
    BY <1>0
  <2> QED
    BY <2>3, <2>4, Together
<1>3. \A k \in 1 .. Len(cs) : Active(cs, side)[k] = Active(ds, side)[k]
  <2>1. /\ Active(cs, side) = [k \in DOMAIN cs |-> ActiveStep(cs, side, k, Active(cs, side))]
        /\ Active(ds, side) = [k \in DOMAIN ds |-> ActiveStep(ds, side, k, Active(ds, side))]
    BY <1>0, LoopsRemember
  <2>2. ASSUME NEW k \in 1 .. Len(cs), \A j \in 1 .. (k - 1) : Active(cs, side)[j] = Active(ds, side)[j]
        PROVE  Active(cs, side)[k] = Active(ds, side)[k]
    <3>1. /\ Active(cs, side)[k] = ActiveStep(cs, side, k, Active(cs, side))
          /\ Active(ds, side)[k] = ActiveStep(ds, side, k, Active(ds, side))
      BY <1>0, <2>1, Zenon
    <3>2. Below(k, Active(cs, side), Active(ds, side))
      BY <2>2 DEF Below
    <3>3. ActiveStep(cs, side, k, Active(cs, side)) = ActiveStep(ds, side, k, Active(ds, side))
      BY <3>2, ActiveStepSame
    <3> QED
      BY <3>1, <3>3
  <2>3. InStep(Len(cs), Active(cs, side), Active(ds, side))
    BY <2>2, Zenon DEF InStep
  <2>4. Len(cs) \in Nat
    BY <1>0
  <2> QED
    BY <2>3, <2>4, Together
<1>4. \A k \in 1 .. Len(cs) : Setup(cs)[k] = Setup(ds)[k]
  <2>1. /\ Setup(cs) = [k \in DOMAIN cs |-> SetupStep(cs, k, Setup(cs))]
        /\ Setup(ds) = [k \in DOMAIN ds |-> SetupStep(ds, k, Setup(ds))]
    BY <1>0, LoopsRemember
  <2>2. ASSUME NEW k \in 1 .. Len(cs), \A j \in 1 .. (k - 1) : Setup(cs)[j] = Setup(ds)[j]
        PROVE  Setup(cs)[k] = Setup(ds)[k]
    <3>1. /\ Setup(cs)[k] = SetupStep(cs, k, Setup(cs))
          /\ Setup(ds)[k] = SetupStep(ds, k, Setup(ds))
      BY <1>0, <2>1, Zenon
    <3>2. Below(k, Setup(cs), Setup(ds))
      BY <2>2 DEF Below
    <3>3. SetupStep(cs, k, Setup(cs)) = SetupStep(ds, k, Setup(ds))
      BY <3>2, SetupStepSame
    <3> QED
      BY <3>1, <3>3
  <2>3. InStep(Len(cs), Setup(cs), Setup(ds))
    BY <2>2, Zenon DEF InStep
  <2>4. Len(cs) \in Nat
    BY <1>0
  <2> QED
    BY <2>3, <2>4, Together
<1>5. \A k \in 1 .. Len(cs) : Rebalances(cs)[k] = Rebalances(ds)[k]
  <2>1. /\ Rebalances(cs) = [k \in DOMAIN cs |-> RebalancesStep(cs, k, Rebalances(cs))]
        /\ Rebalances(ds) = [k \in DOMAIN ds |-> RebalancesStep(ds, k, Rebalances(ds))]
    BY <1>0, LoopsRemember
  <2>2. ASSUME NEW k \in 1 .. Len(cs), \A j \in 1 .. (k - 1) : Rebalances(cs)[j] = Rebalances(ds)[j]
        PROVE  Rebalances(cs)[k] = Rebalances(ds)[k]
    <3>1. /\ Rebalances(cs)[k] = RebalancesStep(cs, k, Rebalances(cs))
          /\ Rebalances(ds)[k] = RebalancesStep(ds, k, Rebalances(ds))
      BY <1>0, <2>1, Zenon
    <3>2. Below(k, Rebalances(cs), Rebalances(ds))
      BY <2>2 DEF Below
    <3>3. RebalancesStep(cs, k, Rebalances(cs)) = RebalancesStep(ds, k, Rebalances(ds))
      BY <3>2, RebalancesStepSame
    <3> QED
      BY <3>1, <3>3
  <2>3. InStep(Len(cs), Rebalances(cs), Rebalances(ds))
    BY <2>2, Zenon DEF InStep
  <2>4. Len(cs) \in Nat
    BY <1>0
  <2> QED
    BY <2>3, <2>4, Together
<1>6. \A k \in 1 .. Len(cs) : DayFlags(cs)[k] = DayFlags(ds)[k]
  <2>1. /\ DayFlags(cs) = [k \in DOMAIN cs |-> FlagsStep(cs, k, DayFlags(cs))]
        /\ DayFlags(ds) = [k \in DOMAIN ds |-> FlagsStep(ds, k, DayFlags(ds))]
    BY <1>0, LoopsRemember
  <2>2. ASSUME NEW k \in 1 .. Len(cs), \A j \in 1 .. (k - 1) : DayFlags(cs)[j] = DayFlags(ds)[j]
        PROVE  DayFlags(cs)[k] = DayFlags(ds)[k]
    <3>1. /\ DayFlags(cs)[k] = FlagsStep(cs, k, DayFlags(cs))
          /\ DayFlags(ds)[k] = FlagsStep(ds, k, DayFlags(ds))
      BY <1>0, <2>1, Zenon
    <3>2. Below(k, DayFlags(cs), DayFlags(ds))
      BY <2>2 DEF Below
    <3>3. FlagsStep(cs, k, DayFlags(cs)) = FlagsStep(ds, k, DayFlags(ds))
      BY <3>2, FlagsStepSame
    <3> QED
      BY <3>1, <3>3
  <2>3. InStep(Len(cs), DayFlags(cs), DayFlags(ds))
    BY <2>2, Zenon DEF InStep
  <2>4. Len(cs) \in Nat
    BY <1>0
  <2> QED
    BY <2>3, <2>4, Together
<1> QED
  BY <1>1, <1>2, <1>3, <1>4, <1>5, <1>6

LEMMA PivotReactionZoneSame ==
  ASSUME NEW cs, NEW ds, Grown(cs, ds)
  PROVE  Same(PivotReactionZone(cs), PivotReactionZone(ds), Len(cs))
<1> DEFINE needs == ZoneWarm + 2
           first == ZoneWarm + 1
           Loop(h) == UNION {PivotReactionZoneAt(h, k, side) : k \in first .. Len(h), side \in Sides}
<1>1. \A h : PivotReactionZone(h) = Strategy(h, needs, Loop(h))
  BY DEF PivotReactionZone, Scan
<1> HIDE DEF first, needs
<1>2. \A h, s : s \in Loop(h) <=>
          \E k \in first .. Len(h), side \in Sides : s \in PivotReactionZoneAt(h, k, side)
  OBVIOUS
<1>3. needs \in Int /\ first \in Int /\ first >= 2
  BY CountsAreNumbers, NeedsAreNumbers DEF needs, first
<1> HIDE DEF Loop
<1>4. ASSUME NEW k \in first .. Len(cs), NEW side \in Sides
      PROVE  PivotReactionZoneAt(cs, k, side) = PivotReactionZoneAt(ds, k, side)
  <2>1. /\ k \in 2 .. Len(cs) /\ k \in 1 .. Len(cs) /\ k - 1 \in 1 .. Len(cs)
        /\ k \in Int /\ first <= k
    BY <1>3, GrownBars
  <2>2. Alike(cs, ds, k) /\ Alike(cs, ds, k - 1)
    BY <2>1, BarsAlike
  <2>3. /\ Ready(cs, k, side) = Ready(ds, k, side)
        /\ \A j \in Ready(cs, k, side) :
               ZoneEntry(cs, k, side, j) = ZoneEntry(ds, k, side, j)
    BY <2>1, ReadySame
  <2>4. Fired(cs)[k] = Fired(ds)[k]
    BY <2>1, RemembersSame
  <2> QED
    BY <2>3, <2>4, Zenon DEF PivotReactionZoneAt
<1>5. \A h, k, side : \A s \in PivotReactionZoneAt(h, k, side) : s.bar = k
  BY OrdersAtBar DEF PivotReactionZoneAt, ZoneEntry
<1>6. \A s \in Loop(cs) : s \in Loop(ds) /\ s.bar \in 1 .. Len(cs)
  BY <1>2, <1>3, <1>4, <1>5, GrownBars
<1>7. \A s \in Loop(ds) : s.bar \in Int /\ (s.bar <= Len(cs) => s \in Loop(cs))
  BY <1>2, <1>3, <1>4, <1>5, GrownBars
<1> QED
  BY <1>1, <1>3, <1>6, <1>7, LoopSame

LEMMA TrendPullbackRegimeSame ==
  ASSUME NEW cs, NEW ds, Grown(cs, ds)
  PROVE  Same(TrendPullbackRegime(cs), TrendPullbackRegime(ds), Len(cs))
<1> DEFINE needs == RegimeWarm
           first == RegimeWarm + 1
           Loop(h) == UNION {TrendPullbackRegimeAt(h, k, side) : k \in first .. Len(h), side \in Sides}
<1>1. \A h : TrendPullbackRegime(h) = Strategy(h, needs, Loop(h))
  BY DEF TrendPullbackRegime, Scan
<1> HIDE DEF first, needs
<1>2. \A h, s : s \in Loop(h) <=>
          \E k \in first .. Len(h), side \in Sides : s \in TrendPullbackRegimeAt(h, k, side)
  OBVIOUS
<1>3. needs \in Int /\ first \in Int /\ first >= 2
  BY CountsAreNumbers, NeedsAreNumbers DEF needs, first
<1> HIDE DEF Loop
<1>4. ASSUME NEW k \in first .. Len(cs), NEW side \in Sides
      PROVE  TrendPullbackRegimeAt(cs, k, side) = TrendPullbackRegimeAt(ds, k, side)
  <2>1. /\ k \in 2 .. Len(cs) /\ k \in 1 .. Len(cs) /\ k - 1 \in 1 .. Len(cs)
        /\ k \in Int /\ first <= k
    BY <1>3, GrownBars
  <2>2. Alike(cs, ds, k) /\ Alike(cs, ds, k - 1)
    BY <2>1, BarsAlike
  <2>3. Setup(cs)[k - 1] = Setup(ds)[k - 1]
    BY <2>1, RemembersSame
  <2>4. ASSUME NEW pivot
        PROVE  /\ Regime(cs, k, side) <=> Regime(ds, k, side)
               /\ Armed(cs, k, side, pivot) = Armed(ds, k, side, pivot)
               /\ SetupEntry(cs, k, side, pivot) = SetupEntry(ds, k, side, pivot)
    <3>1. k \in 1 .. Len(cs)
      BY <2>1
    <3>2. Regime(cs, k, side) <=> Regime(ds, k, side)
      BY <3>1, SetupSame
    <3>3. Armed(cs, k, side, pivot) = Armed(ds, k, side, pivot)
      BY <3>1, SetupSame
    <3>4. SetupEntry(cs, k, side, pivot) = SetupEntry(ds, k, side, pivot)
      BY <3>1, SetupSame
    <3> QED
      BY <3>2, <3>3, <3>4
  <2> QED
    BY <2>3, <2>4, Zenon DEF TrendPullbackRegimeAt
<1>5. \A h, k, side : \A s \in TrendPullbackRegimeAt(h, k, side) : s.bar = k
  BY OrdersAtBar DEF TrendPullbackRegimeAt, SetupEntry
<1>6. \A s \in Loop(cs) : s \in Loop(ds) /\ s.bar \in 1 .. Len(cs)
  BY <1>2, <1>3, <1>4, <1>5, GrownBars
<1>7. \A s \in Loop(ds) : s.bar \in Int /\ (s.bar <= Len(cs) => s \in Loop(cs))
  BY <1>2, <1>3, <1>4, <1>5, GrownBars
<1> QED
  BY <1>1, <1>3, <1>6, <1>7, LoopSame

LEMMA VwapFirstTouchSame ==
  ASSUME NEW cs, NEW ds, Grown(cs, ds)
  PROVE  Same(VwapFirstTouch(cs), VwapFirstTouch(ds), Len(cs))
<1> DEFINE needs == P.warm
           first == P.start + 1
           Loop(h) == UNION {VwapFirstTouchAt(h, k) : k \in first .. Len(h)}
<1>1. \A h : VwapFirstTouch(h) = Strategy(h, needs, Loop(h))
  BY DEF VwapFirstTouch
<1> HIDE DEF first, needs
<1>2. \A h, s : s \in Loop(h) <=> \E k \in first .. Len(h) : s \in VwapFirstTouchAt(h, k)
  OBVIOUS
<1>3. needs \in Int /\ first \in Int /\ first >= 2
  BY CountsAreNumbers, NeedsAreNumbers DEF needs, first
<1> HIDE DEF Loop
<1>4. ASSUME NEW k \in first .. Len(cs)
      PROVE  VwapFirstTouchAt(cs, k) = VwapFirstTouchAt(ds, k)
  <2>1. /\ k \in 2 .. Len(cs) /\ k \in 1 .. Len(cs) /\ k - 1 \in 1 .. Len(cs)
        /\ k \in Int /\ first <= k
    BY <1>3, GrownBars
  <2>2. Alike(cs, ds, k) /\ Alike(cs, ds, k - 1)
    BY <2>1, BarsAlike
  <2>3. Below(k, DayFlags(cs), DayFlags(ds))
    <3>1. \A j \in 1 .. Len(cs) : DayFlags(cs)[j] = DayFlags(ds)[j]
      BY RemembersSame
    <3>2. Len(cs) \in Int /\ k <= Len(cs)
      BY <2>1, GrownBars
    <3> QED
      BY <2>1, <3>1, <3>2 DEF Below
  <2>4. DayBefore(cs, DayFlags(cs), k) = DayBefore(ds, DayFlags(ds), k)
    BY <2>1, <2>3, FlagsStepSame
  <2>5. /\ Touch(cs, k) = Touch(ds, k)
        /\ \A b : Fires(cs, b, k) <=> Fires(ds, b, k)
    BY <2>1, FlagsSame
  <2> QED
    BY <2>4, <2>5 DEF VwapFirstTouchAt
<1>5. \A h, k : \A s \in VwapFirstTouchAt(h, k) : s.bar = k
  BY OrdersAtBar DEF VwapFirstTouchAt, Touch
<1>6. \A s \in Loop(cs) : s \in Loop(ds) /\ s.bar \in 1 .. Len(cs)
  BY <1>2, <1>3, <1>4, <1>5, GrownBars
<1>7. \A s \in Loop(ds) : s.bar \in Int /\ (s.bar <= Len(cs) => s \in Loop(cs))
  BY <1>2, <1>3, <1>4, <1>5, GrownBars
<1> QED
  BY <1>1, <1>3, <1>6, <1>7, LoopSame

LEMMA MinIn ==
  ASSUME NEW T \in SUBSET Nat, T # {}
  PROVE  Min(T) \in T /\ \A j \in T : Min(T) <= j
<1>1. PICK m \in T : \A j \in T : m <= j
  BY Least
<1>2. T \in SUBSET Int
  OBVIOUS
<1> QED
  BY <1>1, <1>2, MinIs

LEMMA TouchedSame ==
  ASSUME NEW cs, NEW ds, Grown(cs, ds), NEW side, NEW k \in 1 .. Len(cs)
  PROVE  /\ Touched(cs, side, k) = Touched(ds, side, k)
         /\ Touched(cs, side, k) \subseteq 1 .. Len(cs)
<1>1. Active(cs, side)[k] = Active(ds, side)[k]
  BY RemembersSame
<1>2. Active(cs, side)[k] \subseteq 1 .. Len(cs)
  <2>1. Grown(cs, cs) /\ k \in DOMAIN cs
    BY GrownItself, GrownBars
  <2>2. Active(cs, side) = [i \in DOMAIN cs |-> ActiveStep(cs, side, i, Active(cs, side))]
    BY <2>1, LoopsRemember
  <2>3. Active(cs, side)[k] = ActiveStep(cs, side, k, Active(cs, side))
    BY <2>1, <2>2, Zenon
  <2>4. Confirmed(cs, side, k) \subseteq 1 .. Len(cs)
    BY ZonesSame
  <2>5. \A z : ActiveStep(cs, side, k, z) \subseteq Confirmed(cs, side, k)
    BY Zenon DEF ActiveStep
  <2> QED
    BY <2>3, <2>4, <2>5
<1>3. cs[k] = ds[k] /\ \A j \in Active(cs, side)[k] : cs[j] = ds[j]
  BY <1>2, GrownBars
<1>4. Touched(cs, side, k) = Touched(ds, side, k)
  BY <1>1, <1>3, Zenon DEF Touched
<1> QED
  BY <1>2, <1>4 DEF Touched

LEMMA FilteredSame ==
  ASSUME NEW cs, NEW ds, Grown(cs, ds), NEW side, NEW k \in 1 .. Len(cs), P.bb <= k, NEW variant
  PROVE  Filtered(cs, k, side, variant) = Filtered(ds, k, side, variant)
<1> DEFINE S == Trailing(k, P.bb)
           Volume(h) == [j \in DOMAIN h |-> h[j].vol]
<1>1. S \subseteq 1 .. Len(cs)
  <2>1. Len(cs) \in Int /\ P.bb \in Int /\ k \in Int /\ k <= Len(cs)
    BY GrownBars, CountsAreNumbers
  <2> QED
    BY <2>1, TrailingBars
<1>2. /\ Mean(Closes(cs), S) = Mean(Closes(ds), S)
      /\ Deviation(Closes(cs), S, 1) = Deviation(Closes(ds), S, 1)
  BY <1>1, AveragesAlike
<1>3. Mean(Volume(cs), S) = Mean(Volume(ds), S)
  <2>1. Agree(S, Volume(cs), Volume(ds))
    BY <1>1, GrownBars DEF Agree
  <2> QED
    BY <2>1, DeviationSame
<1>4. /\ cs[k] = ds[k] /\ RsiWilder(cs, P.rsi)[k] = RsiWilder(ds, P.rsi)[k]
      /\ Ema(Closes(cs), P.slow)[k] = Ema(Closes(ds), P.slow)[k]
  BY BarsAlike DEF Alike
<1> HIDE DEF S
<1> QED
  BY <1>2, <1>3, <1>4, Zenon DEF Filtered, S

LEMMA LevelBounceSame ==
  ASSUME NEW cs, NEW ds, Grown(cs, ds), NEW side, NEW variant
  PROVE  Same(LevelBounce(cs, side, variant), LevelBounce(ds, side, variant), Len(cs))
<1> DEFINE needs == P.warm
           first == P.warm + 1
           Loop(h) == UNION {LevelBounceAt(h, k, side, variant) : k \in first .. Len(h)}
<1>1. \A h : LevelBounce(h, side, variant) = Strategy(h, needs, Loop(h))
  BY DEF LevelBounce
<1> HIDE DEF first, needs
<1>2. \A h, s : s \in Loop(h) <=> \E k \in first .. Len(h) : s \in LevelBounceAt(h, k, side, variant)
  OBVIOUS
<1>3. needs \in Int /\ first \in Int /\ first >= 2 /\ first >= P.warm + 1
  BY CountsAreNumbers, NeedsAreNumbers DEF needs, first
<1> HIDE DEF Loop
<1>4. ASSUME NEW k \in first .. Len(cs)
      PROVE  LevelBounceAt(cs, k, side, variant) = LevelBounceAt(ds, k, side, variant)
  <2>1. /\ k \in 2 .. Len(cs) /\ k \in 1 .. Len(cs) /\ k - 1 \in 1 .. Len(cs)
        /\ k \in Int /\ first <= k
    BY <1>3, GrownBars
  <2>2. Alike(cs, ds, k) /\ Alike(cs, ds, k - 1)
    BY <2>1, BarsAlike
  <2>3. \A price, pad : Padded(cs, k, side, price, pad) = Padded(ds, k, side, price, pad)
    BY <2>2, OrdersAlike
  <2>4. /\ cs[k] = ds[k] /\ AtrWilder(cs, P.atr)[k] = AtrWilder(ds, P.atr)[k]
    BY <2>2 DEF Alike
  <2>5. /\ Touched(cs, side, k) = Touched(ds, side, k)
        /\ Touched(cs, side, k) \subseteq 1 .. Len(cs)
    BY <2>1, TouchedSame
  <2>6. Filtered(cs, k, side, variant) = Filtered(ds, k, side, variant)
    <3>1. P.bb \in Int /\ P.warm \in Int /\ P.bb <= P.warm
      BY CountsAreNumbers
    <3>2. P.bb <= k
      BY <1>3, <2>1, <3>1
    <3> QED
      BY <2>1, <3>2, FilteredSame
  <2>7. CASE Touched(cs, side, k) = {}
    BY <2>5, <2>7, Zenon DEF LevelBounceAt
  <2>8. CASE Touched(cs, side, k) # {}
    <3>1. Touched(cs, side, k) \in SUBSET Nat
      BY <2>5, GrownBars
    <3>2. cs[Min(Touched(cs, side, k))] = ds[Min(Touched(cs, side, k))]
      BY <2>5, <2>8, <3>1, MinIn, GrownBars
    <3> QED
      BY <2>3, <2>4, <2>5, <2>6, <3>2, Zenon DEF LevelBounceAt
  <2> QED
    BY <2>7, <2>8
<1>5. \A h, k : \A s \in LevelBounceAt(h, k, side, variant) : s.bar = k
  BY OrdersAtBar DEF LevelBounceAt
<1>6. \A s \in Loop(cs) : s \in Loop(ds) /\ s.bar \in 1 .. Len(cs)
  BY <1>2, <1>3, <1>4, <1>5, GrownBars
<1>7. \A s \in Loop(ds) : s.bar \in Int /\ (s.bar <= Len(cs) => s \in Loop(cs))
  BY <1>2, <1>3, <1>4, <1>5, GrownBars
<1> QED
  BY <1>1, <1>3, <1>6, <1>7, LoopSame

LEMMA TsmomSame ==
  ASSUME NEW cs, NEW ds, Grown(cs, ds)
  PROVE  Same(Tsmom(cs), Tsmom(ds), Len(cs))
<1> DEFINE needs == P.momentum + 2
           Loop(h) == UNION {Rebalance(h, k) : k \in {j \in DOMAIN h : Rebalances(h)[j]}}
<1>1. \A h : Tsmom(h) = Strategy(h, needs, Loop(h))
  BY DEF Tsmom
<1>2. \A h, s : s \in Loop(h) <=> \E k \in DOMAIN h : Rebalances(h)[k] /\ s \in Rebalance(h, k)
  OBVIOUS
<1>3. needs \in Int
  BY CountsAreNumbers
<1> HIDE DEF Loop, needs
<1>4. ASSUME NEW k \in 1 .. Len(cs)
      PROVE  /\ Rebalances(cs)[k] = Rebalances(ds)[k]
             /\ Rebalances(cs)[k] => Rebalance(cs, k) = Rebalance(ds, k)
  <2>1. Grown(cs, cs) /\ k \in DOMAIN cs
    BY GrownItself, GrownBars
  <2>2. Rebalances(cs) = [i \in DOMAIN cs |-> RebalancesStep(cs, i, Rebalances(cs))]
    BY <2>1, LoopsRemember
  <2>3. Rebalances(cs)[k] = RebalancesStep(cs, k, Rebalances(cs))
    BY <2>1, <2>2, Zenon
  <2>4. Rebalances(cs)[k] => k > P.momentum
    BY <2>3 DEF RebalancesStep
  <2>5. Rebalances(cs)[k] = Rebalances(ds)[k]
    BY RemembersSame
  <2> QED
    BY <2>4, <2>5, RebalanceSame
<1>5. \A h, k : \A s \in Rebalance(h, k) : s.bar = k
  BY DEF Rebalance, Signal
<1>6. \A s \in Loop(cs) : s \in Loop(ds) /\ s.bar \in 1 .. Len(cs)
  BY <1>2, <1>4, <1>5, GrownBars
<1>7. \A s \in Loop(ds) : s.bar \in Int /\ (s.bar <= Len(cs) => s \in Loop(cs))
  BY <1>2, <1>4, <1>5, GrownBars
<1> QED
  BY <1>1, <1>3, <1>6, <1>7, LoopSame


---------------------------------------------------------------------------
(* Weeks and sessions: the days of a history do not go back.               *)
Ordered(cs) ==
    \A i, j \in DOMAIN cs : cs[i].day \in Int /\ (i <= j => cs[i].day <= cs[j].day)

LEMMA WeeksGrow ==
  ASSUME NEW a \in Int, NEW b \in Int, a <= b, NEW w \in Int, w > 0
  PROVE  a \div w \in Int /\ b \div w \in Int /\ a \div w <= b \div w
OBVIOUS

LEMMA MaxIs ==
  ASSUME NEW T \in SUBSET Int, NEW m \in T, \A j \in T : j <= m
  PROVE  Max(T) = m
<1>1. \A x \in T : (\A y \in T : x >= y) => x = m
  OBVIOUS
<1>2. Max(T) = CHOOSE x \in T : \A y \in T : x >= y
  BY Zenon DEF Max
<1>3. \E x \in T : \A y \in T : x >= y
  OBVIOUS
<1>4. Max(T) \in T /\ \A y \in T : Max(T) >= y
  BY <1>2, <1>3, Zenon
<1> QED
  BY <1>1, <1>4

LEMMA LatestBar ==
  ASSUME NEW n \in Nat, NEW T \in SUBSET (1 .. n), T # {}
  PROVE  \E m \in T : \A j \in T : j <= m
<1> DEFINE Back == {b \in 0 .. n : n - b \in T}
<1>1. \A j \in T : n - j \in Back
  OBVIOUS
<1>2. Back \in SUBSET Nat /\ Back # {}
  <2>1. Back \in SUBSET Nat
    OBVIOUS
  <2>2. PICK j \in T : TRUE
    OBVIOUS
  <2>3. n - j \in Back
    BY <1>1
  <2> HIDE DEF Back
  <2> QED
    BY <2>1, <2>3
<1>3. PICK b \in Back : \A c \in Back : b <= c
  BY <1>2, Least
<1>4. \A j \in T : b <= n - j
  BY <1>1, <1>3
<1> QED
  BY <1>3, <1>4

LEMMA WeeksSame ==
  ASSUME NEW cs, NEW ds, Grown(cs, ds), Ordered(ds), NEW side, NEW k \in 1 .. Len(cs)
  PROVE  /\ Earlier(cs, k) = Earlier(ds, k)
         /\ Earlier(cs, k) # {} => LastWeekLevel(cs, k, side) = LastWeekLevel(ds, k, side)
<1>1. /\ Len(cs) \in Nat /\ Len(ds) \in Nat /\ Len(cs) <= Len(ds)
      /\ DOMAIN cs = 1 .. Len(cs) /\ DOMAIN ds = 1 .. Len(ds)
      /\ \A j \in 1 .. Len(cs) : cs[j] = ds[j]
  BY GrownBars
<1>2. \A i, j \in 1 .. Len(ds) :
          WeekOf(ds[i]) \in Int /\ (i <= j => WeekOf(ds[i]) <= WeekOf(ds[j]))
  <2>1. P.week \in Int /\ P.week > 0
    BY CountsAreNumbers
  <2> SUFFICES ASSUME NEW i \in 1 .. Len(ds), NEW j \in 1 .. Len(ds)
               PROVE  WeekOf(ds[i]) \in Int /\ (i <= j => WeekOf(ds[i]) <= WeekOf(ds[j]))
    OBVIOUS
  <2>2. ds[i].day \in Int /\ ds[j].day \in Int /\ (i <= j => ds[i].day <= ds[j].day)
    BY <1>1 DEF Ordered
  <2>3. ds[i].day \div P.week \in Int
    BY <2>1, <2>2
  <2>4. i <= j => ds[i].day \div P.week <= ds[j].day \div P.week
    BY <2>1, <2>2, WeeksGrow
  <2> QED
    BY <2>3, <2>4 DEF WeekOf
<1>3. \A j \in 1 .. Len(ds) : WeekOf(ds[j]) < WeekOf(ds[k]) => j \in 1 .. Len(cs)
  BY <1>1, <1>2
<1>4. /\ \A j : j \in Earlier(cs, k) <=> j \in 1 .. Len(cs) /\ WeekOf(cs[j]) < WeekOf(cs[k])
      /\ \A j : j \in Earlier(ds, k) <=> j \in 1 .. Len(ds) /\ WeekOf(ds[j]) < WeekOf(ds[k])
  BY <1>1 DEF Earlier
<1>5. Earlier(cs, k) = Earlier(ds, k) /\ Earlier(cs, k) \in SUBSET (1 .. Len(cs))
  BY <1>1, <1>3, <1>4
<1>6. ASSUME Earlier(cs, k) # {}
      PROVE  LastWeekLevel(cs, k, side) = LastWeekLevel(ds, k, side)
  <2>1. PICK m \in Earlier(cs, k) : \A j \in Earlier(cs, k) : j <= m
    BY <1>1, <1>5, <1>6, LatestBar
  <2> DEFINE Weeks(h) == {WeekOf(h[j]) : j \in Earlier(h, k)}
             Bars(h) == {i \in DOMAIN h : WeekOf(h[i]) = WeekOf(ds[m])}
  <2>2. Weeks(cs) = Weeks(ds)
    BY <1>1, <1>5
  <2>3. Max(Weeks(ds)) = WeekOf(ds[m])
    <3>1. Weeks(ds) \in SUBSET Int /\ WeekOf(ds[m]) \in Weeks(ds)
      BY <1>1, <1>2, <1>5
    <3>2. \A j \in Earlier(ds, k) : WeekOf(ds[j]) <= WeekOf(ds[m])
      BY <1>1, <1>2, <1>5, <2>1
    <3>3. \A w \in Weeks(ds) : w <= WeekOf(ds[m])
      BY <3>2
    <3> HIDE DEF Weeks
    <3> QED
      BY <3>1, <3>3, MaxIs
  <2>4. Bars(cs) = Bars(ds) /\ \A j \in Bars(ds) : cs[j] = ds[j]
    <3>1. WeekOf(ds[m]) < WeekOf(ds[k])
      BY <1>4, <1>5, <2>1
    <3>2. \A i \in 1 .. Len(ds) : WeekOf(ds[i]) = WeekOf(ds[m]) => i \in 1 .. Len(cs)
      BY <1>3, <3>1
    <3> QED
      BY <1>1, <3>2
  <2>5. \A h : LastWeekLevel(h, k, side) =
                Worst(side, {Adverse(side, h[j]) :
                                j \in {i \in DOMAIN h : WeekOf(h[i]) = Max(Weeks(h))}})
    BY Zenon DEF LastWeekLevel
  <2>6. \A h : Max(Weeks(h)) = WeekOf(ds[m]) =>
                LastWeekLevel(h, k, side) = Worst(side, {Adverse(side, h[j]) : j \in Bars(h)})
    BY <2>5, Zenon
  <2>7. Max(Weeks(cs)) = WeekOf(ds[m])
    BY <2>2, <2>3, Zenon
  <2> HIDE DEF Weeks, Bars
  <2>8. {Adverse(side, cs[j]) : j \in Bars(cs)} = {Adverse(side, ds[j]) : j \in Bars(ds)}
    BY <2>4, Zenon
  <2>9. /\ LastWeekLevel(cs, k, side) = Worst(side, {Adverse(side, cs[j]) : j \in Bars(cs)})
        /\ LastWeekLevel(ds, k, side) = Worst(side, {Adverse(side, ds[j]) : j \in Bars(ds)})
    BY <2>3, <2>6, <2>7
  <2> QED
    BY <2>8, <2>9, Zenon
<1> QED
  BY <1>5, <1>6

LEMMA LastWeekSame ==
  ASSUME NEW cs, NEW ds, Grown(cs, ds), Ordered(ds), NEW side
  PROVE  Same(LastWeek(cs, side), LastWeek(ds, side), Len(cs))
<1> DEFINE needs == P.warm
           first == P.start + 1
           Loop(h) == UNION {LastWeekAt(h, k, side) : k \in first .. Len(h)}
<1>1. \A h : LastWeek(h, side) = Strategy(h, needs, Loop(h))
  BY DEF LastWeek
<1> HIDE DEF first, needs
<1>2. \A h, s : s \in Loop(h) <=> \E k \in first .. Len(h) : s \in LastWeekAt(h, k, side)
  OBVIOUS
<1>3. needs \in Int /\ first \in Int /\ first >= 2
  BY CountsAreNumbers, NeedsAreNumbers DEF needs, first
<1> HIDE DEF Loop
<1>4. ASSUME NEW k \in first .. Len(cs)
      PROVE  LastWeekAt(cs, k, side) = LastWeekAt(ds, k, side)
  <2>1. /\ k \in 2 .. Len(cs) /\ k \in 1 .. Len(cs) /\ k - 1 \in 1 .. Len(cs)
        /\ k \in Int /\ first <= k
    BY <1>3, GrownBars
  <2>2. Alike(cs, ds, k) /\ Alike(cs, ds, k - 1)
    BY <2>1, BarsAlike
  <2>3. \A price, pad : Padded(cs, k, side, price, pad) = Padded(ds, k, side, price, pad)
    BY <2>2, OrdersAlike
  <2>4. /\ Earlier(cs, k) = Earlier(ds, k)
        /\ Earlier(cs, k) # {} => LastWeekLevel(cs, k, side) = LastWeekLevel(ds, k, side)
    BY <2>1, WeeksSame
  <2>5. /\ cs[k] = ds[k] /\ AtrWilder(cs, P.atr)[k] = AtrWilder(ds, P.atr)[k]
        /\ Ema(Closes(cs), P.mid)[k] = Ema(Closes(ds), P.mid)[k]
        /\ Ema(Closes(cs), P.slow)[k] = Ema(Closes(ds), P.slow)[k]
    BY <2>2 DEF Alike
  <2>6. Trending(cs, k, side) <=> Trending(ds, k, side)
    BY <2>5 DEF Trending
  <2>7. CASE Earlier(cs, k) = {}
    BY <2>4, <2>7, Zenon DEF LastWeekAt
  <2>8. CASE Earlier(cs, k) # {}
    BY <2>3, <2>4, <2>5, <2>6, <2>8 DEF LastWeekAt
  <2> QED
    BY <2>7, <2>8
<1>5. \A h, k : \A s \in LastWeekAt(h, k, side) : s.bar = k
  BY OrdersAtBar DEF LastWeekAt
<1>6. \A s \in Loop(cs) : s \in Loop(ds) /\ s.bar \in 1 .. Len(cs)
  BY <1>2, <1>3, <1>4, <1>5, GrownBars
<1>7. \A s \in Loop(ds) : s.bar \in Int /\ (s.bar <= Len(cs) => s \in Loop(cs))
  BY <1>2, <1>3, <1>4, <1>5, GrownBars
<1> QED
  BY <1>1, <1>3, <1>6, <1>7, LoopSame


(* The opening ranges, the breaks and the entry of a session.  Its end is  *)
(* the only thing that moves: bars may be missing from the shorter one.    *)
LEMMA OpeningSame ==
  ASSUME NEW cs, NEW ds, Grown(cs, ds), NEW s \in 1 .. Len(cs), NEW k \in 1 .. Len(cs),
         s + P.orBars <= k, NEW side
  PROVE  /\ Opposite(cs, s, side) = Opposite(ds, s, side)
         /\ BreaksOpening(cs, s, k, side) <=> BreaksOpening(ds, s, k, side)
<1>1. P.orBars \in Int /\ P.orBars > 0
  BY CountsAreNumbers
<1>2. \A j \in s .. (s + P.orBars - 1) : cs[j] = ds[j]
  BY <1>1, GrownBars
<1>3. /\ {Favourable(side, cs[j]) : j \in s .. (s + P.orBars - 1)} =
         {Favourable(side, ds[j]) : j \in s .. (s + P.orBars - 1)}
      /\ {Adverse(side, cs[j]) : j \in s .. (s + P.orBars - 1)} =
         {Adverse(side, ds[j]) : j \in s .. (s + P.orBars - 1)}
  BY <1>2, Zenon
<1>4. Opening(cs, s, side) = Opening(ds, s, side) /\ Opposite(cs, s, side) = Opposite(ds, s, side)
  BY <1>3, Zenon DEF Opening, Opposite
<1>5. cs[k] = ds[k]
  BY GrownBars
<1> QED
  BY <1>4, <1>5 DEF BreaksOpening

LEMMA OrbBreaksSame ==
  ASSUME NEW cs, NEW ds, Grown(cs, ds), NEW s \in 1 .. Len(cs), NEW k \in 1 .. Len(cs)
  PROVE  k \in OrbBreaks(cs, s) <=> k \in OrbBreaks(ds, s)
<1>1. P.orBars \in Int /\ P.orBars > 0
  BY CountsAreNumbers
<1>2. Len(cs) \in Int /\ Len(ds) \in Int /\ Len(cs) <= Len(ds) /\ k \in Int /\ k <= Len(cs) /\ s \in Int
  BY GrownBars
<1>3. /\ SessionEnd(cs, s) \in Int /\ SessionEnd(ds, s) \in Int
      /\ k <= SessionEnd(cs, s) <=> k <= SessionEnd(ds, s)
  <2>1. k > SessionEnd(cs, s) <=> k > s + P.sessionBars - 1
    BY <1>2, SessionEnds
  <2>2. k > SessionEnd(ds, s) <=> k > s + P.sessionBars - 1
    BY <1>2, SessionEnds
  <2>3. SessionEnd(cs, s) \in Int /\ SessionEnd(ds, s) \in Int
    BY <1>2, SessionEnds
  <2> QED
    BY <1>2, <2>1, <2>2, <2>3
<1>4. s + P.orBars <= k =>
          \A side : BreaksOpening(cs, s, k, side) <=> BreaksOpening(ds, s, k, side)
  BY OpeningSame
<1>5. \A h : k \in OrbBreaks(h, s) <=>
          /\ k \in (s + P.orBars) .. SessionEnd(h, s)
          /\ \E side \in Sides : BreaksOpening(h, s, k, side)
  BY DEF OrbBreaks
<1>6. k \in (s + P.orBars) .. SessionEnd(cs, s) <=> k \in (s + P.orBars) .. SessionEnd(ds, s)
  BY <1>1, <1>2, <1>3
<1>7. k \in (s + P.orBars) .. SessionEnd(cs, s) => s + P.orBars <= k
  BY <1>1, <1>2, <1>3
<1> QED
  BY <1>4, <1>5, <1>6, <1>7

LEMMA OrbBars ==
  ASSUME NEW h, Len(h) \in Nat, NEW s \in 1 .. Len(h)
  PROVE  /\ OrbBreaks(h, s) \in SUBSET Nat
         /\ \A k \in OrbBreaks(h, s) : k \in 1 .. Len(h) /\ s + P.orBars <= k
<1>1. P.orBars \in Int /\ P.orBars > 0
  BY CountsAreNumbers
<1>2. SessionEnd(h, s) \in Int /\ SessionEnd(h, s) <= Len(h)
  <2>1. Len(h) \in Int /\ s \in Int
    OBVIOUS
  <2> QED
    BY <2>1, SessionEnds
<1>3. \A k \in OrbBreaks(h, s) : k \in (s + P.orBars) .. SessionEnd(h, s)
  BY DEF OrbBreaks
<1> QED
  BY <1>1, <1>2, <1>3

(* The holding time does not show in what an order is made of.             *)
LEMMA AnyHold ==
  ASSUME NEW k, NEW side, NEW entry, NEW stop, NEW mult, NEW a, NEW b,
         NEW x \in ByRisk(k, side, entry, stop, mult, a)
  PROVE  \E y \in ByRisk(k, side, entry, stop, mult, b) : y.bar = x.bar /\ Order(y) = Order(x)
<1> DEFINE target == entry + Sign(side) * Tenths(mult, Sign(side) * (entry - stop))
           Sound == Sign(side) * (entry - stop) > 0 /\ (side = "SHORT" => target > 0)
<1>1. \A h : ByRisk(k, side, entry, stop, mult, h) =
          IF Sound THEN {Signal(k, side, entry, stop, target, h)} ELSE {}
  BY Zenon DEF ByRisk
<1> HIDE DEF Sound, target
<1>2. Sound /\ x = Signal(k, side, entry, stop, target, a)
  BY <1>1
<1>3. Signal(k, side, entry, stop, target, b) \in ByRisk(k, side, entry, stop, mult, b)
  BY <1>1, <1>2
<1>4. /\ Signal(k, side, entry, stop, target, b).bar = x.bar
      /\ Order(Signal(k, side, entry, stop, target, b)) = Order(x)
  BY <1>2 DEF Signal, Order
<1> QED
  BY <1>3, <1>4

LEMMA OrbFirst ==
  ASSUME NEW cs, NEW ds, Grown(cs, ds), NEW s \in 1 .. Len(cs)
  PROVE  /\ \A h \in {cs, ds} : OrbBreaks(h, s) # {} =>
                /\ Min(OrbBreaks(h, s)) \in 1 .. Len(h)
                /\ Min(OrbBreaks(h, s)) \in OrbBreaks(h, s)
                /\ s + P.orBars <= Min(OrbBreaks(h, s))
         /\ OrbBreaks(cs, s) # {} <=>
                OrbBreaks(ds, s) # {} /\ Min(OrbBreaks(ds, s)) <= Len(cs)
         /\ OrbBreaks(cs, s) # {} => Min(OrbBreaks(cs, s)) = Min(OrbBreaks(ds, s))
<1>1. Len(cs) \in Nat /\ Len(ds) \in Nat /\ Len(cs) <= Len(ds) /\ s \in 1 .. Len(ds)
  BY GrownBars
<1>2. \A h \in {cs, ds} :
          /\ OrbBreaks(h, s) \in SUBSET Nat
          /\ \A k \in OrbBreaks(h, s) : k \in 1 .. Len(h) /\ s + P.orBars <= k
  <2>1. /\ OrbBreaks(cs, s) \in SUBSET Nat
        /\ \A k \in OrbBreaks(cs, s) : k \in 1 .. Len(cs) /\ s + P.orBars <= k
    BY <1>1, OrbBars
  <2>2. /\ OrbBreaks(ds, s) \in SUBSET Nat
        /\ \A k \in OrbBreaks(ds, s) : k \in 1 .. Len(ds) /\ s + P.orBars <= k
    BY <1>1, OrbBars
  <2> QED
    BY <2>1, <2>2
<1>3. /\ OrbBreaks(cs, s) # {} => /\ Min(OrbBreaks(cs, s)) \in OrbBreaks(cs, s)
                                  /\ \A k \in OrbBreaks(cs, s) : Min(OrbBreaks(cs, s)) <= k
      /\ OrbBreaks(ds, s) # {} => /\ Min(OrbBreaks(ds, s)) \in OrbBreaks(ds, s)
                                  /\ \A k \in OrbBreaks(ds, s) : Min(OrbBreaks(ds, s)) <= k
  <2>1. OrbBreaks(cs, s) \in SUBSET Nat /\ OrbBreaks(ds, s) \in SUBSET Nat
    BY <1>2
  <2> QED
    BY <2>1, MinIn
<1>4. \A k \in 1 .. Len(cs) : k \in OrbBreaks(cs, s) <=> k \in OrbBreaks(ds, s)
  BY OrbBreaksSame
<1>5. ASSUME OrbBreaks(cs, s) # {}
      PROVE  OrbBreaks(ds, s) # {} /\ Min(OrbBreaks(cs, s)) = Min(OrbBreaks(ds, s))
  <2>1. /\ Min(OrbBreaks(cs, s)) \in OrbBreaks(cs, s) /\ Min(OrbBreaks(cs, s)) \in 1 .. Len(cs)
        /\ Min(OrbBreaks(cs, s)) \in OrbBreaks(ds, s)
    BY <1>2, <1>3, <1>4, <1>5
  <2>2. /\ Min(OrbBreaks(ds, s)) \in OrbBreaks(ds, s) /\ Min(OrbBreaks(ds, s)) \in 1 .. Len(ds)
        /\ Min(OrbBreaks(ds, s)) <= Min(OrbBreaks(cs, s))
    BY <1>2, <1>3, <2>1
  <2>3. Min(OrbBreaks(ds, s)) \in OrbBreaks(cs, s)
    <3>1. Min(OrbBreaks(ds, s)) \in 1 .. Len(cs)
      BY <1>1, <2>1, <2>2
    <3> QED
      BY <1>4, <2>2, <3>1
  <2>4. Min(OrbBreaks(cs, s)) <= Min(OrbBreaks(ds, s))
    BY <1>3, <1>5, <2>3
  <2> QED
    BY <2>1, <2>2, <2>4
<1>6. ASSUME OrbBreaks(ds, s) # {}, Min(OrbBreaks(ds, s)) <= Len(cs)
      PROVE  OrbBreaks(cs, s) # {}
  <2>1. Min(OrbBreaks(ds, s)) \in OrbBreaks(ds, s) /\ Min(OrbBreaks(ds, s)) \in 1 .. Len(ds)
    BY <1>2, <1>3, <1>6
  <2>2. Min(OrbBreaks(ds, s)) \in 1 .. Len(cs)
    BY <1>1, <1>6, <2>1
  <2> QED
    BY <1>4, <2>1, <2>2
<1>7. OrbBreaks(cs, s) # {} => Min(OrbBreaks(cs, s)) <= Len(cs)
  BY <1>1, <1>2, <1>3
<1> QED
  BY <1>2, <1>3, <1>5, <1>6, <1>7

LEMMA OrbInBar ==
  ASSUME NEW h, NEW s, NEW side, NEW x \in OrbIn(h, s, side)
  PROVE  OrbBreaks(h, s) # {} /\ x.bar = Min(OrbBreaks(h, s))
BY OrdersAtBar DEF OrbIn

LEMMA OrbInSame ==
  ASSUME NEW cs, NEW ds, Grown(cs, ds), NEW s \in 1 .. Len(cs), NEW side
  PROVE  /\ \A x \in OrbIn(cs, s, side) :
                \E y \in OrbIn(ds, s, side) : y.bar = x.bar /\ Order(y) = Order(x)
         /\ \A y \in OrbIn(ds, s, side) : y.bar <= Len(cs) =>
                \E x \in OrbIn(cs, s, side) : x.bar = y.bar /\ Order(x) = Order(y)
<1> DEFINE k == Min(OrbBreaks(cs, s))
           hold(h) == Max({1, SessionEnd(h, s) - k})
<1>1. /\ OrbBreaks(cs, s) # {} <=> OrbBreaks(ds, s) # {} /\ Min(OrbBreaks(ds, s)) <= Len(cs)
      /\ OrbBreaks(cs, s) # {} => Min(OrbBreaks(ds, s)) = k
  BY OrbFirst
<1>2. CASE OrbBreaks(cs, s) = {}
  BY <1>1, <1>2, OrbInBar
<1>3. CASE OrbBreaks(cs, s) # {}
  <2>1. OrbBreaks(ds, s) # {} /\ Min(OrbBreaks(ds, s)) = k
    BY <1>1, <1>3
  <2>2. k \in 1 .. Len(cs) /\ s + P.orBars <= k
    BY <1>3, OrbFirst
  <2>3. cs[k] = ds[k]
    BY <2>2, GrownBars
  <2>4. /\ Opposite(cs, s, side) = Opposite(ds, s, side)
        /\ BreaksOpening(cs, s, k, side) <=> BreaksOpening(ds, s, k, side)
    BY <2>2, OpeningSame
  <2>5. /\ OrbIn(cs, s, side) =
               IF BreaksOpening(cs, s, k, side)
               THEN ByRisk(k, side, cs[k].c, Opposite(cs, s, side), P.rr, hold(cs)) ELSE {}
        /\ OrbIn(ds, s, side) =
               IF BreaksOpening(ds, s, k, side)
               THEN ByRisk(k, side, ds[k].c, Opposite(ds, s, side), P.rr, hold(ds)) ELSE {}
    BY <1>3, <2>1, Zenon DEF OrbIn
  <2> HIDE DEF k, hold
  <2>6. CASE ~BreaksOpening(cs, s, k, side)
    BY <2>4, <2>5, <2>6
  <2>7. CASE BreaksOpening(cs, s, k, side)
    <3>1. /\ OrbIn(cs, s, side) =
                 ByRisk(k, side, cs[k].c, Opposite(cs, s, side), P.rr, hold(cs))
          /\ OrbIn(ds, s, side) =
                 ByRisk(k, side, cs[k].c, Opposite(cs, s, side), P.rr, hold(ds))
      BY <2>3, <2>4, <2>5, <2>7
    <3>2. \A x \in OrbIn(cs, s, side) :
              \E y \in OrbIn(ds, s, side) : y.bar = x.bar /\ Order(y) = Order(x)
      <4> SUFFICES ASSUME NEW x \in OrbIn(cs, s, side)
                   PROVE  \E y \in OrbIn(ds, s, side) : y.bar = x.bar /\ Order(y) = Order(x)
        OBVIOUS
      <4>1. x \in ByRisk(k, side, cs[k].c, Opposite(cs, s, side), P.rr, hold(cs))
        BY <3>1
      <4>2. \E y \in ByRisk(k, side, cs[k].c, Opposite(cs, s, side), P.rr, hold(ds)) :
                y.bar = x.bar /\ Order(y) = Order(x)
        BY <4>1, AnyHold
      <4> QED
        BY <3>1, <4>2
    <3>3. \A y \in OrbIn(ds, s, side) :
              \E x \in OrbIn(cs, s, side) : x.bar = y.bar /\ Order(x) = Order(y)
      <4> SUFFICES ASSUME NEW y \in OrbIn(ds, s, side)
                   PROVE  \E x \in OrbIn(cs, s, side) : x.bar = y.bar /\ Order(x) = Order(y)
        OBVIOUS
      <4>1. y \in ByRisk(k, side, cs[k].c, Opposite(cs, s, side), P.rr, hold(ds))
        BY <3>1
      <4>2. \E x \in ByRisk(k, side, cs[k].c, Opposite(cs, s, side), P.rr, hold(cs)) :
                x.bar = y.bar /\ Order(x) = Order(y)
        BY <4>1, AnyHold
      <4> QED
        BY <3>1, <4>2
    <3> QED
      BY <3>2, <3>3
  <2> QED
    BY <2>6, <2>7
<1> QED
  BY <1>2, <1>3

LEMMA OrbSame ==
  ASSUME NEW cs, NEW ds, Grown(cs, ds)
  PROVE  Same(Orb(cs), Orb(ds), Len(cs))
<1> DEFINE needs == P.orBars + 2
           Loop(h) == IF P.sessionBars <= P.orBars THEN {}
                      ELSE UNION {OrbIn(h, s, side) : s \in Sessions(h), side \in Sides}
<1>1. \A h : Orb(h) = Strategy(h, needs, Loop(h))
  BY DEF Orb
<1>2. needs \in Int
  BY CountsAreNumbers
<1>3. \A h, x : x \in Loop(h) <=>
          /\ ~(P.sessionBars <= P.orBars)
          /\ \E s \in Sessions(h), side \in Sides : x \in OrbIn(h, s, side)
  OBVIOUS
<1> HIDE DEF needs, Loop
<1>4. /\ Len(cs) \in Nat /\ Len(ds) \in Nat /\ Len(cs) <= Len(ds)
      /\ DOMAIN cs = 1 .. Len(cs) /\ DOMAIN ds = 1 .. Len(ds)
  BY GrownBars
<1>5. /\ Sessions(cs) \subseteq 1 .. Len(cs) /\ Sessions(ds) \subseteq 1 .. Len(ds)
      /\ \A s \in 1 .. Len(cs) : s \in Sessions(cs) <=> s \in Sessions(ds)
  BY <1>4, RemembersSame DEF Sessions
<1>6. \A x \in Loop(cs) : x.bar \in 1 .. Len(cs) /\
          \E y \in Loop(ds) : y.bar = x.bar /\ Order(y) = Order(x)
  <2> SUFFICES ASSUME NEW x \in Loop(cs)
               PROVE  x.bar \in 1 .. Len(cs) /\
                      \E y \in Loop(ds) : y.bar = x.bar /\ Order(y) = Order(x)
    OBVIOUS
  <2>1. PICK s \in Sessions(cs), side \in Sides : x \in OrbIn(cs, s, side)
    BY <1>3
  <2>2. s \in 1 .. Len(cs) /\ s \in Sessions(ds)
    BY <1>5
  <2>3. PICK y \in OrbIn(ds, s, side) : y.bar = x.bar /\ Order(y) = Order(x)
    BY <2>1, <2>2, OrbInSame
  <2>4. y \in Loop(ds)
    BY <1>3, <2>2, <2>3
  <2>5. x.bar \in 1 .. Len(cs)
    <3>1. OrbBreaks(cs, s) # {} /\ x.bar = Min(OrbBreaks(cs, s))
      BY <2>1, OrbInBar
    <3> QED
      BY <2>2, <3>1, OrbFirst
  <2> QED
    BY <2>3, <2>4, <2>5
<1>7. \A y \in Loop(ds) : y.bar \in Int /\
          (y.bar <= Len(cs) => \E x \in Loop(cs) : x.bar = y.bar /\ Order(x) = Order(y))
  <2> SUFFICES ASSUME NEW y \in Loop(ds)
               PROVE  y.bar \in Int /\ (y.bar <= Len(cs) =>
                          \E x \in Loop(cs) : x.bar = y.bar /\ Order(x) = Order(y))
    OBVIOUS
  <2>1. PICK s \in Sessions(ds), side \in Sides : y \in OrbIn(ds, s, side)
    BY <1>3
  <2>2. s \in 1 .. Len(ds)
    BY <1>5
  <2>3. OrbBreaks(ds, s) # {} /\ y.bar = Min(OrbBreaks(ds, s))
    BY <2>1, OrbInBar
  <2>4. Grown(ds, ds)
    BY GrownItself
  <2>5. y.bar \in 1 .. Len(ds) /\ s + P.orBars <= y.bar
    BY <2>2, <2>3, <2>4, OrbFirst
  <2>6. ASSUME y.bar <= Len(cs)
        PROVE  \E x \in Loop(cs) : x.bar = y.bar /\ Order(x) = Order(y)
    <3>1. P.orBars \in Int /\ P.orBars > 0
      BY CountsAreNumbers
    <3>2. s \in 1 .. Len(cs)
      BY <1>4, <2>2, <2>5, <2>6, <3>1
    <3>3. s \in Sessions(cs)
      BY <1>5, <3>2
    <3>4. PICK x \in OrbIn(cs, s, side) : x.bar = y.bar /\ Order(x) = Order(y)
      BY <2>1, <2>6, <3>2, OrbInSame
    <3>5. x \in Loop(cs)
      BY <1>3, <2>1, <3>3, <3>4
    <3> QED
      BY <3>4, <3>5
  <2> QED
    BY <2>5, <2>6
<1>8. /\ Orb(cs).signals = (IF Len(cs) < needs THEN {} ELSE Loop(cs))
      /\ Orb(ds).signals = (IF Len(ds) < needs THEN {} ELSE Loop(ds))
      /\ Orb(cs).needs = needs /\ Orb(ds).needs = needs
  BY <1>1 DEF Strategy
<1> QED
  BY <1>2, <1>4, <1>6, <1>7, <1>8 DEF Same


---------------------------------------------------------------------------
(* The strategies of the registry that do not look ahead.                  *)
Causal ==
    {"bbands_meanrev", "donchian_breakout", "ema_cross", "ema_pullback",
     "ema_spread_pullback", "ema_spread_pullback_short",
     "engulfing_at_extreme", "first30_meanrev", "ibs", "inside_bar",
     "last_week_high", "last_week_low", "orb", "pivot_reaction_zone",
     "range_reversal", "rsi_meanrev", "support_resistance",
     "support_resistance_short", "trend_pullback",
     "trend_pullback_regime", "tsmom", "vol_break", "vol_breakout",
     "vwap_first_touch"}

LEMMA JudgeSame ==
  ASSUME NEW cs, NEW ds, Grown(cs, ds), Ordered(ds), NEW s, Name(s) \in Causal
  PROVE  Same(Judge(s, cs), Judge(s, ds), Len(cs))
<1>0. /\ \A side : Same(SpreadPullback(cs, side), SpreadPullback(ds, side), Len(cs))
      /\ \A side : Same(LastWeek(cs, side), LastWeek(ds, side), Len(cs))
      /\ \A side, v : Same(LevelBounce(cs, side, v), LevelBounce(ds, side, v), Len(cs))
  BY SpreadPullbackSame, LastWeekSame, LevelBounceSame
<1>1. CASE Name(s) = "bbands_meanrev"
  <2>1. Judge(s, cs) = BBandsMeanRev(cs) /\ Judge(s, ds) = BBandsMeanRev(ds)
    BY <1>1, Zenon DEF Judge
  <2>2. Same(BBandsMeanRev(cs), BBandsMeanRev(ds), Len(cs))
    BY BBandsMeanRevSame
  <2> QED
    BY <2>1, <2>2
<1>2. CASE Name(s) = "donchian_breakout"
  <2>1. Judge(s, cs) = DonchianBreakout(cs) /\ Judge(s, ds) = DonchianBreakout(ds)
    BY <1>2, Zenon DEF Judge
  <2>2. Same(DonchianBreakout(cs), DonchianBreakout(ds), Len(cs))
    BY DonchianBreakoutSame
  <2> QED
    BY <2>1, <2>2
<1>3. CASE Name(s) = "ema_cross"
  <2>1. Judge(s, cs) = EmaCross(cs) /\ Judge(s, ds) = EmaCross(ds)
    BY <1>3, Zenon DEF Judge
  <2>2. Same(EmaCross(cs), EmaCross(ds), Len(cs))
    BY EmaCrossSame
  <2> QED
    BY <2>1, <2>2
<1>4. CASE Name(s) = "ema_pullback"
  <2>1. Judge(s, cs) = EmaPullback(cs) /\ Judge(s, ds) = EmaPullback(ds)
    BY <1>4, Zenon DEF Judge
  <2>2. Same(EmaPullback(cs), EmaPullback(ds), Len(cs))
    BY EmaPullbackSame
  <2> QED
    BY <2>1, <2>2
<1>5. CASE Name(s) = "ema_spread_pullback"
  <2>1. Judge(s, cs) = EmaSpreadPullback(cs) /\ Judge(s, ds) = EmaSpreadPullback(ds)
    BY <1>5, Zenon DEF Judge
  <2>2. Same(EmaSpreadPullback(cs), EmaSpreadPullback(ds), Len(cs))
    BY <1>0, Zenon DEF EmaSpreadPullback
  <2> QED
    BY <2>1, <2>2
<1>6. CASE Name(s) = "ema_spread_pullback_short"
  <2>1. Judge(s, cs) = EmaSpreadPullbackShort(cs) /\ Judge(s, ds) = EmaSpreadPullbackShort(ds)
    BY <1>6, Zenon DEF Judge
  <2>2. Same(EmaSpreadPullbackShort(cs), EmaSpreadPullbackShort(ds), Len(cs))
    BY <1>0, Zenon DEF EmaSpreadPullbackShort
  <2> QED
    BY <2>1, <2>2
<1>7. CASE Name(s) = "engulfing_at_extreme"
  <2>1. Judge(s, cs) = EngulfingAtExtreme(cs) /\ Judge(s, ds) = EngulfingAtExtreme(ds)
    BY <1>7, Zenon DEF Judge
  <2>2. Same(EngulfingAtExtreme(cs), EngulfingAtExtreme(ds), Len(cs))
    BY EngulfingAtExtremeSame
  <2> QED
    BY <2>1, <2>2
<1>8. CASE Name(s) = "first30_meanrev"
  <2>1. Judge(s, cs) = First30MeanRev(cs) /\ Judge(s, ds) = First30MeanRev(ds)
    BY <1>8, Zenon DEF Judge
  <2>2. Same(First30MeanRev(cs), First30MeanRev(ds), Len(cs))
    BY First30MeanRevSame
  <2> QED
    BY <2>1, <2>2
<1>9. CASE Name(s) = "ibs"
  <2>1. Judge(s, cs) = Ibs(cs) /\ Judge(s, ds) = Ibs(ds)
    BY <1>9, Zenon DEF Judge
  <2>2. Same(Ibs(cs), Ibs(ds), Len(cs))
    BY IbsSame
  <2> QED
    BY <2>1, <2>2
<1>10. CASE Name(s) = "inside_bar"
  <2>1. Judge(s, cs) = InsideBar(cs) /\ Judge(s, ds) = InsideBar(ds)
    BY <1>10, Zenon DEF Judge
  <2>2. Same(InsideBar(cs), InsideBar(ds), Len(cs))
    BY InsideBarSame
  <2> QED
    BY <2>1, <2>2
<1>11. CASE Name(s) = "last_week_high"
  <2>1. Judge(s, cs) = LastWeekHigh(cs) /\ Judge(s, ds) = LastWeekHigh(ds)
    BY <1>11, Zenon DEF Judge
  <2>2. Same(LastWeekHigh(cs), LastWeekHigh(ds), Len(cs))
    BY <1>0, Zenon DEF LastWeekHigh
  <2> QED
    BY <2>1, <2>2
<1>12. CASE Name(s) = "last_week_low"
  <2>1. Judge(s, cs) = LastWeekLow(cs) /\ Judge(s, ds) = LastWeekLow(ds)
    BY <1>12, Zenon DEF Judge
  <2>2. Same(LastWeekLow(cs), LastWeekLow(ds), Len(cs))
    BY <1>0, Zenon DEF LastWeekLow
  <2> QED
    BY <2>1, <2>2
<1>13. CASE Name(s) = "orb"
  <2>1. Judge(s, cs) = Orb(cs) /\ Judge(s, ds) = Orb(ds)
    BY <1>13, Zenon DEF Judge
  <2>2. Same(Orb(cs), Orb(ds), Len(cs))
    BY OrbSame
  <2> QED
    BY <2>1, <2>2
<1>14. CASE Name(s) = "pivot_reaction_zone"
  <2>1. Judge(s, cs) = PivotReactionZone(cs) /\ Judge(s, ds) = PivotReactionZone(ds)
    BY <1>14, Zenon DEF Judge
  <2>2. Same(PivotReactionZone(cs), PivotReactionZone(ds), Len(cs))
    BY PivotReactionZoneSame
  <2> QED
    BY <2>1, <2>2
<1>15. CASE Name(s) = "range_reversal"
  <2>1. Judge(s, cs) = RangeReversal(cs) /\ Judge(s, ds) = RangeReversal(ds)
    BY <1>15, Zenon DEF Judge
  <2>2. Same(RangeReversal(cs), RangeReversal(ds), Len(cs))
    BY RangeReversalSame
  <2> QED
    BY <2>1, <2>2
<1>16. CASE Name(s) = "rsi_meanrev"
  <2>1. Judge(s, cs) = RsiMeanRev(cs) /\ Judge(s, ds) = RsiMeanRev(ds)
    BY <1>16, Zenon DEF Judge
  <2>2. Same(RsiMeanRev(cs), RsiMeanRev(ds), Len(cs))
    BY RsiMeanRevSame
  <2> QED
    BY <2>1, <2>2
<1>17. CASE Name(s) = "support_resistance"
  <2>1. Judge(s, cs) = SupportResistance(cs, s[2]) /\ Judge(s, ds) = SupportResistance(ds, s[2])
    BY <1>17, Zenon DEF Judge
  <2>2. Same(SupportResistance(cs, s[2]), SupportResistance(ds, s[2]), Len(cs))
    BY <1>0, Zenon DEF SupportResistance
  <2> QED
    BY <2>1, <2>2
<1>18. CASE Name(s) = "support_resistance_short"
  <2>1. Judge(s, cs) = SupportResistanceShort(cs, s[2]) /\ Judge(s, ds) = SupportResistanceShort(ds, s[2])
    BY <1>18, Zenon DEF Judge
  <2>2. Same(SupportResistanceShort(cs, s[2]), SupportResistanceShort(ds, s[2]), Len(cs))
    BY <1>0, Zenon DEF SupportResistanceShort
  <2> QED
    BY <2>1, <2>2
<1>19. CASE Name(s) = "trend_pullback"
  <2>1. Judge(s, cs) = TrendPullback(cs) /\ Judge(s, ds) = TrendPullback(ds)
    BY <1>19, Zenon DEF Judge
  <2>2. Same(TrendPullback(cs), TrendPullback(ds), Len(cs))
    BY TrendPullbackSame
  <2> QED
    BY <2>1, <2>2
<1>20. CASE Name(s) = "trend_pullback_regime"
  <2>1. Judge(s, cs) = TrendPullbackRegime(cs) /\ Judge(s, ds) = TrendPullbackRegime(ds)
    BY <1>20, Zenon DEF Judge
  <2>2. Same(TrendPullbackRegime(cs), TrendPullbackRegime(ds), Len(cs))
    BY TrendPullbackRegimeSame
  <2> QED
    BY <2>1, <2>2
<1>21. CASE Name(s) = "tsmom"
  <2>1. Judge(s, cs) = Tsmom(cs) /\ Judge(s, ds) = Tsmom(ds)
    BY <1>21, Zenon DEF Judge
  <2>2. Same(Tsmom(cs), Tsmom(ds), Len(cs))
    BY TsmomSame
  <2> QED
    BY <2>1, <2>2
<1>22. CASE Name(s) = "vol_break"
  <2>1. Judge(s, cs) = VolBreak(cs) /\ Judge(s, ds) = VolBreak(ds)
    BY <1>22, Zenon DEF Judge
  <2>2. Same(VolBreak(cs), VolBreak(ds), Len(cs))
    BY VolBreakSame
  <2> QED
    BY <2>1, <2>2
<1>23. CASE Name(s) = "vol_breakout"
  <2>1. Judge(s, cs) = VolBreakout(cs) /\ Judge(s, ds) = VolBreakout(ds)
    BY <1>23, Zenon DEF Judge
  <2>2. Same(VolBreakout(cs), VolBreakout(ds), Len(cs))
    BY VolBreakoutSame
  <2> QED
    BY <2>1, <2>2
<1>24. CASE Name(s) = "vwap_first_touch"
  <2>1. Judge(s, cs) = VwapFirstTouch(cs) /\ Judge(s, ds) = VwapFirstTouch(ds)
    BY <1>24, Zenon DEF Judge
  <2>2. Same(VwapFirstTouch(cs), VwapFirstTouch(ds), Len(cs))
    BY VwapFirstTouchSame
  <2> QED
    BY <2>1, <2>2
<1> QED
  BY <1>1, <1>2, <1>3, <1>4, <1>5, <1>6, <1>7, <1>8, <1>9, <1>10, <1>11, <1>12,
     <1>13, <1>14, <1>15, <1>16, <1>17, <1>18, <1>19, <1>20, <1>21, <1>22, <1>23, <1>24 DEF Causal

---------------------------------------------------------------------------
(* What the ticks acted on or missed.                                      *)
Due == live \cup missed

(* A tick acted on all signals of a bar, or missed them.                   *)
DueGrows(found, n) ==
    /\ Due' = Due \cup Tick(found, n)
    /\ live' \subseteq live \cup Tick(found, n)

LEMMA StoreDue ==
  ASSUME NEW bar, Store(bar)
  PROVE  DueGrows(Judge(strategy, Append(candles, bar)).signals, Len(Append(candles, bar)))
<1> DEFINE ds == Append(candles, bar)
           now == Tick(backtest', Len(ds))
<1>1. /\ backtest' = Judge(strategy, ds).signals
      /\ \/ live' = live \cup now /\ missed' = missed
         \/ missed' = missed \cup now /\ live' = live
  BY Zenon DEF Store
<1> HIDE DEF now
<1>2. Due' = Due \cup now /\ live' \subseteq live \cup now
  BY <1>1 DEF Due
<1> QED
  BY <1>1, <1>2 DEF DueGrows, now, ds

(* What a tick acted on or missed is found again, at its bar, by the       *)
(* backtest.                                                               *)
FoundAgain == \A s \in Due : \E b \in backtest : b.bar = s.bar /\ Order(b) = Order(s)

(* The bars are a sequence whose days do not go back, and the backtest is  *)
(* that of the bars so far.                                                *)
Inv ==
    /\ strategy \in Strategies
    /\ \E T : candles \in Seq(T)
    /\ Ordered(candles)
    /\ backtest = Judge(strategy, candles).signals
    /\ SignalsStand
    /\ FoundAgain

LEMMA AppendGrown ==
  ASSUME NEW T, NEW cs \in Seq(T), NEW bar
  PROVE  /\ Append(cs, bar) \in Seq(T \cup {bar})
         /\ Len(Append(cs, bar)) = Len(cs) + 1
         /\ Append(cs, bar)[Len(cs) + 1] = bar
         /\ Grown(cs, Append(cs, bar)) /\ Grown(<<>>, Append(cs, bar))
         /\ Grown(cs, cs)
<1>1. cs \in Seq(T \cup {bar})
  OBVIOUS
<1>2. /\ Append(cs, bar) \in Seq(T \cup {bar})
      /\ Len(Append(cs, bar)) = Len(cs) + 1
      /\ Append(cs, bar)[Len(cs) + 1] = bar
      /\ \A k \in 1 .. Len(cs) : Append(cs, bar)[k] = cs[k]
  BY <1>1, AppendProperties
<1>3. /\ Len(cs) \in Nat /\ DOMAIN cs = 1 .. Len(cs)
      /\ DOMAIN Append(cs, bar) = 1 .. Len(Append(cs, bar))
  BY <1>2
<1>4. Len(<<>>) = 0 /\ DOMAIN <<>> = 1 .. 0
  OBVIOUS
<1> QED
  BY <1>2, <1>3, <1>4 DEF Grown, Begins

LEMMA StoreKeeps ==
  ASSUME Inv, NEW bar, bar.day \in Int,
         candles # <<>> => Last.day <= bar.day,
         Name(strategy) \in Causal, Store(bar)
  PROVE  Inv'
<1> DEFINE cs == candles
           ds == Append(candles, bar)
           n == Len(candles)
           found == Judge(strategy, ds).signals
<1>1. PICK T : cs \in Seq(T)
  BY DEF Inv
<1>2. /\ ds \in Seq(T \cup {bar}) /\ Len(ds) = n + 1 /\ ds[n + 1] = bar
      /\ Grown(cs, ds) /\ Grown(<<>>, ds) /\ Grown(cs, cs) /\ n \in Nat
  <2>1. n \in Nat
    BY <1>1
  <2> QED
    BY <1>1, <2>1, AppendGrown, Zenon
<1>3. Ordered(ds)
  <2>1. /\ DOMAIN ds = 1 .. (n + 1) /\ DOMAIN cs = 1 .. n
        /\ \A k \in 1 .. n : ds[k] = cs[k]
    BY <1>2, GrownBars
  <2>2. \A i, j \in 1 .. n : cs[i].day \in Int /\ (i <= j => cs[i].day <= cs[j].day)
    BY <2>1 DEF Inv, Ordered
  <2>3. n > 0 => cs[n].day <= bar.day
    BY <1>1, <1>2 DEF Last
  <2>4. \A i \in 1 .. n : cs[i].day <= bar.day
    BY <1>2, <2>2, <2>3
  <2> HIDE DEF cs, ds, n
  <2> QED
    BY <1>2, <2>1, <2>2, <2>4 DEF Ordered
<1>4. /\ Same(Judge(strategy, cs), Judge(strategy, ds), n)
      /\ Same(Judge(strategy, ds), Judge(strategy, ds), n + 1)
      /\ Same(Judge(strategy, <<>>), Judge(strategy, ds), 0)
  <2>1. Grown(ds, ds)
    BY <1>2, GrownItself
  <2>2. Len(<<>>) = 0
    OBVIOUS
  <2> HIDE DEF cs, ds, n
  <2>3. Same(Judge(strategy, cs), Judge(strategy, ds), Len(cs))
    BY <1>2, <1>3, JudgeSame
  <2>4. Same(Judge(strategy, ds), Judge(strategy, ds), Len(ds))
    BY <1>3, <2>1, JudgeSame
  <2>5. Same(Judge(strategy, <<>>), Judge(strategy, ds), Len(<<>>))
    BY <1>2, <1>3, JudgeSame
  <2> QED
    BY <1>2, <2>2, <2>3, <2>4, <2>5 DEF cs, n
<1>5. /\ strategy' = strategy /\ candles' = ds /\ backtest' = found
      /\ Due' = Due \cup {s \in found : s.bar = n + 1}
  <2>1. strategy' = strategy /\ candles' = ds /\ backtest' = found
    BY Zenon DEF Store
  <2>2. Due' = Due \cup Tick(found, n + 1)
    BY <1>2, StoreDue DEF DueGrows
  <2> QED
    BY <2>1, <2>2 DEF Tick
<1>6. backtest = Judge(strategy, cs).signals
  BY DEF Inv
<1>7. Needs \in Int /\ Needs' = Needs
  <2>1. Needs \in Int
    BY <1>4 DEF Same, Needs
  <2> QED
    BY <1>5, <2>1 DEF Needs
<1>8. Needs = Judge(strategy, cs).needs /\ Needs = Judge(strategy, ds).needs
  BY <1>4 DEF Same, Needs
<1>9. /\ \A s \in backtest : s.bar \in 1 .. n /\ Needs <= n
      /\ \A s \in backtest : \E t \in found : t.bar = s.bar /\ Order(t) = Order(s)
      /\ \A t \in found : t.bar \in 1 .. (n + 1) /\ Needs <= n + 1
      /\ \A t \in found : Needs <= n /\ t.bar <= n =>
             \E s \in backtest : s.bar = t.bar /\ Order(s) = Order(t)
  <2> DEFINE before == Judge(strategy, cs)
             after == Judge(strategy, ds)
  <2>1. /\ before.signals = backtest /\ after.signals = found
        /\ before.needs = Needs /\ after.needs = Needs
    BY <1>6, <1>8
  <2>2. n \in Nat /\ Same(before, after, n) /\ Same(after, after, n + 1)
    BY <1>2, <1>4
  <2> HIDE DEF before, after, found, n
  <2>3. /\ n < Needs => backtest = {}
        /\ n + 1 < Needs => found = {}
        /\ \A s \in backtest : s.bar \in 1 .. n
        /\ \A t \in found : t.bar \in 1 .. (n + 1)
    BY <2>1, <2>2 DEF Same
  <2>4. \A s \in backtest : \E t \in found : t.bar = s.bar /\ Order(t) = Order(s)
    BY <2>1, <2>2 DEF Same
  <2>5. \A t \in found : Needs <= n /\ t.bar <= n =>
            \E s \in backtest : s.bar = t.bar /\ Order(s) = Order(t)
    BY <2>1, <2>2 DEF Same
  <2>6. n < Needs \/ Needs <= n
    BY <1>7, <2>2
  <2>7. n + 1 < Needs \/ Needs <= n + 1
    BY <1>7, <2>2
  <2> QED
    BY <2>3, <2>4, <2>5, <2>6, <2>7
<1>10. /\ \A s \in Due : \E b \in backtest : b.bar >= Needs /\ Order(b) = Order(s)
       /\ \A b \in backtest : b.bar >= Needs => \E s \in Due : Order(s) = Order(b)
  BY DEF Inv, SignalsStand, Due
<1> HIDE DEF found, n
<1>11. \A s \in Due' : \E b \in backtest' : b.bar >= Needs /\ Order(b) = Order(s)
  BY <1>2, <1>5, <1>7, <1>9, <1>10
<1>12. \A b \in backtest' : b.bar >= Needs => \E s \in Due' : Order(s) = Order(b)
  BY <1>2, <1>5, <1>7, <1>9, <1>10
<1>13. SignalsStand'
  BY <1>7, <1>11, <1>12 DEF SignalsStand, Due
<1>14. FoundAgain'
  <2>1. \A s \in Due : \E b \in backtest : b.bar = s.bar /\ Order(b) = Order(s)
    BY DEF Inv, FoundAgain
  <2>2. \A s \in Due' : \E b \in backtest' : b.bar = s.bar /\ Order(b) = Order(s)
    BY <1>5, <1>9, <2>1
  <2> QED
    BY <2>2 DEF FoundAgain
<1> QED
  BY <1>1, <1>2, <1>3, <1>5, <1>13, <1>14 DEF Inv, found

LEMMA InvHolds ==
  ASSUME \A s \in Strategies : Name(s) \in Causal
  PROVE  Spec => []Inv
<1>1. Init => Inv
  <2> SUFFICES ASSUME Init PROVE Inv
    OBVIOUS
  <2>1. <<>> \in Seq({}) /\ DOMAIN <<>> = 1 .. 0 /\ Len(<<>>) = 0
    OBVIOUS
  <2>2. Grown(<<>>, <<>>) /\ Ordered(<<>>)
    BY <2>1 DEF Grown, Begins, Ordered
  <2>3. strategy \in Strategies /\ candles = <<>> /\ backtest = {} /\ Due = {}
    BY DEF Init, Due
  <2>4. Same(Judge(strategy, <<>>), Judge(strategy, <<>>), Len(<<>>))
    BY <2>2, <2>3, JudgeSame
  <2>5. Judge(strategy, <<>>).signals = {}
    BY <2>1, <2>4 DEF Same
  <2>6. SignalsStand
    BY <2>3, Zenon DEF SignalsStand, Due
  <2>7. FoundAgain
    BY <2>3 DEF FoundAgain
  <2> QED
    BY <2>1, <2>2, <2>3, <2>5, <2>6, <2>7 DEF Inv
<1>2. Inv /\ [Next]_vars => Inv'
  <2> SUFFICES ASSUME Inv, [Next]_vars PROVE Inv'
    OBVIOUS
  <2>1. Name(strategy) \in Causal
    BY DEF Inv
  <2>2. candles # <<>> => Last.day \in Int
    <3>1. PICK T : candles \in Seq(T)
      BY DEF Inv
    <3>2. candles # <<>> => Len(candles) \in DOMAIN candles
      BY <3>1
    <3> QED
      BY <3>2 DEF Inv, Ordered, Last
  <2>3. \A shape, day, slot : Candle(shape, day, slot).day = day
    BY DEF Candle
  <2>4. CASE NextBar
    <3>1. PICK shape \in Shapes[strategy] :
              IF candles = <<>> THEN Store(Candle(shape, 0, 0))
              ELSE Store(Candle(shape, Last.day, Last.slot + 1))
      BY <2>4 DEF NextBar
    <3>2. CASE candles = <<>>
      BY <2>1, <2>3, <3>1, <3>2, StoreKeeps
    <3>3. CASE candles # <<>>
      <4>1. Store(Candle(shape, Last.day, Last.slot + 1))
        BY <3>1, <3>3
      <4>2. /\ Candle(shape, Last.day, Last.slot + 1).day \in Int
            /\ Last.day <= Candle(shape, Last.day, Last.slot + 1).day
        BY <2>2, <2>3, <3>3
      <4> QED
        BY <2>1, <4>1, <4>2, StoreKeeps
    <3> QED
      BY <3>2, <3>3
  <2>5. CASE NextDay
    <3>1. PICK shape \in Shapes[strategy] : Store(Candle(shape, Last.day + 1, 0))
      BY <2>5 DEF NextDay
    <3>2. candles # <<>>
      BY <2>5 DEF NextDay
    <3>3. /\ Candle(shape, Last.day + 1, 0).day \in Int
          /\ Last.day <= Candle(shape, Last.day + 1, 0).day
      BY <2>2, <2>3, <3>2
    <3> QED
      BY <2>1, <3>1, <3>3, StoreKeeps
  <2>6. CASE UNCHANGED vars
    BY <2>6 DEF Inv, vars, SignalsStand, Needs, FoundAgain, Due
  <2> QED
    BY <2>4, <2>5, <2>6 DEF Next
<1> QED
  BY <1>1, <1>2, PTL DEF Spec

(* Of a strategy that looks at no later bar the signals the ticks acted on *)
(* and those of the bars they missed are what a backtest of the stored     *)
(* history finds, whatever was stored, for every setting of the parameters *)
(* and every length of the history.                                        *)
THEOREM TicksStand ==
  ASSUME \A s \in Strategies : Name(s) \in Causal
  PROVE  Spec => []SignalsStand
<1>1. Inv => SignalsStand
  BY DEF Inv
<1>2. Spec => []Inv
  BY InvHolds
<1> QED
  BY <1>1, <1>2, PTL
---------------------------------------------------------------------------
(* Readings are numbers.  A finite set of numbers has a largest and a      *)
(* smallest.                                                               *)
LEMMA Extremes ==
  ASSUME NEW T \in SUBSET Int, IsFiniteSet(T), T # {}
  PROVE  /\ Max(T) \in T /\ \A y \in T : y <= Max(T)
         /\ Min(T) \in T /\ \A y \in T : Min(T) <= y
<1> DEFINE Ends(S) == \E a, b \in S : \A y \in S : a <= y /\ y <= b
           Bad == {n \in Nat : \E S \in SUBSET Int : /\ IsFiniteSet(S) /\ S # {}
                                                     /\ Cardinality(S) = n /\ ~Ends(S)}
<1>1. Bad = {}
  <2> SUFFICES ASSUME Bad # {} PROVE FALSE
    OBVIOUS
  <2>1. PICK n \in Bad : \A m \in Bad : n <= m
    BY Least
  <2>2. PICK S \in SUBSET Int : IsFiniteSet(S) /\ S # {} /\ Cardinality(S) = n /\ ~Ends(S)
    BY <2>1
  <2>3. PICK x \in S : TRUE
    BY <2>2
  <2> DEFINE R == S \ {x}
  <2>4. IsFiniteSet(R) /\ Cardinality(R) = n - 1 /\ n \in Nat
    BY <2>1, <2>2, FS_RemoveElement
  <2>5. Cardinality(R) \in Nat
    BY <2>4, FS_CardinalityType
  <2>6. R = {} \/ Ends(R)
    <3>1. n - 1 \notin Bad /\ n - 1 \in Nat
      BY <2>1, <2>4, <2>5
    <3>2. R \in SUBSET Int
      OBVIOUS
    <3> HIDE DEF Ends, R
    <3> QED
      BY <2>4, <3>1, <3>2
  <2>7. CASE R = {}
    <3>1. \A y \in S : y = x
      BY <2>7
    <3> QED
      BY <2>2, <2>3, <3>1
  <2>8. CASE Ends(R)
    <3>1. PICK a, b \in R : \A y \in R : a <= y /\ y <= b
      BY <2>8
    <3>2. a \in Int /\ b \in Int /\ x \in Int /\ a \in S /\ b \in S
      BY <2>3
    <3>3. \A y \in S : y \in Int /\ (y \in R \/ y = x)
      BY <2>2
    <3> HIDE DEF R
    <3>4. /\ \A y \in S : (IF x <= a THEN x ELSE a) <= y
          /\ \A y \in S : y <= (IF x >= b THEN x ELSE b)
      BY <3>1, <3>2, <3>3
    <3>5. (IF x <= a THEN x ELSE a) \in S /\ (IF x >= b THEN x ELSE b) \in S
      BY <2>3, <3>2
    <3> QED
      BY <2>2, <3>4, <3>5
  <2> QED
    BY <2>6, <2>7, <2>8
<1>2. Cardinality(T) \in Nat
  BY FS_CardinalityType
<1>3. PICK a, b \in T : \A y \in T : a <= y /\ y <= b
  BY <1>1, <1>2
<1>4. /\ Max(T) = CHOOSE x \in T : \A y \in T : x >= y
      /\ Min(T) = CHOOSE x \in T : \A y \in T : x <= y
  BY Zenon DEF Max, Min
<1>5. /\ \E x \in T : \A y \in T : x >= y
      /\ \E x \in T : \A y \in T : x <= y
  BY <1>3
<1>6. Max(T) \in T /\ \A y \in T : Max(T) >= y
  BY <1>4, <1>5, Zenon
<1>7. Min(T) \in T /\ \A y \in T : Min(T) <= y
  BY <1>4, <1>5, Zenon
<1> QED
  BY <1>6, <1>7

(* Those of the readings x over the bars a..b.                             *)
LEMMA ExtremesOf ==
  ASSUME NEW a \in Int, NEW b \in Int, a <= b, NEW T,
         NEW x, \A j \in a .. b : x[j] \in Int, T = {x[j] : j \in a .. b}
  PROVE  /\ Max(T) \in Int /\ Min(T) \in Int
         /\ \A j \in a .. b : Min(T) <= x[j] /\ x[j] <= Max(T)
<1>1. IsFiniteSet(a .. b)
  BY FS_Interval
<1>2. IsFiniteSet(T)
  <2> DEFINE f == [j \in a .. b |-> x[j]]
  <2>1. f \in Surjection(a .. b, T)
    BY DEF Surjection
  <2> QED
    BY <1>1, <2>1, FS_Surjection
<1>3. T \in SUBSET Int /\ T # {} /\ \A j \in a .. b : x[j] \in T
  OBVIOUS
<1> QED
  BY <1>2, <1>3, Extremes

(* An average of numbers is a number, of naturals a natural.               *)
LEMMA Weighted ==
  ASSUME NEW a \in Nat, NEW b \in Nat, a + b > 0, NEW x \in Int, NEW e \in Int
  PROVE  /\ (a * x + b * e) \div (a + b) \in Int
         /\ x >= 0 /\ e >= 0 => (a * x + b * e) \div (a + b) >= 0
<1>1. a * x \in Int /\ b * e \in Int
  OBVIOUS
<1>2. x >= 0 /\ e >= 0 => a * x >= 0 /\ b * e >= 0
  OBVIOUS
<1> DEFINE n == a * x + b * e
           d == a + b
<1>3. n \in Int /\ d \in Int /\ d > 0 /\ (x >= 0 /\ e >= 0 => n >= 0)
  BY <1>1, <1>2
<1> HIDE DEF n, d
<1>4. n \div d \in Int /\ (n >= 0 => n \div d >= 0)
  BY <1>3
<1> QED
  BY <1>3, <1>4 DEF n, d

LEMMA SmoothIsNumber ==
  ASSUME NEW n \in Nat, NEW x, DOMAIN x = 1 .. n, \A k \in 1 .. n : x[k] \in Int,
         NEW a \in Nat, NEW b \in Nat, a + b > 0
  PROVE  /\ \A k \in 1 .. n : Smooth(x, a, b)[k] \in Int
         /\ (\A k \in 1 .. n : x[k] >= 0) => \A k \in 1 .. n : Smooth(x, a, b)[k] >= 0
<1> DEFINE e == Smooth(x, a, b)
           Good(k) == e[k] \in Int /\ ((\A j \in 1 .. n : x[j] >= 0) => e[k] >= 0)
           Bad == {k \in 1 .. n : ~Good(k)}
<1>1. \A k \in 1 .. n : e[k] = SmoothStep(x, a, b, k, e[k - 1])
  <2>1. e = [k \in 1 .. n |-> SmoothStep(x, a, b, k, e[k - 1])]
    BY SmoothFunction
  <2> HIDE DEF e
  <2> QED
    BY <2>1
<1> HIDE DEF e
<1>2. Bad = {}
  <2> SUFFICES ASSUME Bad # {} PROVE FALSE
    OBVIOUS
  <2>1. Bad \in SUBSET Nat
    OBVIOUS
  <2>2. PICK k \in Bad : \A j \in Bad : k <= j
    BY <2>1, Least
  <2>3. CASE k = 1
    <3>1. e[k] = x[1] /\ 1 \in 1 .. n
      BY <1>1, <2>2, <2>3 DEF SmoothStep
    <3> QED
      BY <2>2, <2>3, <3>1
  <2>4. CASE k # 1
    <3>1. k \in 1 .. n /\ k - 1 \in 1 .. n /\ k - 1 \notin Bad
      BY <2>2, <2>4
    <3>2. Good(k - 1)
      BY <3>1
    <3>3. e[k] = (a * x[k] + b * e[k - 1]) \div (a + b)
      BY <1>1, <2>4, <3>1 DEF SmoothStep
    <3>4. x[k] \in Int /\ e[k - 1] \in Int
      BY <3>1, <3>2
    <3>5. /\ (a * x[k] + b * e[k - 1]) \div (a + b) \in Int
          /\ x[k] >= 0 /\ e[k - 1] >= 0 => (a * x[k] + b * e[k - 1]) \div (a + b) >= 0
      BY <3>4, Weighted
    <3>6. Good(k)
      BY <3>1, <3>2, <3>3, <3>5, Zenon
    <3> QED
      BY <2>2, <3>6
  <2> QED
    BY <2>3, <2>4
<1>3. \A k \in 1 .. n : Good(k)
  BY <1>2
<1> QED
  BY <1>3 DEF e

(* A sum of numbers is a number.                                           *)
Adds(x, T, it) ==
    it = [s \in T |-> IF s = {} THEN 0
                      ELSE x[CHOOSE t \in s : TRUE] + it[s \ {CHOOSE t \in s : TRUE}]]

LEMMA SumIsNumber ==
  ASSUME NEW S, IsFiniteSet(S), NEW x, \A j \in S : x[j] \in Int
  PROVE  Sum(x, S) \in Int
<1> DEFINE Upto(m) == {s \in SUBSET S : Cardinality(s) <= m}
           Lacking == {m \in Nat : ~ \E it : Adds(x, Upto(m), it)}
           pick(s) == CHOOSE t \in s : TRUE
<1>1. \A s \in SUBSET S :
          /\ IsFiniteSet(s) /\ Cardinality(s) \in Nat
          /\ Cardinality(s) <= Cardinality(S)
          /\ s # {} => /\ pick(s) \in s /\ s \ {pick(s)} \in SUBSET S
                       /\ Cardinality(s \ {pick(s)}) = Cardinality(s) - 1
  <2> SUFFICES ASSUME NEW s \in SUBSET S
               PROVE  /\ IsFiniteSet(s) /\ Cardinality(s) \in Nat
                      /\ Cardinality(s) <= Cardinality(S)
                      /\ s # {} => /\ pick(s) \in s /\ s \ {pick(s)} \in SUBSET S
                                   /\ Cardinality(s \ {pick(s)}) = Cardinality(s) - 1
    OBVIOUS
  <2>1. IsFiniteSet(s) /\ Cardinality(s) \in Nat /\ Cardinality(s) <= Cardinality(S)
    BY FS_Subset, FS_CardinalityType
  <2>2. s # {} => pick(s) \in s
    OBVIOUS
  <2>3. s # {} => Cardinality(s \ {pick(s)}) = Cardinality(s) - 1
    BY <2>1, <2>2, FS_RemoveElement
  <2> QED
    BY <2>1, <2>2, <2>3
<1> HIDE DEF pick
<1>2. ASSUME NEW m \in Nat, NEW it, Adds(x, Upto(m), it)
      PROVE  \E new : Adds(x, Upto(m + 1), new)
  <2> DEFINE Val(f, s) == IF s = {} THEN 0 ELSE x[pick(s)] + f[s \ {pick(s)}]
             new == [s \in Upto(m + 1) |-> IF s \in Upto(m) THEN it[s] ELSE Val(it, s)]
  <2>1. \A s \in Upto(m) : it[s] = Val(it, s)
    BY <1>2 DEF Adds, pick
  <2>2. ASSUME NEW s \in Upto(m + 1), s # {} PROVE s \ {pick(s)} \in Upto(m)
    <3>1. s \in SUBSET S /\ Cardinality(s) <= m + 1
      OBVIOUS
    <3>2. /\ Cardinality(s) \in Nat /\ s \ {pick(s)} \in SUBSET S
          /\ Cardinality(s \ {pick(s)}) = Cardinality(s) - 1
      BY <1>1, <2>2, <3>1, Zenon
    <3>3. Cardinality(s \ {pick(s)}) <= m
      BY <3>1, <3>2
    <3> QED
      BY <3>2, <3>3
  <2>3. ASSUME NEW s \in Upto(m) PROVE s \in Upto(m + 1)
    <3>1. s \in SUBSET S /\ Cardinality(s) <= m
      OBVIOUS
    <3>2. Cardinality(s) \in Nat
      BY <1>1, <3>1, Zenon
    <3>3. Cardinality(s) <= m + 1
      BY <3>1, <3>2
    <3> QED
      BY <3>1, <3>3
  <2>4. \A s \in Upto(m) : new[s] = it[s]
    BY <2>3
  <2>5. \A s \in Upto(m + 1) : new[s] = Val(it, s)
    BY <2>1
  <2>6. DOMAIN new = Upto(m + 1) /\ new = [s \in Upto(m + 1) |-> new[s]]
    OBVIOUS
  <2> HIDE DEF new, Upto
  <2>7. \A s \in Upto(m + 1) : new[s] = Val(new, s)
    BY <2>2, <2>4, <2>5
  <2>8. new = [s \in Upto(m + 1) |-> Val(new, s)]
    BY <2>6, <2>7
  <2> QED
    BY <2>8 DEF Adds, pick
<1>3. \E it : Adds(x, Upto(0), it)
  <2>1. ASSUME NEW s \in Upto(0) PROVE s = {}
    <3>1. s \in SUBSET S /\ Cardinality(s) <= 0
      OBVIOUS
    <3>2. IsFiniteSet(s) /\ Cardinality(s) \in Nat
      BY <1>1, <3>1, Zenon
    <3>3. Cardinality(s) = 0
      BY <3>1, <3>2
    <3> QED
      BY <3>2, <3>3, FS_EmptySet
  <2>2. Adds(x, Upto(0), [s \in Upto(0) |-> 0])
    BY <2>1, Zenon DEF Adds
  <2> QED
    BY <2>2
<1>4. Cardinality(S) \in Nat /\ Upto(Cardinality(S)) = SUBSET S
  BY <1>1, FS_CardinalityType
<1> HIDE DEF Upto
<1>5. Lacking = {}
  <2> SUFFICES ASSUME Lacking # {} PROVE FALSE
    OBVIOUS
  <2>1. PICK m \in Lacking : \A j \in Lacking : m <= j
    BY Least
  <2>2. m # 0 /\ m - 1 \in Nat /\ m - 1 \notin Lacking
    BY <1>3, <2>1
  <2> QED
    BY <1>2, <2>1, <2>2
<1> DEFINE it == CHOOSE f : Adds(x, SUBSET S, f)
<1>6. Sum(x, S) = it[S]
  BY Zenon DEF Sum, MapThenSumSet, MapThenFoldSet, Adds
<1>7. Adds(x, SUBSET S, it)
  <2>1. Cardinality(S) \notin Lacking
    BY <1>5
  <2>2. \E f : Adds(x, Upto(Cardinality(S)), f)
    BY <1>4, <2>1
  <2>3. \E f : Adds(x, SUBSET S, f)
    BY <1>4, <2>2, Zenon
  <2> QED
    BY <2>3, Zenon
<1> HIDE DEF it
<1>8. \A s \in SUBSET S : it[s] = IF s = {} THEN 0 ELSE x[pick(s)] + it[s \ {pick(s)}]
  BY <1>7 DEF Adds, pick
<1> DEFINE Bad == {m \in Nat : \E s \in SUBSET S : Cardinality(s) = m /\ it[s] \notin Int}
<1>9. Bad = {}
  <2> SUFFICES ASSUME Bad # {} PROVE FALSE
    OBVIOUS
  <2>1. PICK m \in Bad : \A j \in Bad : m <= j
    BY Least
  <2>2. PICK s \in SUBSET S : Cardinality(s) = m /\ it[s] \notin Int
    BY <2>1
  <2>3. s # {}
    <3>1. s = {} => it[s] = 0
      BY <1>8, Zenon
    <3> QED
      BY <2>2, <3>1
  <2>4. Cardinality(s \ {pick(s)}) = m - 1 /\ m - 1 \in Nat /\ s \ {pick(s)} \in SUBSET S
    BY <1>1, <2>2, <2>3
  <2>5. m - 1 \notin Bad
    BY <2>1, <2>4
  <2>6. it[s \ {pick(s)}] \in Int /\ x[pick(s)] \in Int
    BY <1>1, <2>3, <2>4, <2>5
  <2> QED
    BY <1>8, <2>2, <2>3, <2>6
<1> QED
  BY <1>4, <1>6, <1>9

---------------------------------------------------------------------------
(* What a market prints: prices are numbers, no bar has its low above its  *)
(* high, and every bar is later than the bars before it.                   *)
Market(cs) ==
    /\ Len(cs) \in Nat /\ DOMAIN cs = 1 .. Len(cs) /\ Ordered(cs)
    /\ \A k \in 1 .. Len(cs) :
           /\ cs[k].o \in Int /\ cs[k].h \in Int /\ cs[k].l \in Int /\ cs[k].c \in Int
           /\ cs[k].slot \in Int /\ cs[k].l <= cs[k].h
    /\ \A i, j \in 1 .. Len(cs) :
           i < j /\ cs[i].day = cs[j].day => cs[i].slot < cs[j].slot

LEMMA MarketBars ==
  ASSUME NEW cs, Market(cs)
  PROVE  /\ Len(cs) \in Nat /\ DOMAIN cs = 1 .. Len(cs) /\ Grown(cs, cs)
         /\ \A k \in 1 .. Len(cs) :
                /\ cs[k].o \in Int /\ cs[k].h \in Int /\ cs[k].l \in Int
                /\ cs[k].c \in Int /\ cs[k].l <= cs[k].h
                /\ Closes(cs)[k] = cs[k].c
BY DEF Market, Grown, Begins, Closes

(* The indicators read numbers there.                                      *)
LEMMA AveragesAreNumbers ==
  ASSUME NEW cs, Market(cs), NEW k \in 1 .. Len(cs), NEW p \in Int, p > 0
  PROVE  Ema(Closes(cs), p)[k] \in Int
<1>1. /\ Len(cs) \in Nat /\ DOMAIN Closes(cs) = 1 .. Len(cs)
      /\ \A j \in 1 .. Len(cs) : Closes(cs)[j] \in Int
  BY MarketBars DEF Closes
<1>2. 2 \in Nat /\ p - 1 \in Nat /\ 2 + (p - 1) > 0
  OBVIOUS
<1> QED
  BY <1>1, <1>2, SmoothIsNumber DEF Ema

LEMMA RsiIsNumber ==
  ASSUME NEW cs, Market(cs), NEW k \in 2 .. Len(cs), NEW p \in Int, p > 0
  PROVE  RsiWilder(cs, p)[k] \in Int
<1> DEFINE gain == Wilder(Moves(cs, 1), p)
           loss == Wilder(Moves(cs, -1), p)
<1>1. ASSUME NEW sign \in {1, -1}
      PROVE  Wilder(Moves(cs, sign), p)[k] \in Int /\ Wilder(Moves(cs, sign), p)[k] >= 0
  <2>1. Len(cs) \in Nat /\ DOMAIN Moves(cs, sign) = 1 .. Len(cs)
    BY MarketBars DEF Moves
  <2>2. ASSUME NEW j \in 1 .. Len(cs)
        PROVE  Moves(cs, sign)[j] \in Int /\ Moves(cs, sign)[j] >= 0
    <3>1. Moves(cs, sign)[j] =
              IF j = 1 THEN 0 ELSE Max({sign * (cs[j].c - cs[j - 1].c), 0})
      BY MarketBars DEF Moves
    <3>2. j # 1 => sign * (cs[j].c - cs[j - 1].c) \in Int
      <4>1. j # 1 => j - 1 \in 1 .. Len(cs)
        BY <2>1
      <4>2. j # 1 => cs[j].c - cs[j - 1].c \in Int
        BY <4>1, MarketBars
      <4> QED
        BY <4>2
    <3>3. CASE j = 1
      BY <3>1, <3>3
    <3>4. CASE j # 1
      <4> DEFINE move == sign * (cs[j].c - cs[j - 1].c)
      <4>1. move \in Int /\ 0 \in Int
        BY <3>2, <3>4
      <4>2. Moves(cs, sign)[j] = Max({move, 0})
        BY <3>1, <3>4
      <4> HIDE DEF move
      <4>3. Max({move, 0}) \in Int /\ Max({move, 0}) >= 0
        BY <4>1, MaxOfInts, Zenon
      <4> QED
        BY <4>2, <4>3
    <3> QED
      BY <3>3, <3>4
  <2>3. 1 \in Nat /\ p - 1 \in Nat /\ 1 + (p - 1) > 0 /\ k \in 1 .. Len(cs)
    BY <2>1
  <2> QED
    BY <2>1, <2>2, <2>3, SmoothIsNumber DEF Wilder
<1>2. /\ gain[k] \in Int /\ gain[k] >= 0 /\ loss[k] \in Int /\ loss[k] >= 0
  BY <1>1
<1>3. RsiWilder(cs, p)[k] = IF gain[k] + loss[k] = 0 THEN 50
                            ELSE (100 * gain[k]) \div (gain[k] + loss[k])
  <2>1. k \in DOMAIN cs /\ k # 1
    BY MarketBars
  <2> QED
    BY <2>1, Zenon DEF RsiWilder
<1> HIDE DEF gain, loss
<1>4. 100 * gain[k] \in Int /\ gain[k] + loss[k] \in Int
      /\ (gain[k] + loss[k] = 0 \/ gain[k] + loss[k] > 0)
  BY <1>2
<1> DEFINE x == 100 * gain[k]
           y == gain[k] + loss[k]
<1>5. x \in Int /\ y \in Int /\ (y = 0 \/ y > 0) /\ RsiWilder(cs, p)[k] = IF y = 0 THEN 50 ELSE x \div y
  BY <1>3, <1>4
<1> HIDE DEF x, y
<1> QED
  BY <1>5

LEMMA MidIsNumber ==
  ASSUME NEW cs, Market(cs), NEW k \in 1 .. Len(cs), P.bb <= k
  PROVE  Mid(cs, k) \in Int
<1>1. P.bb \in Int /\ P.bb > 0 /\ Len(cs) \in Int /\ k \in Int /\ k <= Len(cs)
  BY CountsAreNumbers, MarketBars
<1>2. Trailing(k, P.bb) \subseteq 1 .. Len(cs)
  BY <1>1, TrailingBars
<1>3. IsFiniteSet(Trailing(k, P.bb)) /\ Cardinality(Trailing(k, P.bb)) = P.bb
  <2> DEFINE a == k - P.bb + 1
  <2>1. a \in Int /\ a <= k /\ k - a + 1 = P.bb /\ Trailing(k, P.bb) = a .. k
    BY <1>1 DEF Trailing
  <2> HIDE DEF a
  <2>2. IsFiniteSet(a .. k) /\ Cardinality(a .. k) = IF a > k THEN 0 ELSE k - a + 1
    BY <1>1, <2>1, FS_Interval
  <2> QED
    BY <1>1, <2>1, <2>2
<1>4. \A j \in Trailing(k, P.bb) : Closes(cs)[j] \in Int
  BY <1>2, MarketBars
<1>5. Sum(Closes(cs), Trailing(k, P.bb)) \in Int
  BY <1>3, <1>4, SumIsNumber
<1> QED
  BY <1>1, <1>3, <1>5 DEF Mid, Mean

(* A bar closes in one direction only, and breaks out in one only.         *)
LEMMA OneWay ==
  ASSUME NEW cs, Market(cs), NEW k \in 1 .. Len(cs)
  PROVE  /\ ~ (Confirms("LONG", cs[k]) /\ Confirms("SHORT", cs[k]))
         /\ ~ (Outside(cs, k, "LONG") /\ Outside(cs, k, "SHORT"))
         /\ ~ (Regime(cs, k, "LONG") /\ Regime(cs, k, "SHORT"))
<1>1. ~ (Confirms("LONG", cs[k]) /\ Confirms("SHORT", cs[k]))
  BY MarketBars DEF Confirms, Sign
<1>2. ASSUME Outside(cs, k, "LONG"), Outside(cs, k, "SHORT") PROVE FALSE
  <2> DEFINE T == {cs[j].c : j \in Trailing(k - 1, P.period)}
             x == [j \in Trailing(k - 1, P.period) |-> cs[j].c]
  <2>1. /\ P.period \in Int /\ P.period > 0 /\ k > P.period
        /\ k \in Int /\ Len(cs) \in Int /\ k <= Len(cs)
    <3>1. k > P.period
      BY <1>2, Zenon DEF Outside
    <3>2. P.period \in Int /\ P.period > 0
      BY CountsAreNumbers
    <3>3. k \in Int /\ Len(cs) \in Int /\ k <= Len(cs)
      BY MarketBars
    <3> QED
      BY <3>1, <3>2, <3>3
  <2> DEFINE a == k - P.period
             b == k - 1
  <2>2. /\ a \in Int /\ b \in Int /\ a <= b
        /\ \A j \in a .. b : j \in 1 .. Len(cs)
    BY <2>1
  <2>10. Trailing(k - 1, P.period) = a .. b
    <3>1. (k - 1) - P.period + 1 = a
      BY <2>1
    <3> QED
      BY <3>1 DEF Trailing
  <2>3. \A j \in a .. b : x[j] \in Int /\ x[j] = cs[j].c
    BY <2>2, <2>10, MarketBars
  <2>4. T = {x[j] : j \in a .. b}
    BY <2>3, <2>10
  <2>5. /\ 1 * (cs[k].c - Max(T)) > 0
        /\ (-1) * (cs[k].c - Min(T)) > 0
    BY <1>2 DEF Outside, Best, Sign
  <2> HIDE DEF T, x, a, b
  <2>6. /\ Max(T) \in Int /\ Min(T) \in Int
        /\ \A j \in a .. b : Min(T) <= x[j] /\ x[j] <= Max(T)
    BY <2>2, <2>3, <2>4, ExtremesOf
  <2>7. b \in a .. b
    BY <2>2
  <2>8. Min(T) <= x[b] /\ x[b] <= Max(T) /\ x[b] \in Int
    BY <2>3, <2>6, <2>7
  <2>9. cs[k].c \in Int
    BY MarketBars
  <2> QED
    BY <2>5, <2>6, <2>8, <2>9
<1>3. ASSUME Regime(cs, k, "LONG"), Regime(cs, k, "SHORT") PROVE FALSE
  <2>1. Ema(Closes(cs), P.mid)[k] \in Int /\ Ema(Closes(cs), P.slow)[k] \in Int
    BY AveragesAreNumbers, CountsAreNumbers
  <2>2. /\ 1 * (Ema(Closes(cs), P.mid)[k] - Ema(Closes(cs), P.slow)[k]) > 0
        /\ (-1) * (Ema(Closes(cs), P.mid)[k] - Ema(Closes(cs), P.slow)[k]) > 0
    BY <1>3 DEF Regime, Sign
  <2> QED
    BY <2>1, <2>2
<1> QED
  BY <1>1, <1>2, <1>3

LEMMA OneOrder ==
  ASSUME NEW k, NEW side
  PROVE  /\ \A cs, m, t, h : \A x, y \in ByAtr(cs, k, side, m, t, h) : x = y
         /\ \A e, p, m, h : \A x, y \in ByRisk(k, side, e, p, m, h) : x = y
         /\ \A e, p, m : \A x, y \in ByPositiveStop(k, side, e, p, m) : x = y
         /\ \A cs, p : \A x, y \in ToMid(cs, k, side, p) : x = y
<1>1. \A cs, m, t, h : \A x, y \in ByAtr(cs, k, side, m, t, h) : x = y
  BY DEF ByAtr
<1>2. \A e, p, m, h : \A x, y \in ByRisk(k, side, e, p, m, h) : x = y
  BY DEF ByRisk
<1>3. \A e, p, m : \A x, y \in ByPositiveStop(k, side, e, p, m) : x = y
  BY <1>2 DEF ByPositiveStop
<1>4. \A cs, p : \A x, y \in ToMid(cs, k, side, p) : x = y
  BY DEF ToMid
<1> QED
  BY <1>1, <1>2, <1>3, <1>4

---------------------------------------------------------------------------
(* A strategy finds one signal on a bar at most: what it asks of a long    *)
(* and of a short cannot both be so.                                       *)
Single(found) == \A s, t \in found : s.bar = t.bar => s = t

LEMMA FoundOrNothing ==
  ASSUME NEW cs, NEW needs, NEW found
  PROVE  \/ Strategy(cs, needs, found).signals = {}
         \/ Strategy(cs, needs, found).signals = found
BY DEF Strategy

LEMMA EmaCrossOnce ==
  ASSUME NEW cs, Market(cs)
  PROVE  Single(EmaCross(cs).signals)
<1> DEFINE first == 2
           Loop == UNION {EmaCrossAt(cs, k, side) : k \in first .. Len(cs), side \in Sides}
<1>1. EmaCross(cs).signals = {} \/ EmaCross(cs).signals = Loop
  <2>1. EmaCross(cs) = Strategy(cs, Max({P.fast, P.slow, P.atr}) + 2, Loop)
    BY DEF EmaCross, Scan
  <2> HIDE DEF Loop
  <2> QED
    BY <2>1, FoundOrNothing
<1> HIDE DEF first
<1>2. \A s \in Loop : \E k \in first .. Len(cs), side \in Sides : s \in EmaCrossAt(cs, k, side)
  OBVIOUS
<1> HIDE DEF Loop
<1>3. \A k \in first .. Len(cs) : \A side : \A s \in EmaCrossAt(cs, k, side) :
          s.bar = k /\ \A t \in EmaCrossAt(cs, k, side) : t = s
  <2> SUFFICES ASSUME NEW k \in first .. Len(cs), NEW side, NEW s \in EmaCrossAt(cs, k, side)
               PROVE  s.bar = k /\ \A t \in EmaCrossAt(cs, k, side) : t = s
    OBVIOUS
  <2>1. s.bar = k
    BY OrdersAtBar DEF EmaCrossAt
  <2>2. \A t \in EmaCrossAt(cs, k, side) : t = s
    BY OneOrder DEF EmaCrossAt
  <2> QED
    BY <2>1, <2>2
<1>4. ASSUME NEW k \in first .. Len(cs)
      PROVE  EmaCrossAt(cs, k, "LONG") = {} \/ EmaCrossAt(cs, k, "SHORT") = {}
  <2>1. k \in 1 .. Len(cs)
    BY MarketBars DEF first
  <2> DEFINE x == Ema(Closes(cs), P.fast)[k]
             y == Ema(Closes(cs), P.slow)[k]
  <2>2. x \in Int /\ y \in Int
    BY <2>1, AveragesAreNumbers, CountsAreNumbers
  <2>3. \A side : EmaCrossAt(cs, k, side) # {} => Sign(side) * (x - y) > 0
    BY Zenon DEF EmaCrossAt
  <2> HIDE DEF x, y
  <2> QED
    BY <2>2, <2>3 DEF Sign
<1> QED
  BY <1>1, <1>2, <1>3, <1>4 DEF Sides, Single

LEMMA DonchianBreakoutOnce ==
  ASSUME NEW cs, Market(cs)
  PROVE  Single(DonchianBreakout(cs).signals)
<1> DEFINE first == 2
           Loop == UNION {DonchianBreakoutAt(cs, k, side) : k \in first .. Len(cs), side \in Sides}
<1>1. DonchianBreakout(cs).signals = {} \/ DonchianBreakout(cs).signals = Loop
  <2>1. DonchianBreakout(cs) = Strategy(cs, Max({P.period, P.atr}) + 2, Loop)
    BY DEF DonchianBreakout, Scan
  <2> HIDE DEF Loop
  <2> QED
    BY <2>1, FoundOrNothing
<1> HIDE DEF first
<1>2. \A s \in Loop : \E k \in first .. Len(cs), side \in Sides : s \in DonchianBreakoutAt(cs, k, side)
  OBVIOUS
<1> HIDE DEF Loop
<1>3. \A k \in first .. Len(cs) : \A side : \A s \in DonchianBreakoutAt(cs, k, side) :
          s.bar = k /\ \A t \in DonchianBreakoutAt(cs, k, side) : t = s
  <2> SUFFICES ASSUME NEW k \in first .. Len(cs), NEW side, NEW s \in DonchianBreakoutAt(cs, k, side)
               PROVE  s.bar = k /\ \A t \in DonchianBreakoutAt(cs, k, side) : t = s
    OBVIOUS
  <2>1. s.bar = k
    BY OrdersAtBar DEF DonchianBreakoutAt
  <2>2. \A t \in DonchianBreakoutAt(cs, k, side) : t = s
    BY OneOrder DEF DonchianBreakoutAt
  <2> QED
    BY <2>1, <2>2
<1>4. ASSUME NEW k \in first .. Len(cs)
      PROVE  DonchianBreakoutAt(cs, k, "LONG") = {} \/ DonchianBreakoutAt(cs, k, "SHORT") = {}
  <2>1. k \in 1 .. Len(cs)
    BY MarketBars DEF first
  <2>2. \A side : DonchianBreakoutAt(cs, k, side) # {} => Outside(cs, k, side)
    BY Zenon DEF DonchianBreakoutAt, BreaksOut
  <2> QED
    BY <2>1, <2>2, OneWay
<1> QED
  BY <1>1, <1>2, <1>3, <1>4 DEF Sides, Single

LEMMA VolBreakOnce ==
  ASSUME NEW cs, Market(cs)
  PROVE  Single(VolBreak(cs).signals)
<1> DEFINE first == 2
           Loop == UNION {VolBreakAt(cs, k, side) : k \in first .. Len(cs), side \in Sides}
<1>1. VolBreak(cs).signals = {} \/ VolBreak(cs).signals = Loop
  <2>1. VolBreak(cs) = Strategy(cs, Max({P.period, P.atr, P.volWindow}) + 2, Loop)
    BY DEF VolBreak, Scan
  <2> HIDE DEF Loop
  <2> QED
    BY <2>1, FoundOrNothing
<1> HIDE DEF first
<1>2. \A s \in Loop : \E k \in first .. Len(cs), side \in Sides : s \in VolBreakAt(cs, k, side)
  OBVIOUS
<1> HIDE DEF Loop
<1>3. \A k \in first .. Len(cs) : \A side : \A s \in VolBreakAt(cs, k, side) :
          s.bar = k /\ \A t \in VolBreakAt(cs, k, side) : t = s
  <2> SUFFICES ASSUME NEW k \in first .. Len(cs), NEW side, NEW s \in VolBreakAt(cs, k, side)
               PROVE  s.bar = k /\ \A t \in VolBreakAt(cs, k, side) : t = s
    OBVIOUS
  <2>1. s.bar = k
    BY OrdersAtBar DEF VolBreakAt
  <2>2. \A t \in VolBreakAt(cs, k, side) : t = s
    BY OneOrder DEF VolBreakAt
  <2> QED
    BY <2>1, <2>2
<1>4. ASSUME NEW k \in first .. Len(cs)
      PROVE  VolBreakAt(cs, k, "LONG") = {} \/ VolBreakAt(cs, k, "SHORT") = {}
  <2>1. k \in 1 .. Len(cs)
    BY MarketBars DEF first
  <2>2. \A side : VolBreakAt(cs, k, side) # {} => Outside(cs, k, side)
    BY Zenon DEF VolBreakAt, BreaksOut
  <2> QED
    BY <2>1, <2>2, OneWay
<1> QED
  BY <1>1, <1>2, <1>3, <1>4 DEF Sides, Single

LEMMA RsiMeanRevOnce ==
  ASSUME NEW cs, Market(cs)
  PROVE  Single(RsiMeanRev(cs).signals)
<1> DEFINE first == 3
           Loop == UNION {RsiMeanRevAt(cs, k, side) : k \in first .. Len(cs), side \in Sides}
<1>1. RsiMeanRev(cs).signals = {} \/ RsiMeanRev(cs).signals = Loop
  <2>1. RsiMeanRev(cs) = Strategy(cs, Max({P.rsi, P.atr}) + 2, Loop)
    BY DEF RsiMeanRev, Scan
  <2> HIDE DEF Loop
  <2> QED
    BY <2>1, FoundOrNothing
<1> HIDE DEF first
<1>2. \A s \in Loop : \E k \in first .. Len(cs), side \in Sides : s \in RsiMeanRevAt(cs, k, side)
  OBVIOUS
<1> HIDE DEF Loop
<1>3. \A k \in first .. Len(cs) : \A side : \A s \in RsiMeanRevAt(cs, k, side) :
          s.bar = k /\ \A t \in RsiMeanRevAt(cs, k, side) : t = s
  <2> SUFFICES ASSUME NEW k \in first .. Len(cs), NEW side, NEW s \in RsiMeanRevAt(cs, k, side)
               PROVE  s.bar = k /\ \A t \in RsiMeanRevAt(cs, k, side) : t = s
    OBVIOUS
  <2>1. s.bar = k
    BY OrdersAtBar DEF RsiMeanRevAt
  <2>2. \A t \in RsiMeanRevAt(cs, k, side) : t = s
    BY OneOrder DEF RsiMeanRevAt
  <2> QED
    BY <2>1, <2>2
<1>4. ASSUME NEW k \in first .. Len(cs)
      PROVE  RsiMeanRevAt(cs, k, "LONG") = {} \/ RsiMeanRevAt(cs, k, "SHORT") = {}
  <2>1. k \in 1 .. Len(cs)
    BY MarketBars DEF first
  <2>2. RsiWilder(cs, P.rsi)[k - 1] \in Int /\ RsiWilder(cs, P.rsi)[k] \in Int
    <3>1. k - 1 \in 2 .. Len(cs) /\ k \in 2 .. Len(cs)
      BY MarketBars DEF first
    <3> QED
      BY <3>1, RsiIsNumber, CountsAreNumbers
  <2>3. /\ RsiMeanRevAt(cs, k, "LONG") # {} => /\ RsiWilder(cs, P.rsi)[k - 1] <= P.oversold
                                              /\ RsiWilder(cs, P.rsi)[k] > P.oversold
        /\ RsiMeanRevAt(cs, k, "SHORT") # {} => /\ RsiWilder(cs, P.rsi)[k - 1] >= P.overbought
                                               /\ RsiWilder(cs, P.rsi)[k] < P.overbought
    BY DEF RsiMeanRevAt
  <2>4. P.oversold \in Int /\ P.overbought \in Int
    BY PricesAssumption
  <2> QED
    BY <2>2, <2>3, <2>4
<1> QED
  BY <1>1, <1>2, <1>3, <1>4 DEF Sides, Single

LEMMA BBandsMeanRevOnce ==
  ASSUME NEW cs, Market(cs)
  PROVE  Single(BBandsMeanRev(cs).signals)
<1> DEFINE first == P.bb + 1
           Loop == UNION {BBandsMeanRevAt(cs, k, side) : k \in first .. Len(cs), side \in Sides}
<1>1. BBandsMeanRev(cs).signals = {} \/ BBandsMeanRev(cs).signals = Loop
  <2>1. BBandsMeanRev(cs) = Strategy(cs, Max({P.bb, P.atr}) + 2, Loop)
    BY DEF BBandsMeanRev, Scan
  <2> HIDE DEF Loop
  <2> QED
    BY <2>1, FoundOrNothing
<1> HIDE DEF first
<1>2. \A s \in Loop : \E k \in first .. Len(cs), side \in Sides : s \in BBandsMeanRevAt(cs, k, side)
  OBVIOUS
<1> HIDE DEF Loop
<1>3. \A k \in first .. Len(cs) : \A side : \A s \in BBandsMeanRevAt(cs, k, side) :
          s.bar = k /\ \A t \in BBandsMeanRevAt(cs, k, side) : t = s
  <2> SUFFICES ASSUME NEW k \in first .. Len(cs), NEW side, NEW s \in BBandsMeanRevAt(cs, k, side)
               PROVE  s.bar = k /\ \A t \in BBandsMeanRevAt(cs, k, side) : t = s
    OBVIOUS
  <2>1. s.bar = k
    BY OrdersAtBar DEF BBandsMeanRevAt
  <2>2. \A t \in BBandsMeanRevAt(cs, k, side) : t = s
    BY OneOrder DEF BBandsMeanRevAt
  <2> QED
    BY <2>1, <2>2
<1>4. ASSUME NEW k \in first .. Len(cs)
      PROVE  BBandsMeanRevAt(cs, k, "LONG") = {} \/ BBandsMeanRevAt(cs, k, "SHORT") = {}
  <2>1. k \in 1 .. Len(cs) /\ P.bb <= k
    BY CountsAreNumbers, MarketBars DEF first
  <2>2. Mid(cs, k) \in Int /\ cs[k].c \in Int
    BY <2>1, MidIsNumber, MarketBars
  <2>3. ASSUME NEW side \in Sides, BBandsMeanRevAt(cs, k, side) # {}
        PROVE  Sign(side) * (Mid(cs, k) - cs[k].c) > 0
    <3>1. PICK p : \E s \in ToMid(cs, k, side, p) : TRUE
      BY <2>3 DEF BBandsMeanRevAt
    <3> QED
      BY <3>1 DEF ToMid, Signal
  <2> QED
    BY <2>2, <2>3 DEF Sides, Sign
<1> QED
  BY <1>1, <1>2, <1>3, <1>4 DEF Sides, Single

LEMMA RangeReversalOnce ==
  ASSUME NEW cs, Market(cs)
  PROVE  Single(RangeReversal(cs).signals)
<1> DEFINE first == Max({P.bb, P.atr, P.rsi}) + 2 + 1
           Loop == UNION {RangeReversalAt(cs, k, side) : k \in first .. Len(cs), side \in Sides}
<1>1. RangeReversal(cs).signals = {} \/ RangeReversal(cs).signals = Loop
  <2>1. RangeReversal(cs) = Strategy(cs, Max({P.bb, P.atr, P.rsi}) + 2, Loop)
    BY DEF RangeReversal, Scan
  <2> HIDE DEF Loop
  <2> QED
    BY <2>1, FoundOrNothing
<1> HIDE DEF first
<1>2. \A s \in Loop : \E k \in first .. Len(cs), side \in Sides : s \in RangeReversalAt(cs, k, side)
  OBVIOUS
<1> HIDE DEF Loop
<1>3. \A k \in first .. Len(cs) : \A side : \A s \in RangeReversalAt(cs, k, side) :
          s.bar = k /\ \A t \in RangeReversalAt(cs, k, side) : t = s
  <2> SUFFICES ASSUME NEW k \in first .. Len(cs), NEW side, NEW s \in RangeReversalAt(cs, k, side)
               PROVE  s.bar = k /\ \A t \in RangeReversalAt(cs, k, side) : t = s
    OBVIOUS
  <2>1. s.bar = k
    BY OrdersAtBar DEF RangeReversalAt
  <2>2. \A t \in RangeReversalAt(cs, k, side) : t = s
    BY OneOrder DEF RangeReversalAt
  <2> QED
    BY <2>1, <2>2
<1>4. ASSUME NEW k \in first .. Len(cs)
      PROVE  RangeReversalAt(cs, k, "LONG") = {} \/ RangeReversalAt(cs, k, "SHORT") = {}
  <2>1. k \in 1 .. Len(cs)
    <3>1. Max({P.bb, P.atr, P.rsi}) \in Int /\ Max({P.bb, P.atr, P.rsi}) >= P.bb
      BY NeedsAreNumbers
    <3>2. P.bb \in Int /\ P.bb > 0
      BY CountsAreNumbers
    <3>3. first \in Int /\ first >= 1
      BY <3>1, <3>2 DEF first
    <3> QED
      BY <3>3, MarketBars
  <2>2. \A side : RangeReversalAt(cs, k, side) # {} => Confirms(side, cs[k])
    BY Zenon DEF RangeReversalAt
  <2> QED
    BY <2>1, <2>2, OneWay
<1> QED
  BY <1>1, <1>2, <1>3, <1>4 DEF Sides, Single

LEMMA EmaPullbackOnce ==
  ASSUME NEW cs, Market(cs)
  PROVE  Single(EmaPullback(cs).signals)
<1> DEFINE first == 2
           Loop == UNION {EmaPullbackAt(cs, k, side) : k \in first .. Len(cs), side \in Sides}
<1>1. EmaPullback(cs).signals = {} \/ EmaPullback(cs).signals = Loop
  <2>1. EmaPullback(cs) = Strategy(cs, Max({P.fast, P.slow, P.atr}) + 2, Loop)
    BY DEF EmaPullback, Scan
  <2> HIDE DEF Loop
  <2> QED
    BY <2>1, FoundOrNothing
<1> HIDE DEF first
<1>2. \A s \in Loop : \E k \in first .. Len(cs), side \in Sides : s \in EmaPullbackAt(cs, k, side)
  OBVIOUS
<1> HIDE DEF Loop
<1>3. \A k \in first .. Len(cs) : \A side : \A s \in EmaPullbackAt(cs, k, side) :
          s.bar = k /\ \A t \in EmaPullbackAt(cs, k, side) : t = s
  <2> SUFFICES ASSUME NEW k \in first .. Len(cs), NEW side, NEW s \in EmaPullbackAt(cs, k, side)
               PROVE  s.bar = k /\ \A t \in EmaPullbackAt(cs, k, side) : t = s
    OBVIOUS
  <2>1. s.bar = k
    BY OrdersAtBar DEF EmaPullbackAt
  <2>2. \A t \in EmaPullbackAt(cs, k, side) : t = s
    BY OneOrder DEF EmaPullbackAt
  <2> QED
    BY <2>1, <2>2
<1>4. ASSUME NEW k \in first .. Len(cs)
      PROVE  EmaPullbackAt(cs, k, "LONG") = {} \/ EmaPullbackAt(cs, k, "SHORT") = {}
  <2>1. k \in 1 .. Len(cs)
    BY MarketBars DEF first
  <2>2. \A side : EmaPullbackAt(cs, k, side) # {} => Confirms(side, cs[k])
    BY Zenon DEF EmaPullbackAt
  <2> QED
    BY <2>1, <2>2, OneWay
<1> QED
  BY <1>1, <1>2, <1>3, <1>4 DEF Sides, Single

LEMMA TrendPullbackOnce ==
  ASSUME NEW cs, Market(cs)
  PROVE  Single(TrendPullback(cs).signals)
<1> DEFINE first == Max({P.fast, P.mid, P.slow, P.atr}) + 2 + 1
           Loop == UNION {TrendPullbackAt(cs, k, side) : k \in first .. Len(cs), side \in Sides}
<1>1. TrendPullback(cs).signals = {} \/ TrendPullback(cs).signals = Loop
  <2>1. TrendPullback(cs) = Strategy(cs, Max({P.fast, P.mid, P.slow, P.atr}) + 2, Loop)
    BY DEF TrendPullback, Scan
  <2> HIDE DEF Loop
  <2> QED
    BY <2>1, FoundOrNothing
<1> HIDE DEF first
<1>2. \A s \in Loop : \E k \in first .. Len(cs), side \in Sides : s \in TrendPullbackAt(cs, k, side)
  OBVIOUS
<1> HIDE DEF Loop
<1>3. \A k \in first .. Len(cs) : \A side : \A s \in TrendPullbackAt(cs, k, side) :
          s.bar = k /\ \A t \in TrendPullbackAt(cs, k, side) : t = s
  <2> SUFFICES ASSUME NEW k \in first .. Len(cs), NEW side, NEW s \in TrendPullbackAt(cs, k, side)
               PROVE  s.bar = k /\ \A t \in TrendPullbackAt(cs, k, side) : t = s
    OBVIOUS
  <2>1. s.bar = k
    BY OrdersAtBar DEF TrendPullbackAt
  <2>2. \A t \in TrendPullbackAt(cs, k, side) : t = s
    BY OneOrder DEF TrendPullbackAt
  <2> QED
    BY <2>1, <2>2
<1>4. ASSUME NEW k \in first .. Len(cs)
      PROVE  TrendPullbackAt(cs, k, "LONG") = {} \/ TrendPullbackAt(cs, k, "SHORT") = {}
  <2>1. k \in 1 .. Len(cs)
    <3>1. Max({P.fast, P.mid, P.slow, P.atr}) \in Int /\ Max({P.fast, P.mid, P.slow, P.atr}) >= P.fast
      BY NeedsAreNumbers
    <3>2. P.fast \in Int /\ P.fast > 0
      BY CountsAreNumbers
    <3>3. first \in Int /\ first >= 1
      BY <3>1, <3>2 DEF first
    <3> QED
      BY <3>3, MarketBars
  <2>2. \A side : TrendPullbackAt(cs, k, side) # {} => Confirms(side, cs[k])
    BY Zenon DEF TrendPullbackAt
  <2> QED
    BY <2>1, <2>2, OneWay
<1> QED
  BY <1>1, <1>2, <1>3, <1>4 DEF Sides, Single

LEMMA EngulfingAtExtremeOnce ==
  ASSUME NEW cs, Market(cs)
  PROVE  Single(EngulfingAtExtreme(cs).signals)
<1> DEFINE first == Max({3 * P.rsi, 3 * P.atr, 2 * P.regime, P.warm}) + 1
           Loop == UNION {EngulfingAtExtremeAt(cs, k, side) : k \in first .. Len(cs), side \in Sides}
<1>1. EngulfingAtExtreme(cs).signals = {} \/ EngulfingAtExtreme(cs).signals = Loop
  <2>1. EngulfingAtExtreme(cs) = Strategy(cs, Max({3 * P.rsi, 3 * P.atr, 2 * P.regime, P.warm}) + 2, Loop)
    BY DEF EngulfingAtExtreme, Scan
  <2> HIDE DEF Loop
  <2> QED
    BY <2>1, FoundOrNothing
<1> HIDE DEF first
<1>2. \A s \in Loop : \E k \in first .. Len(cs), side \in Sides : s \in EngulfingAtExtremeAt(cs, k, side)
  OBVIOUS
<1> HIDE DEF Loop
<1>3. \A k \in first .. Len(cs) : \A side : \A s \in EngulfingAtExtremeAt(cs, k, side) :
          s.bar = k /\ \A t \in EngulfingAtExtremeAt(cs, k, side) : t = s
  <2> SUFFICES ASSUME NEW k \in first .. Len(cs), NEW side, NEW s \in EngulfingAtExtremeAt(cs, k, side)
               PROVE  s.bar = k /\ \A t \in EngulfingAtExtremeAt(cs, k, side) : t = s
    OBVIOUS
  <2>1. s.bar = k
    BY OrdersAtBar DEF EngulfingAtExtremeAt
  <2>2. \A t \in EngulfingAtExtremeAt(cs, k, side) : t = s
    BY OneOrder DEF EngulfingAtExtremeAt
  <2> QED
    BY <2>1, <2>2
<1>4. ASSUME NEW k \in first .. Len(cs)
      PROVE  EngulfingAtExtremeAt(cs, k, "LONG") = {} \/ EngulfingAtExtremeAt(cs, k, "SHORT") = {}
  <2>1. k \in 1 .. Len(cs)
    <3>1. Max({3 * P.rsi, 3 * P.atr, 2 * P.regime, P.warm}) \in Int /\ Max({3 * P.rsi, 3 * P.atr, 2 * P.regime, P.warm}) >= P.warm
      BY NeedsAreNumbers
    <3>2. P.warm \in Int /\ P.warm > 0
      BY CountsAreNumbers
    <3>3. first \in Int /\ first >= 1
      BY <3>1, <3>2 DEF first
    <3> QED
      BY <3>3, MarketBars
  <2>2. \A side : EngulfingAtExtremeAt(cs, k, side) # {} => Confirms(side, cs[k])
    BY Zenon DEF EngulfingAtExtremeAt, Engulfs
  <2> QED
    BY <2>1, <2>2, OneWay
<1> QED
  BY <1>1, <1>2, <1>3, <1>4 DEF Sides, Single

LEMMA InsideBarOnce ==
  ASSUME NEW cs, Market(cs)
  PROVE  Single(InsideBar(cs).signals)
<1> DEFINE first == 3
           Loop == UNION {InsideBarAt(cs, k, side) : k \in first .. Len(cs), side \in Sides}
<1>1. InsideBar(cs).signals = {} \/ InsideBar(cs).signals = Loop
  <2>1. InsideBar(cs) = Strategy(cs, 3, Loop)
    BY DEF InsideBar, Scan
  <2> HIDE DEF Loop
  <2> QED
    BY <2>1, FoundOrNothing
<1> HIDE DEF first
<1>2. \A s \in Loop : \E k \in first .. Len(cs), side \in Sides : s \in InsideBarAt(cs, k, side)
  OBVIOUS
<1> HIDE DEF Loop
<1>3. \A k \in first .. Len(cs) : \A side : \A s \in InsideBarAt(cs, k, side) :
          s.bar = k /\ \A t \in InsideBarAt(cs, k, side) : t = s
  <2> SUFFICES ASSUME NEW k \in first .. Len(cs), NEW side, NEW s \in InsideBarAt(cs, k, side)
               PROVE  s.bar = k /\ \A t \in InsideBarAt(cs, k, side) : t = s
    OBVIOUS
  <2>1. s.bar = k
    BY OrdersAtBar DEF InsideBarAt
  <2>2. \A t \in InsideBarAt(cs, k, side) : t = s
    BY OneOrder DEF InsideBarAt
  <2> QED
    BY <2>1, <2>2
<1>4. ASSUME NEW k \in first .. Len(cs)
      PROVE  InsideBarAt(cs, k, "LONG") = {} \/ InsideBarAt(cs, k, "SHORT") = {}
  <2>1. k \in 1 .. Len(cs)
    BY MarketBars DEF first
  <2>2. \A side : InsideBarAt(cs, k, side) # {} =>
            Sign(side) * (cs[k].c - Favourable(side, cs[k - 1])) > 0
    BY Zenon DEF InsideBarAt
  <2>3. /\ cs[k].c \in Int /\ cs[k - 1].h \in Int /\ cs[k - 1].l \in Int
        /\ cs[k - 1].l <= cs[k - 1].h
    <3>1. k - 1 \in 1 .. Len(cs)
      BY MarketBars DEF first
    <3> QED
      BY <2>1, <3>1, MarketBars
  <2>4. ASSUME InsideBarAt(cs, k, "LONG") # {}, InsideBarAt(cs, k, "SHORT") # {}
        PROVE  FALSE
    <3>1. /\ 1 * (cs[k].c - cs[k - 1].h) > 0
          /\ (-1) * (cs[k].c - cs[k - 1].l) > 0
      BY <2>2, <2>4 DEF Sign, Favourable
    <3> QED
      BY <2>3, <3>1
  <2> QED
    BY <2>4
<1> QED
  BY <1>1, <1>2, <1>3, <1>4 DEF Sides, Single

LEMMA VolBreakoutOnce ==
  ASSUME NEW cs, Market(cs)
  PROVE  Single(VolBreakout(cs).signals)
<1> DEFINE first == 2
           Loop == UNION {VolBreakoutAt(cs, k, side) : k \in first .. Len(cs), side \in Sides}
<1>1. VolBreakout(cs).signals = {} \/ VolBreakout(cs).signals = Loop
  <2>1. VolBreakout(cs) = Strategy(cs, 3, Loop)
    BY DEF VolBreakout, Scan
  <2> HIDE DEF Loop
  <2> QED
    BY <2>1, FoundOrNothing
<1> HIDE DEF first
<1>2. \A s \in Loop : \E k \in first .. Len(cs), side \in Sides : s \in VolBreakoutAt(cs, k, side)
  OBVIOUS
<1> HIDE DEF Loop
<1>3. \A k \in first .. Len(cs) : \A side : \A s \in VolBreakoutAt(cs, k, side) :
          s.bar = k /\ \A t \in VolBreakoutAt(cs, k, side) : t = s
  <2> SUFFICES ASSUME NEW k \in first .. Len(cs), NEW side, NEW s \in VolBreakoutAt(cs, k, side)
               PROVE  s.bar = k /\ \A t \in VolBreakoutAt(cs, k, side) : t = s
    OBVIOUS
  <2>1. s.bar = k
    BY OrdersAtBar DEF VolBreakoutAt
  <2>2. \A t \in VolBreakoutAt(cs, k, side) : t = s
    BY OneOrder DEF VolBreakoutAt
  <2> QED
    BY <2>1, <2>2
<1>4. ASSUME NEW k \in first .. Len(cs)
      PROVE  VolBreakoutAt(cs, k, "LONG") = {} \/ VolBreakoutAt(cs, k, "SHORT") = {}
  <2>1. k \in 1 .. Len(cs)
    BY MarketBars DEF first
  <2>2. \A side : VolBreakoutAt(cs, k, side) # {} =>
            Hit(cs, k, side) /\ ~Hit(cs, k, Other(side))
    BY Zenon DEF VolBreakoutAt, OneHit
  <2> QED
    BY <2>2 DEF Other
<1> QED
  BY <1>1, <1>2, <1>3, <1>4 DEF Sides, Single

LEMMA First30MeanRevOnce ==
  ASSUME NEW cs, Market(cs)
  PROVE  Single(First30MeanRev(cs).signals)
<1> DEFINE first == 2
           Loop == UNION {First30MeanRevAt(cs, k, side) : k \in first .. Len(cs), side \in Sides}
<1>1. First30MeanRev(cs).signals = {} \/ First30MeanRev(cs).signals = Loop
  <2>1. First30MeanRev(cs) = Strategy(cs, P.atr + 2, Loop)
    BY DEF First30MeanRev, Scan
  <2> HIDE DEF Loop
  <2> QED
    BY <2>1, FoundOrNothing
<1> HIDE DEF first
<1>2. \A s \in Loop : \E k \in first .. Len(cs), side \in Sides : s \in First30MeanRevAt(cs, k, side)
  OBVIOUS
<1> HIDE DEF Loop
<1>3. \A k \in first .. Len(cs) : \A side : \A s \in First30MeanRevAt(cs, k, side) :
          s.bar = k /\ \A t \in First30MeanRevAt(cs, k, side) : t = s
  BY DEF First30MeanRevAt, Signal
<1>4. ASSUME NEW k \in first .. Len(cs)
      PROVE  First30MeanRevAt(cs, k, "LONG") = {} \/ First30MeanRevAt(cs, k, "SHORT") = {}
  <2>1. k \in 1 .. Len(cs)
    BY MarketBars DEF first
  <2>2. \A side : First30MeanRevAt(cs, k, side) # {} =>
            Sign(side) * (cs[k - 1].o - cs[k].c) > 0
    BY Zenon DEF First30MeanRevAt
  <2>3. cs[k].c \in Int /\ cs[k - 1].o \in Int
    <3>1. k - 1 \in 1 .. Len(cs)
      BY MarketBars DEF first
    <3> QED
      BY <2>1, <3>1, MarketBars
  <2> QED
    BY <2>2, <2>3 DEF Sign
<1> QED
  BY <1>1, <1>2, <1>3, <1>4 DEF Sides, Single

(* One zone fires on a bar.                                                *)
LEMMA OneZone ==
  ASSUME NEW cs, Market(cs), NEW k \in 1 .. Len(cs)
  PROVE  \A i, j \in Fired(cs)[k] : i = j
<1>1. Fired(cs) = [b \in DOMAIN cs |-> FiredStep(cs, b, Fired(cs))]
  BY MarketBars, LoopsRemember
<1>2. Fired(cs)[k] = FiredStep(cs, k, Fired(cs))
  <2> DEFINE f == Fired(cs)
  <2>1. k \in DOMAIN cs
    BY MarketBars
  <2> HIDE DEF f
  <2>2. f = [b \in DOMAIN cs |-> FiredStep(cs, b, f)]
    BY <1>1 DEF f
  <2>3. f[k] = FiredStep(cs, k, f)
    BY <2>1, <2>2, Zenon
  <2> QED
    BY <2>3 DEF f
<1>3. ASSUME NEW f PROVE \A i, j \in FiredStep(cs, k, f) : i = j
  BY Zenon DEF FiredStep
<1> QED
  BY <1>2, <1>3

LEMMA PivotReactionZoneOnce ==
  ASSUME NEW cs, Market(cs)
  PROVE  Single(PivotReactionZone(cs).signals)
<1> DEFINE first == ZoneWarm + 1
           Loop == UNION {PivotReactionZoneAt(cs, k, side) : k \in first .. Len(cs), side \in Sides}
<1>1. PivotReactionZone(cs).signals = {} \/ PivotReactionZone(cs).signals = Loop
  <2>1. PivotReactionZone(cs) = Strategy(cs, ZoneWarm + 2, Loop)
    BY DEF PivotReactionZone, Scan
  <2> HIDE DEF Loop
  <2> QED
    BY <2>1, FoundOrNothing
<1> HIDE DEF first
<1>2. \A s \in Loop : \E k \in first .. Len(cs), side \in Sides : s \in PivotReactionZoneAt(cs, k, side)
  OBVIOUS
<1> HIDE DEF Loop
<1>3. \A k \in first .. Len(cs) : \A side : \A s \in PivotReactionZoneAt(cs, k, side) :
          s.bar = k /\ \A t \in PivotReactionZoneAt(cs, k, side) : t = s
  <2>1. ASSUME NEW k \in first .. Len(cs), NEW side, NEW s \in PivotReactionZoneAt(cs, k, side)
        PROVE  s.bar = k /\ \A t \in PivotReactionZoneAt(cs, k, side) : t = s
    <3>1. PICK j \in Fired(cs)[k] \cap Ready(cs, k, side) : s \in ZoneEntry(cs, k, side, j)
      BY DEF PivotReactionZoneAt
    <3>2. s.bar = k
      BY <3>1, OrdersAtBar DEF ZoneEntry
    <3>3. \A i \in Fired(cs)[k] : i = j
      <4>1. k \in 1 .. Len(cs)
        <5>1. ZoneWarm \in Int /\ ZoneWarm >= P.warm
          BY NeedsAreNumbers
        <5>2. P.warm \in Int /\ P.warm > 0
          BY CountsAreNumbers
        <5> QED
          BY <5>1, <5>2, MarketBars DEF first
      <4> QED
        BY <3>1, <4>1, OneZone
    <3>4. \A t \in PivotReactionZoneAt(cs, k, side) : t \in ZoneEntry(cs, k, side, j)
      BY <3>3 DEF PivotReactionZoneAt
    <3> QED
      <4>1. \A x, y \in ZoneEntry(cs, k, side, j) : x = y
        BY OneOrder DEF ZoneEntry
      <4> QED
        BY <3>1, <3>2, <3>4, <4>1
  <2> QED
    BY <2>1
<1>4. ASSUME NEW k \in first .. Len(cs)
      PROVE  PivotReactionZoneAt(cs, k, "LONG") = {} \/ PivotReactionZoneAt(cs, k, "SHORT") = {}
  <2>1. k \in 1 .. Len(cs)
    <3>1. ZoneWarm \in Int /\ ZoneWarm >= P.warm
      BY NeedsAreNumbers
    <3>2. P.warm \in Int /\ P.warm > 0
      BY CountsAreNumbers
    <3>3. first \in Int /\ first >= 1
      BY <3>1, <3>2 DEF first
    <3> QED
      BY <3>3, MarketBars
  <2>2. \A side : PivotReactionZoneAt(cs, k, side) # {} => Confirms(side, cs[k])
    BY DEF PivotReactionZoneAt, Ready, Turns
  <2> QED
    BY <2>1, <2>2, OneWay
<1> QED
  BY <1>1, <1>2, <1>3, <1>4 DEF Sides, Single

LEMMA TrendPullbackRegimeOnce ==
  ASSUME NEW cs, Market(cs)
  PROVE  Single(TrendPullbackRegime(cs).signals)
<1> DEFINE first == RegimeWarm + 1
           Loop == UNION {TrendPullbackRegimeAt(cs, k, side) : k \in first .. Len(cs), side \in Sides}
<1>1. TrendPullbackRegime(cs).signals = {} \/ TrendPullbackRegime(cs).signals = Loop
  <2>1. TrendPullbackRegime(cs) = Strategy(cs, RegimeWarm, Loop)
    BY DEF TrendPullbackRegime, Scan
  <2> HIDE DEF Loop
  <2> QED
    BY <2>1, FoundOrNothing
<1> HIDE DEF first
<1>2. \A s \in Loop : \E k \in first .. Len(cs), side \in Sides : s \in TrendPullbackRegimeAt(cs, k, side)
  OBVIOUS
<1> HIDE DEF Loop
<1>3. \A k \in first .. Len(cs) : \A side : \A s \in TrendPullbackRegimeAt(cs, k, side) :
          s.bar = k /\ \A t \in TrendPullbackRegimeAt(cs, k, side) : t = s
  <2>1. ASSUME NEW k, NEW side, NEW pivot
        PROVE  \A s, t \in SetupEntry(cs, k, side, pivot) : s.bar = k /\ t = s
    <3>1. \A e, p, m, h : \A s, t \in ByRisk(k, side, e, p, m, h) : s.bar = k /\ t = s
      <4>1. \A e, p, m, h : \A s \in ByRisk(k, side, e, p, m, h) : s.bar = k
        BY OrdersAtBar
      <4>2. \A e, p, m, h : \A s, t \in ByRisk(k, side, e, p, m, h) : s = t
        BY OneOrder
      <4> QED
        BY <4>1, <4>2
    <3> QED
      BY <3>1 DEF SetupEntry
  <2> QED
    BY <2>1 DEF TrendPullbackRegimeAt
<1>4. ASSUME NEW k \in first .. Len(cs)
      PROVE  TrendPullbackRegimeAt(cs, k, "LONG") = {} \/ TrendPullbackRegimeAt(cs, k, "SHORT") = {}
  <2>1. k \in 1 .. Len(cs)
    <3>1. RegimeWarm \in Int /\ RegimeWarm >= P.slow
      BY NeedsAreNumbers
    <3>2. P.slow \in Int /\ P.slow > 0
      BY CountsAreNumbers
    <3>3. first \in Int /\ first >= 1
      BY <3>1, <3>2 DEF first
    <3> QED
      BY <3>3, MarketBars
  <2>2. \A side : TrendPullbackRegimeAt(cs, k, side) # {} => Regime(cs, k, side)
    BY Zenon DEF TrendPullbackRegimeAt
  <2> QED
    BY <2>1, <2>2, OneWay
<1> QED
  BY <1>1, <1>2, <1>3, <1>4 DEF Sides, Single


LEMMA SpreadPullbackOnce ==
  ASSUME NEW cs, Market(cs), NEW side
  PROVE  Single(SpreadPullback(cs, side).signals)
<1> DEFINE Loop == UNION {SpreadPullbackAt(cs, k, side) : k \in (P.slow + P.start + 1) .. Len(cs)}
<1>1. SpreadPullback(cs, side).signals = {} \/ SpreadPullback(cs, side).signals = Loop
  <2>1. SpreadPullback(cs, side) = Strategy(cs, Max({P.slow, P.atr}) + P.start, Loop)
    BY DEF SpreadPullback
  <2> HIDE DEF Loop
  <2> QED
    BY <2>1, FoundOrNothing
<1>2. ASSUME NEW k, NEW s \in SpreadPullbackAt(cs, k, side), NEW t \in SpreadPullbackAt(cs, k, side)
      PROVE  s.bar = k /\ s = t
  <2>1. s.bar = k
    BY OrdersAtBar DEF SpreadPullbackAt
  <2>2. s = t
    BY OneOrder DEF SpreadPullbackAt
  <2> QED
    BY <2>1, <2>2
<1> QED
  BY <1>1, <1>2 DEF Single

LEMMA LastWeekOnce ==
  ASSUME NEW cs, Market(cs), NEW side
  PROVE  Single(LastWeek(cs, side).signals)
<1> DEFINE Loop == UNION {LastWeekAt(cs, k, side) : k \in (P.start + 1) .. Len(cs)}
<1>1. LastWeek(cs, side).signals = {} \/ LastWeek(cs, side).signals = Loop
  <2>1. LastWeek(cs, side) = Strategy(cs, P.warm, Loop)
    BY DEF LastWeek
  <2> HIDE DEF Loop
  <2> QED
    BY <2>1, FoundOrNothing
<1>2. ASSUME NEW k, NEW s \in LastWeekAt(cs, k, side), NEW t \in LastWeekAt(cs, k, side)
      PROVE  s.bar = k /\ s = t
  <2>1. s.bar = k
    BY OrdersAtBar DEF LastWeekAt
  <2>2. s = t
    BY OneOrder DEF LastWeekAt
  <2> QED
    BY <2>1, <2>2
<1> QED
  BY <1>1, <1>2 DEF Single

LEMMA LevelBounceOnce ==
  ASSUME NEW cs, Market(cs), NEW side, NEW variant
  PROVE  Single(LevelBounce(cs, side, variant).signals)
<1> DEFINE Loop == UNION {LevelBounceAt(cs, k, side, variant) : k \in (P.warm + 1) .. Len(cs)}
<1>1. LevelBounce(cs, side, variant).signals = {} \/ LevelBounce(cs, side, variant).signals = Loop
  <2>1. LevelBounce(cs, side, variant) = Strategy(cs, P.warm, Loop)
    BY DEF LevelBounce
  <2> HIDE DEF Loop
  <2> QED
    BY <2>1, FoundOrNothing
<1>2. ASSUME NEW k, NEW s \in LevelBounceAt(cs, k, side, variant), NEW t \in LevelBounceAt(cs, k, side, variant)
      PROVE  s.bar = k /\ s = t
  <2>1. s.bar = k
    BY OrdersAtBar DEF LevelBounceAt
  <2>2. s = t
    BY OneOrder DEF LevelBounceAt
  <2> QED
    BY <2>1, <2>2
<1> QED
  BY <1>1, <1>2 DEF Single

LEMMA IbsOnce ==
  ASSUME NEW cs, Market(cs)
  PROVE  Single(Ibs(cs).signals)
<1> DEFINE Loop == UNION {IbsAt(cs, k) : k \in 3 .. Len(cs)}
<1>1. Ibs(cs).signals = {} \/ Ibs(cs).signals = Loop
  <2>1. Ibs(cs) = Strategy(cs, Max({P.atr + 2, 3}), Loop)
    BY DEF Ibs
  <2> HIDE DEF Loop
  <2> QED
    BY <2>1, FoundOrNothing
<1>2. ASSUME NEW k, NEW s \in IbsAt(cs, k), NEW t \in IbsAt(cs, k)
      PROVE  s.bar = k /\ s = t
  <2>1. s.bar = k
    BY OrdersAtBar DEF IbsAt
  <2>2. s = t
    BY OneOrder DEF IbsAt
  <2> QED
    BY <2>1, <2>2
<1> QED
  BY <1>1, <1>2 DEF Single

LEMMA VwapFirstTouchOnce ==
  ASSUME NEW cs, Market(cs)
  PROVE  Single(VwapFirstTouch(cs).signals)
<1> DEFINE Loop == UNION {VwapFirstTouchAt(cs, k) : k \in (P.start + 1) .. Len(cs)}
<1>1. VwapFirstTouch(cs).signals = {} \/ VwapFirstTouch(cs).signals = Loop
  <2>1. VwapFirstTouch(cs) = Strategy(cs, P.warm, Loop)
    BY DEF VwapFirstTouch
  <2> HIDE DEF Loop
  <2> QED
    BY <2>1, FoundOrNothing
<1>2. ASSUME NEW k, NEW s \in VwapFirstTouchAt(cs, k), NEW t \in VwapFirstTouchAt(cs, k)
      PROVE  s.bar = k /\ s = t
  <2>1. s.bar = k
    BY OrdersAtBar DEF VwapFirstTouchAt, Touch
  <2>2. s = t
    BY OneOrder DEF VwapFirstTouchAt, Touch
  <2> QED
    BY <2>1, <2>2
<1> QED
  BY <1>1, <1>2 DEF Single

LEMMA TsmomOnce ==
  ASSUME NEW cs, Market(cs)
  PROVE  Single(Tsmom(cs).signals)
<1> DEFINE Loop == UNION {Rebalance(cs, k) : k \in {j \in DOMAIN cs : Rebalances(cs)[j]}}
<1>1. Tsmom(cs).signals = {} \/ Tsmom(cs).signals = Loop
  <2>1. Tsmom(cs) = Strategy(cs, P.momentum + 2, Loop)
    BY DEF Tsmom
  <2> HIDE DEF Loop
  <2> QED
    BY <2>1, FoundOrNothing
<1>2. \A k : \A s, t \in Rebalance(cs, k) : s.bar = k /\ s = t
  BY DEF Rebalance, Signal
<1> QED
  BY <1>1, <1>2 DEF Single


---------------------------------------------------------------------------
(* A loop at a bar.                                                        *)
LEMMA LoopValues ==
  ASSUME NEW cs, Market(cs), NEW k \in 1 .. Len(cs)
  PROVE  /\ Opens(cs)[k] = OpensStep(cs, k, Opens(cs))
         /\ Rebalances(cs)[k] = RebalancesStep(cs, k, Rebalances(cs))
         /\ DayFlags(cs)[k] = FlagsStep(cs, k, DayFlags(cs))
<1> DEFINE opens == Opens(cs)
           fires == Rebalances(cs)
           day == DayFlags(cs)
<1>1. /\ opens = [b \in DOMAIN cs |-> OpensStep(cs, b, opens)]
      /\ fires = [b \in DOMAIN cs |-> RebalancesStep(cs, b, fires)]
      /\ day = [b \in DOMAIN cs |-> FlagsStep(cs, b, day)]
      /\ k \in DOMAIN cs
  BY MarketBars, LoopsRemember
<1> HIDE DEF opens, fires, day
<1>2. /\ opens[k] = OpensStep(cs, k, opens)
      /\ fires[k] = RebalancesStep(cs, k, fires)
      /\ day[k] = FlagsStep(cs, k, day)
  BY <1>1, Zenon
<1> QED
  BY <1>2 DEF opens, fires, day

(* Sessions do not overlap, and a session is broken out of at one bar, in  *)
(* one direction.                                                          *)
LEMMA SessionsApart ==
  ASSUME NEW cs, Market(cs), NEW a \in Sessions(cs), NEW b \in Sessions(cs), a < b
  PROVE  SessionEnd(cs, a) < b
<1>1. a \in 1 .. Len(cs) /\ b \in 1 .. Len(cs) /\ Opens(cs)[a] /\ Opens(cs)[b]
  BY MarketBars DEF Sessions
<1>2. OpensStep(cs, b, Opens(cs))
  BY <1>1, LoopValues, Zenon
<1>3. \A s \in 1 .. (b - 1) : Opens(cs)[s] => b > SessionEnd(cs, s)
  BY <1>2, Zenon DEF OpensStep
<1>4. a \in 1 .. (b - 1)
  BY <1>1, MarketBars
<1> QED
  BY <1>1, <1>3, <1>4

LEMMA OrbBreaksOnce ==
  ASSUME NEW cs, Market(cs), NEW s \in Sessions(cs), NEW side, NEW x \in OrbIn(cs, s, side)
  PROVE  /\ x.bar \in Int /\ s \in Int /\ s <= x.bar /\ x.bar <= SessionEnd(cs, s)
         /\ SessionEnd(cs, s) \in Int
         /\ \A other \in Sides : \A y \in OrbIn(cs, s, other) : side \in Sides => x = y
<1> DEFINE k == Min(OrbBreaks(cs, s))
<1>1. s \in 1 .. Len(cs) /\ Len(cs) \in Nat
  BY MarketBars DEF Sessions
<1>2. OrbBreaks(cs, s) # {} /\ x.bar = k
  BY OrbInBar
<1>3. k \in OrbBreaks(cs, s)
  <2>1. OrbBreaks(cs, s) \in SUBSET Nat
    BY <1>1, OrbBars
  <2> QED
    BY <1>2, <2>1, MinIn
<1>4. k \in (s + P.orBars) .. SessionEnd(cs, s)
  BY <1>3 DEF OrbBreaks
<1>5. /\ P.orBars \in Int /\ P.orBars > 0
      /\ SessionEnd(cs, s) \in Int /\ SessionEnd(cs, s) <= Len(cs)
  <2>1. s \in Int /\ Len(cs) \in Int /\ s <= Len(cs)
    BY <1>1
  <2>2. P.orBars \in Int /\ P.orBars > 0
    BY CountsAreNumbers
  <2>3. SessionEnd(cs, s) \in Int /\ SessionEnd(cs, s) <= Len(cs)
    BY <2>1, SessionEnds
  <2> QED
    BY <2>2, <2>3
<1> HIDE DEF k
<1>6. k \in Int /\ s \in Int /\ s <= k /\ k <= SessionEnd(cs, s) /\ s + P.orBars <= k
  BY <1>1, <1>4, <1>5
<1>7. ~ (BreaksOpening(cs, s, k, "LONG") /\ BreaksOpening(cs, s, k, "SHORT"))
  <2> SUFFICES ASSUME BreaksOpening(cs, s, k, "LONG"), BreaksOpening(cs, s, k, "SHORT")
               PROVE  FALSE
    OBVIOUS
  <2> DEFINE b == s + P.orBars - 1
             High == {cs[j].h : j \in s .. b}
             Low == {cs[j].l : j \in s .. b}
             highs == [j \in s .. b |-> cs[j].h]
             lows == [j \in s .. b |-> cs[j].l]
  <2>1. b \in Int /\ s <= b /\ \A j \in s .. b : j \in 1 .. Len(cs)
    BY <1>1, <1>5, <1>6
  <2>2. /\ 1 * (cs[k].c - Max(High)) > 0
        /\ (-1) * (cs[k].c - Min(Low)) > 0
    BY DEF BreaksOpening, Opening, Best, Favourable, Sign
  <2>3. /\ High = {highs[j] : j \in s .. b} /\ \A j \in s .. b : highs[j] = cs[j].h
        /\ Low = {lows[j] : j \in s .. b} /\ \A j \in s .. b : lows[j] = cs[j].l
    OBVIOUS
  <2> HIDE DEF b, High, Low, highs, lows
  <2>4. \A j \in s .. b : highs[j] \in Int /\ lows[j] \in Int /\ lows[j] <= highs[j]
    BY <2>1, <2>3, MarketBars
  <2>5. Max(High) \in Int /\ \A j \in s .. b : highs[j] <= Max(High)
    BY <1>6, <2>1, <2>3, <2>4, ExtremesOf
  <2>6. Min(Low) \in Int /\ \A j \in s .. b : Min(Low) <= lows[j]
    BY <1>6, <2>1, <2>3, <2>4, ExtremesOf
  <2>7. s \in s .. b
    BY <1>6, <2>1
  <2>8. Min(Low) <= Max(High)
    BY <2>4, <2>5, <2>6, <2>7
  <2>9. cs[k].c \in Int
    <3>1. k \in 1 .. Len(cs)
      BY <1>1, <1>5, <1>6
    <3> QED
      BY <3>1, MarketBars
  <2> QED
    BY <2>2, <2>5, <2>6, <2>8, <2>9
<1>8. \A d : \A y \in OrbIn(cs, s, d) :
          /\ BreaksOpening(cs, s, k, d)
          /\ y \in ByRisk(k, d, cs[k].c, Opposite(cs, s, d), P.rr, Max({1, SessionEnd(cs, s) - k}))
  BY Zenon DEF OrbIn, k
<1>9. ASSUME NEW other \in Sides, NEW y \in OrbIn(cs, s, other), side \in Sides PROVE x = y
  <2>1. side = other
    BY <1>7, <1>8, <1>9 DEF Sides
  <2> QED
    BY <1>8, <2>1, OneOrder
<1> QED
  BY <1>2, <1>5, <1>6, <1>9

LEMMA OrbFound ==
  ASSUME NEW cs, NEW x \in Orb(cs).signals
  PROVE  \E s \in Sessions(cs), side \in Sides : x \in OrbIn(cs, s, side)
<1> DEFINE Loop == UNION {OrbIn(cs, s, side) : s \in Sessions(cs), side \in Sides}
           found == IF P.sessionBars <= P.orBars THEN {} ELSE Loop
<1>1. Orb(cs) = Strategy(cs, P.orBars + 2, found)
  BY DEF Orb
<1>2. x \in Loop
  <2> HIDE DEF Loop
  <2>1. Strategy(cs, P.orBars + 2, found).signals \in {{}, found}
    BY DEF Strategy
  <2> QED
    BY <1>1, <2>1
<1> QED
  BY <1>2

LEMMA OrbOnce ==
  ASSUME NEW cs, Market(cs)
  PROVE  Single(Orb(cs).signals)
<1> SUFFICES ASSUME NEW x \in Orb(cs).signals, NEW y \in Orb(cs).signals, x.bar = y.bar
             PROVE  x = y
  BY DEF Single
<1>1. PICK a \in Sessions(cs), d \in Sides : x \in OrbIn(cs, a, d)
  BY OrbFound
<1>2. PICK b \in Sessions(cs), e \in Sides : y \in OrbIn(cs, b, e)
  BY OrbFound
<1>3. /\ x.bar \in Int /\ a \in Int /\ a <= x.bar /\ x.bar <= SessionEnd(cs, a)
      /\ SessionEnd(cs, a) \in Int
  BY <1>1, OrbBreaksOnce
<1>4. /\ y.bar \in Int /\ b \in Int /\ b <= y.bar /\ y.bar <= SessionEnd(cs, b)
      /\ SessionEnd(cs, b) \in Int
  BY <1>2, OrbBreaksOnce
<1>5. /\ a < b => SessionEnd(cs, a) < b
      /\ b < a => SessionEnd(cs, b) < a
  BY SessionsApart
<1>6. a = b
  BY <1>3, <1>4, <1>5
<1> QED
  BY <1>1, <1>2, <1>6, OrbBreaksOnce

---------------------------------------------------------------------------
(* How far apart the signals of a strategy are.                            *)
LEMMA OrbApart ==
  ASSUME NEW cs, Market(cs), NEW s \in Orb(cs).signals, NEW t \in Orb(cs).signals,
         s.bar < t.bar, NEW k \in Sessions(cs), t.bar <= SessionEnd(cs, k)
  PROVE  s.bar < k
<1>1. PICK a \in Sessions(cs), d \in Sides : s \in OrbIn(cs, a, d)
  BY OrbFound
<1>2. PICK b \in Sessions(cs), e \in Sides : t \in OrbIn(cs, b, e)
  BY OrbFound
<1>3. /\ s.bar \in Int /\ a \in Int /\ a <= s.bar /\ s.bar <= SessionEnd(cs, a)
      /\ SessionEnd(cs, a) \in Int
  BY <1>1, OrbBreaksOnce
<1>4. /\ t.bar \in Int /\ b \in Int /\ b <= t.bar /\ t.bar <= SessionEnd(cs, b)
      /\ SessionEnd(cs, b) \in Int
  BY <1>2, OrbBreaksOnce
<1>5. k \in Int /\ SessionEnd(cs, k) \in Int
  <2>1. k \in 1 .. Len(cs) /\ Len(cs) \in Int
    BY MarketBars DEF Sessions
  <2> QED
    BY <2>1, SessionEnds
<1>6. a # b
  <2> SUFFICES ASSUME a = b PROVE FALSE
    OBVIOUS
  <2>1. s = t
    BY <1>1, <1>2, OrbBreaksOnce
  <2> QED
    BY <1>3, <2>1
<1>7. /\ a < b => SessionEnd(cs, a) < b
      /\ b < a => SessionEnd(cs, b) < a
      /\ k < b => SessionEnd(cs, k) < b
  BY SessionsApart
<1> QED
  BY <1>3, <1>4, <1>5, <1>6, <1>7

LEMMA First30Apart ==
  ASSUME NEW cs, Market(cs), NEW s \in First30MeanRev(cs).signals,
         NEW t \in First30MeanRev(cs).signals, s.bar < t.bar
  PROVE  cs[s.bar].day < cs[t.bar].day
<1>1. ASSUME NEW x \in First30MeanRev(cs).signals
      PROVE  x.bar \in 1 .. Len(cs) /\ cs[x.bar].slot = P.open + 1
  <2> DEFINE Loop == UNION {First30MeanRevAt(cs, k, side) : k \in 2 .. Len(cs), side \in Sides}
  <2>1. First30MeanRev(cs) = Strategy(cs, P.atr + 2, Loop)
    BY DEF First30MeanRev, Scan
  <2>2. x \in Loop
    <3> HIDE DEF Loop
    <3> QED
      BY <1>1, <2>1, FoundOrNothing
  <2>3. PICK k \in 2 .. Len(cs), side \in Sides : x \in First30MeanRevAt(cs, k, side)
    BY <2>2
  <2>4. x.bar = k /\ cs[k].slot = P.open + 1
    BY <2>3 DEF First30MeanRevAt, Signal
  <2> QED
    BY <2>3, <2>4, MarketBars
<1>2. /\ s.bar \in 1 .. Len(cs) /\ t.bar \in 1 .. Len(cs)
      /\ cs[s.bar].slot = cs[t.bar].slot
  BY <1>1
<1>3. /\ cs[s.bar].day \in Int /\ cs[t.bar].day \in Int
      /\ s.bar <= t.bar => cs[s.bar].day <= cs[t.bar].day
  BY <1>2 DEF Market, Ordered
<1>4. cs[s.bar].slot \in Int
  BY <1>2 DEF Market
<1>5. cs[s.bar].day = cs[t.bar].day => cs[s.bar].slot < cs[t.bar].slot
  BY <1>2 DEF Market
<1>6. s.bar \in Int /\ t.bar \in Int
  BY <1>2
<1> QED
  BY <1>2, <1>3, <1>4, <1>5, <1>6

LEMMA VwapTouches ==
  ASSUME NEW cs, Market(cs), NEW x \in VwapFirstTouch(cs).signals
  PROVE  /\ x.bar \in (P.start + 1) .. Len(cs)
         /\ Fires(cs, DayBefore(cs, DayFlags(cs), x.bar), x.bar)
<1> DEFINE Loop == UNION {VwapFirstTouchAt(cs, k) : k \in (P.start + 1) .. Len(cs)}
<1>1. VwapFirstTouch(cs) = Strategy(cs, P.warm, Loop)
  BY DEF VwapFirstTouch
<1>2. x \in Loop
  <2> HIDE DEF Loop
  <2> QED
    BY <1>1, FoundOrNothing
<1>3. PICK k \in (P.start + 1) .. Len(cs) : x \in VwapFirstTouchAt(cs, k)
  BY <1>2
<1>4. x.bar = k
  BY <1>3, OrdersAtBar DEF VwapFirstTouchAt, Touch
<1>5. Fires(cs, DayBefore(cs, DayFlags(cs), k), k)
  BY <1>3, Zenon DEF VwapFirstTouchAt
<1> QED
  BY <1>3, <1>4, <1>5

LEMMA VwapApart ==
  ASSUME NEW cs, Market(cs), NEW s \in VwapFirstTouch(cs).signals,
         NEW t \in VwapFirstTouch(cs).signals, s.bar < t.bar
  PROVE  cs[s.bar].day < cs[t.bar].day
<1> DEFINE i == s.bar
           j == t.bar
           day == DayFlags(cs)
<1>1. /\ Fires(cs, DayBefore(cs, day, i), i) /\ Fires(cs, DayBefore(cs, day, j), j)
      /\ i \in (P.start + 1) .. Len(cs) /\ j \in (P.start + 1) .. Len(cs)
  BY VwapTouches
<1>2. P.start \in Int /\ P.start > 0 /\ Len(cs) \in Int
  <2>1. P.start \in Int /\ P.start > 0
    BY CountsAreNumbers
  <2>2. Len(cs) \in Int
    BY MarketBars
  <2> QED
    BY <2>1, <2>2
<1>3. /\ i \in Int /\ j \in Int /\ i > P.start /\ i < j
      /\ \A m \in i .. j : m \in 1 .. Len(cs)
  BY <1>1, <1>2
<1>4. \A m \in i .. j : /\ cs[m].day \in Int
                        /\ cs[i].day <= cs[m].day /\ cs[m].day <= cs[j].day
  <2>1. \A m \in i .. j : i <= m /\ m <= j /\ i \in 1 .. Len(cs) /\ j \in 1 .. Len(cs)
    BY <1>3
  <2>2. \A a, b \in 1 .. Len(cs) : cs[a].day \in Int /\ (a <= b => cs[a].day <= cs[b].day)
    BY DEF Market, Ordered
  <2> QED
    BY <1>3, <2>1, <2>2
<1> SUFFICES ASSUME cs[i].day = cs[j].day PROVE FALSE
  <2>1. i \in i .. j /\ j \in i .. j
    BY <1>3
  <2>2. cs[i].day \in Int /\ cs[j].day \in Int /\ cs[i].day <= cs[j].day
    BY <1>4, <2>1
  <2> QED
    BY <2>2
<1>5. ASSUME NEW m \in (i + 1) .. j PROVE DayBefore(cs, day, m) = day[m - 1]
  <2>1. m \in Int /\ i < m /\ m <= j /\ m \in i .. j /\ i \in i .. j
    BY <1>3
  <2>2. cs[m].day = cs[i].day
    <3>1. /\ cs[m].day \in Int /\ cs[i].day \in Int
          /\ cs[i].day <= cs[m].day /\ cs[m].day <= cs[j].day
      BY <1>4, <2>1
    <3> QED
      BY <3>1
  <2>3. i \in DayOf(cs, m)
    BY <1>3, <2>1, <2>2, MarketBars DEF DayOf
  <2>4. DayOf(cs, m) \in SUBSET Nat
    BY MarketBars DEF DayOf
  <2>5. DayStart(cs, m) \in Int /\ DayStart(cs, m) <= i
    BY <2>3, <2>4, MinIn DEF DayStart
  <2>6. m # DayStart(cs, m) /\ ~ (m <= P.start + 1)
    BY <1>2, <1>3, <2>1, <2>5
  <2> QED
    BY <2>6, Zenon DEF DayBefore
<1>6. ASSUME NEW m \in i .. j
      PROVE  day[m].traded <=> \/ DayBefore(cs, day, m).traded
                               \/ Fires(cs, DayBefore(cs, day, m), m)
  <2>1. m \in 1 .. Len(cs)
    BY <1>3
  <2>2. day[m] = FlagsStep(cs, m, day)
    BY <2>1, LoopValues
  <2> HIDE DEF day
  <2> DEFINE b == DayBefore(cs, day, m)
  <2>3. day[m] = [above |-> b.above \/ Above(cs, m), traded |-> b.traded \/ Fires(cs, b, m)]
    BY <2>2, Zenon DEF FlagsStep
  <2>4. \A x, y : [above |-> x, traded |-> y].traded = y
    OBVIOUS
  <2>5. day[m].traded = (b.traded \/ Fires(cs, b, m))
    BY <2>3, <2>4, Zenon
  <2> QED
    BY <2>5, Zenon
<1> HIDE DEF i, j, day
<1> DEFINE Off == {m \in i .. (j - 1) : ~ day[m].traded}
<1>7. Off = {}
  <2> SUFFICES ASSUME Off # {} PROVE FALSE
    OBVIOUS
  <2>1. Off \in SUBSET Nat
    BY <1>2, <1>3
  <2>2. PICK m \in Off : \A k \in Off : m <= k
    BY <2>1, Least
  <2>3. m \in i .. (j - 1) /\ ~ day[m].traded
    BY <2>2
  <2>4. m # i
    <3>1. i \in i .. j
      BY <1>3
    <3>2. day[i].traded
      BY <1>1, <1>6, <3>1
    <3> QED
      BY <2>3, <3>2
  <2>5. m \in (i + 1) .. j /\ m - 1 \in i .. (j - 1) /\ m \in i .. j /\ ~ (m <= m - 1)
    BY <1>3, <2>3, <2>4
  <2>6. day[m - 1].traded
    BY <2>2, <2>5
  <2>7. DayBefore(cs, day, m).traded
    BY <1>5, <2>5, <2>6
  <2> QED
    BY <1>6, <2>3, <2>5, <2>7
<1>8. j \in (i + 1) .. j /\ j - 1 \in i .. (j - 1)
  BY <1>3
<1>9. day[j - 1].traded
  BY <1>7, <1>8
<1>10. DayBefore(cs, day, j).traded
  BY <1>5, <1>8, <1>9
<1> QED
  BY <1>1, <1>10, Zenon DEF Fires

LEMMA TsmomApart ==
  ASSUME NEW cs, Market(cs), NEW s \in Tsmom(cs).signals, NEW t \in Tsmom(cs).signals,
         s.bar < t.bar
  PROVE  t.bar >= s.bar + P.hold
<1>1. ASSUME NEW x \in Tsmom(cs).signals
      PROVE  x.bar \in 1 .. Len(cs) /\ Rebalances(cs)[x.bar]
  <2> DEFINE Loop == UNION {Rebalance(cs, k) : k \in {j \in DOMAIN cs : Rebalances(cs)[j]}}
  <2>1. Tsmom(cs) = Strategy(cs, P.momentum + 2, Loop)
    BY DEF Tsmom
  <2>2. x \in Loop
    <3> HIDE DEF Loop
    <3> QED
      BY <1>1, <2>1, FoundOrNothing
  <2>3. PICK k \in {j \in DOMAIN cs : Rebalances(cs)[j]} : x \in Rebalance(cs, k)
    BY <2>2
  <2>4. x.bar = k
    BY <2>3 DEF Rebalance, Signal
  <2> QED
    BY <2>3, <2>4, MarketBars
<1>2. /\ s.bar \in 1 .. Len(cs) /\ t.bar \in 1 .. Len(cs) /\ Len(cs) \in Int
      /\ Rebalances(cs)[s.bar] /\ Rebalances(cs)[t.bar]
  BY <1>1, MarketBars
<1>3. P.hold \in Int /\ 1 \in Int
  BY CountsAreNumbers
<1>4. RebalancesStep(cs, t.bar, Rebalances(cs))
  BY <1>2, LoopValues, Zenon
<1>5. \A j \in Max({1, t.bar - P.hold + 1}) .. (t.bar - 1) : ~ Rebalances(cs)[j]
  BY <1>4, Zenon DEF RebalancesStep
<1> DEFINE a == t.bar - P.hold + 1
<1>6. a \in Int /\ a = t.bar - P.hold + 1
  BY <1>2, <1>3
<1>7. Max({1, a}) \in {1, a}
  <2> HIDE DEF a
  <2>1. {1, a} \in SUBSET Int /\ {1, a} # {}
    BY <1>6
  <2>2. IsFiniteSet({1, a})
    <3>1. IsFiniteSet({1}) /\ {1, a} = {1} \cup {a}
      BY FS_Singleton
    <3> QED
      BY <3>1, FS_AddElement
  <2> QED
    BY <2>1, <2>2, Extremes
<1> HIDE DEF a
<1>8. s.bar < a
  <2>1. ASSUME s.bar >= a PROVE FALSE
    <3>1. s.bar \in Max({1, a}) .. (t.bar - 1)
      BY <1>2, <1>6, <1>7, <2>1
    <3> QED
      BY <1>2, <1>5, <3>1 DEF a
  <2> QED
    BY <1>2, <1>6, <2>1
<1> QED
  BY <1>2, <1>3, <1>6, <1>8

(* A fresh break, or cross, is not one of the bar before.                  *)
LEMMA OrdersOnSide ==
  ASSUME NEW cs, NEW k, NEW side, NEW m, NEW t, NEW h, NEW s \in ByAtr(cs, k, side, m, t, h)
  PROVE  s.bar = k /\ s.side = side
BY DEF ByAtr, Signal

LEMMA DonchianBreakoutApart ==
  ASSUME NEW cs, Market(cs), NEW s \in DonchianBreakout(cs).signals,
         NEW t \in DonchianBreakout(cs).signals, s.bar < t.bar, s.side = t.side
  PROVE  t.bar > s.bar + 1
<1> DEFINE Loop == UNION {DonchianBreakoutAt(cs, k, side) : k \in 2 .. Len(cs), side \in Sides}
           Crossed(k, side) == BreaksOut(cs, k, side)
<1>1. DonchianBreakout(cs) = Strategy(cs, Max({P.period, P.atr}) + 2, Loop)
  BY DEF DonchianBreakout, Scan
<1>2. ASSUME NEW x \in DonchianBreakout(cs).signals
      PROVE  x.bar \in 2 .. Len(cs) /\ x.side \in Sides /\ Crossed(x.bar, x.side)
  <2>1. x \in Loop
    <3> HIDE DEF Loop
    <3> QED
      BY <1>1, <1>2, FoundOrNothing
  <2>2. PICK k \in 2 .. Len(cs), side \in Sides : x \in DonchianBreakoutAt(cs, k, side)
    BY <2>1
  <2>3. DonchianBreakoutAt(cs, k, side) # {} => Crossed(k, side)
    BY Zenon DEF DonchianBreakoutAt
  <2>4. x \in ByAtr(cs, k, side, P.stop, P.target, 0)
    BY <2>2 DEF DonchianBreakoutAt
  <2>5. x.bar = k /\ x.side = side
    BY <2>4, OrdersOnSide
  <2> HIDE DEF Crossed
  <2> QED
    BY <2>2, <2>3, <2>5
<1>3. /\ s.bar \in 2 .. Len(cs) /\ t.bar \in 2 .. Len(cs) /\ Len(cs) \in Int
      /\ Crossed(s.bar, s.side) /\ Crossed(t.bar, s.side) /\ s.side \in Sides
  BY <1>2, MarketBars
<1>4. t.bar - 1 # s.bar
  BY <1>3, Zenon DEF BreaksOut
<1> QED
  BY <1>3, <1>4

LEMMA VolBreakApart ==
  ASSUME NEW cs, Market(cs), NEW s \in VolBreak(cs).signals,
         NEW t \in VolBreak(cs).signals, s.bar < t.bar, s.side = t.side
  PROVE  t.bar > s.bar + 1
<1> DEFINE Loop == UNION {VolBreakAt(cs, k, side) : k \in 2 .. Len(cs), side \in Sides}
           Crossed(k, side) == BreaksOut(cs, k, side)
<1>1. VolBreak(cs) = Strategy(cs, Max({P.period, P.atr, P.volWindow}) + 2, Loop)
  BY DEF VolBreak, Scan
<1>2. ASSUME NEW x \in VolBreak(cs).signals
      PROVE  x.bar \in 2 .. Len(cs) /\ x.side \in Sides /\ Crossed(x.bar, x.side)
  <2>1. x \in Loop
    <3> HIDE DEF Loop
    <3> QED
      BY <1>1, <1>2, FoundOrNothing
  <2>2. PICK k \in 2 .. Len(cs), side \in Sides : x \in VolBreakAt(cs, k, side)
    BY <2>1
  <2>3. VolBreakAt(cs, k, side) # {} => Crossed(k, side)
    BY Zenon DEF VolBreakAt
  <2>4. x \in ByAtr(cs, k, side, P.stop, P.target, 0)
    BY <2>2 DEF VolBreakAt
  <2>5. x.bar = k /\ x.side = side
    BY <2>4, OrdersOnSide
  <2> HIDE DEF Crossed
  <2> QED
    BY <2>2, <2>3, <2>5
<1>3. /\ s.bar \in 2 .. Len(cs) /\ t.bar \in 2 .. Len(cs) /\ Len(cs) \in Int
      /\ Crossed(s.bar, s.side) /\ Crossed(t.bar, s.side) /\ s.side \in Sides
  BY <1>2, MarketBars
<1>4. t.bar - 1 # s.bar
  BY <1>3, Zenon DEF BreaksOut
<1> QED
  BY <1>3, <1>4

LEMMA EmaCrossApart ==
  ASSUME NEW cs, Market(cs), NEW s \in EmaCross(cs).signals,
         NEW t \in EmaCross(cs).signals, s.bar < t.bar, s.side = t.side
  PROVE  t.bar > s.bar + 1
<1> DEFINE Loop == UNION {EmaCrossAt(cs, k, side) : k \in 2 .. Len(cs), side \in Sides}
           Gap(k, side) == Sign(side) * (Ema(Closes(cs), P.fast)[k] - Ema(Closes(cs), P.slow)[k])
           Crossed(k, side) == Gap(k - 1, side) <= 0 /\ Gap(k, side) > 0
<1>1. EmaCross(cs) = Strategy(cs, Max({P.fast, P.slow, P.atr}) + 2, Loop)
  BY DEF EmaCross, Scan
<1>2. ASSUME NEW x \in EmaCross(cs).signals
      PROVE  x.bar \in 2 .. Len(cs) /\ x.side \in Sides /\ Crossed(x.bar, x.side)
  <2>1. x \in Loop
    <3> HIDE DEF Loop
    <3> QED
      BY <1>1, <1>2, FoundOrNothing
  <2>2. PICK k \in 2 .. Len(cs), side \in Sides : x \in EmaCrossAt(cs, k, side)
    BY <2>1
  <2>3. EmaCrossAt(cs, k, side) # {} => Crossed(k, side)
    BY Zenon DEF EmaCrossAt
  <2>4. x \in ByAtr(cs, k, side, P.stop, P.target, 0)
    BY <2>2 DEF EmaCrossAt
  <2>5. x.bar = k /\ x.side = side
    BY <2>4, OrdersOnSide
  <2> HIDE DEF Crossed
  <2> QED
    BY <2>2, <2>3, <2>5
<1>3. /\ s.bar \in 2 .. Len(cs) /\ t.bar \in 2 .. Len(cs) /\ Len(cs) \in Int
      /\ Crossed(s.bar, s.side) /\ Crossed(t.bar, s.side) /\ s.side \in Sides
  BY <1>2, MarketBars
<1>4. t.bar - 1 # s.bar
  <2> SUFFICES ASSUME t.bar - 1 = s.bar PROVE FALSE
    OBVIOUS
  <2> DEFINE gap == Sign(s.side) * (Ema(Closes(cs), P.fast)[s.bar] - Ema(Closes(cs), P.slow)[s.bar])
  <2>1. gap > 0 /\ gap <= 0
    BY <1>3, Zenon
  <2>2. gap \in Int
    <3>1. s.bar \in 1 .. Len(cs)
      BY <1>3
    <3>2. Ema(Closes(cs), P.fast)[s.bar] \in Int /\ Ema(Closes(cs), P.slow)[s.bar] \in Int
      BY <3>1, AveragesAreNumbers, CountsAreNumbers
    <3> QED
      BY <3>2 DEF Sign
  <2> HIDE DEF gap
  <2> QED
    BY <2>1, <2>2
<1> QED
  BY <1>3, <1>4

(* No strategy of the registry finds two signals on a bar.                 *)
LEMMA JudgeOnce ==
  ASSUME NEW cs, Market(cs), NEW s, Name(s) \in Causal
  PROVE  Single(Judge(s, cs).signals)
<1>0. /\ \A side : Single(SpreadPullback(cs, side).signals)
      /\ \A side : Single(LastWeek(cs, side).signals)
      /\ \A side, v : Single(LevelBounce(cs, side, v).signals)
  BY SpreadPullbackOnce, LastWeekOnce, LevelBounceOnce
<1>1. CASE Name(s) = "bbands_meanrev"
  <2>1. Judge(s, cs) = BBandsMeanRev(cs)
    BY <1>1, Zenon DEF Judge
  <2>2. Single(BBandsMeanRev(cs).signals)
    BY BBandsMeanRevOnce
  <2> QED
    BY <2>1, <2>2
<1>2. CASE Name(s) = "donchian_breakout"
  <2>1. Judge(s, cs) = DonchianBreakout(cs)
    BY <1>2, Zenon DEF Judge
  <2>2. Single(DonchianBreakout(cs).signals)
    BY DonchianBreakoutOnce
  <2> QED
    BY <2>1, <2>2
<1>3. CASE Name(s) = "ema_cross"
  <2>1. Judge(s, cs) = EmaCross(cs)
    BY <1>3, Zenon DEF Judge
  <2>2. Single(EmaCross(cs).signals)
    BY EmaCrossOnce
  <2> QED
    BY <2>1, <2>2
<1>4. CASE Name(s) = "ema_pullback"
  <2>1. Judge(s, cs) = EmaPullback(cs)
    BY <1>4, Zenon DEF Judge
  <2>2. Single(EmaPullback(cs).signals)
    BY EmaPullbackOnce
  <2> QED
    BY <2>1, <2>2
<1>5. CASE Name(s) = "ema_spread_pullback"
  <2>1. Judge(s, cs) = EmaSpreadPullback(cs)
    BY <1>5, Zenon DEF Judge
  <2>2. Single(EmaSpreadPullback(cs).signals)
    BY <1>0, Zenon DEF EmaSpreadPullback
  <2> QED
    BY <2>1, <2>2
<1>6. CASE Name(s) = "ema_spread_pullback_short"
  <2>1. Judge(s, cs) = EmaSpreadPullbackShort(cs)
    BY <1>6, Zenon DEF Judge
  <2>2. Single(EmaSpreadPullbackShort(cs).signals)
    BY <1>0, Zenon DEF EmaSpreadPullbackShort
  <2> QED
    BY <2>1, <2>2
<1>7. CASE Name(s) = "engulfing_at_extreme"
  <2>1. Judge(s, cs) = EngulfingAtExtreme(cs)
    BY <1>7, Zenon DEF Judge
  <2>2. Single(EngulfingAtExtreme(cs).signals)
    BY EngulfingAtExtremeOnce
  <2> QED
    BY <2>1, <2>2
<1>8. CASE Name(s) = "first30_meanrev"
  <2>1. Judge(s, cs) = First30MeanRev(cs)
    BY <1>8, Zenon DEF Judge
  <2>2. Single(First30MeanRev(cs).signals)
    BY First30MeanRevOnce
  <2> QED
    BY <2>1, <2>2
<1>9. CASE Name(s) = "ibs"
  <2>1. Judge(s, cs) = Ibs(cs)
    BY <1>9, Zenon DEF Judge
  <2>2. Single(Ibs(cs).signals)
    BY IbsOnce
  <2> QED
    BY <2>1, <2>2
<1>10. CASE Name(s) = "inside_bar"
  <2>1. Judge(s, cs) = InsideBar(cs)
    BY <1>10, Zenon DEF Judge
  <2>2. Single(InsideBar(cs).signals)
    BY InsideBarOnce
  <2> QED
    BY <2>1, <2>2
<1>11. CASE Name(s) = "last_week_high"
  <2>1. Judge(s, cs) = LastWeekHigh(cs)
    BY <1>11, Zenon DEF Judge
  <2>2. Single(LastWeekHigh(cs).signals)
    BY <1>0, Zenon DEF LastWeekHigh
  <2> QED
    BY <2>1, <2>2
<1>12. CASE Name(s) = "last_week_low"
  <2>1. Judge(s, cs) = LastWeekLow(cs)
    BY <1>12, Zenon DEF Judge
  <2>2. Single(LastWeekLow(cs).signals)
    BY <1>0, Zenon DEF LastWeekLow
  <2> QED
    BY <2>1, <2>2
<1>13. CASE Name(s) = "orb"
  <2>1. Judge(s, cs) = Orb(cs)
    BY <1>13, Zenon DEF Judge
  <2>2. Single(Orb(cs).signals)
    BY OrbOnce
  <2> QED
    BY <2>1, <2>2
<1>14. CASE Name(s) = "pivot_reaction_zone"
  <2>1. Judge(s, cs) = PivotReactionZone(cs)
    BY <1>14, Zenon DEF Judge
  <2>2. Single(PivotReactionZone(cs).signals)
    BY PivotReactionZoneOnce
  <2> QED
    BY <2>1, <2>2
<1>15. CASE Name(s) = "range_reversal"
  <2>1. Judge(s, cs) = RangeReversal(cs)
    BY <1>15, Zenon DEF Judge
  <2>2. Single(RangeReversal(cs).signals)
    BY RangeReversalOnce
  <2> QED
    BY <2>1, <2>2
<1>16. CASE Name(s) = "rsi_meanrev"
  <2>1. Judge(s, cs) = RsiMeanRev(cs)
    BY <1>16, Zenon DEF Judge
  <2>2. Single(RsiMeanRev(cs).signals)
    BY RsiMeanRevOnce
  <2> QED
    BY <2>1, <2>2
<1>17. CASE Name(s) = "support_resistance"
  <2>1. Judge(s, cs) = SupportResistance(cs, s[2])
    BY <1>17, Zenon DEF Judge
  <2>2. Single(SupportResistance(cs, s[2]).signals)
    BY <1>0, Zenon DEF SupportResistance
  <2> QED
    BY <2>1, <2>2
<1>18. CASE Name(s) = "support_resistance_short"
  <2>1. Judge(s, cs) = SupportResistanceShort(cs, s[2])
    BY <1>18, Zenon DEF Judge
  <2>2. Single(SupportResistanceShort(cs, s[2]).signals)
    BY <1>0, Zenon DEF SupportResistanceShort
  <2> QED
    BY <2>1, <2>2
<1>19. CASE Name(s) = "trend_pullback"
  <2>1. Judge(s, cs) = TrendPullback(cs)
    BY <1>19, Zenon DEF Judge
  <2>2. Single(TrendPullback(cs).signals)
    BY TrendPullbackOnce
  <2> QED
    BY <2>1, <2>2
<1>20. CASE Name(s) = "trend_pullback_regime"
  <2>1. Judge(s, cs) = TrendPullbackRegime(cs)
    BY <1>20, Zenon DEF Judge
  <2>2. Single(TrendPullbackRegime(cs).signals)
    BY TrendPullbackRegimeOnce
  <2> QED
    BY <2>1, <2>2
<1>21. CASE Name(s) = "tsmom"
  <2>1. Judge(s, cs) = Tsmom(cs)
    BY <1>21, Zenon DEF Judge
  <2>2. Single(Tsmom(cs).signals)
    BY TsmomOnce
  <2> QED
    BY <2>1, <2>2
<1>22. CASE Name(s) = "vol_break"
  <2>1. Judge(s, cs) = VolBreak(cs)
    BY <1>22, Zenon DEF Judge
  <2>2. Single(VolBreak(cs).signals)
    BY VolBreakOnce
  <2> QED
    BY <2>1, <2>2
<1>23. CASE Name(s) = "vol_breakout"
  <2>1. Judge(s, cs) = VolBreakout(cs)
    BY <1>23, Zenon DEF Judge
  <2>2. Single(VolBreakout(cs).signals)
    BY VolBreakoutOnce
  <2> QED
    BY <2>1, <2>2
<1>24. CASE Name(s) = "vwap_first_touch"
  <2>1. Judge(s, cs) = VwapFirstTouch(cs)
    BY <1>24, Zenon DEF Judge
  <2>2. Single(VwapFirstTouch(cs).signals)
    BY VwapFirstTouchOnce
  <2> QED
    BY <2>1, <2>2
<1> QED
  BY <1>1, <1>2, <1>3, <1>4, <1>5, <1>6, <1>7, <1>8, <1>9, <1>10, <1>11, <1>12,
     <1>13, <1>14, <1>15, <1>16, <1>17, <1>18, <1>19, <1>20, <1>21, <1>22, <1>23, <1>24 DEF Causal

(* The strategies that promise to rest find no two signals closer.         *)
Resting ==
    {"orb", "vwap_first_touch", "first30_meanrev", "tsmom", "donchian_breakout",
     "vol_break", "ema_cross"}

LEMMA JudgeApart ==
  ASSUME Market(candles), NEW s \in Judge(strategy, candles).signals,
         NEW t \in Judge(strategy, candles).signals, s.bar < t.bar
  PROVE  Apart(s, t)
<1> DEFINE name == Name(strategy)
<1>1. CASE name = "orb"
  <2>1. Judge(strategy, candles) = Orb(candles)
    BY <1>1, Zenon DEF Judge
  <2>2. \A k \in Sessions(candles) : t.bar <= SessionEnd(candles, k) => s.bar < k
    BY <2>1, OrbApart
  <2> QED
    BY <1>1, <2>2, Zenon DEF Apart
<1>2. CASE name = "first30_meanrev"
  <2>1. Judge(strategy, candles) = First30MeanRev(candles)
    BY <1>2, Zenon DEF Judge
  <2>2. candles[s.bar].day < candles[t.bar].day
    BY <2>1, First30Apart
  <2> QED
    BY <1>2, <2>2, Zenon DEF Apart
<1>3. CASE name = "vwap_first_touch"
  <2>1. Judge(strategy, candles) = VwapFirstTouch(candles)
    BY <1>3, Zenon DEF Judge
  <2>2. candles[s.bar].day < candles[t.bar].day
    BY <2>1, VwapApart
  <2> QED
    BY <1>3, <2>2, Zenon DEF Apart
<1>4. CASE name = "tsmom"
  <2>1. Judge(strategy, candles) = Tsmom(candles)
    BY <1>4, Zenon DEF Judge
  <2>2. t.bar >= s.bar + P.hold
    BY <2>1, TsmomApart
  <2> QED
    BY <1>4, <2>2, Zenon DEF Apart
<1>5. CASE name = "donchian_breakout"
  <2>1. Judge(strategy, candles) = DonchianBreakout(candles)
    BY <1>5, Zenon DEF Judge
  <2>2. s.side = t.side => t.bar > s.bar + 1
    BY <2>1, DonchianBreakoutApart
  <2> QED
    BY <1>5, <2>2, Zenon DEF Apart
<1>6. CASE name = "vol_break"
  <2>1. Judge(strategy, candles) = VolBreak(candles)
    BY <1>6, Zenon DEF Judge
  <2>2. s.side = t.side => t.bar > s.bar + 1
    BY <2>1, VolBreakApart
  <2> QED
    BY <1>6, <2>2, Zenon DEF Apart
<1>7. CASE name = "ema_cross"
  <2>1. Judge(strategy, candles) = EmaCross(candles)
    BY <1>7, Zenon DEF Judge
  <2>2. s.side = t.side => t.bar > s.bar + 1
    BY <2>1, EmaCrossApart
  <2> QED
    BY <1>7, <2>2, Zenon DEF Apart
<1>8. CASE name \notin Resting
  BY <1>8, Zenon DEF Apart, Resting
<1> QED
  BY <1>1, <1>2, <1>3, <1>4, <1>5, <1>6, <1>7, <1>8, Zenon DEF Resting

---------------------------------------------------------------------------
(* The candles are those of a market.                                      *)
LEMMA MarketAppended ==
  ASSUME NEW T, NEW cs \in Seq(T), Market(cs), NEW bar,
         bar.o \in Int, bar.h \in Int, bar.l \in Int, bar.c \in Int,
         bar.slot \in Int, bar.day \in Int, bar.l <= bar.h,
         cs # <<>> => LET last == cs[Len(cs)]
                      IN  /\ last.day <= bar.day
                          /\ last.day = bar.day => last.slot < bar.slot
  PROVE  Market(Append(cs, bar))
<1> DEFINE ds == Append(cs, bar)
           n == Len(cs)
<1>1. /\ n \in Nat /\ Len(ds) = n + 1 /\ DOMAIN ds = 1 .. (n + 1) /\ ds[n + 1] = bar
      /\ \A k \in 1 .. n : ds[k] = cs[k]
  BY AppendProperties, AppendGrown, GrownBars
<1>2. /\ \A k \in 1 .. n : /\ cs[k].o \in Int /\ cs[k].h \in Int /\ cs[k].l \in Int
                           /\ cs[k].c \in Int /\ cs[k].slot \in Int /\ cs[k].l <= cs[k].h
      /\ \A i, j \in 1 .. n : i < j /\ cs[i].day = cs[j].day => cs[i].slot < cs[j].slot
      /\ \A i, j \in 1 .. n : cs[i].day \in Int /\ (i <= j => cs[i].day <= cs[j].day)
  BY DEF Market, Ordered
<1>3. n > 0 => /\ cs[n].day <= bar.day
               /\ cs[n].day = bar.day => cs[n].slot < bar.slot
  BY <1>1
<1> HIDE DEF ds, n
<1>4. \A i \in 1 .. n : /\ cs[i].day <= bar.day
                        /\ cs[i].day = bar.day => cs[i].slot < bar.slot
  <2> SUFFICES ASSUME NEW i \in 1 .. n
               PROVE  /\ cs[i].day <= bar.day
                      /\ cs[i].day = bar.day => cs[i].slot < bar.slot
    OBVIOUS
  <2>1. n > 0 /\ n \in 1 .. n /\ i \in Int /\ i <= n /\ (i = n \/ i < n)
    BY <1>1
  <2>2. /\ cs[i].day \in Int /\ cs[n].day \in Int /\ cs[i].day <= cs[n].day
        /\ cs[i].slot \in Int /\ cs[n].slot \in Int
        /\ i < n /\ cs[i].day = cs[n].day => cs[i].slot < cs[n].slot
    BY <1>2, <2>1
  <2> QED
    BY <1>3, <2>1, <2>2
<1>5. \A i \in 1 .. (n + 1) : i \in 1 .. n \/ i = n + 1
  BY <1>1
<1>6. ASSUME NEW i \in 1 .. (n + 1), NEW j \in 1 .. (n + 1)
      PROVE  ds[i].day \in Int /\ (i <= j => ds[i].day <= ds[j].day)
  <2>1. CASE i \in 1 .. n /\ j \in 1 .. n
    <3>1. ds[i] = cs[i] /\ ds[j] = cs[j]
      BY <1>1, <2>1
    <3> QED
      BY <1>2, <2>1, <3>1
  <2>2. CASE i \in 1 .. n /\ j = n + 1
    <3>1. ds[i] = cs[i] /\ ds[j] = bar
      BY <1>1, <2>2
    <3> QED
      BY <1>2, <1>4, <2>2, <3>1
  <2>3. CASE i = n + 1
    <3>1. i <= j => j = n + 1
      BY <1>1, <2>3
    <3>2. ds[n + 1].day \in Int /\ ds[n + 1].day <= ds[n + 1].day
      BY <1>1
    <3> QED
      BY <2>3, <3>1, <3>2
  <2> QED
    BY <1>5, <2>1, <2>2, <2>3
<1>7. ASSUME NEW i \in 1 .. (n + 1), NEW j \in 1 .. (n + 1), i < j, ds[i].day = ds[j].day
      PROVE  ds[i].slot < ds[j].slot
  <2>1. i \in 1 .. n
    BY <1>1, <1>7
  <2>2. ds[i] = cs[i]
    BY <1>1, <2>1
  <2>3. CASE j \in 1 .. n
    <3>1. ds[j] = cs[j]
      BY <1>1, <2>3
    <3> QED
      BY <1>2, <1>7, <2>1, <2>2, <2>3, <3>1
  <2>4. CASE j = n + 1
    <3>1. ds[j] = bar
      BY <1>1, <2>4
    <3> QED
      BY <1>4, <1>7, <2>1, <2>2, <3>1
  <2> QED
    BY <1>5, <2>3, <2>4
<1>8. \A k \in 1 .. (n + 1) : /\ ds[k].o \in Int /\ ds[k].h \in Int /\ ds[k].l \in Int
                              /\ ds[k].c \in Int /\ ds[k].slot \in Int /\ ds[k].l <= ds[k].h
  <2> SUFFICES ASSUME NEW k \in 1 .. (n + 1)
               PROVE  /\ ds[k].o \in Int /\ ds[k].h \in Int /\ ds[k].l \in Int
                      /\ ds[k].c \in Int /\ ds[k].slot \in Int /\ ds[k].l <= ds[k].h
    OBVIOUS
  <2>1. CASE k \in 1 .. n
    <3>1. ds[k] = cs[k]
      BY <1>1, <2>1
    <3> QED
      BY <1>2, <2>1, <3>1
  <2>2. CASE k = n + 1
    <3>1. ds[k] = bar
      BY <1>1, <2>2
    <3> QED
      BY <3>1
  <2> QED
    BY <1>5, <2>1, <2>2
<1>9. Ordered(ds)
  BY <1>1, <1>6 DEF Ordered
<1>10. Market(ds)
  BY <1>1, <1>7, <1>8, <1>9 DEF Market
<1> QED
  BY <1>10 DEF ds

(* Where the next bar opens is a number, so the bar is one of a market.    *)
LEMMA CandleIsBar ==
  ASSUME strategy \in Strategies, NEW shape \in Shapes[strategy], NEW day, NEW slot,
         candles # <<>> => Last.c \in Int
  PROVE  LET bar == Candle(shape, day, slot)
         IN  /\ bar.o \in Int /\ bar.h \in Int /\ bar.l \in Int /\ bar.c \in Int
             /\ bar.l <= bar.h /\ bar.day = day /\ bar.slot = slot
<1> DEFINE open == IF candles = <<>> THEN P.price ELSE Last.c + shape.gap
           close == open + shape.move
           high == Max({open, close})
           low == Min({open, close})
<1>1. /\ P.price \in Int /\ shape.gap \in Int /\ shape.move \in Int
      /\ shape.up \in Nat /\ shape.down \in Nat
  BY PricesAssumption
<1>2. open \in Int
  BY <1>1
<1> HIDE DEF open
<1>3. close \in Int
  BY <1>1, <1>2
<1> HIDE DEF close
<1>4. high \in Int /\ low \in Int /\ low <= high
  <2>1. {open, close} \in SUBSET Int /\ {open, close} # {}
    BY <1>2, <1>3
  <2>2. IsFiniteSet({open, close})
    <3>1. IsFiniteSet({open}) /\ {open, close} = {open} \cup {close}
      BY FS_Singleton
    <3> QED
      BY <3>1, FS_AddElement
  <2>3. /\ high \in {open, close} /\ open <= high
        /\ low \in {open, close} /\ low <= open
    BY <2>1, <2>2, Extremes
  <2> QED
    BY <1>2, <1>3, <2>3
<1> HIDE DEF high, low
<1>5. Candle(shape, day, slot) =
          [o |-> open, c |-> close, h |-> high + shape.up, l |-> low - shape.down,
           vol |-> shape.vol, wild |-> shape.wild, day |-> day, slot |-> slot]
  BY DEF Candle, open, close, high, low
<1> QED
  BY <1>1, <1>2, <1>3, <1>4, <1>5

LEMMA MarketGrows ==
  ASSUME Inv, Market(candles), Next
  PROVE  Market(candles')
<1>1. PICK T : candles \in Seq(T)
  BY DEF Inv
<1>2. strategy \in Strategies
  BY DEF Inv
<1>3. candles # <<>> => Last.c \in Int /\ Last.day \in Int /\ Last.slot \in Int
  <2>1. candles # <<>> => Len(candles) \in 1 .. Len(candles) /\ DOMAIN candles = 1 .. Len(candles)
    BY <1>1
  <2> QED
    BY <2>1 DEF Market, Ordered, Last
<1>4. ASSUME NEW shape \in Shapes[strategy], NEW day \in Int, NEW slot \in Int,
             Store(Candle(shape, day, slot)),
             candles # <<>> => /\ Last.day <= day
                               /\ Last.day = day => Last.slot < slot
      PROVE  Market(candles')
  <2> DEFINE bar == Candle(shape, day, slot)
  <2>1. /\ bar.o \in Int /\ bar.h \in Int /\ bar.l \in Int /\ bar.c \in Int
        /\ bar.l <= bar.h /\ bar.day = day /\ bar.slot = slot
    BY <1>2, <1>3, CandleIsBar
  <2>2. candles' = Append(candles, bar)
    BY <1>4 DEF Store
  <2> HIDE DEF bar
  <2>3. candles # <<>> => LET last == candles[Len(candles)]
                          IN  /\ last.day <= bar.day
                              /\ last.day = bar.day => last.slot < bar.slot
    BY <1>4, <2>1 DEF Last
  <2>4. Market(Append(candles, bar))
    BY <1>1, <2>1, <2>3, MarketAppended
  <2> QED
    BY <2>2, <2>4
<1>5. CASE NextBar
  <2>1. PICK shape \in Shapes[strategy] :
            IF candles = <<>> THEN Store(Candle(shape, 0, 0))
            ELSE Store(Candle(shape, Last.day, Last.slot + 1))
    BY <1>5 DEF NextBar
  <2>2. CASE candles = <<>>
    BY <1>4, <2>1, <2>2
  <2>3. CASE candles # <<>>
    <3>1. /\ Last.day \in Int /\ Last.slot + 1 \in Int /\ Last.day <= Last.day
          /\ Last.slot < Last.slot + 1
      BY <1>3, <2>3
    <3>2. Store(Candle(shape, Last.day, Last.slot + 1))
      BY <2>1, <2>3
    <3> QED
      BY <1>4, <3>1, <3>2
  <2> QED
    BY <2>2, <2>3
<1>6. CASE NextDay
  <2>1. PICK shape \in Shapes[strategy] : Store(Candle(shape, Last.day + 1, 0))
    BY <1>6 DEF NextDay
  <2>2. candles # <<>>
    BY <1>6 DEF NextDay
  <2>3. /\ Last.day + 1 \in Int /\ 0 \in Int /\ Last.day <= Last.day + 1
        /\ Last.day # Last.day + 1
    BY <1>3, <2>2
  <2> QED
    BY <1>4, <2>1, <2>3
<1> QED
  BY <1>5, <1>6 DEF Next

LEMMA MarketHolds ==
  ASSUME \A s \in Strategies : Name(s) \in Causal
  PROVE  Spec => [](Inv /\ Market(candles))
<1>1. Init => Market(candles)
  <2> SUFFICES ASSUME candles = <<>> PROVE Market(candles)
    BY DEF Init
  <2>1. Len(candles) = 0 /\ DOMAIN candles = 1 .. 0
    OBVIOUS
  <2> QED
    BY <2>1 DEF Market, Ordered
<1>2. Inv /\ Market(candles) /\ [Next]_vars => Market(candles)'
  <2> SUFFICES ASSUME Inv, Market(candles), [Next]_vars PROVE Market(candles')
    OBVIOUS
  <2>1. CASE Next
    BY <2>1, MarketGrows
  <2>2. CASE UNCHANGED vars
    BY <2>2 DEF vars
  <2> QED
    BY <2>1, <2>2
<1>3. Spec => []Inv
  BY InvHolds
<1> QED
  BY <1>1, <1>2, <1>3, PTL DEF Spec

(* What a long asks of a bar and what a short asks of it exclude each      *)
(* other in every strategy, so the tick, which opens the first signal of a *)
(* bar, and the backtest, which keeps the last, mean the same one.         *)
THEOREM OneAtATime ==
  ASSUME \A s \in Strategies : Name(s) \in Causal
  PROVE  Spec => []OneSignalPerBar
<1>1. ASSUME Inv, Market(candles) PROVE OneSignalPerBar
  <2>1. Name(strategy) \in Causal /\ backtest = Judge(strategy, candles).signals
    BY <1>1 DEF Inv
  <2>2. Single(backtest)
    BY <1>1, <2>1, JudgeOnce
  <2> QED
    BY <2>2 DEF Single, OneSignalPerBar
<1>2. Spec => [](Inv /\ Market(candles))
  BY MarketHolds
<1> QED
  BY <1>1, <1>2, PTL

(* The signals of a fresh break or cross name their side.                  *)
LEMMA BreaksOnSide ==
  ASSUME NEW cs, NEW s, Name(s) \in {"donchian_breakout", "vol_break", "ema_cross"},
         NEW x \in Judge(s, cs).signals
  PROVE  "side" \in DOMAIN x
<1>1. \A k, side, m, t, h : \A y \in ByAtr(cs, k, side, m, t, h) : "side" \in DOMAIN y
  BY DEF ByAtr, Signal
<1>2. CASE Name(s) = "donchian_breakout"
  <2>1. Judge(s, cs) = DonchianBreakout(cs)
    BY <1>2, Zenon DEF Judge
  <2> QED
    BY <1>1, <2>1 DEF DonchianBreakout, DonchianBreakoutAt, Scan, Strategy
<1>3. CASE Name(s) = "vol_break"
  <2>1. Judge(s, cs) = VolBreak(cs)
    BY <1>3, Zenon DEF Judge
  <2> QED
    BY <1>1, <2>1 DEF VolBreak, VolBreakAt, Scan, Strategy
<1>4. CASE Name(s) = "ema_cross"
  <2>1. Judge(s, cs) = EmaCross(cs)
    BY <1>4, Zenon DEF Judge
  <2> QED
    BY <1>1, <2>1 DEF EmaCross, EmaCrossAt, Scan, Strategy
<1> QED
  BY <1>2, <1>3, <1>4

(* Whether two trades are far enough apart depends on the bars they were   *)
(* made at, and on their sides where the strategy looks at them.           *)
LEMMA SameApart ==
  ASSUME NEW b, NEW c, NEW s, NEW t, Apart(b, c), b.bar = s.bar, c.bar = t.bar,
         Name(strategy) \in {"donchian_breakout", "vol_break", "ema_cross"}
             => b.side = s.side /\ c.side = t.side
  PROVE  Apart(s, t)
<1>1. CASE Name(strategy) \in {"donchian_breakout", "vol_break", "ema_cross"}
  BY <1>1 DEF Apart
<1>2. CASE Name(strategy) \notin {"donchian_breakout", "vol_break", "ema_cross"}
  BY <1>2 DEF Apart
<1> QED
  BY <1>1, <1>2

(* A strategy that trades once per session, day or holding period, or only *)
(* on a fresh break, keeps to it live, although a tick remembers nothing   *)
(* of the ticks before.                                                    *)
THEOREM RestsBetween ==
  ASSUME \A s \in Strategies : Name(s) \in Causal
  PROVE  Spec => []TradesApart
<1>1. ASSUME Inv, Market(candles) PROVE TradesApart
  <2> SUFFICES ASSUME NEW s \in live, NEW t \in live, s.bar < t.bar PROVE Apart(s, t)
    BY DEF TradesApart
  <2>1. backtest = Judge(strategy, candles).signals
    BY <1>1 DEF Inv
  <2>2. PICK b \in backtest : b.bar = s.bar /\ Order(b) = Order(s)
    BY <1>1 DEF Inv, FoundAgain, Due
  <2>3. PICK c \in backtest : c.bar = t.bar /\ Order(c) = Order(t)
    BY <1>1 DEF Inv, FoundAgain, Due
  <2>4. Apart(b, c)
    BY <1>1, <2>1, <2>2, <2>3, JudgeApart
  <2>5. \A x, y : Order(x) = Order(y) /\ "side" \in DOMAIN x => x.side = y.side
    BY DEF Order
  <2>6. Name(strategy) \in {"donchian_breakout", "vol_break", "ema_cross"}
            => b.side = s.side /\ c.side = t.side
    BY <2>1, <2>2, <2>3, <2>5, BreaksOnSide
  <2> QED
    BY <2>2, <2>3, <2>4, <2>6, SameApart
<1>2. Spec => [](Inv /\ Market(candles))
  BY MarketHolds
<1> QED
  BY <1>1, <1>2, PTL

---------------------------------------------------------------------------
(* A signal brackets its entry.  The multiples of the ATR and of the risk  *)
(* are one or more, so that on the grid a distance is not rounded away.    *)
Fits(s) ==
    /\ s.side \in Sides
    /\ Sign(s.side) * (s.entry - s.stop) > 0
    /\ Sign(s.side) * (s.target - s.entry) > 0

Generous == P.stop >= 10 /\ P.target >= 10 /\ P.rr >= 10

LEMMA NumbersAre ==
  /\ P.stop \in Int /\ P.target \in Int /\ P.rr \in Int /\ P.pad \in Int
  /\ P.k \in Int /\ P.zone \in Int /\ P.wide \in Nat /\ P.wide > 0
BY PricesAssumption

LEMMA TenthsAre ==
  ASSUME NEW m \in Int, NEW x \in Int
  PROVE  /\ Tenths(m, x) \in Int
         /\ m >= 10 /\ x > 0 => Tenths(m, x) > 0
<1>1. m * x \in Int
  OBVIOUS
<1>2. (m * x) \div 10 \in Int
  BY <1>1
<1>3. ASSUME m >= 10, x > 0 PROVE (m * x) \div 10 > 0
  <2>1. m * x >= 10
    <3>1. m - 10 \in Nat /\ x \in Nat /\ m - 10 >= 0
      BY <1>3
    <3>2. (m - 10) * x >= 0
      BY <3>1
    <3>3. m * x = (m - 10) * x + 10 * x
      BY <3>1
    <3> QED
      BY <1>3, <3>1, <3>2, <3>3
  <2> DEFINE y == m * x
  <2>2. y \in Int /\ y >= 10
    BY <1>1, <2>1
  <2> HIDE DEF y
  <2>3. y \div 10 > 0
    BY <2>2
  <2> QED
    BY <2>3 DEF y
<1> QED
  BY <1>2, <1>3 DEF Tenths

LEMMA SignIs ==
  ASSUME NEW side
  PROVE  Sign(side) \in {1, -1} /\ Sign(side) \in Int
BY DEF Sign

LEMMA SignedTenths ==
  ASSUME NEW side, NEW price \in Int, NEW d \in Int
  PROVE  /\ price - Sign(side) * d \in Int /\ price + Sign(side) * d \in Int
         /\ Sign(side) * (price - (price - Sign(side) * d)) = d
         /\ Sign(side) * ((price + Sign(side) * d) - price) = d
BY SignIs

(* The range of a bar is a number.                                         *)
LEMMA SizeIs ==
  ASSUME NEW x \in Int
  PROVE  Size(x) \in Int
BY DEF Size

LEMMA RangeIsNumber ==
  ASSUME NEW cs, Market(cs), NEW k \in 1 .. Len(cs)
  PROVE  TrueRange(cs)[k] \in Int
<1> DEFINE Since == IF k = 1 THEN {}
                    ELSE {Size(cs[k].h - cs[k - 1].c), Size(cs[k].l - cs[k - 1].c)}
           T == {cs[k].h - cs[k].l} \cup Since
<1>1. TrueRange(cs)[k] = Max(T)
  BY MarketBars DEF TrueRange
<1>2. cs[k].h - cs[k].l \in Int
  BY MarketBars
<1>3. Since \in SUBSET Int /\ IsFiniteSet(Since)
  <2>1. CASE k = 1
    BY <2>1, FS_EmptySet
  <2>2. CASE k # 1
    <3> DEFINE x == Size(cs[k].h - cs[k - 1].c)
               y == Size(cs[k].l - cs[k - 1].c)
    <3>1. k - 1 \in 1 .. Len(cs)
      BY <2>2, MarketBars
    <3>2. cs[k].h - cs[k - 1].c \in Int /\ cs[k].l - cs[k - 1].c \in Int
      BY <3>1, MarketBars
    <3>3. x \in Int /\ y \in Int
      BY <3>2, SizeIs
    <3>4. Since = {x} \cup {y}
      BY <2>2
    <3> HIDE DEF x, y, Since
    <3>5. IsFiniteSet({x}) /\ IsFiniteSet({y})
      BY FS_Singleton
    <3> QED
      BY <3>3, <3>4, <3>5, FS_Union
  <2> QED
    BY <2>1, <2>2
<1> HIDE DEF Since
<1>4. T \in SUBSET Int /\ IsFiniteSet(T) /\ T # {}
  <2>1. IsFiniteSet({cs[k].h - cs[k].l})
    BY FS_Singleton
  <2>2. IsFiniteSet(T)
    BY <1>3, <2>1, FS_Union
  <2> QED
    BY <1>2, <1>3, <2>2
<1> HIDE DEF T
<1>5. Max(T) \in T
  BY <1>4, Extremes
<1> QED
  BY <1>1, <1>4, <1>5

LEMMA AtrIsNumber ==
  ASSUME NEW cs, Market(cs), NEW k \in 1 .. Len(cs)
  PROVE  AtrWilder(cs, P.atr)[k] \in Int
<1>1. Len(cs) \in Nat /\ DOMAIN TrueRange(cs) = 1 .. Len(cs)
  BY MarketBars DEF TrueRange
<1>2. \A j \in 1 .. Len(cs) : TrueRange(cs)[j] \in Int
  BY RangeIsNumber
<1>3. 1 \in Nat /\ P.atr - 1 \in Nat /\ 1 + (P.atr - 1) > 0
  <2>1. P.atr \in Int /\ P.atr > 0
    BY CountsAreNumbers
  <2> QED
    BY <2>1
<1>4. Smooth(TrueRange(cs), 1, P.atr - 1)[k] \in Int
  BY <1>1, <1>2, <1>3, SmoothIsNumber
<1> QED
  BY <1>4 DEF AtrWilder, Wilder

LEMMA PaddedIsNumber ==
  ASSUME NEW cs, Market(cs), NEW k \in 1 .. Len(cs), NEW side, NEW price \in Int, NEW pad \in Int
  PROVE  Padded(cs, k, side, price, pad) \in Int
<1>1. Tenths(pad, AtrWilder(cs, P.atr)[k]) \in Int
  BY AtrIsNumber, TenthsAre
<1> QED
  BY <1>1, SignedTenths DEF Padded

LEMMA EndsAreNumbers ==
  ASSUME NEW cs, Market(cs), NEW k \in 1 .. Len(cs), NEW side
  PROVE  Adverse(side, cs[k]) \in Int /\ Favourable(side, cs[k]) \in Int
BY MarketBars DEF Adverse, Favourable

(* The extreme of some prices is one of them.                              *)
LEMMA WorstIsNumber ==
  ASSUME NEW T \in SUBSET Int, IsFiniteSet(T), T # {}, NEW side
  PROVE  Worst(side, T) \in Int
BY Extremes DEF Worst

(* The three ways to make a signal.                                        *)
LEMMA ByAtrFits ==
  ASSUME NEW cs, Market(cs), NEW k \in 1 .. Len(cs), NEW side \in Sides,
         NEW m \in Int, m >= 10, NEW t \in Int, t >= 10, NEW h, NEW s \in ByAtr(cs, k, side, m, t, h)
  PROVE  Fits(s)
<1> DEFINE a == AtrWilder(cs, P.atr)[k]
           stop == cs[k].c - Sign(side) * Tenths(m, a)
           target == cs[k].c + Sign(side) * Tenths(t, a)
<1>1. a > 0 /\ s = Signal(k, side, cs[k].c, stop, target, h)
  BY DEF ByAtr
<1>2. a \in Int /\ cs[k].c \in Int
  BY AtrIsNumber, MarketBars
<1>3. /\ Tenths(m, a) \in Int /\ Tenths(m, a) > 0
      /\ Tenths(t, a) \in Int /\ Tenths(t, a) > 0
  BY <1>1, <1>2, TenthsAre
<1>4. Sign(side) * (cs[k].c - stop) > 0 /\ Sign(side) * (target - cs[k].c) > 0
  <2>1. Sign(side) * (cs[k].c - (cs[k].c - Sign(side) * Tenths(m, a))) = Tenths(m, a)
    BY <1>2, <1>3, SignedTenths
  <2>2. Sign(side) * ((cs[k].c + Sign(side) * Tenths(t, a)) - cs[k].c) = Tenths(t, a)
    BY <1>2, <1>3, SignedTenths
  <2> QED
    BY <1>3, <2>1, <2>2
<1> HIDE DEF stop, target
<1>5. s.side = side /\ s.entry = cs[k].c /\ s.stop = stop /\ s.target = target
  BY <1>1 DEF Signal
<1> QED
  BY <1>4, <1>5 DEF Fits

LEMMA ByRiskFits ==
  ASSUME NEW side \in Sides, NEW entry \in Int, NEW stop \in Int, NEW m \in Int, m >= 10,
         NEW k, NEW h, NEW s \in ByRisk(k, side, entry, stop, m, h)
  PROVE  Fits(s)
<1> DEFINE risk == Sign(side) * (entry - stop)
           target == entry + Sign(side) * Tenths(m, risk)
<1>1. risk > 0 /\ s = Signal(k, side, entry, stop, target, h)
  BY DEF ByRisk
<1>2. risk \in Int
  BY SignIs
<1>3. s.side = side /\ s.entry = entry /\ s.stop = stop /\ s.target = target
  BY <1>1 DEF Signal
<1>4. Sign(side) * (target - entry) > 0
  <2> HIDE DEF risk
  <2>1. Tenths(m, risk) \in Int /\ Tenths(m, risk) > 0
    BY <1>1, <1>2, TenthsAre
  <2> QED
    BY <2>1, SignedTenths
<1> QED
  BY <1>1, <1>3, <1>4 DEF Fits

LEMMA ByPositiveStopFits ==
  ASSUME NEW side \in Sides, NEW entry \in Int, NEW stop \in Int, NEW m \in Int, m >= 10,
         NEW k, NEW s \in ByPositiveStop(k, side, entry, stop, m)
  PROVE  Fits(s)
BY ByRiskFits DEF ByPositiveStop


---------------------------------------------------------------------------
(* Every signal of a strategy fits.                                        *)
Fitting(found) == \A s \in found : Fits(s)

LEMMA FittingStrategy ==
  ASSUME NEW cs, NEW needs, NEW found, Fitting(found)
  PROVE  Fitting(Strategy(cs, needs, found).signals)
BY FoundOrNothing DEF Fitting

LEMMA EmaCrossFits ==
  ASSUME NEW cs, Market(cs), Generous
  PROVE  Fitting(EmaCross(cs).signals)
<1> DEFINE first == 2
           Loop == UNION {EmaCrossAt(cs, k, side) : k \in first .. Len(cs), side \in Sides}
<1>1. EmaCross(cs) = Strategy(cs, Max({P.fast, P.slow, P.atr}) + 2, Loop)
  BY DEF EmaCross, Scan
<1>2. first \in Int /\ first >= 2
  BY DEF first
<1> HIDE DEF first
<1>3. ASSUME NEW k \in first .. Len(cs), NEW side \in Sides, NEW s \in EmaCrossAt(cs, k, side)
      PROVE  Fits(s)
  <2>1. k \in 1 .. Len(cs)
    BY <1>2, MarketBars
  <2>2. s \in ByAtr(cs, k, side, P.stop, P.target, 0)
    BY Zenon DEF EmaCrossAt
  <2> QED
    BY <2>1, <2>2, ByAtrFits, NumbersAre DEF Generous
<1>4. Fitting(Loop)
  BY <1>3 DEF Fitting
<1> HIDE DEF Loop
<1> QED
  BY <1>1, <1>4, FittingStrategy

LEMMA DonchianBreakoutFits ==
  ASSUME NEW cs, Market(cs), Generous
  PROVE  Fitting(DonchianBreakout(cs).signals)
<1> DEFINE first == 2
           Loop == UNION {DonchianBreakoutAt(cs, k, side) : k \in first .. Len(cs), side \in Sides}
<1>1. DonchianBreakout(cs) = Strategy(cs, Max({P.period, P.atr}) + 2, Loop)
  BY DEF DonchianBreakout, Scan
<1>2. first \in Int /\ first >= 2
  BY DEF first
<1> HIDE DEF first
<1>3. ASSUME NEW k \in first .. Len(cs), NEW side \in Sides, NEW s \in DonchianBreakoutAt(cs, k, side)
      PROVE  Fits(s)
  <2>1. k \in 1 .. Len(cs)
    BY <1>2, MarketBars
  <2>2. s \in ByAtr(cs, k, side, P.stop, P.target, 0)
    BY Zenon DEF DonchianBreakoutAt
  <2> QED
    BY <2>1, <2>2, ByAtrFits, NumbersAre DEF Generous
<1>4. Fitting(Loop)
  BY <1>3 DEF Fitting
<1> HIDE DEF Loop
<1> QED
  BY <1>1, <1>4, FittingStrategy

LEMMA VolBreakFits ==
  ASSUME NEW cs, Market(cs), Generous
  PROVE  Fitting(VolBreak(cs).signals)
<1> DEFINE first == 2
           Loop == UNION {VolBreakAt(cs, k, side) : k \in first .. Len(cs), side \in Sides}
<1>1. VolBreak(cs) = Strategy(cs, Max({P.period, P.atr, P.volWindow}) + 2, Loop)
  BY DEF VolBreak, Scan
<1>2. first \in Int /\ first >= 2
  BY DEF first
<1> HIDE DEF first
<1>3. ASSUME NEW k \in first .. Len(cs), NEW side \in Sides, NEW s \in VolBreakAt(cs, k, side)
      PROVE  Fits(s)
  <2>1. k \in 1 .. Len(cs)
    BY <1>2, MarketBars
  <2>2. s \in ByAtr(cs, k, side, P.stop, P.target, 0)
    BY Zenon DEF VolBreakAt
  <2> QED
    BY <2>1, <2>2, ByAtrFits, NumbersAre DEF Generous
<1>4. Fitting(Loop)
  BY <1>3 DEF Fitting
<1> HIDE DEF Loop
<1> QED
  BY <1>1, <1>4, FittingStrategy

LEMMA RsiMeanRevFits ==
  ASSUME NEW cs, Market(cs), Generous
  PROVE  Fitting(RsiMeanRev(cs).signals)
<1> DEFINE first == 3
           Loop == UNION {RsiMeanRevAt(cs, k, side) : k \in first .. Len(cs), side \in Sides}
<1>1. RsiMeanRev(cs) = Strategy(cs, Max({P.rsi, P.atr}) + 2, Loop)
  BY DEF RsiMeanRev, Scan
<1>2. first \in Int /\ first >= 3
  BY DEF first
<1> HIDE DEF first
<1>3. ASSUME NEW k \in first .. Len(cs), NEW side \in Sides, NEW s \in RsiMeanRevAt(cs, k, side)
      PROVE  Fits(s)
  <2>1. k \in 1 .. Len(cs)
    BY <1>2, MarketBars
  <2>2. s \in ByAtr(cs, k, side, P.stop, P.target, 0)
    BY Zenon DEF RsiMeanRevAt
  <2> QED
    BY <2>1, <2>2, ByAtrFits, NumbersAre DEF Generous
<1>4. Fitting(Loop)
  BY <1>3 DEF Fitting
<1> HIDE DEF Loop
<1> QED
  BY <1>1, <1>4, FittingStrategy

LEMMA IbsFits ==
  ASSUME NEW cs, Market(cs), Generous
  PROVE  Fitting(Ibs(cs).signals)
<1> DEFINE Loop == UNION {IbsAt(cs, k) : k \in 3 .. Len(cs)}
<1>1. Ibs(cs) = Strategy(cs, Max({P.atr + 2, 3}), Loop)
  BY DEF Ibs
<1>2. ASSUME NEW k \in 3 .. Len(cs), NEW s \in IbsAt(cs, k)
      PROVE  Fits(s)
  <2>1. k \in 1 .. Len(cs) /\ "LONG" \in Sides
    BY MarketBars DEF Sides
  <2>2. s \in ByAtr(cs, k, "LONG", P.stop, P.target, P.hold)
    BY Zenon DEF IbsAt
  <2> QED
    BY <2>1, <2>2, ByAtrFits, NumbersAre DEF Generous
<1>3. Fitting(Loop)
  BY <1>2 DEF Fitting
<1> HIDE DEF Loop
<1> QED
  BY <1>1, <1>3, FittingStrategy

LEMMA EmaPullbackFits ==
  ASSUME NEW cs, Market(cs), Generous
  PROVE  Fitting(EmaPullback(cs).signals)
<1> DEFINE first == 2
           Loop == UNION {EmaPullbackAt(cs, k, side) : k \in first .. Len(cs), side \in Sides}
<1>1. EmaPullback(cs) = Strategy(cs, Max({P.fast, P.slow, P.atr}) + 2, Loop)
  BY DEF EmaPullback, Scan
<1>2. first \in Int /\ first >= 2
  BY DEF first
<1> HIDE DEF first
<1>3. ASSUME NEW k \in first .. Len(cs), NEW side \in Sides, NEW s \in EmaPullbackAt(cs, k, side)
      PROVE  Fits(s)
  <2>1. k \in 1 .. Len(cs)
    BY <1>2, MarketBars
  <2> DEFINE stop == Padded(cs, k, side, Adverse(side, cs[k]), P.pad)
  <2>2. s \in ByPositiveStop(k, side, cs[k].c, stop, P.rr)
    BY Zenon DEF EmaPullbackAt
  <2>3. stop \in Int /\ cs[k].c \in Int
    BY <2>1, EndsAreNumbers, MarketBars, PaddedIsNumber, NumbersAre
  <2> HIDE DEF stop
  <2> QED
    BY <2>2, <2>3, ByPositiveStopFits, NumbersAre DEF Generous
<1>4. Fitting(Loop)
  BY <1>3 DEF Fitting
<1> HIDE DEF Loop
<1> QED
  BY <1>1, <1>4, FittingStrategy

LEMMA TrendPullbackFits ==
  ASSUME NEW cs, Market(cs), Generous
  PROVE  Fitting(TrendPullback(cs).signals)
<1> DEFINE first == Max({P.fast, P.mid, P.slow, P.atr}) + 2 + 1
           Loop == UNION {TrendPullbackAt(cs, k, side) : k \in first .. Len(cs), side \in Sides}
<1>1. TrendPullback(cs) = Strategy(cs, Max({P.fast, P.mid, P.slow, P.atr}) + 2, Loop)
  BY DEF TrendPullback, Scan
<1>2. first \in Int /\ first >= 2
  <2>1. Max({P.fast, P.mid, P.slow, P.atr}) \in Int /\ Max({P.fast, P.mid, P.slow, P.atr}) >= P.fast
    BY NeedsAreNumbers
  <2>2. P.fast \in Int /\ P.fast > 0
    BY CountsAreNumbers
  <2> QED
    BY <2>1, <2>2 DEF first
<1> HIDE DEF first
<1>3. ASSUME NEW k \in first .. Len(cs), NEW side \in Sides, NEW s \in TrendPullbackAt(cs, k, side)
      PROVE  Fits(s)
  <2>1. k \in 1 .. Len(cs)
    BY <1>2, MarketBars
  <2> DEFINE stop == Padded(cs, k, side, Adverse(side, cs[k]), P.pad)
  <2>2. s \in ByPositiveStop(k, side, cs[k].c, stop, P.rr)
    BY Zenon DEF TrendPullbackAt
  <2>3. stop \in Int /\ cs[k].c \in Int
    BY <2>1, EndsAreNumbers, MarketBars, PaddedIsNumber, NumbersAre
  <2> HIDE DEF stop
  <2> QED
    BY <2>2, <2>3, ByPositiveStopFits, NumbersAre DEF Generous
<1>4. Fitting(Loop)
  BY <1>3 DEF Fitting
<1> HIDE DEF Loop
<1> QED
  BY <1>1, <1>4, FittingStrategy

LEMMA EngulfingAtExtremeFits ==
  ASSUME NEW cs, Market(cs), Generous
  PROVE  Fitting(EngulfingAtExtreme(cs).signals)
<1> DEFINE first == Max({3 * P.rsi, 3 * P.atr, 2 * P.regime, P.warm}) + 1
           Loop == UNION {EngulfingAtExtremeAt(cs, k, side) : k \in first .. Len(cs), side \in Sides}
<1>1. EngulfingAtExtreme(cs) = Strategy(cs, Max({3 * P.rsi, 3 * P.atr, 2 * P.regime, P.warm}) + 2, Loop)
  BY DEF EngulfingAtExtreme, Scan
<1>2. first \in Int /\ first >= 2
  <2>1. Max({3 * P.rsi, 3 * P.atr, 2 * P.regime, P.warm}) \in Int /\ Max({3 * P.rsi, 3 * P.atr, 2 * P.regime, P.warm}) >= P.warm
    BY NeedsAreNumbers
  <2>2. P.warm \in Int /\ P.warm > 0
    BY CountsAreNumbers
  <2> QED
    BY <2>1, <2>2 DEF first
<1> HIDE DEF first
<1>3. ASSUME NEW k \in first .. Len(cs), NEW side \in Sides, NEW s \in EngulfingAtExtremeAt(cs, k, side)
      PROVE  Fits(s)
  <2>1. k \in 1 .. Len(cs)
    BY <1>2, MarketBars
  <2> DEFINE stop == Padded(cs, k, side, Adverse(side, cs[k]), P.pad)
  <2>2. s \in ByRisk(k, side, cs[k].c, stop, P.rr, 0)
    BY Zenon DEF EngulfingAtExtremeAt
  <2>3. stop \in Int /\ cs[k].c \in Int
    BY <2>1, EndsAreNumbers, MarketBars, PaddedIsNumber, NumbersAre
  <2> HIDE DEF stop
  <2> QED
    BY <2>2, <2>3, ByRiskFits, NumbersAre DEF Generous
<1>4. Fitting(Loop)
  BY <1>3 DEF Fitting
<1> HIDE DEF Loop
<1> QED
  BY <1>1, <1>4, FittingStrategy

LEMMA InsideBarFits ==
  ASSUME NEW cs, Market(cs), Generous
  PROVE  Fitting(InsideBar(cs).signals)
<1> DEFINE first == 3
           Loop == UNION {InsideBarAt(cs, k, side) : k \in first .. Len(cs), side \in Sides}
<1>1. InsideBar(cs) = Strategy(cs, 3, Loop)
  BY DEF InsideBar, Scan
<1>2. first \in Int /\ first >= 3
  BY DEF first
<1> HIDE DEF first
<1>3. ASSUME NEW k \in first .. Len(cs), NEW side \in Sides, NEW s \in InsideBarAt(cs, k, side)
      PROVE  Fits(s)
  <2>1. k \in 1 .. Len(cs)
    BY <1>2, MarketBars
  <2>2. s \in ByRisk(k, side, cs[k].c, Adverse(side, cs[k - 1]), P.rr, 0)
    BY Zenon DEF InsideBarAt
  <2>3. k - 1 \in 1 .. Len(cs)
    BY <1>2, MarketBars
  <2>4. Adverse(side, cs[k - 1]) \in Int /\ cs[k].c \in Int
    BY <2>1, <2>3, EndsAreNumbers, MarketBars
  <2> QED
    BY <2>2, <2>4, ByRiskFits, NumbersAre DEF Generous
<1>4. Fitting(Loop)
  BY <1>3 DEF Fitting
<1> HIDE DEF Loop
<1> QED
  BY <1>1, <1>4, FittingStrategy

LEMMA TriggerIsNumber ==
  ASSUME NEW cs, Market(cs), NEW k \in 2 .. Len(cs), NEW side
  PROVE  Trigger(cs, k, side) \in Int
<1>1. k \in 1 .. Len(cs) /\ k - 1 \in 1 .. Len(cs)
  BY MarketBars
<1>2. cs[k].o \in Int /\ cs[k - 1].h - cs[k - 1].l \in Int
  BY <1>1, MarketBars
<1>3. Tenths(P.k, cs[k - 1].h - cs[k - 1].l) \in Int
  BY <1>2, TenthsAre, NumbersAre
<1> QED
  BY <1>2, <1>3, SignedTenths DEF Trigger

LEMMA VolBreakoutFits ==
  ASSUME NEW cs, Market(cs), Generous
  PROVE  Fitting(VolBreakout(cs).signals)
<1> DEFINE first == 2
           Loop == UNION {VolBreakoutAt(cs, k, side) : k \in first .. Len(cs), side \in Sides}
<1>1. VolBreakout(cs) = Strategy(cs, 3, Loop)
  BY DEF VolBreakout, Scan
<1>2. first \in Int /\ first >= 2
  BY DEF first
<1> HIDE DEF first
<1>3. ASSUME NEW k \in first .. Len(cs), NEW side \in Sides, NEW s \in VolBreakoutAt(cs, k, side)
      PROVE  Fits(s)
  <2>1. s \in ByRisk(k, side, Trigger(cs, k, side), Trigger(cs, k, Other(side)), P.rr, 0)
    BY Zenon DEF VolBreakoutAt
  <2>2. k \in 2 .. Len(cs)
    BY <1>2, MarketBars
  <2>3. Trigger(cs, k, side) \in Int /\ Trigger(cs, k, Other(side)) \in Int
    BY <2>2, TriggerIsNumber
  <2> QED
    BY <2>1, <2>3, ByRiskFits, NumbersAre DEF Generous
<1>4. Fitting(Loop)
  BY <1>3 DEF Fitting
<1> HIDE DEF Loop
<1> QED
  BY <1>1, <1>4, FittingStrategy

(* A target at the middle band lies ahead.                                 *)
LEMMA ToMidAhead ==
  ASSUME NEW cs, NEW k, NEW side, NEW stop, NEW s \in ToMid(cs, k, side, stop)
  PROVE  /\ s.side = side /\ s.entry = cs[k].c /\ s.stop = stop
         /\ Sign(side) * (s.target - s.entry) > 0
<1>1. s = Signal(k, side, cs[k].c, stop, Mid(cs, k), 0) /\ Sign(side) * (s.target - s.entry) > 0
  BY DEF ToMid
<1> QED
  BY <1>1 DEF Signal

LEMMA BBandsMeanRevFits ==
  ASSUME NEW cs, Market(cs), Generous
  PROVE  Fitting(BBandsMeanRev(cs).signals)
<1> DEFINE first == P.bb + 1
           Loop == UNION {BBandsMeanRevAt(cs, k, side) : k \in first .. Len(cs), side \in Sides}
<1>1. BBandsMeanRev(cs) = Strategy(cs, Max({P.bb, P.atr}) + 2, Loop)
  BY DEF BBandsMeanRev, Scan
<1>2. first \in Int /\ first >= 1
  BY CountsAreNumbers DEF first
<1> HIDE DEF first
<1>3. ASSUME NEW k \in first .. Len(cs), NEW side \in Sides, NEW s \in BBandsMeanRevAt(cs, k, side)
      PROVE  Fits(s)
  <2>1. k \in 1 .. Len(cs)
    BY <1>2, MarketBars
  <2> DEFINE stop == Padded(cs, k, side, cs[k].c, P.stop)
             a == AtrWilder(cs, P.atr)[k]
  <2>2. s \in ToMid(cs, k, side, stop) /\ a > 0
    BY DEF BBandsMeanRevAt
  <2>3. /\ s.side = side /\ s.entry = cs[k].c /\ s.stop = stop
        /\ Sign(side) * (s.target - s.entry) > 0
    BY <2>2, ToMidAhead
  <2>4. a \in Int /\ cs[k].c \in Int
    BY <2>1, AtrIsNumber, MarketBars
  <2>5. Tenths(P.stop, a) \in Int /\ Tenths(P.stop, a) > 0
    BY <2>2, <2>4, TenthsAre, NumbersAre DEF Generous
  <2>6. Sign(side) * (cs[k].c - (cs[k].c - Sign(side) * Tenths(P.stop, a))) = Tenths(P.stop, a)
    BY <2>4, <2>5, SignedTenths
  <2>7. Sign(side) * (cs[k].c - stop) > 0
    BY <2>5, <2>6 DEF Padded
  <2> QED
    BY <2>3, <2>7 DEF Fits
<1>4. Fitting(Loop)
  BY <1>3 DEF Fitting
<1> HIDE DEF Loop
<1> QED
  BY <1>1, <1>4, FittingStrategy

LEMMA RangeReversalFits ==
  ASSUME NEW cs, Market(cs), Generous
  PROVE  Fitting(RangeReversal(cs).signals)
<1> DEFINE first == Max({P.bb, P.atr, P.rsi}) + 2 + 1
           Loop == UNION {RangeReversalAt(cs, k, side) : k \in first .. Len(cs), side \in Sides}
<1>1. RangeReversal(cs) = Strategy(cs, Max({P.bb, P.atr, P.rsi}) + 2, Loop)
  BY DEF RangeReversal, Scan
<1>2. first \in Int /\ first >= 1
  <2>1. Max({P.bb, P.atr, P.rsi}) \in Int /\ Max({P.bb, P.atr, P.rsi}) >= P.bb
    BY NeedsAreNumbers
  <2>2. P.bb \in Int /\ P.bb > 0
    BY CountsAreNumbers
  <2> QED
    BY <2>1, <2>2 DEF first
<1> HIDE DEF first
<1>3. ASSUME NEW k \in first .. Len(cs), NEW side \in Sides, NEW s \in RangeReversalAt(cs, k, side)
      PROVE  Fits(s)
  <2> DEFINE stop == Padded(cs, k, side, Band(cs, k, side), P.pad)
  <2>1. s \in ToMid(cs, k, side, stop) /\ Sign(side) * (s.entry - s.stop) > 0
    BY DEF RangeReversalAt
  <2>2. s.side = side /\ Sign(side) * (s.target - s.entry) > 0
    BY <2>1, ToMidAhead
  <2> QED
    BY <2>1, <2>2 DEF Fits
<1>4. Fitting(Loop)
  BY <1>3 DEF Fitting
<1> HIDE DEF Loop
<1> QED
  BY <1>1, <1>4, FittingStrategy

LEMMA First30MeanRevFits ==
  ASSUME NEW cs, Market(cs), Generous
  PROVE  Fitting(First30MeanRev(cs).signals)
<1> DEFINE first == 2
           Loop == UNION {First30MeanRevAt(cs, k, side) : k \in first .. Len(cs), side \in Sides}
<1>1. First30MeanRev(cs) = Strategy(cs, P.atr + 2, Loop)
  BY DEF First30MeanRev, Scan
<1>2. first \in Int /\ first >= 2
  BY DEF first
<1> HIDE DEF first
<1>3. ASSUME NEW k \in first .. Len(cs), NEW side \in Sides, NEW s \in First30MeanRevAt(cs, k, side)
      PROVE  Fits(s)
  <2>1. k \in 1 .. Len(cs)
    BY <1>2, MarketBars
  <2> DEFINE stop == Padded(cs, k, side, cs[k].c, P.stop)
             a == AtrWilder(cs, P.atr)[k]
             target == cs[k - 1].o
  <2>2. /\ s = Signal(k, side, cs[k].c, stop, target, P.hold) /\ a > 0
        /\ Sign(side) * (target - cs[k].c) > 0
    BY DEF First30MeanRevAt
  <2>3. s.side = side /\ s.entry = cs[k].c /\ s.stop = stop /\ s.target = target
    BY <2>2 DEF Signal
  <2>4. a \in Int /\ cs[k].c \in Int
    BY <2>1, AtrIsNumber, MarketBars
  <2>5. Tenths(P.stop, a) \in Int /\ Tenths(P.stop, a) > 0
    BY <2>2, <2>4, TenthsAre, NumbersAre DEF Generous
  <2>6. Sign(side) * (cs[k].c - (cs[k].c - Sign(side) * Tenths(P.stop, a))) = Tenths(P.stop, a)
    BY <2>4, <2>5, SignedTenths
  <2>7. Sign(side) * (cs[k].c - stop) > 0
    BY <2>5, <2>6 DEF Padded
  <2> QED
    BY <2>2, <2>3, <2>7 DEF Fits
<1>4. Fitting(Loop)
  BY <1>3 DEF Fitting
<1> HIDE DEF Loop
<1> QED
  BY <1>1, <1>4, FittingStrategy

---------------------------------------------------------------------------
(* The worst end of some bars is a number.                                 *)
LEMMA WorstEndIsNumber ==
  ASSUME NEW cs, Market(cs), NEW B \in SUBSET (1 .. Len(cs)), NEW side, NEW price \in Int,
         NEW T, T = {Adverse(side, cs[j]) : j \in B}
  PROVE  /\ B # {} => Worst(side, T) \in Int
         /\ Worst(side, {price} \cup T) \in Int
<1> DEFINE f == [j \in B |-> Adverse(side, cs[j])]
<1>1. IsFiniteSet(B)
  <2>1. Len(cs) \in Int /\ 1 \in Int
    BY MarketBars
  <2>2. IsFiniteSet(1 .. Len(cs))
    BY <2>1, FS_Interval
  <2> QED
    BY <2>2, FS_Subset
<1>2. T \in SUBSET Int
  BY EndsAreNumbers
<1>3. IsFiniteSet(T)
  <2>1. f \in Surjection(B, T)
    BY DEF Surjection
  <2> HIDE DEF f
  <2> QED
    BY <1>1, <2>1, FS_Surjection
<1>4. B # {} => T # {}
  OBVIOUS
<1>5. B # {} => Worst(side, T) \in Int
  BY <1>2, <1>3, <1>4, WorstIsNumber
<1>6. Worst(side, {price} \cup T) \in Int
  <2>1. IsFiniteSet({price}) /\ {price} \in SUBSET Int
    BY FS_Singleton
  <2>2. IsFiniteSet({price} \cup T) /\ {price} \cup T \in SUBSET Int /\ {price} \cup T # {}
    BY <1>2, <1>3, <2>1, FS_Union
  <2> QED
    BY <2>2, WorstIsNumber
<1> QED
  BY <1>5, <1>6

LEMMA SpreadPullbackFits ==
  ASSUME NEW cs, Market(cs), Generous, NEW side \in Sides
  PROVE  Fitting(SpreadPullback(cs, side).signals)
<1> DEFINE first == P.slow + P.start + 1
           Loop == UNION {SpreadPullbackAt(cs, k, side) : k \in first .. Len(cs)}
<1>1. SpreadPullback(cs, side) = Strategy(cs, Max({P.slow, P.atr}) + P.start, Loop)
  BY DEF SpreadPullback
<1>2. first \in Int /\ first >= 1
  BY CountsAreNumbers DEF first
<1> HIDE DEF first
<1>3. ASSUME NEW k \in first .. Len(cs), NEW s \in SpreadPullbackAt(cs, k, side)
      PROVE  Fits(s)
  <2>1. k \in 1 .. Len(cs)
    BY <1>2, MarketBars
  <2> DEFINE stop == Padded(cs, k, side, Adverse(side, cs[k]), P.pad)
  <2>2. s \in ByPositiveStop(k, side, Closes(cs)[k], stop, P.rr)
    BY Zenon DEF SpreadPullbackAt
  <2>3. stop \in Int /\ Closes(cs)[k] \in Int
    BY <2>1, EndsAreNumbers, MarketBars, PaddedIsNumber, NumbersAre
  <2> HIDE DEF stop
  <2> QED
    BY <2>2, <2>3, ByPositiveStopFits, NumbersAre DEF Generous
<1>4. Fitting(Loop)
  BY <1>3 DEF Fitting
<1> HIDE DEF Loop
<1> QED
  BY <1>1, <1>4, FittingStrategy

LEMMA LevelBounceFits ==
  ASSUME NEW cs, Market(cs), Generous, NEW side \in Sides, NEW variant
  PROVE  Fitting(LevelBounce(cs, side, variant).signals)
<1> DEFINE first == P.warm + 1
           Loop == UNION {LevelBounceAt(cs, k, side, variant) : k \in first .. Len(cs)}
<1>1. LevelBounce(cs, side, variant) = Strategy(cs, P.warm, Loop)
  BY DEF LevelBounce
<1>2. first \in Int /\ first >= 1
  BY CountsAreNumbers DEF first
<1> HIDE DEF first
<1>3. ASSUME NEW k \in first .. Len(cs), NEW s \in LevelBounceAt(cs, k, side, variant)
      PROVE  Fits(s)
  <2>1. k \in 1 .. Len(cs)
    BY <1>2, MarketBars
  <2> DEFINE m == Min(Touched(cs, side, k))
             stop == Padded(cs, k, side, Adverse(side, cs[m]), P.pad)
  <2>2. s \in ByPositiveStop(k, side, cs[k].c, stop, P.rr) /\ Touched(cs, side, k) # {}
    BY DEF LevelBounceAt
  <2>3. m \in 1 .. Len(cs)
    <3>1. Touched(cs, side, k) \subseteq 1 .. Len(cs)
      BY <2>1, MarketBars, TouchedSame
    <3>2. Touched(cs, side, k) \in SUBSET Nat
      BY <3>1, MarketBars
    <3> QED
      BY <2>2, <3>1, <3>2, MinIn
  <2> HIDE DEF m
  <2>4. stop \in Int /\ cs[k].c \in Int
    BY <2>1, <2>3, EndsAreNumbers, MarketBars, PaddedIsNumber, NumbersAre
  <2> HIDE DEF stop
  <2> QED
    BY <2>2, <2>4, ByPositiveStopFits, NumbersAre DEF Generous
<1>4. Fitting(Loop)
  BY <1>3 DEF Fitting
<1> HIDE DEF Loop
<1> QED
  BY <1>1, <1>4, FittingStrategy

(* The week before has a bar, so its extreme is a price.                   *)
LEMMA WeekLevelIsNumber ==
  ASSUME NEW cs, Market(cs), NEW k \in 1 .. Len(cs), NEW side, Earlier(cs, k) # {}
  PROVE  LastWeekLevel(cs, k, side) \in Int
<1> DEFINE Weeks == {WeekOf(cs[j]) : j \in Earlier(cs, k)}
           B == {i \in DOMAIN cs : WeekOf(cs[i]) = Max(Weeks)}
<1>1. LastWeekLevel(cs, k, side) = Worst(side, {Adverse(side, cs[j]) : j \in B})
  BY Zenon DEF LastWeekLevel
<1>2. Earlier(cs, k) \in SUBSET (1 .. Len(cs)) /\ DOMAIN cs = 1 .. Len(cs) /\ Len(cs) \in Nat
  BY MarketBars DEF Earlier
<1>3. Weeks \in SUBSET Int
  <2>1. P.week \in Int /\ P.week > 0
    BY CountsAreNumbers
  <2>2. \A j \in 1 .. Len(cs) : cs[j].day \in Int
    BY <1>2 DEF Market, Ordered
  <2>3. \A j \in 1 .. Len(cs) : WeekOf(cs[j]) \in Int
    BY <2>1, <2>2 DEF WeekOf
  <2> QED
    BY <1>2, <2>3
<1>4. IsFiniteSet(Weeks) /\ Weeks # {}
  <2>1. IsFiniteSet(1 .. Len(cs))
    BY <1>2, FS_Interval
  <2>2. IsFiniteSet(Earlier(cs, k))
    BY <1>2, <2>1, FS_Subset
  <2> DEFINE f == [j \in Earlier(cs, k) |-> WeekOf(cs[j])]
  <2>3. f \in Surjection(Earlier(cs, k), Weeks)
    BY DEF Surjection
  <2> HIDE DEF f
  <2>4. IsFiniteSet(Weeks)
    BY <2>2, <2>3, FS_Surjection
  <2> QED
    BY <2>4
<1>5. Max(Weeks) \in Weeks
  <2> HIDE DEF Weeks
  <2> QED
    BY <1>3, <1>4, Extremes
<1>6. B # {} /\ B \in SUBSET (1 .. Len(cs))
  BY <1>2, <1>5
<1> HIDE DEF B
<1> DEFINE T == {Adverse(side, cs[j]) : j \in B}
<1>7. LastWeekLevel(cs, k, side) = Worst(side, T)
  BY <1>1
<1>8. T = {Adverse(side, cs[j]) : j \in B}
  OBVIOUS
<1> HIDE DEF T
<1>9. 0 \in Int
  OBVIOUS
<1>10. Worst(side, T) \in Int
  BY <1>6, <1>8, <1>9, WorstEndIsNumber
<1> QED
  BY <1>7, <1>10

LEMMA LastWeekFits ==
  ASSUME NEW cs, Market(cs), Generous, NEW side \in Sides
  PROVE  Fitting(LastWeek(cs, side).signals)
<1> DEFINE first == P.start + 1
           Loop == UNION {LastWeekAt(cs, k, side) : k \in first .. Len(cs)}
<1>1. LastWeek(cs, side) = Strategy(cs, P.warm, Loop)
  BY DEF LastWeek
<1>2. first \in Int /\ first >= 1
  BY CountsAreNumbers DEF first
<1> HIDE DEF first
<1>3. ASSUME NEW k \in first .. Len(cs), NEW s \in LastWeekAt(cs, k, side)
      PROVE  Fits(s)
  <2>1. k \in 1 .. Len(cs)
    BY <1>2, MarketBars
  <2> DEFINE level == LastWeekLevel(cs, k, side)
             stop == Padded(cs, k, side, level, P.pad)
  <2>2. s \in ByPositiveStop(k, side, cs[k].c, stop, P.rr) /\ Earlier(cs, k) # {}
    BY DEF LastWeekAt
  <2>3. level \in Int
    BY <2>1, <2>2, WeekLevelIsNumber
  <2> HIDE DEF level
  <2>4. stop \in Int /\ cs[k].c \in Int
    BY <2>1, <2>3, MarketBars, PaddedIsNumber, NumbersAre
  <2> HIDE DEF stop
  <2> QED
    BY <2>2, <2>4, ByPositiveStopFits, NumbersAre DEF Generous
<1>4. Fitting(Loop)
  BY <1>3 DEF Fitting
<1> HIDE DEF Loop
<1> QED
  BY <1>1, <1>4, FittingStrategy

LEMMA PivotReactionZoneFits ==
  ASSUME NEW cs, Market(cs), Generous
  PROVE  Fitting(PivotReactionZone(cs).signals)
<1> DEFINE first == ZoneWarm + 1
           Loop == UNION {PivotReactionZoneAt(cs, k, side) : k \in first .. Len(cs), side \in Sides}
<1>1. PivotReactionZone(cs) = Strategy(cs, ZoneWarm + 2, Loop)
  BY DEF PivotReactionZone, Scan
<1>2. first \in Int /\ first >= 1
  <2>1. ZoneWarm \in Int /\ ZoneWarm >= P.warm
    BY NeedsAreNumbers
  <2>2. P.warm \in Int /\ P.warm > 0
    BY CountsAreNumbers
  <2> QED
    BY <2>1, <2>2 DEF first
<1> HIDE DEF first
<1>3. ASSUME NEW k \in first .. Len(cs), NEW side \in Sides, NEW s \in PivotReactionZoneAt(cs, k, side)
      PROVE  Fits(s)
  <2>1. k \in 1 .. Len(cs)
    BY <1>2, MarketBars
  <2>2. PICK j \in Ready(cs, k, side) : s \in ZoneEntry(cs, k, side, j)
    BY DEF PivotReactionZoneAt
  <2>3. j \in 1 .. Len(cs)
    <3>1. Zones(cs, k, side) \subseteq 1 .. Len(cs)
      BY <2>1, MarketBars, ZonesSame
    <3> QED
      BY <3>1 DEF Ready
  <2> DEFINE edge == (Adverse(side, cs[j]) * (1000 - Sign(side) * P.zone)) \div 1000
             stop == Padded(cs, k, side, edge, P.pad)
  <2>4. s \in ByRisk(k, side, cs[k].c, stop, P.rr, 0)
    BY <2>2, Zenon DEF ZoneEntry
  <2>5. edge \in Int
    <3>1. Adverse(side, cs[j]) \in Int /\ P.zone \in Int
      BY <2>3, EndsAreNumbers, NumbersAre
    <3>2. 1000 - Sign(side) * P.zone \in Int
      BY <3>1, SignIs
    <3>3. Adverse(side, cs[j]) * (1000 - Sign(side) * P.zone) \in Int
      BY <3>1, <3>2
    <3> QED
      BY <3>3
  <2> HIDE DEF edge
  <2>6. stop \in Int /\ cs[k].c \in Int
    BY <2>1, <2>5, MarketBars, PaddedIsNumber, NumbersAre
  <2> HIDE DEF stop
  <2> QED
    BY <2>4, <2>6, ByRiskFits, NumbersAre DEF Generous
<1>4. Fitting(Loop)
  BY <1>3 DEF Fitting
<1> HIDE DEF Loop
<1> QED
  BY <1>1, <1>4, FittingStrategy

(* The bars of an opening range that was broken out of are there.          *)
LEMMA OrbFits ==
  ASSUME NEW cs, Market(cs), Generous
  PROVE  Fitting(Orb(cs).signals)
<1> SUFFICES ASSUME NEW x \in Orb(cs).signals PROVE Fits(x)
  BY DEF Fitting
<1>1. PICK s \in Sessions(cs), side \in Sides : x \in OrbIn(cs, s, side)
  BY OrbFound
<1>2. s \in 1 .. Len(cs) /\ Len(cs) \in Nat
  BY MarketBars DEF Sessions
<1> DEFINE k == Min(OrbBreaks(cs, s))
           stop == Opposite(cs, s, side)
           h == Max({1, SessionEnd(cs, s) - k})
<1>3. x \in ByRisk(k, side, cs[k].c, stop, P.rr, h) /\ OrbBreaks(cs, s) # {}
  BY <1>1 DEF OrbIn
<1>4. k \in 1 .. Len(cs) /\ s + P.orBars <= k
  <2>1. OrbBreaks(cs, s) \in SUBSET Nat
    BY <1>2, OrbBars
  <2>2. k \in OrbBreaks(cs, s)
    BY <1>3, <2>1, MinIn
  <2> QED
    BY <1>2, <2>2, OrbBars
<1> HIDE DEF k
<1>5. stop \in Int
  <2> DEFINE B == s .. (s + P.orBars - 1)
  <2>1. P.orBars \in Int /\ P.orBars > 0
    BY CountsAreNumbers
  <2>2. B \in SUBSET (1 .. Len(cs)) /\ B # {}
    <3>1. s \in Int /\ k \in Int /\ s >= 1 /\ k <= Len(cs)
      BY <1>2, <1>4
    <3>2. \A j \in B : j \in 1 .. Len(cs)
      BY <1>2, <1>4, <2>1, <3>1
    <3>3. s \in B
      BY <2>1, <3>1
    <3> HIDE DEF B
    <3> QED
      BY <3>2, <3>3
  <2> DEFINE T == {Adverse(side, cs[j]) : j \in B}
  <2>3. stop = Worst(side, T) /\ 0 \in Int
    BY DEF Opposite
  <2>4. T = {Adverse(side, cs[j]) : j \in B}
    OBVIOUS
  <2> HIDE DEF B, T, stop
  <2> QED
    BY <2>2, <2>3, <2>4, WorstEndIsNumber
<1>6. cs[k].c \in Int
  BY <1>4, MarketBars
<1> HIDE DEF stop, h
<1> QED
  BY <1>3, <1>5, <1>6, ByRiskFits, NumbersAre DEF Generous

(* The pivot price of an armed setup, and the mark of none, are numbers.   *)
LEMMA ArmedIsNumber ==
  ASSUME NEW cs, Market(cs), NEW k \in 1 .. Len(cs), NEW side, NEW pivot \in Int
  PROVE  Armed(cs, k, side, pivot) \in Int
BY EndsAreNumbers DEF Armed

LEMMA SetupIsNumber ==
  ASSUME NEW cs, Market(cs)
  PROVE  \A k \in 1 .. Len(cs) : \A side \in Sides : Setup(cs)[k][side] \in Int
<1> DEFINE setup == Setup(cs)
           Bad == {k \in 1 .. Len(cs) : \E side \in Sides : setup[k][side] \notin Int}
<1>1. \A k \in 1 .. Len(cs) : setup[k] = SetupStep(cs, k, setup)
  <2>1. setup = [k \in DOMAIN cs |-> SetupStep(cs, k, setup)]
    BY MarketBars, LoopsRemember
  <2>2. DOMAIN cs = 1 .. Len(cs)
    BY MarketBars
  <2> HIDE DEF setup
  <2> QED
    BY <2>1, <2>2, Zenon
<1> HIDE DEF setup
<1> SUFFICES ASSUME Bad # {} PROVE FALSE
  BY DEF setup
<1>2. Bad \in SUBSET Nat
  BY MarketBars
<1>3. PICK k \in Bad : \A j \in Bad : k <= j
  BY <1>2, Least
<1>4. PICK side \in Sides : setup[k][side] \notin Int
  BY <1>3
<1>5. k \in 1 .. Len(cs) /\ k \in Int
  BY <1>3, MarketBars
<1> DEFINE before == setup[k - 1][side]
           pivot == Armed(cs, k, side, before)
<1>6. setup[k][side] = IF k <= RegimeWarm THEN Unknown
                       ELSE IF ~Regime(cs, k, side) THEN before
                       ELSE IF SetupEntry(cs, k, side, pivot) = {} THEN pivot ELSE Unknown
  <2>1. SetupStep(cs, k, setup)[side] =
            IF k <= RegimeWarm THEN Unknown
            ELSE IF ~Regime(cs, k, side) THEN before
            ELSE IF SetupEntry(cs, k, side, pivot) = {} THEN pivot ELSE Unknown
    BY DEF SetupStep
  <2> QED
    BY <1>1, <1>5, <2>1
<1>7. ~(k <= RegimeWarm) => before \in Int
  <2> SUFFICES ASSUME ~(k <= RegimeWarm) PROVE before \in Int
    OBVIOUS
  <2>1. RegimeWarm \in Int /\ RegimeWarm > 0
    BY CountsAreNumbers, NeedsAreNumbers
  <2>2. k - 1 \in 1 .. Len(cs) /\ ~(k <= k - 1)
    BY <1>5, <2>1, MarketBars
  <2>3. k - 1 \notin Bad
    BY <1>3, <2>2
  <2> QED
    BY <2>2, <2>3
<1>8. before \in Int => pivot \in Int
  BY <1>5, ArmedIsNumber
<1>9. Unknown \in Int
  BY DEF Unknown
<1> HIDE DEF before, pivot
<1> QED
  BY <1>4, <1>6, <1>7, <1>8, <1>9

LEMMA TrendPullbackRegimeFits ==
  ASSUME NEW cs, Market(cs), Generous
  PROVE  Fitting(TrendPullbackRegime(cs).signals)
<1> DEFINE first == RegimeWarm + 1
           Loop == UNION {TrendPullbackRegimeAt(cs, k, side) : k \in first .. Len(cs), side \in Sides}
<1>1. TrendPullbackRegime(cs) = Strategy(cs, RegimeWarm, Loop)
  BY DEF TrendPullbackRegime, Scan
<1>2. first \in Int /\ first >= 2
  <2>1. RegimeWarm \in Int /\ RegimeWarm >= P.slow
    BY NeedsAreNumbers
  <2>2. P.slow \in Int /\ P.slow > 0
    BY CountsAreNumbers
  <2> QED
    BY <2>1, <2>2 DEF first
<1> HIDE DEF first
<1>3. ASSUME NEW k \in first .. Len(cs), NEW side \in Sides, NEW s \in TrendPullbackRegimeAt(cs, k, side)
      PROVE  Fits(s)
  <2>1. k \in 1 .. Len(cs) /\ k - 1 \in 1 .. Len(cs)
    BY <1>2, MarketBars
  <2> DEFINE before == Setup(cs)[k - 1][side]
             pivot == Armed(cs, k, side, before)
             swing == Worst(side, {pivot} \cup {Adverse(side, cs[j]) : j \in Window(k, P.swing)})
             stop == Padded(cs, k, side, swing, 1)
  <2>2. s \in SetupEntry(cs, k, side, pivot)
    BY DEF TrendPullbackRegimeAt
  <2>3. s \in ByRisk(k, side, cs[k].c, stop, P.rr, 0)
    BY <2>2 DEF SetupEntry
  <2>4. before \in Int
    BY <2>1, SetupIsNumber
  <2> HIDE DEF before
  <2>5. pivot \in Int
    BY <2>1, <2>4, ArmedIsNumber
  <2> HIDE DEF pivot
  <2>6. swing \in Int
    <3>1. P.swing \in Int /\ k \in Int /\ k >= 1
      BY <2>1, CountsAreNumbers, MarketBars
    <3>2. Window(k, P.swing) \subseteq 1 .. k
      BY <3>1, WindowBars
    <3> DEFINE B == Window(k, P.swing)
    <3>3. B \in SUBSET (1 .. Len(cs))
      BY <2>1, <3>2, MarketBars
    <3> HIDE DEF B
    <3> DEFINE T == {Adverse(side, cs[j]) : j \in B}
    <3>4. swing = Worst(side, {pivot} \cup T)
      BY DEF B
    <3>5. T = {Adverse(side, cs[j]) : j \in B}
      OBVIOUS
    <3> HIDE DEF T, swing
    <3> QED
      BY <2>5, <3>3, <3>4, <3>5, WorstEndIsNumber
  <2> HIDE DEF swing
  <2>7. stop \in Int /\ cs[k].c \in Int
    <3>1. 1 \in Int
      OBVIOUS
    <3> QED
      BY <2>1, <2>6, <3>1, MarketBars, PaddedIsNumber
  <2> HIDE DEF stop
  <2> QED
    BY <2>3, <2>7, ByRiskFits, NumbersAre DEF Generous
<1>4. Fitting(Loop)
  BY <1>3 DEF Fitting
<1> HIDE DEF Loop
<1> QED
  BY <1>1, <1>4, FittingStrategy

(* A market whose prices and volumes mean something.                       *)
PricedBar(bar) ==
    /\ {"h", "l", "c", "vol"} \subseteq DOMAIN bar
    /\ bar.vol \in Int /\ bar.l > 0 /\ bar.l <= bar.c /\ P.wide * bar.l >= 1000
Priced(cs) == \A k \in 1 .. Len(cs) : PricedBar(cs[k])

LEMMA TsmomFits ==
  ASSUME NEW cs, Market(cs), Priced(cs)
  PROVE  Fitting(Tsmom(cs).signals)
<1> DEFINE Loop == UNION {Rebalance(cs, k) : k \in {j \in DOMAIN cs : Rebalances(cs)[j]}}
<1>1. Tsmom(cs) = Strategy(cs, P.momentum + 2, Loop)
  BY DEF Tsmom
<1>2. ASSUME NEW k \in 1 .. Len(cs), NEW s \in Rebalance(cs, k)
      PROVE  Fits(s)
  <2> DEFINE side == IF Trend(cs, k) > 0 THEN "LONG" ELSE "SHORT"
             w == (cs[k].c * P.wide) \div 1000
             c == cs[k].c
  <2>1. s = Signal(k, side, c, c - Sign(side) * w, c + Sign(side) * w, P.hold)
    BY DEF Rebalance
  <2>2. side \in Sides
    BY DEF Sides
  <2> HIDE DEF side
  <2>3. c \in Int /\ w \in Int /\ w > 0
    <3>1. /\ c \in Int /\ cs[k].l \in Int /\ cs[k].l <= c /\ P.wide * cs[k].l >= 1000
          /\ P.wide \in Nat
      BY MarketBars, NumbersAre DEF Priced, PricedBar
    <3>2. c * P.wide >= P.wide * cs[k].l
      <4> HIDE DEF c
      <4>1. (c - cs[k].l) * P.wide >= 0
        BY <3>1
      <4>2. (c - cs[k].l) * P.wide = c * P.wide - P.wide * cs[k].l
        BY <3>1
      <4>3. c * P.wide \in Int /\ P.wide * cs[k].l \in Int
        BY <3>1
      <4> QED
        BY <4>1, <4>2, <4>3
    <3> DEFINE y == c * P.wide
    <3>3. y \in Int /\ y >= 1000
      <4> HIDE DEF c
      <4>1. c * P.wide \in Int /\ P.wide * cs[k].l \in Int
        BY <3>1
      <4> QED
        BY <3>1, <3>2, <4>1
    <3>4. w = y \div 1000
      OBVIOUS
    <3> HIDE DEF y, w, c
    <3> QED
      BY <3>1, <3>3, <3>4
  <2> HIDE DEF w, c
  <2>4. /\ Sign(side) * (c - (c - Sign(side) * w)) = w
        /\ Sign(side) * ((c + Sign(side) * w) - c) = w
    BY <2>3, SignedTenths
  <2>5. /\ s.side = side /\ s.entry = c /\ s.stop = c - Sign(side) * w
        /\ s.target = c + Sign(side) * w
    BY <2>1 DEF Signal
  <2> QED
    BY <2>2, <2>3, <2>4, <2>5 DEF Fits
<1>3. DOMAIN cs = 1 .. Len(cs)
  BY MarketBars
<1>4. Fitting(Loop)
  BY <1>2, <1>3 DEF Fitting
<1> HIDE DEF Loop
<1> QED
  BY <1>1, <1>4, FittingStrategy

LEMMA VwapIsNumber ==
  ASSUME NEW h, NEW n \in Nat, DOMAIN h = 1 .. n, NEW k \in 1 .. n,
         \A j \in 1 .. n : h[j].h \in Int /\ h[j].l \in Int /\ h[j].c \in Int /\ h[j].vol \in Int
  PROVE  Vwap(h, k) \in Int
<1> DEFINE S == {j \in DayOf(h, k) : j <= k}
           volume == Sum([j \in S |-> h[j].vol], S)
           turnover == Sum([j \in S |-> h[j].vol * Typical(h[j])], S)
<1>1. Vwap(h, k) = IF volume > 0 THEN turnover \div volume ELSE Typical(h[k])
  BY Zenon DEF Vwap
<1>2. S \in SUBSET (1 .. n) /\ IsFiniteSet(S)
  <2>1. S \in SUBSET (1 .. n)
    BY DEF DayOf
  <2>2. IsFiniteSet(1 .. n)
    BY FS_Interval
  <2> HIDE DEF S
  <2> QED
    BY <2>1, <2>2, FS_Subset
<1> HIDE DEF S
<1>3. \A j \in 1 .. n : Typical(h[j]) \in Int
  <2> SUFFICES ASSUME NEW j \in 1 .. n PROVE Typical(h[j]) \in Int
    OBVIOUS
  <2>1. h[j].h + h[j].l + h[j].c \in Int
    OBVIOUS
  <2> QED
    BY <2>1 DEF Typical
<1>4. volume \in Int
  <2> DEFINE x == [j \in S |-> h[j].vol]
  <2>1. \A j \in S : x[j] \in Int
    BY <1>2
  <2> HIDE DEF x
  <2>2. Sum(x, S) \in Int
    BY <1>2, <2>1, SumIsNumber
  <2> QED
    BY <2>2 DEF x
<1>5. turnover \in Int
  <2> DEFINE x == [j \in S |-> h[j].vol * Typical(h[j])]
  <2>1. \A j \in S : h[j].vol \in Int /\ Typical(h[j]) \in Int
    BY <1>2, <1>3
  <2>2. \A j \in S : x[j] \in Int
    BY <2>1
  <2> HIDE DEF x
  <2>3. Sum(x, S) \in Int
    BY <1>2, <2>2, SumIsNumber
  <2> QED
    BY <2>3 DEF x
<1> HIDE DEF volume, turnover
<1> QED
  BY <1>1, <1>3, <1>4, <1>5

LEMMA FilledIsNumber ==
  ASSUME NEW cs, Market(cs), Priced(cs), NEW k \in 1 .. Len(cs)
  PROVE  FilledVwap(cs, k) \in Int
<1> DEFINE h == [j \in DOMAIN cs |-> [cs[j] EXCEPT !.vol = Max({@, 1})]]
<1>1. Len(cs) \in Nat /\ DOMAIN cs = 1 .. Len(cs)
  BY MarketBars
<1>2. DOMAIN h = 1 .. Len(cs)
  BY <1>1
<1>3. ASSUME NEW j \in 1 .. Len(cs)
      PROVE  h[j].h \in Int /\ h[j].l \in Int /\ h[j].c \in Int /\ h[j].vol \in Int
  <2>1. h[j] = [cs[j] EXCEPT !.vol = Max({@, 1})]
    BY <1>1
  <2>2. /\ "h" \in DOMAIN cs[j] /\ "l" \in DOMAIN cs[j]
        /\ "c" \in DOMAIN cs[j] /\ "vol" \in DOMAIN cs[j]
    BY DEF Priced, PricedBar
  <2> HIDE DEF h
  <2>3. h[j].h = cs[j].h /\ h[j].l = cs[j].l /\ h[j].c = cs[j].c
    BY <2>1, <2>2
  <2>4. h[j].vol = Max({cs[j].vol, 1})
    BY <2>1, <2>2
  <2>5. cs[j].h \in Int /\ cs[j].l \in Int /\ cs[j].c \in Int
    BY MarketBars
  <2>6. Max({cs[j].vol, 1}) \in Int
    <3>1. cs[j].vol \in Int /\ 1 \in Int
      BY DEF Priced, PricedBar
    <3> QED
      BY <3>1, MaxOfInts, Zenon
  <2> QED
    BY <2>3, <2>4, <2>5, <2>6
<1>4. FilledVwap(cs, k) = Vwap(h, k)
  BY DEF FilledVwap
<1> HIDE DEF h
<1>5. Vwap(h, k) \in Int
  BY <1>1, <1>2, <1>3, VwapIsNumber
<1> QED
  BY <1>4, <1>5

LEMMA VwapFirstTouchFits ==
  ASSUME NEW cs, Market(cs), Priced(cs), Generous
  PROVE  Fitting(VwapFirstTouch(cs).signals)
<1> DEFINE first == P.start + 1
           Loop == UNION {VwapFirstTouchAt(cs, k) : k \in first .. Len(cs)}
<1>1. VwapFirstTouch(cs) = Strategy(cs, P.warm, Loop)
  BY DEF VwapFirstTouch
<1>2. first \in Int /\ first >= 1
  BY CountsAreNumbers DEF first
<1> HIDE DEF first
<1>3. ASSUME NEW k \in first .. Len(cs), NEW s \in VwapFirstTouchAt(cs, k)
      PROVE  Fits(s)
  <2>1. k \in 1 .. Len(cs) /\ "LONG" \in Sides
    BY <1>2, MarketBars DEF Sides
  <2> DEFINE level == FilledVwap(cs, k)
             stop == Padded(cs, k, "LONG", level, P.pad)
  <2>2. s \in ByPositiveStop(k, "LONG", cs[k].c, stop, P.rr)
    BY Zenon DEF VwapFirstTouchAt, Touch
  <2>3. level \in Int
    BY <2>1, FilledIsNumber
  <2> HIDE DEF level
  <2>4. stop \in Int /\ cs[k].c \in Int
    BY <2>1, <2>3, MarketBars, PaddedIsNumber, NumbersAre
  <2> HIDE DEF stop
  <2> QED
    BY <2>1, <2>2, <2>4, ByPositiveStopFits, NumbersAre DEF Generous
<1>4. Fitting(Loop)
  BY <1>3 DEF Fitting
<1> HIDE DEF Loop
<1> QED
  BY <1>1, <1>4, FittingStrategy

LEMMA JudgeFits ==
  ASSUME NEW cs, Market(cs), Priced(cs), Generous, NEW s, Name(s) \in Causal
  PROVE  Fitting(Judge(s, cs).signals)
<1>0. /\ \A side \in Sides : Fitting(SpreadPullback(cs, side).signals)
      /\ \A side \in Sides : Fitting(LastWeek(cs, side).signals)
      /\ \A side \in Sides : \A v : Fitting(LevelBounce(cs, side, v).signals)
      /\ "LONG" \in Sides /\ "SHORT" \in Sides
  BY SpreadPullbackFits, LastWeekFits, LevelBounceFits DEF Sides
<1>1. CASE Name(s) = "bbands_meanrev"
  <2>1. Judge(s, cs) = BBandsMeanRev(cs)
    BY <1>1, Zenon DEF Judge
  <2>2. Fitting(BBandsMeanRev(cs).signals)
    BY BBandsMeanRevFits
  <2> QED
    BY <2>1, <2>2
<1>2. CASE Name(s) = "donchian_breakout"
  <2>1. Judge(s, cs) = DonchianBreakout(cs)
    BY <1>2, Zenon DEF Judge
  <2>2. Fitting(DonchianBreakout(cs).signals)
    BY DonchianBreakoutFits
  <2> QED
    BY <2>1, <2>2
<1>3. CASE Name(s) = "ema_cross"
  <2>1. Judge(s, cs) = EmaCross(cs)
    BY <1>3, Zenon DEF Judge
  <2>2. Fitting(EmaCross(cs).signals)
    BY EmaCrossFits
  <2> QED
    BY <2>1, <2>2
<1>4. CASE Name(s) = "ema_pullback"
  <2>1. Judge(s, cs) = EmaPullback(cs)
    BY <1>4, Zenon DEF Judge
  <2>2. Fitting(EmaPullback(cs).signals)
    BY EmaPullbackFits
  <2> QED
    BY <2>1, <2>2
<1>5. CASE Name(s) = "ema_spread_pullback"
  <2>1. Judge(s, cs) = EmaSpreadPullback(cs)
    BY <1>5, Zenon DEF Judge
  <2>2. Fitting(EmaSpreadPullback(cs).signals)
    BY <1>0, Zenon DEF EmaSpreadPullback
  <2> QED
    BY <2>1, <2>2
<1>6. CASE Name(s) = "ema_spread_pullback_short"
  <2>1. Judge(s, cs) = EmaSpreadPullbackShort(cs)
    BY <1>6, Zenon DEF Judge
  <2>2. Fitting(EmaSpreadPullbackShort(cs).signals)
    BY <1>0, Zenon DEF EmaSpreadPullbackShort
  <2> QED
    BY <2>1, <2>2
<1>7. CASE Name(s) = "engulfing_at_extreme"
  <2>1. Judge(s, cs) = EngulfingAtExtreme(cs)
    BY <1>7, Zenon DEF Judge
  <2>2. Fitting(EngulfingAtExtreme(cs).signals)
    BY EngulfingAtExtremeFits
  <2> QED
    BY <2>1, <2>2
<1>8. CASE Name(s) = "first30_meanrev"
  <2>1. Judge(s, cs) = First30MeanRev(cs)
    BY <1>8, Zenon DEF Judge
  <2>2. Fitting(First30MeanRev(cs).signals)
    BY First30MeanRevFits
  <2> QED
    BY <2>1, <2>2
<1>9. CASE Name(s) = "ibs"
  <2>1. Judge(s, cs) = Ibs(cs)
    BY <1>9, Zenon DEF Judge
  <2>2. Fitting(Ibs(cs).signals)
    BY IbsFits
  <2> QED
    BY <2>1, <2>2
<1>10. CASE Name(s) = "inside_bar"
  <2>1. Judge(s, cs) = InsideBar(cs)
    BY <1>10, Zenon DEF Judge
  <2>2. Fitting(InsideBar(cs).signals)
    BY InsideBarFits
  <2> QED
    BY <2>1, <2>2
<1>11. CASE Name(s) = "last_week_high"
  <2>1. Judge(s, cs) = LastWeekHigh(cs)
    BY <1>11, Zenon DEF Judge
  <2>2. Fitting(LastWeekHigh(cs).signals)
    BY <1>0, Zenon DEF LastWeekHigh
  <2> QED
    BY <2>1, <2>2
<1>12. CASE Name(s) = "last_week_low"
  <2>1. Judge(s, cs) = LastWeekLow(cs)
    BY <1>12, Zenon DEF Judge
  <2>2. Fitting(LastWeekLow(cs).signals)
    BY <1>0, Zenon DEF LastWeekLow
  <2> QED
    BY <2>1, <2>2
<1>13. CASE Name(s) = "orb"
  <2>1. Judge(s, cs) = Orb(cs)
    BY <1>13, Zenon DEF Judge
  <2>2. Fitting(Orb(cs).signals)
    BY OrbFits
  <2> QED
    BY <2>1, <2>2
<1>14. CASE Name(s) = "pivot_reaction_zone"
  <2>1. Judge(s, cs) = PivotReactionZone(cs)
    BY <1>14, Zenon DEF Judge
  <2>2. Fitting(PivotReactionZone(cs).signals)
    BY PivotReactionZoneFits
  <2> QED
    BY <2>1, <2>2
<1>15. CASE Name(s) = "range_reversal"
  <2>1. Judge(s, cs) = RangeReversal(cs)
    BY <1>15, Zenon DEF Judge
  <2>2. Fitting(RangeReversal(cs).signals)
    BY RangeReversalFits
  <2> QED
    BY <2>1, <2>2
<1>16. CASE Name(s) = "rsi_meanrev"
  <2>1. Judge(s, cs) = RsiMeanRev(cs)
    BY <1>16, Zenon DEF Judge
  <2>2. Fitting(RsiMeanRev(cs).signals)
    BY RsiMeanRevFits
  <2> QED
    BY <2>1, <2>2
<1>17. CASE Name(s) = "support_resistance"
  <2>1. Judge(s, cs) = SupportResistance(cs, s[2])
    BY <1>17, Zenon DEF Judge
  <2>2. Fitting(SupportResistance(cs, s[2]).signals)
    BY <1>0, Zenon DEF SupportResistance
  <2> QED
    BY <2>1, <2>2
<1>18. CASE Name(s) = "support_resistance_short"
  <2>1. Judge(s, cs) = SupportResistanceShort(cs, s[2])
    BY <1>18, Zenon DEF Judge
  <2>2. Fitting(SupportResistanceShort(cs, s[2]).signals)
    BY <1>0, Zenon DEF SupportResistanceShort
  <2> QED
    BY <2>1, <2>2
<1>19. CASE Name(s) = "trend_pullback"
  <2>1. Judge(s, cs) = TrendPullback(cs)
    BY <1>19, Zenon DEF Judge
  <2>2. Fitting(TrendPullback(cs).signals)
    BY TrendPullbackFits
  <2> QED
    BY <2>1, <2>2
<1>20. CASE Name(s) = "trend_pullback_regime"
  <2>1. Judge(s, cs) = TrendPullbackRegime(cs)
    BY <1>20, Zenon DEF Judge
  <2>2. Fitting(TrendPullbackRegime(cs).signals)
    BY TrendPullbackRegimeFits
  <2> QED
    BY <2>1, <2>2
<1>21. CASE Name(s) = "tsmom"
  <2>1. Judge(s, cs) = Tsmom(cs)
    BY <1>21, Zenon DEF Judge
  <2>2. Fitting(Tsmom(cs).signals)
    BY TsmomFits
  <2> QED
    BY <2>1, <2>2
<1>22. CASE Name(s) = "vol_break"
  <2>1. Judge(s, cs) = VolBreak(cs)
    BY <1>22, Zenon DEF Judge
  <2>2. Fitting(VolBreak(cs).signals)
    BY VolBreakFits
  <2> QED
    BY <2>1, <2>2
<1>23. CASE Name(s) = "vol_breakout"
  <2>1. Judge(s, cs) = VolBreakout(cs)
    BY <1>23, Zenon DEF Judge
  <2>2. Fitting(VolBreakout(cs).signals)
    BY VolBreakoutFits
  <2> QED
    BY <2>1, <2>2
<1>24. CASE Name(s) = "vwap_first_touch"
  <2>1. Judge(s, cs) = VwapFirstTouch(cs)
    BY <1>24, Zenon DEF Judge
  <2>2. Fitting(VwapFirstTouch(cs).signals)
    BY VwapFirstTouchFits
  <2> QED
    BY <2>1, <2>2
<1> QED
  BY <1>1, <1>2, <1>3, <1>4, <1>5, <1>6, <1>7, <1>8, <1>9, <1>10, <1>11, <1>12,
     <1>13, <1>14, <1>15, <1>16, <1>17, <1>18, <1>19, <1>20, <1>21, <1>22, <1>23, <1>24 DEF Causal

---------------------------------------------------------------------------
(* The candles have prices and volumes that mean something.                *)
LEMMA CandleIsPriced ==
  ASSUME strategy \in Strategies, NEW shape \in Shapes[strategy], NEW day, NEW slot,
         candles # <<>> => Last.c \in Int, Worth(Candle(shape, day, slot))
  PROVE  PricedBar(Candle(shape, day, slot))
<1> DEFINE open == IF candles = <<>> THEN P.price ELSE Last.c + shape.gap
           close == open + shape.move
           high == Max({open, close})
           low == Min({open, close})
           bar == Candle(shape, day, slot)
<1>1. /\ P.price \in Int /\ shape.gap \in Int /\ shape.move \in Int
      /\ shape.up \in Nat /\ shape.down \in Nat /\ shape.vol \in Int
  BY PricesAssumption
<1>2. open \in Int
  BY <1>1
<1>3. bar = [o |-> open, c |-> close, h |-> high + shape.up, l |-> low - shape.down,
             vol |-> shape.vol, wild |-> shape.wild, day |-> day, slot |-> slot]
  BY DEF Candle
<1> HIDE DEF open
<1>4. close \in Int
  BY <1>1, <1>2
<1> HIDE DEF close
<1>5. low \in Int /\ low <= close
  <2>1. {open, close} \in SUBSET Int /\ {open, close} # {}
    BY <1>2, <1>4
  <2>2. IsFiniteSet({open, close})
    <3>1. IsFiniteSet({open}) /\ {open, close} = {open} \cup {close}
      BY FS_Singleton
    <3> QED
      BY <3>1, FS_AddElement
  <2>3. low \in {open, close} /\ low <= close
    BY <2>1, <2>2, Extremes
  <2> QED
    BY <1>2, <1>4, <2>3
<1> HIDE DEF high, low
<1>6. /\ {"h", "l", "c", "vol"} \subseteq DOMAIN bar
      /\ bar.vol = shape.vol /\ bar.l = low - shape.down /\ bar.c = close
  BY <1>3
<1>7. P.wide * bar.l >= 1000
  BY DEF Worth
<1> HIDE DEF bar
<1>8. bar.l \in Int /\ bar.l <= bar.c
  BY <1>1, <1>4, <1>5, <1>6
<1>9. bar.l > 0
  <2>1. P.wide \in Nat
    BY NumbersAre
  <2>2. bar.l <= 0 => P.wide * bar.l <= 0
    BY <1>8, <2>1
  <2> QED
    BY <1>7, <1>8, <2>1, <2>2
<1>10. bar.vol \in Int
  BY <1>1, <1>6
<1>11. {"h", "l", "c", "vol"} \subseteq DOMAIN bar
  BY <1>6
<1> QED
  BY <1>7, <1>8, <1>9, <1>10, <1>11 DEF bar, PricedBar

LEMMA PricedGrows ==
  ASSUME Inv, Market(candles), Priced(candles), Next
  PROVE  Priced(candles')
<1>1. PICK T : candles \in Seq(T)
  BY DEF Inv
<1>2. strategy \in Strategies
  BY DEF Inv
<1>3. candles # <<>> => Last.c \in Int
  <2>1. candles # <<>> => Len(candles) \in 1 .. Len(candles)
    BY <1>1
  <2> QED
    BY <2>1 DEF Market, Last
<1>4. ASSUME NEW shape \in Shapes[strategy], NEW day, NEW slot,
             Store(Candle(shape, day, slot))
      PROVE  Priced(candles')
  <2> DEFINE bar == Candle(shape, day, slot)
             n == Len(candles)
  <2>1. Worth(bar) /\ candles' = Append(candles, bar)
    BY <1>4 DEF Store
  <2>2. PricedBar(bar)
    BY <1>2, <1>3, <2>1, CandleIsPriced
  <2> HIDE DEF bar
  <2>3. /\ n \in Nat /\ Len(candles') = n + 1 /\ candles'[n + 1] = bar
        /\ \A k \in 1 .. n : candles'[k] = candles[k]
    BY <1>1, <2>1, AppendProperties
  <2> HIDE DEF n
  <2>4. ASSUME NEW k \in 1 .. (n + 1) PROVE PricedBar(candles'[k])
    <3>1. k \in 1 .. n \/ k = n + 1
      BY <2>3
    <3>2. CASE k \in 1 .. n
      <4>1. candles'[k] = candles[k]
        BY <2>3, <3>2
      <4>2. PricedBar(candles[k])
        BY <3>2, Zenon DEF Priced, n
      <4> QED
        BY <4>1, <4>2, Zenon
    <3>3. CASE k = n + 1
      BY <2>2, <2>3, <3>3, Zenon
    <3> QED
      BY <3>1, <3>2, <3>3
  <2> QED
    BY <2>3, <2>4, Zenon DEF Priced
<1>5. CASE NextBar
  <2>1. PICK shape \in Shapes[strategy] :
            IF candles = <<>> THEN Store(Candle(shape, 0, 0))
            ELSE Store(Candle(shape, Last.day, Last.slot + 1))
    BY <1>5 DEF NextBar
  <2> QED
    BY <1>4, <2>1
<1>6. CASE NextDay
  <2>1. PICK shape \in Shapes[strategy] : Store(Candle(shape, Last.day + 1, 0))
    BY <1>6 DEF NextDay
  <2> QED
    BY <1>4, <2>1
<1> QED
  BY <1>5, <1>6 DEF Next

(* The signals the ticks acted on sit on bars and fit.                     *)
Bracketed == \A s \in live : Fits(s) /\ s.bar \in DOMAIN candles

LEMMA BacktestBracketed ==
  ASSUME Inv, Market(candles), Priced(candles), Generous, Name(strategy) \in Causal
  PROVE  \A s \in backtest : Fits(s) /\ s.bar \in DOMAIN candles
<1>1. backtest = Judge(strategy, candles).signals
  BY DEF Inv
<1>2. Fitting(backtest)
  BY <1>1, JudgeFits
<1>3. Same(Judge(strategy, candles), Judge(strategy, candles), Len(candles))
  <2>1. Grown(candles, candles) /\ Ordered(candles)
    BY MarketBars DEF Market
  <2> QED
    BY <2>1, JudgeSame
<1>4. \A s \in backtest : s.bar \in 1 .. Len(candles)
  BY <1>1, <1>3 DEF Same
<1>5. DOMAIN candles = 1 .. Len(candles)
  BY MarketBars
<1> QED
  BY <1>2, <1>4, <1>5 DEF Fitting

LEMMA BracketedHolds ==
  ASSUME \A s \in Strategies : Name(s) \in Causal, Generous
  PROVE  Spec => [](Inv /\ Market(candles) /\ Priced(candles) /\ Bracketed)
<1>1. Init => Priced(candles) /\ Bracketed
  <2> SUFFICES ASSUME candles = <<>>, live = {} PROVE Priced(candles) /\ Bracketed
    BY DEF Init
  <2>1. \A k \in 1 .. Len(candles) : FALSE
    OBVIOUS
  <2>2. Priced(candles)
    BY <2>1, Zenon DEF Priced
  <2> QED
    BY <2>2 DEF Bracketed
<1>2. /\ Inv /\ Market(candles) /\ Inv' /\ Market(candles)'
      /\ Priced(candles) /\ Bracketed /\ [Next]_vars
      => (Priced(candles) /\ Bracketed)'
  <2> SUFFICES ASSUME Inv, Market(candles), Inv', Market(candles'),
                      Priced(candles), Bracketed, [Next]_vars
               PROVE  Priced(candles') /\ Bracketed'
    OBVIOUS
  <2>1. CASE UNCHANGED vars
    BY <2>1 DEF vars, Bracketed
  <2>2. CASE Next
    <3>1. Priced(candles')
      BY <2>2, PricedGrows
    <3>2. PICK bar : Store(bar)
      <4>1. CASE NextBar
        BY <4>1 DEF NextBar
      <4>2. CASE NextDay
        BY <4>2 DEF NextDay
      <4> QED
        BY <2>2, <4>1, <4>2 DEF Next
    <3>3. /\ candles' = Append(candles, bar) /\ strategy' = strategy
          /\ backtest' = Judge(strategy, Append(candles, bar)).signals
          /\ live' \subseteq live \cup Tick(backtest', Len(Append(candles, bar)))
      <4>1. /\ candles' = Append(candles, bar) /\ strategy' = strategy
            /\ backtest' = Judge(strategy, Append(candles, bar)).signals
        BY <3>2, Zenon DEF Store
      <4> QED
        BY <3>2, <4>1, StoreDue DEF DueGrows
    <3>4. strategy' \in Strategies /\ strategy \in Strategies
      BY <3>3 DEF Inv
    <3>5. \A s \in backtest' : Fits(s) /\ s.bar \in DOMAIN candles'
      <4> DEFINE ds == candles'
                 found == Judge(strategy, ds).signals
      <4>1. backtest' = found
        BY <3>3
      <4>2. Market(ds) /\ Priced(ds)
        BY <3>1
      <4>3. Name(strategy) \in Causal
        BY <3>4
      <4> HIDE DEF ds
      <4>4. Fitting(found)
        BY <4>2, <4>3, JudgeFits
      <4>5. Same(Judge(strategy, ds), Judge(strategy, ds), Len(ds))
        <5>1. Grown(ds, ds) /\ Ordered(ds)
          BY <4>2, MarketBars DEF Market
        <5> QED
          BY <4>3, <5>1, JudgeSame
      <4>6. \A s \in found : s.bar \in 1 .. Len(ds)
        BY <4>5 DEF Same
      <4>7. DOMAIN ds = 1 .. Len(ds)
        BY <4>2, MarketBars
      <4>8. \A s \in found : Fits(s) /\ s.bar \in DOMAIN ds
        BY <4>4, <4>6, <4>7 DEF Fitting
      <4> QED
        BY <4>1, <4>8 DEF ds
    <3>6. DOMAIN candles \subseteq DOMAIN candles'
      <4>1. PICK T : candles \in Seq(T)
        BY DEF Inv
      <4>2. Grown(candles, Append(candles, bar))
        BY <4>1, AppendGrown
      <4> QED
        BY <3>3, <4>2, GrownBars
    <3>7. live' \subseteq live \cup backtest'
      BY <3>3 DEF Tick
    <3>8. \A s \in live : Fits(s) /\ s.bar \in DOMAIN candles'
      BY <3>6 DEF Bracketed
    <3>9. \A s \in live' : Fits(s) /\ s.bar \in DOMAIN candles'
      BY <3>5, <3>7, <3>8
    <3> QED
      BY <3>1, <3>9 DEF Bracketed
  <2> QED
    BY <2>1, <2>2
<1>3. Spec => [](Inv /\ Market(candles))
  BY MarketHolds
<1> QED
  BY <1>1, <1>2, <1>3, PTL DEF Spec

(* Every signal a strategy finds, and every signal a tick acted on, sits   *)
(* on a bar of the history, has its stop behind its entry and its target   *)
(* ahead of it, for every setting of the parameters whose multiples are    *)
(* one or more: no trade is stopped or taken out by the fill that opens it.*)
THEOREM SignalsBracket ==
  ASSUME \A s \in Strategies : Name(s) \in Causal, Generous
  PROVE  Spec => []SignalTypeOK
<1>1. ASSUME Inv, Market(candles), Priced(candles), Bracketed PROVE SignalTypeOK
  <2>1. Name(strategy) \in Causal
    BY <1>1 DEF Inv
  <2>2. \A s \in backtest \cup live : Fits(s) /\ s.bar \in DOMAIN candles
    BY <1>1, <2>1, BacktestBracketed DEF Bracketed
  <2>3. DOMAIN candles = 1 .. Len(candles)
    BY <1>1, MarketBars
  <2>4. \A k \in DOMAIN candles : candles[k].l > 0 /\ candles[k].l <= candles[k].h
    BY <1>1, <2>3, MarketBars DEF Priced, PricedBar
  <2> QED
    BY <2>2, <2>4 DEF SignalTypeOK, Fits
<1>2. Spec => [](Inv /\ Market(candles) /\ Priced(candles) /\ Bracketed)
  BY BracketedHolds
<1> QED
  BY <1>1, <1>2, PTL
=============================================================================
