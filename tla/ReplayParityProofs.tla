------------------------- MODULE ReplayParityProofs -------------------------
(***************************************************************************)
(* Backtest and replay agree, for all candles, signals, calendars, guards  *)
(* and sizes, where both are told the same of the daily flat (Aligned):    *)
(* positions, balances and equity after every bar (SameBooks) and the      *)
(* trades closed on it (SameTrades).  Whatever they are told, the curve of *)
(* either reconciles with its trades at the end of the data (Reconciles).  *)
(*                                                                         *)
(* Both engines start a bar from books that are Even: same position, same  *)
(* balance.  Closing is one function of the position in either engine      *)
(* (CloseForm), so the first half of the bar, where the orders of the two  *)
(* differ, ends in even books again (ResolvedEven), and entry              *)
(* (EnteredEven), end of data (EndEven) and marking (MarkEven) keep even   *)
(* books even.  Each lemma also says of each engine alone what it does to  *)
(* well-formed and booked books, booked meaning that the balance has moved *)
(* by what the trades realized.                                            *)
(*                                                                         *)
(* A bar keeps a position only if nothing of its close forces it flat, or  *)
(* opens it with the size calc_lots returns (PositionAfter): from the      *)
(* first come the forced flats (FlatsHold), from the second and the        *)
(* arithmetic of calc_lots (LotsFacts) the budget (SizedToBudget).         *)
(***************************************************************************)
EXTENDS ReplayParity, FiniteSetTheorems, WellFoundedInduction, TLAPS

USE DEF Directions

\* What closing a position makes of it.
Pnl(pos, bar, level) ==
  ((IF pos.dir = "LONG" THEN level - bar.slip ELSE level + bar.slip) - pos.fill)
    * Sign(pos.dir) * pos.lots * Symbol.tick - Commission
Sold(pos, k, bar, level, reason) == TradeOf(pos, k, Pnl(pos, bar, level), reason)
Closed(b, k, bar, level, reason) ==
  [pos |-> Flat, balance |-> b.balance + Pnl(b.pos, bar, level), equity |-> b.equity,
   closed |-> Append(b.closed, Sold(b.pos, k, bar, level, reason)),
   realized |-> b.realized + Sold(b.pos, k, bar, level, reason).pnl]

Even(b, c) == b.pos = c.pos /\ b.balance = c.balance

TradesAlike(s, t) ==
  /\ Len(s) = Len(t)
  /\ \A k \in 1 .. Len(s) : t[k] = [s[k] EXCEPT !.reason = ReplayReason(s[k])]

\* The balance has moved by what the trades realized.
Booked(b) == b.balance = StartBalance + b.realized

\* Well-formed books that are booked if the books before were.
Follows(c, b) == c \in Books /\ (Booked(b) => Booked(c))

LEMMA BarTyped ==
  ASSUME NEW bar \in Bars
  PROVE  /\ bar.lo \in Int /\ bar.cl \in Int /\ bar.hi \in Int
         /\ bar.slip \in Int
  BY BarsAssumption

LEMMA PnlTyped ==
  ASSUME NEW pos \in Positions, NEW bar \in Bars, NEW level \in Int
  PROVE  Pnl(pos, bar, level) \in Int
<1>1. /\ pos.fill \in Int
      /\ pos.lots \in Int
  BY DEF Positions, Flat
<1>2. Symbol.tick \in Int /\ Commission \in Int
  BY MoneyAssumption
<1> DEFINE exit == IF pos.dir = "LONG" THEN level - bar.slip ELSE level + bar.slip
<1>3. exit \in Int
  BY BarTyped
<1>4. Sign(pos.dir) \in Int
  BY DEF Sign
<1>5. exit - pos.fill \in Int
  BY <1>1, <1>3
<1> HIDE DEF exit
<1>6. (exit - pos.fill) * Sign(pos.dir) \in Int
  BY <1>4, <1>5
<1>7. (exit - pos.fill) * Sign(pos.dir) * pos.lots \in Int
  BY <1>1, <1>6
<1>8. (exit - pos.fill) * Sign(pos.dir) * pos.lots * Symbol.tick \in Int
  BY <1>2, <1>7
<1> QED
  BY <1>2, <1>8 DEF Pnl, exit

\* Either engine closes a position in the same way, and books it.
LEMMA CloseForm ==
  ASSUME NEW b \in Books, Holds(b), NEW k \in Nat, NEW bar \in Bars,
         NEW level \in Int, NEW reason \in Reasons
  PROVE  /\ ClosedAtBar(b, k, bar, level, reason) = Closed(b, k, bar, level, reason)
         /\ ClosedAtLevel(b, k, bar, level, reason) = Closed(b, k, bar, level, reason)
         /\ Follows(Closed(b, k, bar, level, reason), b)
<1>1. ClosedAtBar(b, k, bar, level, reason) = Closed(b, k, bar, level, reason)
  BY Zenon DEF ClosedAtBar, Closed, Sold, Pnl
<1>2. ClosedAtLevel(b, k, bar, level, reason) = Closed(b, k, bar, level, reason)
  BY Zenon DEF ClosedAtLevel, Closed, Sold, Pnl, ExitSlipped, RealizedPnl
<1>3. b.pos \in Positions /\ b.pos # Flat
  BY DEF Books, Holds
<1>4. Pnl(b.pos, bar, level) \in Int
  BY <1>3, PnlTyped
<1> DEFINE t == Sold(b.pos, k, bar, level, reason)
<1>5. t \in Trades /\ t.pnl = Pnl(b.pos, bar, level)
  BY <1>3, <1>4 DEF Sold, TradeOf, Trades, Positions
<1>6. Append(b.closed, t) \in Seq(Trades)
  <2> HIDE DEF t
  <2> QED
    BY <1>5 DEF Books
<1>7. Closed(b, k, bar, level, reason) =
        [pos |-> Flat, balance |-> b.balance + t.pnl, equity |-> b.equity,
         closed |-> Append(b.closed, t), realized |-> b.realized + t.pnl]
  BY <1>5, Zenon DEF Closed
<1> HIDE DEF t
<1>8. Closed(b, k, bar, level, reason) \in Books
  BY <1>4, <1>5, <1>6, <1>7 DEF Books, Positions
<1>9. Booked(b) => Booked(Closed(b, k, bar, level, reason))
  <2>1. b.balance \in Int /\ b.realized \in Int /\ StartBalance \in Int
    BY MoneyAssumption DEF Books
  <2> QED
    BY <1>4, <1>5, <1>7, <2>1 DEF Booked
<1> QED
  BY <1>1, <1>2, <1>8, <1>9 DEF Follows

\* The engines append trades that differ as described to lists that do.
LEMMA AppendAlike ==
  ASSUME NEW s \in Seq(Trades), NEW t \in Seq(Trades), TradesAlike(s, t),
         NEW x \in Trades, NEW y \in Trades,
         y = [x EXCEPT !.reason = ReplayReason(x)]
  PROVE  TradesAlike(Append(s, x), Append(t, y))
  BY DEF TradesAlike

LEMMA SizeTyped ==
  ASSUME ParityTypeOK, NEW b \in Books, NEW sig \in Signals, NEW bar \in Bars
  PROVE  LotsFor(b, sig, bar) \in Int
<1> DEFINE equity == IF cfg.running THEN b.balance ELSE StartBalance
           perLot == Distance(bar.cl, StopOf(sig, bar)) * Symbol.tick
           budget == Budget(equity, RiskPct, 0)
<1>1. equity \in Int /\ RiskPct \in Int
  BY MoneyAssumption DEF Books
<1>2. equity * RiskPct \in Int
  BY <1>1
<1>3. budget \in Int
  BY <1>2 DEF Budget
<1>4. Symbol.step \in Nat \ {0} /\ Symbol.min \in Int /\ Symbol.max \in Int
      /\ Symbol.tick \in Nat \ {0}
  BY MoneyAssumption
<1>5. Distance(bar.cl, StopOf(sig, bar)) \in Nat \ {0}
  BY BarTyped DEF Distance, StopOf, Sign, Signals
<1>6. 100 * perLot \in Nat \ {0}
  <2> HIDE DEF budget, equity
  <2> DEFINE d == Distance(bar.cl, StopOf(sig, bar))
  <2>1. d \in Nat \ {0}
    BY <1>5
  <2> HIDE DEF d
  <2>2. d * Symbol.tick \in Nat \ {0}
    BY <1>4, <2>1
  <2> QED
    BY <2>2 DEF d
<1> HIDE DEF equity, perLot, budget
<1>7. budget \div (100 * perLot) \in Int
  BY <1>3, <1>6
<1>8. \A l \in Int : FloorToStep(l, Symbol.step) \in Int
  <2> TAKE l \in Int
  <2>1. l \div Symbol.step \in Int
    BY <1>4
  <2> QED
    BY <1>4, <2>1 DEF FloorToStep
<1>9. \A l \in Int : RoundTo(l, Precision(Symbol.step)) \in Int
  <2> TAKE l \in Int
  <2> DEFINE p == Precision(Symbol.step)
             down == l \div p
  <2>1. p \in Nat \ {0}
    BY DEF Precision
  <2> HIDE DEF p
  <2>2. down \in Int
    BY <2>1
  <2> HIDE DEF down
  <2>3. p * down \in Int /\ p * (down + 1) \in Int
    BY <2>1, <2>2
  <2> QED
    BY <2>3 DEF RoundTo, p, down
<1> DEFINE fits    == FloorToStep(budget \div (100 * perLot), Symbol.step)
           raised  == IF fits < Symbol.min THEN Symbol.min ELSE fits
           clamped == IF raised > Symbol.max THEN FloorToStep(Symbol.max, Symbol.step)
                      ELSE raised
<1>10. fits \in Int /\ raised \in Int /\ clamped \in Int
  BY <1>4, <1>7, <1>8
<1>11. RoundTo(clamped, Precision(Symbol.step)) \in Int
  BY <1>9, <1>10
<1> QED
  BY <1>11 DEF LotsFor, CalcLots, fits, raised, clamped, perLot, budget, equity

-----------------------------------------------------------------------------
(* The first half of a bar: levels, holding time and forced flats.         *)

LEMMA FollowsSelf ==
  ASSUME NEW b \in Books
  PROVE  Follows(b, b)
  BY DEF Follows

LEMMA ClosedFacts ==
  ASSUME NEW b, NEW k, NEW bar, NEW level, NEW reason
  PROVE  ~ Holds(Closed(b, k, bar, level, reason))
  BY DEF Closed, Holds

\* Closing one position for two reasons, of which the second is the replay's.
LEMMA ClosedEven ==
  ASSUME NEW b \in Books, Holds(b), b.closed = <<>>, NEW k \in Nat, NEW bar \in Bars,
         NEW level \in Int, NEW r \in Reasons, NEW u \in Reasons,
         ReplayReason(Sold(b.pos, k, bar, level, r)) = u
  PROVE  /\ Even(Closed(b, k, bar, level, r), Closed(b, k, bar, level, u))
         /\ TradesAlike(Closed(b, k, bar, level, r).closed,
                        Closed(b, k, bar, level, u).closed)
<1> DEFINE x == Sold(b.pos, k, bar, level, r)
           y == Sold(b.pos, k, bar, level, u)
<1>1. b.pos \in Positions /\ b.pos # Flat
  BY DEF Books, Holds
<1>2. Pnl(b.pos, bar, level) \in Int
  BY <1>1, PnlTyped
<1>3. x \in Trades /\ y \in Trades
  BY <1>1, <1>2 DEF Sold, TradeOf, Trades, Positions
<1>4. y = [x EXCEPT !.reason = ReplayReason(x)]
  BY DEF Sold, TradeOf
<1>5. TradesAlike(b.closed, b.closed) /\ b.closed \in Seq(Trades)
  BY DEF TradesAlike, Books
<1> HIDE DEF x, y
<1>6. TradesAlike(Append(b.closed, x), Append(b.closed, y))
  BY <1>3, <1>4, <1>5, AppendAlike
<1>7. /\ Closed(b, k, bar, level, r).closed = Append(b.closed, x)
      /\ Closed(b, k, bar, level, u).closed = Append(b.closed, y)
  BY DEF Closed, x, y
<1>8. Even(Closed(b, k, bar, level, r), Closed(b, k, bar, level, u))
  BY DEF Even, Closed
<1> QED
  BY <1>6, <1>7, <1>8

\* What the replay calls a trade that the backtest closed.
LEMMA ReasonOf ==
  ASSUME NEW pos, NEW k, NEW bar, NEW level, NEW r
  PROVE  /\ r # "time" => ReplayReason(Sold(pos, k, bar, level, r)) = r
         /\ ReplayReason(Sold(pos, k, bar, level, "time")) =
              IF TfMinutes > 0 /\ NeedsWeekendFlat(BarClose(k), cfg)
              THEN "weekend_flat"
              ELSE IF TfMinutes > 0 /\ NeedsDailyFlat(Class, BarClose(k), cfg)
                   THEN "daily_close_flat" ELSE "time"
<1>1. \A x : /\ Sold(pos, k, bar, level, x).reason = x
             /\ Sold(pos, k, bar, level, x).out = k
  BY DEF Sold, TradeOf
<1> QED
  BY <1>1, Zenon DEF ReplayReason

\* A guard of the backtest is on where one of the replay is.
LEMMA SameGuards ==
  ASSUME ParityTypeOK, NEW t
  PROVE  /\ GuardsActive /\ NeedsWeekendFlat(t, cfg)
              <=> TfMinutes > 0 /\ NeedsWeekendFlat(t, cfg)
         /\ GuardsActive /\ EnforceDaily /\ NeedsDailyFlat(Class, t, cfg)
              <=> TfMinutes > 0 /\ NeedsDailyFlat(Class, t, cfg)
         /\ Aligned /\ NeedsDailyFlat(Class, t, cfg) => cfg.daily
<1>1. cfg \in Configs /\ cfg.weekend \in BOOLEAN /\ cfg.daily \in BOOLEAN
  BY ConfigsAssumption DEF ParityTypeOK
<1>2. NeedsWeekendFlat(t, cfg) => cfg.weekend
  BY DEF NeedsWeekendFlat
<1>3. NeedsDailyFlat(Class, t, cfg) => EnforceDaily
  BY DEF NeedsDailyFlat, EnforceDaily
<1>4. Aligned /\ NeedsDailyFlat(Class, t, cfg) => cfg.daily
  BY DEF Aligned, NeedsDailyFlat
<1> QED
  BY <1>1, <1>2, <1>3, <1>4, Zenon DEF GuardsActive

Resolved(b, k, bar) == ForcedFlat(Levels(b, k, bar), k, bar)
Updated(b, k, bar)  == HeldTooLong(UpdateBar(b, k, bar), k, bar)

LEMMA ResolvedEven ==
  ASSUME ParityTypeOK, NEW b \in Books, b.closed = <<>>, NEW k \in Nat, NEW bar \in Bars
  PROVE  /\ Follows(Resolved(b, k, bar), b)
         /\ Follows(Updated(b, k, bar), b)
         /\ Aligned => /\ Even(Resolved(b, k, bar), Updated(b, k, bar))
                       /\ TradesAlike(Resolved(b, k, bar).closed, Updated(b, k, bar).closed)
<1> DEFINE At(level, reason) == Closed(b, k, bar, level, reason)
           tooLong == b.pos.hold > 0 /\ k >= b.pos.at + b.pos.hold
           week    == TfMinutes > 0 /\ NeedsWeekendFlat(BarClose(k), cfg)
           day     == TfMinutes > 0 /\ NeedsDailyFlat(Class, BarClose(k), cfg)
           goal(c, d) == /\ Follows(c, b)
                         /\ Follows(d, b)
                         /\ Aligned => Even(c, d) /\ TradesAlike(c.closed, d.closed)
<1>1. \A level, reason : ~ Holds(At(level, reason))
  BY ClosedFacts
<1>2. ASSUME NEW x, ~ Holds(x)
      PROVE  ForcedFlat(x, k, bar) = x /\ HeldTooLong(x, k, bar) = x
            /\ Levels(x, k, bar) = x /\ UpdateBar(x, k, bar) = x
  BY <1>2 DEF ForcedFlat, HeldTooLong, Levels, UpdateBar
<1>3. goal(b, b)
  BY FollowsSelf DEF Even, TradesAlike
<1>4. CASE ~ Holds(b)
  BY <1>2, <1>3, <1>4 DEF Resolved, Updated
<1>5. CASE Holds(b)
  <2>1. b.pos.stop \in Int /\ b.pos.target \in Int /\ bar.cl \in Int
    BY BarTyped DEF Books, Positions, Flat
  <2>2. ASSUME NEW level \in Int, NEW r \in Reasons
        PROVE  /\ ClosedAtBar(b, k, bar, level, r) = At(level, r)
               /\ ClosedAtLevel(b, k, bar, level, r) = At(level, r)
               /\ Follows(At(level, r), b)
    BY <1>5, CloseForm
  <2>3. ASSUME NEW level \in Int, NEW r \in Reasons \ {"time"}
        PROVE  goal(At(level, r), At(level, r))
    <3>1. ReplayReason(Sold(b.pos, k, bar, level, r)) = r
      BY ReasonOf
    <3> QED
      BY <1>5, <2>2, <3>1, ClosedEven
  <2>4. LET u == IF week THEN "weekend_flat"
                 ELSE IF day THEN "daily_close_flat" ELSE "time"
        IN  goal(At(bar.cl, "time"), At(bar.cl, u))
    <3> DEFINE u == IF week THEN "weekend_flat"
                    ELSE IF day THEN "daily_close_flat" ELSE "time"
    <3>1. ReplayReason(Sold(b.pos, k, bar, bar.cl, "time")) = u
      <4> HIDE DEF At, goal, tooLong
      <4>1. ReplayReason(Sold(b.pos, k, bar, bar.cl, "time")) =
              IF TfMinutes > 0 /\ NeedsWeekendFlat(BarClose(k), cfg)
              THEN "weekend_flat"
              ELSE IF TfMinutes > 0 /\ NeedsDailyFlat(Class, BarClose(k), cfg)
                   THEN "daily_close_flat" ELSE "time"
        BY ReasonOf
      <4> QED
        BY <4>1, Zenon
    <3>2. u \in Reasons /\ "time" \in Reasons
      BY DEF Reasons
    <3> HIDE DEF u
    <3>3. /\ Even(At(bar.cl, "time"), At(bar.cl, u))
          /\ TradesAlike(At(bar.cl, "time").closed, At(bar.cl, u).closed)
      BY <1>5, <2>1, <3>1, <3>2, ClosedEven
    <3>4. Follows(At(bar.cl, "time"), b) /\ Follows(At(bar.cl, u), b)
      BY <2>1, <2>2, <3>2
    <3> QED
      BY <3>3, <3>4 DEF u
  <2> HIDE DEF At
  <2>5. CASE HitStop(b.pos, bar)
    <3>1. Levels(b, k, bar) = At(b.pos.stop, "stop")
          /\ UpdateBar(b, k, bar) = At(b.pos.stop, "stop")
      BY <1>5, <2>1, <2>2, <2>5 DEF Levels, UpdateBar, Reasons
    <3>2. Resolved(b, k, bar) = At(b.pos.stop, "stop")
          /\ Updated(b, k, bar) = At(b.pos.stop, "stop")
      BY <1>1, <1>2, <3>1 DEF Resolved, Updated
    <3> QED
      BY <2>1, <2>3, <3>2 DEF Reasons
  <2>6. CASE ~ HitStop(b.pos, bar) /\ HitTarget(b.pos, bar)
    <3>1. Levels(b, k, bar) = At(b.pos.target, "target")
          /\ UpdateBar(b, k, bar) = At(b.pos.target, "target")
      BY <1>5, <2>1, <2>2, <2>6 DEF Levels, UpdateBar, Reasons
    <3>2. Resolved(b, k, bar) = At(b.pos.target, "target")
          /\ Updated(b, k, bar) = At(b.pos.target, "target")
      BY <1>1, <1>2, <3>1 DEF Resolved, Updated
    <3> QED
      BY <2>1, <2>3, <3>2 DEF Reasons
  <2>7. CASE ~ HitStop(b.pos, bar) /\ ~ HitTarget(b.pos, bar)
    <3>1. \A r \in {"time", "weekend_flat", "daily_close_flat"} :
            /\ ClosedAtBar(b, k, bar, bar.cl, r) = At(bar.cl, r)
            /\ ClosedAtLevel(b, k, bar, bar.cl, r) = At(bar.cl, r)
            /\ Follows(At(bar.cl, r), b)
            /\ ~ Holds(At(bar.cl, r))
            /\ r # "time" => goal(At(bar.cl, r), At(bar.cl, r))
      BY <1>1, <2>1, <2>2, <2>3 DEF Reasons
    <3>2. Levels(b, k, bar) = IF tooLong THEN At(bar.cl, "time") ELSE b
      BY <1>5, <2>7, <3>1 DEF Levels
    <3>3. UpdateBar(b, k, bar) =
            IF week THEN At(bar.cl, "weekend_flat")
            ELSE IF cfg.daily /\ day THEN At(bar.cl, "daily_close_flat") ELSE b
      BY <1>5, <2>7, <3>1 DEF UpdateBar
    <3>4. ForcedFlat(b, k, bar) =
            IF week THEN At(bar.cl, "weekend_flat")
            ELSE IF day THEN At(bar.cl, "daily_close_flat") ELSE b
      BY <1>5, <3>1, SameGuards DEF ForcedFlat
    <3>5. Resolved(b, k, bar) =
            IF tooLong THEN At(bar.cl, "time")
            ELSE IF week THEN At(bar.cl, "weekend_flat")
            ELSE IF day THEN At(bar.cl, "daily_close_flat") ELSE b
      BY <1>2, <3>1, <3>2, <3>4 DEF Resolved
    <3>6. Updated(b, k, bar) =
            IF week THEN At(bar.cl, "weekend_flat")
            ELSE IF cfg.daily /\ day THEN At(bar.cl, "daily_close_flat")
            ELSE IF tooLong THEN At(bar.cl, "time") ELSE b
      BY <1>2, <1>5, <3>1, <3>3 DEF Updated, HeldTooLong
    <3>7. Follows(Resolved(b, k, bar), b) /\ Follows(Updated(b, k, bar), b)
      BY <1>3, <3>1, <3>5, <3>6
    <3>8. ASSUME Aligned
          PROVE  goal(Resolved(b, k, bar), Updated(b, k, bar))
      <4>1. day => cfg.daily
        BY <3>8, SameGuards
      <4> HIDE DEF week, day, tooLong, goal
      <4>2. CASE tooLong
        BY <2>4, <3>5, <3>6, <4>1, <4>2
      <4>3. CASE ~ tooLong
        BY <1>3, <3>1, <3>5, <3>6, <4>1, <4>3
      <4> QED
        BY <4>2, <4>3
    <3> QED
      BY <3>7, <3>8
  <2> QED
    BY <2>5, <2>6, <2>7
<1> QED
  BY <1>4, <1>5

-----------------------------------------------------------------------------
(* The second half of a bar: entry, end of data and marking.               *)

LEMMA PositionTyped ==
  ASSUME ParityTypeOK, NEW b \in Books, NEW k \in Nat, NEW bar \in Bars, NEW sig \in Signals,
         NEW lots \in Int
  PROVE  [dir |-> sig.dir, entry |-> bar.cl,
          fill |-> IF sig.dir = "LONG" THEN bar.cl + bar.slip ELSE bar.cl - bar.slip,
          stop |-> StopOf(sig, bar), target |-> TargetOf(sig, bar),
          lots |-> lots, at |-> k, hold |-> sig.hold] \in Positions
<1>1. StopOf(sig, bar) \in Int /\ TargetOf(sig, bar) \in Int
  BY BarTyped DEF StopOf, TargetOf, Sign, Signals
<1> QED
  BY <1>1, BarTyped DEF Positions, Signals

LEMMA EnteredEven ==
  ASSUME ParityTypeOK, NEW b \in Books, NEW k \in Nat, NEW bar \in Bars,
         NEW sigs \in Emissions
  PROVE  /\ Follows(Entered(b, k, bar, sigs), b)
         /\ Follows(Opened(b, k, bar, sigs), b)
         /\ Entered(b, k, bar, sigs).closed = b.closed
         /\ Opened(b, k, bar, sigs).closed = b.closed
         /\ \A c \in Books :
              Even(b, c) => Even(Entered(b, k, bar, sigs), Opened(c, k, bar, sigs))
<1> DEFINE sig == sigs[Len(sigs)]
           refused == \/ Holds(b) \/ sigs = <<>>
                      \/ cfg.noEntry > 0 /\ TfMinutes > 0 /\ InNoEntryWindow(BarClose(k), cfg)
                      \/ LotsFor(b, sig, bar) = 0
           pos == [dir |-> sig.dir, entry |-> bar.cl,
                   fill |-> IF sig.dir = "LONG" THEN bar.cl + bar.slip ELSE bar.cl - bar.slip,
                   stop |-> StopOf(sig, bar), target |-> TargetOf(sig, bar),
                   lots |-> LotsFor(b, sig, bar), at |-> k, hold |-> sig.hold]
           With(c) == IF refused THEN c ELSE [c EXCEPT !.pos = pos]
<1>1. Entered(b, k, bar, sigs) = With(b)
  BY Zenon DEF Entered
<1>2. ASSUME NEW c, Even(b, c)
      PROVE  Opened(c, k, bar, sigs) = With(c)
  <2>1. LotsFor(b, sig, bar) = LotsFor(c, sig, bar) /\ (Holds(b) <=> Holds(c))
    BY <1>2, Zenon DEF Even, LotsFor, Holds
  <2> QED
    BY <2>1, Zenon DEF Opened, EntrySlipped
<1>3. ASSUME NEW c \in Books
      PROVE  Follows(With(c), c) /\ With(c).closed = c.closed
  <2>1. CASE refused
    BY <2>1, FollowsSelf
  <2>2. CASE ~ refused
    <3>1. sig \in Signals
      <4>1. sigs \in Seq(Signals) /\ sigs # <<>>
        BY <2>2, EmissionsAssumption
      <4> HIDE DEF refused, pos
      <4> QED
        BY <4>1
    <3>2. pos \in Positions
      BY <3>1, SizeTyped, PositionTyped
    <3> HIDE DEF pos, refused, sig
    <3>3. [c EXCEPT !.pos = pos] \in Books /\ [c EXCEPT !.pos = pos].closed = c.closed
      BY <3>2 DEF Books
    <3>4. Booked(c) => Booked([c EXCEPT !.pos = pos])
      BY DEF Booked, Books
    <3> QED
      BY <2>2, <3>3, <3>4 DEF Follows
  <2> QED
    BY <2>1, <2>2
<1>4. ASSUME NEW c \in Books, Even(b, c)
      PROVE  Even(With(b), With(c))
  <2> HIDE DEF refused, pos
  <2> QED
    BY <1>4 DEF Even, Books
<1>5. Even(b, b)
  BY DEF Even
<1> HIDE DEF With
<1> QED
  BY <1>1, <1>2, <1>3, <1>4, <1>5

\* The end of the data closes what is left, for a reason both engines share.
LEMMA EndEven ==
  ASSUME NEW b \in Books, NEW k \in Nat, NEW bar \in Bars
  PROVE  /\ Follows(EndOfData(b, k, bar), b)
         /\ Follows(Finished(b, k, bar), b)
         /\ k = n => ~ Holds(EndOfData(b, k, bar)) /\ ~ Holds(Finished(b, k, bar))
         /\ \A c \in Books :
              /\ Even(b, c)
              /\ TradesAlike(b.closed, c.closed)
              => /\ Even(EndOfData(b, k, bar), Finished(c, k, bar))
                 /\ TradesAlike(EndOfData(b, k, bar).closed, Finished(c, k, bar).closed)
<1> DEFINE At(c) == Closed(c, k, bar, bar.cl, "end_of_data")
<1>1. "end_of_data" \in Reasons /\ bar.cl \in Int
  BY BarTyped DEF Reasons
<1>2. ASSUME NEW c \in Books
      PROVE  /\ EndOfData(c, k, bar) = IF Holds(c) /\ k = n THEN At(c) ELSE c
             /\ Finished(c, k, bar) = IF Holds(c) /\ k = n THEN At(c) ELSE c
             /\ Follows(IF Holds(c) /\ k = n THEN At(c) ELSE c, c)
  <2>1. CASE Holds(c) /\ k = n
    BY <1>1, <2>1, CloseForm DEF EndOfData, Finished
  <2>2. CASE ~ (Holds(c) /\ k = n)
    BY <2>2, FollowsSelf DEF EndOfData, Finished
  <2> QED
    BY <2>1, <2>2
<1>3. ~ Holds(At(b))
  BY ClosedFacts
<1>4. ASSUME NEW c \in Books, Holds(b), Even(b, c), TradesAlike(b.closed, c.closed)
      PROVE  Even(At(b), At(c)) /\ TradesAlike(At(b).closed, At(c).closed)
  <2> DEFINE x == Sold(b.pos, k, bar, bar.cl, "end_of_data")
  <2>1. b.pos \in Positions /\ b.pos # Flat /\ c.pos = b.pos
    BY <1>4 DEF Books, Holds, Even
  <2>2. Pnl(b.pos, bar, bar.cl) \in Int
    BY <1>1, <2>1, PnlTyped
  <2>3. x \in Trades
    BY <1>1, <2>1, <2>2 DEF Sold, TradeOf, Trades, Positions
  <2>4. ReplayReason(x) = x.reason
    BY DEF ReplayReason, Sold, TradeOf
  <2>5. At(b).closed = Append(b.closed, x) /\ At(c).closed = Append(c.closed, x)
    BY <2>1 DEF Closed
  <2>6. Even(At(b), At(c))
    BY <1>4 DEF Even, Closed
  <2> HIDE DEF x, At
  <2>7. x = [x EXCEPT !.reason = ReplayReason(x)]
    BY <2>3, <2>4 DEF Trades
  <2>8. b.closed \in Seq(Trades) /\ c.closed \in Seq(Trades)
    BY DEF Books
  <2>9. TradesAlike(Append(b.closed, x), Append(c.closed, x))
    BY <1>4, <2>3, <2>7, <2>8, AppendAlike
  <2> QED
    BY <2>5, <2>6, <2>9
<1>5. \A c \in Books : Even(b, c) => (Holds(b) <=> Holds(c))
  BY DEF Even, Holds
<1> HIDE DEF At
<1> QED
  BY <1>2, <1>3, <1>4, <1>5

LEMMA MarkEven ==
  ASSUME NEW b \in Books, NEW bar \in Bars
  PROVE  /\ Follows(Marked(b, bar), b)
         /\ Follows(MarkedToMarket(b, bar), b)
         /\ \A d \in {Marked(b, bar), MarkedToMarket(b, bar)} :
              /\ d.pos = b.pos /\ d.balance = b.balance /\ d.closed = b.closed
              /\ ~ Holds(b) => d.equity = d.balance
         /\ \A c \in Books :
              Even(b, c) => /\ Even(Marked(b, bar), MarkedToMarket(c, bar))
                            /\ Marked(b, bar).equity = MarkedToMarket(c, bar).equity
<1> DEFINE gross == (bar.cl - b.pos.fill) * Sign(b.pos.dir) * b.pos.lots * Symbol.tick
           equity == IF Holds(b) THEN b.balance + gross ELSE b.balance
<1>1. gross \in Int
  <2>1. b.pos.fill \in Int /\ b.pos.lots \in Int /\ bar.cl \in Int /\ Symbol.tick \in Int
    <3>1. b.pos \in Positions
      BY DEF Books
    <3>2. b.pos.fill \in Int /\ b.pos.lots \in Int
      BY <3>1 DEF Positions, Flat
    <3>3. bar.cl \in Int /\ Symbol.tick \in Int
      BY BarTyped, MoneyAssumption
    <3> QED
      BY <3>2, <3>3
  <2>2. Sign(b.pos.dir) \in Int /\ bar.cl - b.pos.fill \in Int
    BY <2>1 DEF Sign
  <2>3. (bar.cl - b.pos.fill) * Sign(b.pos.dir) \in Int
    BY <2>2
  <2>4. (bar.cl - b.pos.fill) * Sign(b.pos.dir) * b.pos.lots \in Int
    BY <2>1, <2>3
  <2> QED
    BY <2>1, <2>4
<1>2. Marked(b, bar) = [b EXCEPT !.equity = equity]
  BY Zenon DEF Marked
<1>3. RealizedPnl(b.pos.dir, b.pos.fill, bar.cl, b.pos.lots, 0) = gross - 0
  BY Zenon DEF RealizedPnl
<1> HIDE DEF gross
<1>4. ASSUME NEW c \in Books, Even(b, c)
      PROVE  MarkedToMarket(c, bar) = [c EXCEPT !.equity = equity]
  <2>1. b.pos = c.pos /\ b.balance = c.balance /\ b.balance \in Int
    BY <1>4 DEF Even, Books
  <2> QED
    BY <1>1, <1>3, <2>1 DEF MarkedToMarket, Holds
<1>5. equity \in Int /\ (~ Holds(b) => equity = b.balance)
  BY <1>1 DEF Books
<1> HIDE DEF equity
<1>6. ASSUME NEW c \in Books
      PROVE  /\ Follows([c EXCEPT !.equity = equity], c)
             /\ [c EXCEPT !.equity = equity].pos = c.pos
             /\ [c EXCEPT !.equity = equity].balance = c.balance
             /\ [c EXCEPT !.equity = equity].closed = c.closed
             /\ [c EXCEPT !.equity = equity].equity = equity
  BY <1>5 DEF Books, Follows, Booked
<1>7. Even(b, b)
  BY DEF Even
<1>8. /\ Marked(b, bar) = [b EXCEPT !.equity = equity]
      /\ MarkedToMarket(b, bar) = [b EXCEPT !.equity = equity]
  BY <1>2, <1>4, <1>7
<1>9. ASSUME NEW c \in Books, Even(b, c)
      PROVE  /\ Even(Marked(b, bar), MarkedToMarket(c, bar))
             /\ Marked(b, bar).equity = MarkedToMarket(c, bar).equity
  <2>1. MarkedToMarket(c, bar) = [c EXCEPT !.equity = equity]
    BY <1>4, <1>9
  <2>2. b.pos = c.pos /\ b.balance = c.balance
    BY <1>9 DEF Even
  <2> QED
    BY <1>2, <1>6, <1>9, <2>1, <2>2 DEF Even
<1>10. LET d == [b EXCEPT !.equity = equity]
       IN  /\ Follows(d, b)
           /\ d.pos = b.pos /\ d.balance = b.balance /\ d.closed = b.closed
           /\ ~ Holds(b) => d.equity = d.balance
  BY <1>5, <1>6
<1> QED
  BY <1>8, <1>9, <1>10

-----------------------------------------------------------------------------
(* A bar, and the theorems.                                                *)

ParityInv ==
  /\ ParityTypeOK
  /\ SameBooks
  /\ Aligned => TradesAlike(bt.closed, rp.closed)
  /\ Booked(bt) /\ Booked(rp)
  /\ i = n => bt.equity = bt.balance /\ rp.equity = rp.balance

LEMMA InitParity == Init => ParityInv
<1> SUFFICES ASSUME Init PROVE ParityInv
  OBVIOUS
<1>1. n \in Nat
  BY CalendarsAssumption DEF Init, n
<1>2. Fresh \in Books /\ Booked(Fresh)
  BY MoneyAssumption DEF Fresh, Books, Positions, Booked
<1> QED
  BY <1>1, <1>2 DEF Init, ParityInv, ParityTypeOK, SameBooks, TradesAlike, Fresh

\* A bar starts with no trades of its own.
LEMMA Emptied ==
  ASSUME NEW b \in Books
  PROVE  /\ Follows([b EXCEPT !.closed = <<>>], b)
         /\ [b EXCEPT !.closed = <<>>].closed = <<>>
         /\ [b EXCEPT !.closed = <<>>].pos = b.pos
         /\ [b EXCEPT !.closed = <<>>].balance = b.balance
<1>1. <<>> \in Seq(Trades)
  OBVIOUS
<1> QED
  BY <1>1 DEF Books, Follows, Booked

LEMMA FollowsTrans ==
  ASSUME NEW b, NEW c, NEW d, Follows(c, b), Follows(d, c)
  PROVE  Follows(d, b)
  BY DEF Follows

\* What a bar makes of the books of each engine.
BacktestHalf(b, k, bar, sigs) == EndOfData(Entered(Resolved(b, k, bar), k, bar, sigs), k, bar)
ReplayHalf(b, k, bar, sigs)   == Finished(Opened(Updated(b, k, bar), k, bar, sigs), k, bar)

LEMMA HalvesEven ==
  ASSUME ParityTypeOK, NEW b \in Books, b.closed = <<>>, NEW k \in Nat, NEW bar \in Bars,
         NEW sigs \in Emissions
  PROVE  /\ Follows(BacktestHalf(b, k, bar, sigs), b)
         /\ Follows(ReplayHalf(b, k, bar, sigs), b)
         /\ k = n => /\ ~ Holds(BacktestHalf(b, k, bar, sigs))
                     /\ ~ Holds(ReplayHalf(b, k, bar, sigs))
         /\ Aligned =>
              /\ Even(BacktestHalf(b, k, bar, sigs), ReplayHalf(b, k, bar, sigs))
              /\ TradesAlike(BacktestHalf(b, k, bar, sigs).closed,
                             ReplayHalf(b, k, bar, sigs).closed)
<1> DEFINE mb == Resolved(b, k, bar)
           mc == Updated(b, k, bar)
           eb == Entered(mb, k, bar, sigs)
           ec == Opened(mc, k, bar, sigs)
<1>1. /\ Follows(mb, b) /\ Follows(mc, b)
      /\ Aligned => Even(mb, mc) /\ TradesAlike(mb.closed, mc.closed)
  BY ResolvedEven
<1> HIDE DEF mb, mc
<1>2. mb \in Books /\ mc \in Books
  BY <1>1 DEF Follows
<1>3. /\ Follows(eb, mb) /\ Follows(ec, mc)
      /\ eb.closed = mb.closed /\ ec.closed = mc.closed
      /\ Even(mb, mc) => Even(eb, ec)
  BY <1>2, EnteredEven
<1> HIDE DEF eb, ec
<1>4. eb \in Books /\ ec \in Books
  BY <1>3 DEF Follows
<1>5. /\ Follows(EndOfData(eb, k, bar), eb) /\ Follows(Finished(ec, k, bar), ec)
      /\ k = n => ~ Holds(EndOfData(eb, k, bar)) /\ ~ Holds(Finished(ec, k, bar))
      /\ Even(eb, ec) /\ TradesAlike(eb.closed, ec.closed)
         => /\ Even(EndOfData(eb, k, bar), Finished(ec, k, bar))
            /\ TradesAlike(EndOfData(eb, k, bar).closed, Finished(ec, k, bar).closed)
  BY <1>4, EndEven
<1>6. /\ BacktestHalf(b, k, bar, sigs) = EndOfData(eb, k, bar)
      /\ ReplayHalf(b, k, bar, sigs) = Finished(ec, k, bar)
  BY DEF BacktestHalf, ReplayHalf, eb, ec, mb, mc
<1>7. Follows(EndOfData(eb, k, bar), b) /\ Follows(Finished(ec, k, bar), b)
  BY <1>1, <1>3, <1>5, FollowsTrans
<1> QED
  BY <1>1, <1>3, <1>5, <1>6, <1>7

\* Guards and calendar of a run do not change, nor what they say.
LEMMA TimesFrozen ==
  ASSUME times' = times
  PROVE  /\ TfMinutes' = TfMinutes
         /\ \A k : BarClose(k)' = BarClose(k)
<1>1. TfMinutes' = TfMinutes
  <2>1. n' = n /\ \A k : Gap(k)' = Gap(k)
    BY Zenon DEF Gap, n
  <2>2. \A h : Ranked(h)' = Ranked(h)
    <3> DEFINE P(h, k) ==
                 /\ Cardinality({j \in 1 .. n - 1 : Gap(j) < Gap(k)}) <= h
                 /\ Cardinality({j \in 1 .. n - 1 : Gap(j) <= Gap(k)}) > h
    <3>1. \A k : /\ {j \in 1 .. n - 1 : Gap(j) < Gap(k)}' = {j \in 1 .. n - 1 : Gap(j) < Gap(k)}
                 /\ {j \in 1 .. n - 1 : Gap(j) <= Gap(k)}' = {j \in 1 .. n - 1 : Gap(j) <= Gap(k)}
      BY <2>1
    <3> QED
      BY <2>1, <3>1, Zenon DEF Ranked
  <2> QED
    BY <2>1, <2>2, Zenon DEF TfMinutes
<1>2. \A k : BarClose(k)' = BarClose(k)
  BY <1>1, Zenon DEF BarClose
<1> QED
  BY <1>1, <1>2

LEMMA ReasonsFrozen ==
  ASSUME cfg' = cfg, times' = times
  PROVE  \A t : ReplayReason(t)' = ReplayReason(t)
  BY TimesFrozen, Zenon DEF ReplayReason

LEMMA BarParity ==
  ASSUME ParityInv, NEW bar \in Bars, NEW sigs \in Emissions, Bar(bar, sigs)
  PROVE  ParityInv'
<1> DEFINE k == i + 1
           b == [bt EXCEPT !.closed = <<>>]
           c == [rp EXCEPT !.closed = <<>>]
           fb == BacktestHalf(b, k, bar, sigs)
           fc == ReplayHalf(c, k, bar, sigs)
<1>1. /\ ParityTypeOK /\ bt \in Books /\ rp \in Books /\ k \in Nat
      /\ n \in Nat /\ n' = n /\ k \in 0 .. n /\ i' = k
  BY CalendarsAssumption DEF ParityInv, ParityTypeOK, Bar, n
<1>2. /\ Follows(b, bt) /\ Follows(c, rp) /\ b.closed = <<>> /\ c.closed = <<>>
      /\ b \in Books /\ c \in Books
  BY <1>1, Emptied DEF Follows
<1>3. Aligned => b = c
  <2>1. Aligned => bt.pos = rp.pos /\ bt.balance = rp.balance /\ bt.equity = rp.equity
    BY DEF ParityInv, SameBooks
  <2>2. Aligned => bt.realized = rp.realized
    <3>1. /\ bt.balance = StartBalance + bt.realized
          /\ rp.balance = StartBalance + rp.realized
      BY DEF ParityInv, Booked
    <3>2. bt.realized \in Int /\ rp.realized \in Int /\ StartBalance \in Int
      BY <1>1, MoneyAssumption DEF Books
    <3> DEFINE x == bt.realized
               y == rp.realized
    <3>3. Aligned => StartBalance + x = StartBalance + y
      BY <2>1, <3>1
    <3> HIDE DEF x, y
    <3>4. StartBalance + x = StartBalance + y => x = y
      BY <3>2 DEF x, y
    <3> QED
      BY <3>3, <3>4 DEF x, y
  <2> QED
    BY <1>1, <2>1, <2>2 DEF Books
<1>4. bt' = Marked(fb, bar) /\ rp' = MarkedToMarket(fc, bar)
  BY Zenon DEF Bar, BacktestBar, ReplayBar, Resolved, Updated, BacktestHalf, ReplayHalf
<1> HIDE DEF b, c, k
<1>5. /\ Follows(fb, b) /\ Follows(fc, c)
      /\ k = n => ~ Holds(fb) /\ ~ Holds(fc)
      /\ Aligned => Even(fb, fc) /\ TradesAlike(fb.closed, fc.closed)
  BY <1>1, <1>2, <1>3, HalvesEven
<1> HIDE DEF fb, fc
<1>6. fb \in Books /\ fc \in Books
  BY <1>5 DEF Follows
<1>7. /\ Follows(bt', fb) /\ Follows(rp', fc)
      /\ bt'.closed = fb.closed /\ rp'.closed = fc.closed
      /\ ~ Holds(fb) => bt'.equity = bt'.balance
      /\ ~ Holds(fc) => rp'.equity = rp'.balance
      /\ Even(fb, fc) => Even(bt', rp') /\ bt'.equity = rp'.equity
  BY <1>4, <1>6, MarkEven
<1>8. cfg' = cfg /\ times' = times
  BY DEF Bar
<1>9. Follows(bt', bt) /\ Follows(rp', rp)
  BY <1>2, <1>5, <1>7, FollowsTrans
<1>10. ParityTypeOK'
  BY <1>1, <1>8, <1>9 DEF ParityTypeOK, Follows
<1>11. Aligned' = Aligned
  BY <1>8 DEF Aligned
<1>12. SameBooks'
  BY <1>5, <1>7, <1>11 DEF SameBooks, Even
<1>13. (Aligned => TradesAlike(bt.closed, rp.closed))'
  <2>1. TradesAlike(bt.closed, rp.closed)' <=> TradesAlike(bt'.closed, rp'.closed)
    BY <1>8, ReasonsFrozen DEF TradesAlike
  <2> QED
    BY <1>5, <1>7, <1>11, <2>1
<1>14. (Booked(bt) /\ Booked(rp))'
  BY <1>9 DEF ParityInv, Follows, Booked
<1>15. (i = n => bt.equity = bt.balance /\ rp.equity = rp.balance)'
  BY <1>1, <1>5, <1>7
<1> QED
  BY <1>10, <1>12, <1>13, <1>14, <1>15 DEF ParityInv

LEMMA ParityStutter ==
  ASSUME ParityInv, UNCHANGED vars
  PROVE  ParityInv'
<1>1. n' = n /\ Aligned' = Aligned
  BY DEF vars, n, Aligned
<1>2. cfg' = cfg /\ times' = times /\ i' = i /\ bt' = bt /\ rp' = rp
  BY DEF vars
<1>3. ParityTypeOK' /\ SameBooks'
  BY <1>1, <1>2 DEF ParityInv, ParityTypeOK, SameBooks
<1>4. TradesAlike(bt.closed, rp.closed)' <=> TradesAlike(bt.closed, rp.closed)
  BY <1>2, ReasonsFrozen DEF TradesAlike
<1>5. (Booked(bt) /\ Booked(rp))'
  BY <1>2 DEF ParityInv, Booked
<1> QED
  BY <1>1, <1>2, <1>3, <1>4, <1>5 DEF ParityInv

LEMMA ParityHolds == Spec => []ParityInv
<1>1. ParityInv /\ [Next]_vars => ParityInv'
  <2> SUFFICES ASSUME ParityInv, [Next]_vars PROVE ParityInv'
    OBVIOUS
  <2>1. CASE Next
    BY <2>1, BarParity DEF Next
  <2>2. CASE UNCHANGED vars
    BY <2>2, ParityStutter
  <2> QED
    BY <2>1, <2>2
<1> QED
  BY InitParity, <1>1, PTL DEF Spec

\* Both engines' state is well formed, for all candles, signals, guards and
\* sizes.
THEOREM ParityTypeCorrect == Spec => []ParityTypeOK
<1>1. ParityInv => ParityTypeOK
  BY DEF ParityInv
<1> QED
  BY <1>1, ParityHolds, PTL

\* INVARIANT-2 for core/backtest.py and core/replay.py: the same position,
\* balance and equity after every bar, if both are told the same of the daily
\* flat.
THEOREM ReplayIsBacktest == Spec => []SameBooks
<1>1. ParityInv => SameBooks
  BY DEF ParityInv
<1> QED
  BY <1>1, ParityHolds, PTL

\* INVARIANT-2: then also the same trades, with the same profits, and the same
\* reasons but for a holding time that ends with the session.
THEOREM TradesAgree == Spec => []SameTrades
<1>1. ParityInv => SameTrades
  <2> SUFFICES ASSUME ParityInv, Aligned
               PROVE  rp.closed = [k \in DOMAIN bt.closed |->
                         [bt.closed[k] EXCEPT !.reason = ReplayReason(bt.closed[k])]]
    BY DEF SameTrades
  <2> DEFINE s == bt.closed
             t == rp.closed
  <2>1. s \in Seq(Trades) /\ t \in Seq(Trades) /\ TradesAlike(s, t)
    BY DEF ParityInv, ParityTypeOK, Books
  <2> HIDE DEF s, t
  <2>2. DOMAIN s = 1 .. Len(s) /\ DOMAIN t = 1 .. Len(s)
    BY <2>1 DEF TradesAlike
  <2>3. t = [k \in DOMAIN t |-> t[k]]
    BY <2>1
  <2>4. \A k \in DOMAIN s : t[k] = [s[k] EXCEPT !.reason = ReplayReason(s[k])]
    BY <2>1, <2>2 DEF TradesAlike
  <2> QED
    BY <2>2, <2>3, <2>4, Zenon DEF s, t
<1> QED
  BY <1>1, ParityHolds, PTL

\* INVARIANT-1: the equity curve of either engine moves by what its trades
\* realize, under every configuration.
THEOREM CurvesReconcile == Spec => []Reconciles
<1>1. ParityInv => Reconciles
  BY DEF ParityInv, Reconciles, Booked
<1> QED
  BY <1>1, ParityHolds, PTL

-----------------------------------------------------------------------------
(* The median distance of the bars.                                        *)


\* A nonempty set of naturals has a least element.
LEMMA Least ==
  ASSUME NEW T \in SUBSET Nat, T # {}
  PROVE  \E m \in T : \A k \in T : m <= k
<1> DEFINE R == {ss \in Nat \X Nat : ss[1] < ss[2]}
<1>1. IsWellFoundedOn(R, Nat)
  BY NatLessThanWellFounded DEF OpToRel
<1> HIDE DEF R
<1>2. PICK m \in T : \A k \in T : <<k, m>> \notin R
  BY <1>1, WFMin
<1>3. \A k \in T : ~ (k < m)
  BY <1>2 DEF R
<1> QED
  BY <1>3

Upto(S, g, k)  == {j \in S : g[j] <= g[k]}
Below(S, g, k) == {j \in S : g[j] < g[k]}

\* Of finitely many integers that depend on a number, one is the largest.
LEMMA Largest ==
  ASSUME NEW S, IsFiniteSet(S), S # {}, NEW g \in [S -> Int]
  PROVE  \E k \in S : \A j \in S : g[j] <= g[k]
<1> DEFINE Rest(k) == Cardinality(S) - Cardinality(Upto(S, g, k))
<1>1. \A k \in S : /\ IsFiniteSet(Upto(S, g, k))
                   /\ Cardinality(Upto(S, g, k)) \in Nat
                   /\ Cardinality(Upto(S, g, k)) <= Cardinality(S)
  BY FS_Subset, FS_CardinalityType DEF Upto, Below
<1>2. Cardinality(S) \in Nat
  BY FS_CardinalityType
<1>3. \A k \in S : Rest(k) \in Nat
  BY <1>1, <1>2
<1> HIDE DEF Rest
<1>4. PICK m \in {Rest(k) : k \in S} : \A r \in {Rest(k) : k \in S} : m <= r
  <2> DEFINE R == {Rest(k) : k \in S}
  <2>1. R \in SUBSET Nat /\ R # {}
    BY <1>3
  <2> HIDE DEF R
  <2>2. \E m \in R : \A r \in R : m <= r
    BY <2>1, Least
  <2> QED
    BY <2>2 DEF R
<1>5. PICK k \in S : \A j \in S : Rest(k) <= Rest(j)
  BY <1>4
<1>6. ASSUME NEW j \in S, g[j] > g[k] PROVE FALSE
  <2>1. Upto(S, g, k) \in SUBSET Upto(S, g, j) /\ j \in Upto(S, g, j) /\ j \notin Upto(S, g, k)
    BY <1>6 DEF Upto
  <2>2. Cardinality(Upto(S, g, k)) < Cardinality(Upto(S, g, j))
    <3>1. /\ Cardinality(Upto(S, g, k)) <= Cardinality(Upto(S, g, j))
          /\ Cardinality(Upto(S, g, j)) = Cardinality(Upto(S, g, k)) => Upto(S, g, j) = Upto(S, g, k)
      BY <1>1, <2>1, FS_Subset
    <3> QED
      BY <1>1, <2>1, <3>1
  <2> QED
    BY <1>1, <1>2, <1>5, <2>2 DEF Rest
<1> QED
  BY <1>6

\* One of finitely many integers has the rank h among them.
LEMMA RankExists ==
  ASSUME NEW S, IsFiniteSet(S), NEW g \in [S -> Int],
         NEW h \in Nat, h < Cardinality(S)
  PROVE  \E k \in S : /\ Cardinality(Below(S, g, k)) <= h
                      /\ Cardinality(Upto(S, g, k)) > h
<1> DEFINE T == {k \in S : Cardinality(Upto(S, g, k)) > h}
<1>1. S # {}
  BY FS_EmptySet
<1>2. \A k \in S : /\ IsFiniteSet(Upto(S, g, k)) /\ Cardinality(Upto(S, g, k)) \in Nat
                   /\ IsFiniteSet(Below(S, g, k)) /\ Cardinality(Below(S, g, k)) \in Nat
  BY FS_Subset, FS_CardinalityType DEF Upto, Below
<1>3. T # {}
  <2>1. PICK k \in S : \A j \in S : g[j] <= g[k]
    BY <1>1, Largest
  <2>2. Upto(S, g, k) = S
    BY <2>1 DEF Upto
  <2> QED
    BY <2>2
<1>4. PICK k \in T : \A j \in T : g[k] <= g[j]
  <2> DEFINE f == [j \in T |-> -g[j]]
  <2>1. f \in [T -> Int] /\ IsFiniteSet(T)
    <3>1. T \in SUBSET S
      OBVIOUS
    <3>2. IsFiniteSet(T)
      BY <3>1, FS_Subset
    <3>3. \A j \in T : g[j] \in Int
      OBVIOUS
    <3> HIDE DEF T
    <3> QED
      BY <3>2, <3>3
  <2>2. PICK k \in T : \A j \in T : f[j] <= f[k]
    <3> HIDE DEF f, T
    <3> QED
      BY <1>3, <2>1, Largest
  <2>3. \A j \in T : g[j] \in Int /\ f[j] = -g[j]
    OBVIOUS
  <2> HIDE DEF f, T
  <2> QED
    BY <2>2, <2>3
<1>5. Cardinality(Below(S, g, k)) <= h
  <2>1. CASE Below(S, g, k) = {}
    BY <2>1, FS_EmptySet
  <2>2. CASE Below(S, g, k) # {}
    <3> DEFINE B == Below(S, g, k)
               f == [j \in B |-> g[j]]
    <3>1. f \in [B -> Int] /\ IsFiniteSet(B)
      BY <1>2 DEF Below
    <3>2. PICK j \in B : \A l \in B : f[l] <= f[j]
      <4> HIDE DEF f, B
      <4> QED
        BY <2>2, <3>1, Largest DEF B
    <3>3. B \in SUBSET Upto(S, g, j) /\ j \in S /\ j \notin T
      BY <1>4, <3>2 DEF Upto, Below
    <3>4. Cardinality(Upto(S, g, j)) <= h
      BY <1>2, <3>3
    <3> HIDE DEF T, f
    <3>5. Cardinality(B) <= Cardinality(Upto(S, g, j))
      BY <1>2, <3>3, FS_Subset
    <3>6. Cardinality(B) \in Nat /\ Cardinality(Upto(S, g, j)) \in Nat
      BY <1>2, <1>4, <3>3 DEF T
    <3> HIDE DEF B
    <3> QED
      BY <3>4, <3>5, <3>6 DEF B
  <2> QED
    BY <2>1, <2>2
<1> QED
  BY <1>4, <1>5

\* The median distance between two bars is an integer.
LEMMA TfTyped ==
  ASSUME times \in Calendars
  PROVE  TfMinutes \in Int
<1>1. times \in Seq(Nat) /\ n \in Nat
  BY CalendarsAssumption DEF n
<1>2. CASE n < 2
  BY <1>2 DEF TfMinutes
<1>3. CASE ~ (n < 2)
  <2> DEFINE S == 1 .. n - 1
             g == [k \in S |-> Gap(k)]
  <2>1. IsFiniteSet(S) /\ Cardinality(S) = n - 1
    BY <1>1, <1>3, FS_Interval
  <2>2. \A k \in S : Gap(k) \in Int
    BY <1>1, <1>3 DEF Gap, n
  <2>3. ASSUME NEW h \in Nat, h < n - 1 PROVE Ranked(h) \in Int
    <3>1. g \in [S -> Int]
      BY <2>2
    <3>2. \E k \in S : /\ Cardinality(Below(S, g, k)) <= h
                       /\ Cardinality(Upto(S, g, k)) > h
      <4> HIDE DEF g, S
      <4>1. h < Cardinality(S)
        BY <2>1, <2>3
      <4> QED
        BY <2>1, <3>1, <4>1, RankExists
    <3>3. \A k \in S : /\ Below(S, g, k) = {j \in S : Gap(j) < Gap(k)}
                       /\ Upto(S, g, k) = {j \in S : Gap(j) <= Gap(k)}
      BY DEF Upto, Below
    <3> DEFINE At(k) == /\ Cardinality({j \in S : Gap(j) < Gap(k)}) <= h
                        /\ Cardinality({j \in S : Gap(j) <= Gap(k)}) > h
    <3>4. \E k \in S : At(k)
      BY <3>2, <3>3, Zenon
    <3> HIDE DEF At
    <3>5. (CHOOSE k \in S : At(k)) \in S
      BY <3>4
    <3> QED
      BY <2>2, <3>5 DEF Ranked, At
  <2>4. (n - 2) \div 2 \in Nat /\ (n - 2) \div 2 < n - 1
        /\ (n - 1) \div 2 \in Nat /\ (n - 1) \div 2 < n - 1
    BY <1>1, <1>3
  <2>5. Ranked((n - 2) \div 2) \in Int /\ Ranked((n - 1) \div 2) \in Int
    BY <2>3, <2>4
  <2> QED
    BY <1>3, <2>5 DEF TfMinutes
<1> QED
  BY <1>2, <1>3


-----------------------------------------------------------------------------
(* What a bar does to the position.                                        *)

\* Nothing of the close of a bar forces a position flat.
Unforced(k, daily) ==
  /\ ~ (TfMinutes > 0 /\ NeedsWeekendFlat(BarClose(k), cfg))
  /\ ~ (TfMinutes > 0 /\ daily /\ NeedsDailyFlat(Class, BarClose(k), cfg))

\* A position that is still held after the first half of a bar was held
\* before it, and nothing of the bar's close forces it flat.
LEMMA ResolvedHolds ==
  ASSUME ParityTypeOK, NEW b, NEW k \in Nat, NEW bar, Holds(Resolved(b, k, bar))
  PROVE  Resolved(b, k, bar) = b /\ Holds(b) /\ Unforced(k, EnforceDaily)
<1>1. \A x, level, reason : ~ Holds(ClosedAtBar(x, k, bar, level, reason))
  BY DEF Holds, ClosedAtBar
<1> DEFINE l == Levels(b, k, bar)
<1>2. Holds(l) => l = b /\ Holds(b)
  BY <1>1 DEF Levels
<1>3. /\ Holds(ForcedFlat(l, k, bar)) => ForcedFlat(l, k, bar) = l /\ Holds(l)
      /\ Holds(ForcedFlat(l, k, bar)) => ~ (GuardsActive /\ NeedsWeekendFlat(BarClose(k), cfg))
      /\ Holds(ForcedFlat(l, k, bar))
           => ~ (GuardsActive /\ EnforceDaily /\ NeedsDailyFlat(Class, BarClose(k), cfg))
  <2> HIDE DEF l
  <2> QED
    BY <1>1 DEF ForcedFlat
<1> QED
  BY <1>2, <1>3, SameGuards DEF Resolved, Unforced

LEMMA UpdatedHolds ==
  ASSUME NEW b, NEW k \in Nat, NEW bar, Holds(Updated(b, k, bar))
  PROVE  Updated(b, k, bar) = b /\ Holds(b) /\ Unforced(k, cfg.daily)
<1>1. \A x, level, reason : ~ Holds(ClosedAtLevel(x, k, bar, level, reason))
  BY DEF Holds, ClosedAtLevel
<1> DEFINE u == UpdateBar(b, k, bar)
<1>2. Holds(u) => u = b /\ Holds(b) /\ Unforced(k, cfg.daily)
  BY <1>1 DEF UpdateBar, Unforced
<1>3. Holds(HeldTooLong(u, k, bar)) => HeldTooLong(u, k, bar) = u /\ Holds(u)
  <2> HIDE DEF u
  <2> QED
    BY <1>1 DEF HeldTooLong
<1> QED
  BY <1>2, <1>3 DEF Updated

\* The position of a signal, as both engines open it.
PositionOf(b, sig, k, bar) ==
  [dir |-> sig.dir, entry |-> bar.cl,
   fill |-> IF sig.dir = "LONG" THEN bar.cl + bar.slip ELSE bar.cl - bar.slip,
   stop |-> StopOf(sig, bar), target |-> TargetOf(sig, bar),
   lots |-> LotsFor(b, sig, bar), at |-> k, hold |-> sig.hold]

Opens(b, k, bar, sig) ==
  /\ sig \in Signals
  /\ LotsFor(b, sig, bar) # 0
  /\ ~ (cfg.noEntry > 0 /\ TfMinutes > 0 /\ InNoEntryWindow(BarClose(k), cfg))

\* The position after a bar is the one before it, through a close that does
\* not force it flat, or it was opened on this bar and sized from the balance
\* the bar ends with.
After(new, old, k, bar, daily) ==
  \/ new.pos = old.pos /\ Holds(old) /\ Unforced(k, daily)
  \/ \E b \in Books, sig \in Signals :
       /\ Opens(b, k, bar, sig)
       /\ new.pos = PositionOf(b, sig, k, bar)
       /\ new.balance = b.balance

LEMMA OpenedFacts ==
  ASSUME NEW b \in Books, NEW sigs \in Emissions, sigs # <<>>, NEW pos
  PROVE  /\ sigs[Len(sigs)] \in Signals
         /\ [b EXCEPT !.pos = pos].pos = pos
         /\ [b EXCEPT !.pos = pos].balance = b.balance
<1>1. sigs \in Seq(Signals)
  BY EmissionsAssumption
<1> QED
  BY <1>1 DEF Books

\* What entry does, if it opens a position.
LEMMA EnteredOpens ==
  ASSUME NEW b \in Books, NEW k, NEW bar, NEW sigs \in Emissions, NEW e,
         e = Entered(b, k, bar, sigs) \/ e = Opened(b, k, bar, sigs)
  PROVE  \/ e = b
         \/ \E sig \in Signals : /\ Opens(b, k, bar, sig)
                                 /\ e.pos = PositionOf(b, sig, k, bar)
                                 /\ e.balance = b.balance
<1> SUFFICES ASSUME e # b
             PROVE  \E sig \in Signals : /\ Opens(b, k, bar, sig)
                                         /\ e.pos = PositionOf(b, sig, k, bar)
                                         /\ e.balance = b.balance
  OBVIOUS
<1> DEFINE sig == sigs[Len(sigs)]
           opened == /\ sigs # <<>>
                     /\ ~ (cfg.noEntry > 0 /\ TfMinutes > 0 /\ InNoEntryWindow(BarClose(k), cfg))
                     /\ LotsFor(b, sig, bar) # 0
                     /\ e = [b EXCEPT !.pos = PositionOf(b, sig, k, bar)]
<1>1. CASE e = Entered(b, k, bar, sigs)
  <2>1. opened
    BY <1>1, Zenon DEF Entered, PositionOf
  <2> QED
    BY <2>1, OpenedFacts DEF Opens
<1>2. CASE e = Opened(b, k, bar, sigs)
  <2>1. opened
    BY <1>2, Zenon DEF Opened, PositionOf, EntrySlipped
  <2> QED
    BY <2>1, OpenedFacts DEF Opens
<1> QED
  BY <1>1, <1>2

\* The two ways through a bar for a position.
LEMMA PositionAfter ==
  ASSUME ParityTypeOK, NEW bar \in Bars, NEW sigs \in Emissions, Bar(bar, sigs)
  PROVE  /\ Holds(bt') => After(bt', bt, i + 1, bar, EnforceDaily)
         /\ Holds(rp') => After(rp', rp, i + 1, bar, cfg.daily)
<1> DEFINE k == i + 1
<1>1. bt \in Books /\ rp \in Books /\ k \in Nat
  BY CalendarsAssumption DEF ParityTypeOK, Bar, n
<1>2. ASSUME NEW old \in Books, NEW new, NEW daily, NEW m, NEW e, NEW f,
             LET b == [old EXCEPT !.closed = <<>>]
             IN  Holds(m) => m = b /\ Holds(b) /\ Unforced(k, daily),
             m \in Books, f \in Books, Holds(new),
             new.pos = f.pos, new.balance = f.balance, Holds(f) => f = e,
             \/ e = m
             \/ \E sig \in Signals : /\ Opens(m, k, bar, sig)
                                     /\ e.pos = PositionOf(m, sig, k, bar)
                                     /\ e.balance = m.balance
      PROVE  After(new, old, k, bar, daily)
  <2> DEFINE b == [old EXCEPT !.closed = <<>>]
  <2>1. b.pos = old.pos
    BY Emptied
  <2>2. f = e /\ Holds(e)
    BY <1>2 DEF Holds
  <2>3. CASE e = m
    <3>1. m = b /\ Holds(b) /\ Unforced(k, daily)
      BY <1>2, <2>2, <2>3
    <3> HIDE DEF b, k
    <3>2. Holds(old) /\ new.pos = old.pos
      BY <1>2, <2>1, <2>2, <2>3, <3>1 DEF Holds
    <3> QED
      BY <3>1, <3>2 DEF After
  <2>4. CASE \E sig \in Signals : /\ Opens(m, k, bar, sig)
                                  /\ e.pos = PositionOf(m, sig, k, bar)
                                  /\ e.balance = m.balance
    BY <1>2, <2>2, <2>4 DEF After
  <2> QED
    BY <1>2, <2>3, <2>4
<1>3. ASSUME Holds(bt') PROVE After(bt', bt, k, bar, EnforceDaily)
  <2> DEFINE b == [bt EXCEPT !.closed = <<>>]
             m == Resolved(b, k, bar)
             e == Entered(m, k, bar, sigs)
             f == EndOfData(e, k, bar)
  <2>1. bt' = Marked(f, bar)
    BY Zenon DEF Bar, BacktestBar, Resolved
  <2>2. b \in Books /\ b.closed = <<>>
    BY <1>1, Emptied DEF Follows
  <2> HIDE DEF k, b
  <2>3. m \in Books /\ (Holds(m) => m = b /\ Holds(b) /\ Unforced(k, EnforceDaily))
    BY <1>1, <2>2, ResolvedEven, ResolvedHolds DEF Follows
  <2> HIDE DEF m
  <2>4. e \in Books
    BY <1>1, <2>3, EnteredEven DEF Follows
  <2>5. \/ e = m
        \/ \E sig \in Signals : /\ Opens(m, k, bar, sig)
                                /\ e.pos = PositionOf(m, sig, k, bar)
                                /\ e.balance = m.balance
    BY <2>3, EnteredOpens
  <2> HIDE DEF e
  <2>6. f \in Books /\ (Holds(f) => f = e)
    BY <1>1, <2>4, EndEven DEF Follows, EndOfData, Holds, ClosedAtBar
  <2> HIDE DEF f
  <2>7. bt'.pos = f.pos /\ bt'.balance = f.balance
    BY <2>1, <2>6, MarkEven
  <2> QED
    BY <1>1, <1>2, <1>3, <2>3, <2>5, <2>6, <2>7 DEF b
<1>4. ASSUME Holds(rp') PROVE After(rp', rp, k, bar, cfg.daily)
  <2> DEFINE b == [rp EXCEPT !.closed = <<>>]
             m == Updated(b, k, bar)
             e == Opened(m, k, bar, sigs)
             f == Finished(e, k, bar)
  <2>1. rp' = MarkedToMarket(f, bar)
    BY Zenon DEF Bar, ReplayBar, Updated
  <2>2. b \in Books /\ b.closed = <<>>
    BY <1>1, Emptied DEF Follows
  <2> HIDE DEF k, b
  <2>3. m \in Books /\ (Holds(m) => m = b /\ Holds(b) /\ Unforced(k, cfg.daily))
    BY <1>1, <2>2, ResolvedEven, UpdatedHolds DEF Follows
  <2> HIDE DEF m
  <2>4. e \in Books
    BY <1>1, <2>3, EnteredEven DEF Follows
  <2>5. \/ e = m
        \/ \E sig \in Signals : /\ Opens(m, k, bar, sig)
                                /\ e.pos = PositionOf(m, sig, k, bar)
                                /\ e.balance = m.balance
    BY <2>3, EnteredOpens
  <2> HIDE DEF e
  <2>6. f \in Books /\ (Holds(f) => f = e)
    BY <1>1, <2>4, EndEven DEF Follows, Finished, Holds, ClosedAtLevel
  <2> HIDE DEF f
  <2>7. rp'.pos = f.pos /\ rp'.balance = f.balance
    BY <2>1, <2>6, MarkEven
  <2> QED
    BY <1>1, <1>2, <1>4, <2>3, <2>5, <2>6, <2>7 DEF b
<1> QED
  BY <1>3, <1>4

-----------------------------------------------------------------------------
(* Forced flats.                                                           *)

\* A time is its day's midnight and the minutes since.
LEMMA DayParts ==
  ASSUME NEW t \in Int
  PROVE  /\ t \div Day \in Int
         /\ t % Day \in Int
         /\ t % Day = t - Day * (t \div Day)
  BY DEF Day

\* What the property calls a flat bar is one the engines' guards see.
LEMMA FlatSeen ==
  ASSUME ParityTypeOK, NEW k \in 1 .. n, NEW daily \in BOOLEAN, FlatAt(k, daily)
  PROVE  /\ ~ Unforced(k, daily)
         /\ NoLateEntries =>
              cfg.noEntry > 0 /\ TfMinutes > 0 /\ InNoEntryWindow(BarClose(k), cfg)
<1> DEFINE t == BarClose(k)
<1>1. cfg \in Configs /\ cfg.close \in Int /\ cfg.buffer \in Nat /\ cfg.noEntry \in Nat
  BY ConfigsAssumption DEF ParityTypeOK
<1>2. t \in Int
  BY TfTyped, CalendarsAssumption DEF ParityTypeOK, BarClose, n
<1> HIDE DEF t
<1> DEFINE q == t \div Day
           r == t % Day
<1>3. /\ TfMinutes > 0
      /\ q % 7 < 5
      /\ r \in cfg.close - cfg.buffer .. cfg.close
      /\ (q % 7 = 4 /\ cfg.weekend) \/ (daily /\ Class \in cfg.classes)
  BY DEF FlatAt, t
<1>4. q \in Int /\ r \in Int /\ r = t - Day * q
  BY <1>2, DayParts
<1>5. Weekday(t) = q % 7 /\ CloseOf(t, cfg) = Day * q + cfg.close
  BY DEF Weekday, CloseOf
<1> HIDE DEF q, r
<1>6. InCloseWindow(t, cfg, cfg.buffer) /\ CloseOf(t, cfg) \in Int
      /\ CloseOf(t, cfg) - cfg.buffer <= t
  <2>1. q % 7 \in Int /\ Day * q \in Int
    BY <1>4 DEF Day
  <2> QED
    BY <1>1, <1>2, <1>3, <1>4, <1>5, <2>1 DEF InCloseWindow, Friday
<1>7. \/ NeedsWeekendFlat(t, cfg)
      \/ daily /\ NeedsDailyFlat(Class, t, cfg)
  BY <1>1, <1>3, <1>5, <1>6 DEF NeedsWeekendFlat, NeedsDailyFlat, Friday
<1>8. NoLateEntries => cfg.noEntry > 0 /\ InNoEntryWindow(t, cfg)
  BY <1>1, <1>2, <1>6 DEF NoLateEntries, InNoEntryWindow, InCloseWindow
<1> QED
  BY <1>3, <1>7, <1>8 DEF t, Unforced

\* Guards and calendar of a run do not change.
LEMMA FlatFrozen ==
  ASSUME cfg' = cfg, times' = times
  PROVE  /\ \A k, d : FlatAt(k, d)' <=> FlatAt(k, d)
         /\ NoLateEntries' <=> NoLateEntries
  BY TimesFrozen, Zenon DEF FlatAt, NoLateEntries

\* A held position was opened on a bar of the past, and no bar since forced
\* it flat.
Kept(b, daily) == Holds(b) => b.pos.at <= i /\ HeldThrough(b.pos, daily) = {}
FlatsInv == Kept(bt, EnforceDaily) /\ Kept(rp, cfg.daily)

\* The same of the position after a bar, counted up to that bar.
LEMMA KeptStep ==
  ASSUME ParityTypeOK, i < n, NEW old \in Books, NEW new, NEW bar,
         NEW daily \in BOOLEAN, Kept(old, daily), After(new, old, i + 1, bar, daily)
  PROVE  /\ new.pos.at <= i + 1
         /\ {k \in new.pos.at .. i + 1 :
               FlatAt(k, daily) /\ (k > new.pos.at \/ NoLateEntries)} = {}
<1>1. /\ i \in Nat /\ i + 1 \in 1 .. n
      /\ Holds(old) => old.pos.at \in Nat
  BY CalendarsAssumption DEF ParityTypeOK, n, Books, Positions, Holds
<1>2. CASE new.pos = old.pos /\ Holds(old) /\ Unforced(i + 1, daily)
  <2>1. ~ FlatAt(i + 1, daily)
    BY <1>1, <1>2, FlatSeen
  <2> QED
    BY <1>1, <1>2, <2>1 DEF Kept, HeldThrough
<1>3. ASSUME NEW b \in Books, NEW sig \in Signals, Opens(b, i + 1, bar, sig),
             new.pos = PositionOf(b, sig, i + 1, bar)
      PROVE  new.pos.at = i + 1 /\ ~ (FlatAt(i + 1, daily) /\ NoLateEntries)
  <2>1. new.pos.at = i + 1
    BY <1>3 DEF PositionOf
  <2>2. ASSUME FlatAt(i + 1, daily), NoLateEntries PROVE FALSE
    BY <1>1, <1>3, <2>2, FlatSeen DEF Opens
  <2> QED
    BY <2>1, <2>2
<1>4. CASE new.pos.at = i + 1 /\ ~ (FlatAt(i + 1, daily) /\ NoLateEntries)
  BY <1>1, <1>4
<1> QED
  BY <1>2, <1>3, <1>4 DEF After

LEMMA FlatsStep ==
  ASSUME ParityTypeOK, FlatsInv, NEW bar \in Bars, NEW sigs \in Emissions, Bar(bar, sigs)
  PROVE  FlatsInv'
<1>1. /\ i < n /\ i' = i + 1 /\ cfg' = cfg /\ times' = times
      /\ bt \in Books /\ rp \in Books
      /\ EnforceDaily \in BOOLEAN /\ cfg.daily \in BOOLEAN
  BY ConfigsAssumption DEF ParityTypeOK, Bar, EnforceDaily
<1>2. Kept(bt, EnforceDaily)'
  <2>1. EnforceDaily' = EnforceDaily
    BY <1>1 DEF EnforceDaily
  <2>2. CASE Holds(bt')
    <3>1. /\ bt'.pos.at <= i + 1
          /\ {k \in bt'.pos.at .. i + 1 :
                FlatAt(k, EnforceDaily) /\ (k > bt'.pos.at \/ NoLateEntries)} = {}
      BY <1>1, <2>2, PositionAfter, KeptStep DEF FlatsInv
    <3> QED
      BY <1>1, <2>1, <3>1, FlatFrozen DEF Kept, HeldThrough
  <2>3. CASE ~ Holds(bt')
    BY <2>3 DEF Kept, Holds
  <2> QED
    BY <2>2, <2>3
<1>3. Kept(rp, cfg.daily)'
  <2>1. CASE Holds(rp')
    <3>1. /\ rp'.pos.at <= i + 1
          /\ {k \in rp'.pos.at .. i + 1 :
                FlatAt(k, cfg.daily) /\ (k > rp'.pos.at \/ NoLateEntries)} = {}
      BY <1>1, <2>1, PositionAfter, KeptStep DEF FlatsInv
    <3> QED
      BY <1>1, <3>1, FlatFrozen DEF Kept, HeldThrough
  <2>2. CASE ~ Holds(rp')
    BY <2>2 DEF Kept, Holds
  <2> QED
    BY <2>1, <2>2
<1> QED
  BY <1>2, <1>3 DEF FlatsInv


-----------------------------------------------------------------------------
(* Sizing.                                                                 *)

\* The volumes of a symbol as brokers quote them: the step is one that its
\* own last digit can express (0.01, 0.05, 0.2; not 0.25), the minimum is a
\* multiple of it and lies below the maximum.
GradedVolumes ==
  /\ Symbol.step % Precision(Symbol.step) = 0
  /\ Symbol.min % Symbol.step = 0
  /\ Symbol.min <= Symbol.max

\* At most a tenth over the budget; with graded volumes the size is on the
\* grid, and the next larger one exceeds the budget or the maximum.
RightSize(lots, risk, budget) ==
  /\ 1000 * lots * risk <= 11 * budget
  /\ GradedVolumes =>
       /\ Symbol.min <= lots /\ lots <= Symbol.max
       /\ lots % Symbol.step = 0
       /\ \/ lots + Symbol.step > Symbol.max
          \/ 100 * (lots + Symbol.step) * risk > budget

\* Division by a volume step, and what is left.
LEMMA Division ==
  ASSUME NEW x \in Int, NEW d \in Nat \ {0}
  PROVE  /\ x \div d \in Int
         /\ (x \div d) * d \in Int
         /\ (x \div d) * d <= x
         /\ x < (x \div d) * d + d
         /\ x % d = 0 => x = (x \div d) * d
<1> DEFINE q == x \div d
           r == x % d
<1>1. q \in Int
  OBVIOUS
<1>2. r \in Int /\ r >= 0 /\ r < d
  OBVIOUS
<1>3. r = x - d * q
  OBVIOUS
<1> HIDE DEF q, r
<1>4. d * q = q * d /\ q * d \in Int
  BY <1>1
<1>5. q * d <= x /\ x < q * d + d /\ (r = 0 => x = q * d)
  BY <1>2, <1>3, <1>4
<1> QED
  BY <1>1, <1>4, <1>5 DEF q, r

LEMMA Multiple ==
  ASSUME NEW q \in Int, NEW d \in Nat \ {0}
  PROVE  (q * d) % d = 0 /\ (q * d) \div d = q
  OBVIOUS

\* FloorToStep is a multiple of the step, not larger, and the next one is.
LEMMA FloorFacts ==
  ASSUME NEW x \in Int, NEW d \in Nat \ {0}
  PROVE  /\ FloorToStep(x, d) \in Int
         /\ FloorToStep(x, d) % d = 0
         /\ FloorToStep(x, d) <= x
         /\ x < FloorToStep(x, d) + d
  BY Division, Multiple DEF FloorToStep

\* It is the largest such multiple.
LEMMA FloorLargest ==
  ASSUME NEW x \in Int, NEW d \in Nat \ {0}, NEW y \in Int, y % d = 0, y <= x
  PROVE  y <= FloorToStep(x, d)
<1> DEFINE q == x \div d
           p == y \div d
<1>1. /\ q \in Int /\ q * d \in Int /\ x < q * d + d
      /\ p \in Int /\ p * d \in Int /\ y = p * d
  BY Division
<1> HIDE DEF q, p
<1>2. CASE p <= q
  <2>1. p * d <= q * d
    BY <1>1, <1>2
  <2> QED
    BY <1>1, <2>1 DEF FloorToStep, q
<1>3. CASE q + 1 <= p
  <2>1. (q + 1) * d <= p * d
    BY <1>1, <1>3
  <2>2. (q + 1) * d = q * d + d
    BY <1>1
  <2> QED
    BY <1>1, <2>1, <2>2
<1> QED
  BY <1>1, <1>2, <1>3

\* Rounding leaves what is on the grid alone.
LEMMA RoundOnGrid ==
  ASSUME GradedVolumes, NEW x \in Int, x % Symbol.step = 0
  PROVE  RoundTo(x, Precision(Symbol.step)) = x
<1> DEFINE p == Precision(Symbol.step)
<1>1. Symbol.step \in Nat \ {0} /\ p \in Nat \ {0}
  BY MoneyAssumption DEF Precision
<1> HIDE DEF p
<1>2. PICK k \in Int : Symbol.step = k * p
  <2>1. Symbol.step % p = 0 /\ Symbol.step \in Int
    BY <1>1 DEF GradedVolumes, p
  <2> QED
    BY <1>1, <2>1, Division
<1>3. PICK m \in Int : x = m * Symbol.step
  BY <1>1, Division
<1>4. m * k \in Int /\ x = (m * k) * p
  BY <1>1, <1>2, <1>3
<1>5. x % p = 0 /\ x \div p = m * k
  BY <1>1, <1>4, Multiple
<1>6. p * (m * k) = x
  BY <1>1, <1>4
<1> QED
  BY <1>1, <1>5, <1>6 DEF RoundTo, p

\* What calc_lots returns without ceilings of the user's, when it returns any.
LEMMA LotsFacts ==
  ASSUME NEW equity \in Int, NEW pct \in Int, NEW entry \in Int, NEW stop \in Int,
         CalcLots(equity, pct, entry, stop, Symbol, 0, 0) # 0
  PROVE  RightSize(CalcLots(equity, pct, entry, stop, Symbol, 0, 0),
                   Distance(entry, stop) * Symbol.tick, equity * pct)
<1> DEFINE budget  == Budget(equity, pct, 0)
           risk    == Distance(entry, stop) * Symbol.tick
           q       == budget \div (100 * risk)
           fits    == FloorToStep(q, Symbol.step)
           raised  == IF fits < Symbol.min THEN Symbol.min ELSE fits
           clamped == IF raised > Symbol.max THEN FloorToStep(Symbol.max, Symbol.step) ELSE raised
           lots    == RoundTo(clamped, Precision(Symbol.step))
<1>1. /\ Symbol.step \in Nat \ {0} /\ Symbol.min \in Nat \ {0} /\ Symbol.max \in Nat \ {0}
      /\ Symbol.tick \in Nat \ {0}
  BY MoneyAssumption
<1>2. /\ CalcLots(equity, pct, entry, stop, Symbol, 0, 0) = lots
      /\ ~ (risk <= 0)
      /\ ~ Overshoots(lots, risk, budget)
  BY DEF CalcLots
<1>3. budget = equity * pct /\ budget \in Int
  BY DEF Budget
<1>4. risk \in Nat \ {0}
  <2>1. Distance(entry, stop) \in Int
    BY DEF Distance
  <2>2. risk \in Int
    BY <1>1, <2>1
  <2> QED
    BY <1>2, <2>2
<1> HIDE DEF budget, risk
<1>5. q \in Int /\ budget < (q + 1) * (100 * risk)
  <2>1. 100 * risk \in Nat \ {0}
    BY <1>4
  <2>2. /\ q \in Int /\ q * (100 * risk) \in Int
        /\ budget < q * (100 * risk) + 100 * risk
    BY <1>3, <2>1, Division
  <2> HIDE DEF q
  <2>3. (q + 1) * (100 * risk) = q * (100 * risk) + 100 * risk
    BY <2>1, <2>2
  <2> QED
    BY <1>3, <2>1, <2>2, <2>3
<1> HIDE DEF q
<1>6. fits \in Int /\ fits % Symbol.step = 0 /\ q + 1 <= fits + Symbol.step
  <2>1. fits \in Int /\ fits % Symbol.step = 0 /\ q < fits + Symbol.step
    BY <1>1, <1>5, FloorFacts
  <2> HIDE DEF fits
  <2> QED
    BY <1>1, <1>5, <2>1
<1> HIDE DEF fits
<1>7. lots \in Int
  <2>1. clamped \in Int
    <3>1. FloorToStep(Symbol.max, Symbol.step) \in Int
      BY <1>1, FloorFacts
    <3> QED
      BY <1>1, <1>6, <3>1
  <2> DEFINE p == Precision(Symbol.step)
             down == clamped \div p
  <2>2. p \in Nat \ {0}
    BY DEF Precision
  <2> HIDE DEF p, clamped
  <2>3. down \in Int
    BY <2>1, <2>2
  <2>4. lots = p * down \/ lots = p * (down + 1)
    BY DEF RoundTo, p
  <2> HIDE DEF down
  <2> QED
    BY <2>2, <2>3, <2>4
<1>8. 1000 * lots * risk <= 11 * budget
  <2>1. 1000 * lots * risk \in Int
    BY <1>4, <1>7
  <2> HIDE DEF lots
  <2> QED
    BY <1>2, <1>3, <2>1 DEF Overshoots
<1>9. ASSUME GradedVolumes
      PROVE  /\ Symbol.min <= lots /\ lots <= Symbol.max
             /\ lots % Symbol.step = 0
             /\ \/ lots + Symbol.step > Symbol.max
                \/ 100 * (lots + Symbol.step) * risk > budget
  <2>1. raised \in Int /\ raised % Symbol.step = 0 /\ Symbol.min <= raised /\ fits <= raised
    BY <1>1, <1>6, <1>9 DEF GradedVolumes
  <2> HIDE DEF raised
  <2>2. /\ FloorToStep(Symbol.max, Symbol.step) \in Int
        /\ FloorToStep(Symbol.max, Symbol.step) % Symbol.step = 0
        /\ FloorToStep(Symbol.max, Symbol.step) <= Symbol.max
        /\ Symbol.max < FloorToStep(Symbol.max, Symbol.step) + Symbol.step
        /\ Symbol.min <= FloorToStep(Symbol.max, Symbol.step)
    <3>1. Symbol.max \in Int /\ Symbol.min \in Int /\ Symbol.min % Symbol.step = 0
          /\ Symbol.min <= Symbol.max
      BY <1>1, <1>9 DEF GradedVolumes
    <3>2. Symbol.min <= FloorToStep(Symbol.max, Symbol.step)
      BY <1>1, <3>1, FloorLargest
    <3> QED
      BY <1>1, <3>1, <3>2, FloorFacts
  <2>3. /\ clamped \in Int /\ clamped % Symbol.step = 0
        /\ Symbol.min <= clamped /\ clamped <= Symbol.max
        /\ clamped + Symbol.step > Symbol.max \/ clamped = raised
    BY <1>1, <2>1, <2>2
  <2> HIDE DEF clamped
  <2>4. lots = clamped
    BY <1>9, <2>3, RoundOnGrid
  <2>5. ASSUME clamped = raised PROVE 100 * (clamped + Symbol.step) * risk > budget
    <3> DEFINE next == clamped + Symbol.step
    <3>1. next \in Int /\ q + 1 <= next
      BY <1>1, <1>5, <1>6, <2>1, <2>5
    <3> HIDE DEF next
    <3>2. (q + 1) * (100 * risk) <= next * (100 * risk)
      BY <1>4, <1>5, <3>1
    <3>3. next * (100 * risk) = 100 * next * risk
      BY <1>4, <3>1
    <3>4. (q + 1) * (100 * risk) \in Int /\ 100 * next * risk \in Int
      BY <1>4, <1>5, <3>1
    <3>5. budget < 100 * next * risk
      BY <1>3, <1>5, <3>2, <3>3, <3>4
    <3> QED
      BY <1>3, <3>4, <3>5 DEF next
  <2> QED
    BY <2>3, <2>4, <2>5
<1> QED
  BY <1>2, <1>3, <1>8, <1>9 DEF risk, RightSize

\* What the money of the last entry is worth at its stop.
Sized(b) ==
  Holds(b) /\ b.pos.at = i =>
    RightSize(b.pos.lots, Distance(b.pos.entry, b.pos.stop) * Symbol.tick,
              Base(b) * RiskPct)
SizeInv == Sized(bt) /\ Sized(rp)

LEMMA SizedAfter ==
  ASSUME ParityTypeOK, NEW old \in Books, NEW new, NEW bar \in Bars, NEW daily,
         Kept(old, daily), After(new, old, i + 1, bar, daily), new.pos.at = i + 1
  PROVE  RightSize(new.pos.lots, Distance(new.pos.entry, new.pos.stop) * Symbol.tick,
                   Base(new) * RiskPct)
<1>1. i \in Nat /\ (Holds(old) => old.pos.at \in Nat)
  BY CalendarsAssumption DEF ParityTypeOK, n, Books, Positions, Holds
<1>2. ~ (new.pos = old.pos /\ Holds(old))
  BY <1>1 DEF Kept
<1>3. PICK b \in Books, sig \in Signals :
        /\ Opens(b, i + 1, bar, sig)
        /\ new.pos = PositionOf(b, sig, i + 1, bar)
        /\ new.balance = b.balance
  BY <1>2 DEF After
<1> DEFINE equity == IF cfg.running THEN b.balance ELSE StartBalance
           lots == CalcLots(equity, RiskPct, bar.cl, StopOf(sig, bar), Symbol, 0, 0)
<1>4. lots = LotsFor(b, sig, bar) /\ lots # 0
  BY <1>3 DEF Opens, LotsFor
<1>5. equity \in Int /\ RiskPct \in Int /\ bar.cl \in Int /\ StopOf(sig, bar) \in Int
  BY MoneyAssumption, BarTyped DEF Books, StopOf, Sign, Signals
<1>6. Base(new) = equity
  BY <1>3 DEF Base
<1>7. new.pos.entry = bar.cl /\ new.pos.stop = StopOf(sig, bar) /\ new.pos.lots = lots
  BY <1>3, <1>4 DEF PositionOf
<1> HIDE DEF equity
<1>8. RightSize(lots, Distance(bar.cl, StopOf(sig, bar)) * Symbol.tick, equity * RiskPct)
  BY <1>4, <1>5, LotsFacts
<1> HIDE DEF lots
<1> QED
  BY <1>6, <1>7, <1>8

LEMMA SizeStep ==
  ASSUME ParityTypeOK, FlatsInv, NEW bar \in Bars, NEW sigs \in Emissions, Bar(bar, sigs)
  PROVE  SizeInv'
<1>1. i' = i + 1 /\ cfg' = cfg /\ bt \in Books /\ rp \in Books
  BY DEF ParityTypeOK, Bar
<1>2. Sized(bt)'
  <2> SUFFICES ASSUME Holds(bt'), bt'.pos.at = i + 1 PROVE Sized(bt)'
    BY <1>1 DEF Sized, Holds
  <2>1. RightSize(bt'.pos.lots, Distance(bt'.pos.entry, bt'.pos.stop) * Symbol.tick,
                  Base(bt') * RiskPct)
    BY <1>1, PositionAfter, SizedAfter DEF FlatsInv
  <2>2. Base(bt)' = Base(bt')
    BY <1>1 DEF Base
  <2> QED
    BY <2>1, <2>2 DEF Sized, RightSize
<1>3. Sized(rp)'
  <2> SUFFICES ASSUME Holds(rp'), rp'.pos.at = i + 1 PROVE Sized(rp)'
    BY <1>1 DEF Sized, Holds
  <2>1. RightSize(rp'.pos.lots, Distance(rp'.pos.entry, rp'.pos.stop) * Symbol.tick,
                  Base(rp') * RiskPct)
    BY <1>1, PositionAfter, SizedAfter DEF FlatsInv
  <2>2. Base(rp)' = Base(rp')
    BY <1>1 DEF Base
  <2> QED
    BY <2>1, <2>2 DEF Sized, RightSize
<1> QED
  BY <1>2, <1>3 DEF SizeInv

-----------------------------------------------------------------------------
EntryInv == ParityInv /\ FlatsInv /\ SizeInv

LEMMA EntryHolds == Spec => []EntryInv
<1>1. Init => EntryInv
  <2> SUFFICES ASSUME Init PROVE ~ Holds(bt) /\ ~ Holds(rp)
    BY InitParity DEF EntryInv, FlatsInv, SizeInv, Kept, Sized
  <2> QED
    BY DEF Init, Fresh, Holds
<1>2. EntryInv /\ [Next]_vars => EntryInv'
  <2> SUFFICES ASSUME EntryInv, [Next]_vars PROVE EntryInv'
    OBVIOUS
  <2>1. CASE Next
    BY <2>1, BarParity, FlatsStep, SizeStep DEF Next, EntryInv, ParityInv
  <2>2. CASE UNCHANGED vars
    <3>1. ParityInv'
      BY <2>2, ParityStutter DEF EntryInv
    <3>2. FlatsInv'
      <4>1. \A b, d : Kept(b, d)' <=> Kept(b, d)
        BY <2>2, FlatFrozen DEF vars, Kept, HeldThrough, Holds
      <4> QED
        BY <2>2, <4>1 DEF EntryInv, FlatsInv, vars, Kept, HeldThrough, Holds, EnforceDaily
    <3>3. SizeInv'
      BY <2>2 DEF EntryInv, SizeInv, Sized, RightSize, vars, Holds, Base
    <3> QED
      BY <3>1, <3>2, <3>3 DEF EntryInv
  <2> QED
    BY <2>1, <2>2
<1> QED
  BY <1>1, <1>2, PTL DEF Spec

\* INVARIANT-8 for both engines: a bar whose close forces a position flat is
\* not held through, and not entered on where entries are refused for as long.
THEOREM NotHeldThrough == Spec => []FlatsHold
<1>1. EntryInv => FlatsHold
  BY DEF EntryInv, FlatsInv, FlatsHold, Kept
<1> QED
  BY <1>1, EntryHolds, PTL

\* A new position risks at most a tenth more than the percentage of the
\* balance, whatever volumes the symbol has.
RiskCapped ==
  \A b \in {bt, rp} : Holds(b) /\ b.pos.at = i =>
    1000 * b.pos.lots * (Distance(b.pos.entry, b.pos.stop) * Symbol.tick)
      <= 11 * (Base(b) * RiskPct)

\* No entry of either engine risks more, through all balances.
THEOREM RiskIsCapped == Spec => []RiskCapped
<1>1. EntryInv => RiskCapped
  BY DEF EntryInv, SizeInv, Sized, RightSize, RiskCapped
<1> QED
  BY <1>1, EntryHolds, PTL

\* And where the broker's volumes are graded it is the largest size that does
\* not exceed the percentage, or the smallest there is.
THEOREM SizedRight == GradedVolumes => (Spec => []SizedToBudget)
<1> SUFFICES ASSUME GradedVolumes PROVE Spec => []SizedToBudget
  OBVIOUS
<1>1. EntryInv => SizedToBudget
  BY DEF EntryInv, SizeInv, Sized, RightSize, SizedToBudget
<1> QED
  BY <1>1, EntryHolds, PTL
=============================================================================
