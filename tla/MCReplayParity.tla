--------------------------- MODULE MCReplayParity ---------------------------
EXTENDS ReplayParity

\* A quiet bar, a rise, a fall, and a wide bar that reaches both levels.
MCBars ==
  {[lo |-> 3, cl |-> 3, hi |-> 3, slip |-> 0],
   [lo |-> 3, cl |-> 4, hi |-> 4, slip |-> 0],
   [lo |-> 2, cl |-> 2, hi |-> 3, slip |-> 0],
   [lo |-> 1, cl |-> 3, hi |-> 5, slip |-> 1]}

Sig(d, r, h) == [dir |-> d, risk |-> r, hold |-> h]

\* Nothing, one signal, or two on one bar (double_bottom finds a breakout once
\* for every pair of lows).
MCEmissions ==
  {<<>>} \cup {<<Sig(d, r, h)>> : d \in Directions, r \in 1 .. 2, h \in 0 .. 1}
    \cup {<<Sig("LONG", 2, 0), Sig("LONG", 1, 0)>>}

\* Hourly bars of a Friday up to the session close at 20:00 and over the
\* weekend, and of a Monday.
MCCalendars ==
  {<<4 * Day + 1080, 4 * Day + 1140, 7 * Day, 7 * Day + 60>>,
   <<1080, 1140, 1200, 1260>>, <<4 * Day + 1140>>}

Guard(w, cl, ne, run) ==
  [weekend |-> w, daily |-> TRUE, classes |-> cl, close |-> 1200, buffer |-> 5,
   noEntry |-> ne, running |-> run]

\* What run_parity makes up when it is given neither a configuration nor risk
\* settings.
DefaultConfig == [Guard(FALSE, {"stock", "index"}, 0, TRUE) EXCEPT !.daily = FALSE]
DefaultOnly == {DefaultConfig}

MCConfigs ==
  {Guard(TRUE, {"stock", "index"}, 30, TRUE), Guard(TRUE, {}, 0, TRUE),
   Guard(FALSE, {"stock", "index"}, 0, FALSE), Guard(FALSE, {}, 0, TRUE),
   DefaultConfig}

MCSymbol == [step |-> 5, min |-> 10, max |-> 17, tick |-> 1]
=============================================================================
