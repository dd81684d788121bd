---------------------------- MODULE MCLiveSignals ----------------------------
(* Small indicator periods and a few bars per strategy.                    *)
EXTENDS LiveSignals

Small ==
    [price |-> 1000, fast |-> 2, mid |-> 3, slow |-> 4, regime |-> 3, atr |-> 2,
     rsi |-> 2, bb |-> 3, bands |-> 10, period |-> 2, volWindow |-> 2,
     stop |-> 15, target |-> 30, rr |-> 20, pad |-> 5, pullback |-> 5,
     slope |-> 20, oversold |-> 35, overbought |-> 65, spread |-> 10,
     touch |-> 50, ibs |-> 250, k |-> 5, wide |-> 50, hold |-> 2, warm |-> 4,
     start |-> 3, week |-> 2, strength |-> 3, open |-> 0, sessionBars |-> 3,
     orBars |-> 1, cutoff |-> 3, minSession |-> 3, skipOpen |-> 1,
     skipClose |-> 1, kStop |-> 30, kEntry |-> 8, settle |-> 2, rsiMax |-> 80,
     pivot |-> 1, minSeparation |-> 1, maxSeparation |-> 3, maxWait |-> 3,
     lookback |-> 4, zone |-> 20, wick |-> 1, keep |-> 2, cooldown |-> 2,
     volMult |-> 10, break |-> 10, swing |-> 2, fresh |-> 2, momentum |-> 3]

Bar(gap, move, up, down, vol, wild) ==
    [gap |-> gap, move |-> move, up |-> up, down |-> down, vol |-> vol, wild |-> wild]
Rise   == Bar(0, 80, 10, 10, 2, TRUE)
Fall   == Bar(0, -80, 10, 10, 1, TRUE)
Dip    == Bar(0, 20, 5, 60, 3, FALSE)
Peak   == Bar(0, -20, 60, 5, 3, FALSE)
Rest   == Bar(0, 10, 10, 10, 0, FALSE)
Inner  == Bar(0, -20, 5, 5, 1, FALSE)
Engulf == Bar(-10, 110, 5, 5, 1, FALSE)
Swamp  == Bar(10, -110, 5, 5, 1, FALSE)
\* A bar seen at its first tick, after a bar that was first seen early as well.
Glimpse == Bar(80, 0, 0, 0, 1, FALSE)

Plain(names) == {<<name, "plain">> : name \in names}
CausalStrategies ==
    Plain({"bbands_meanrev", "donchian_breakout", "ema_cross", "ema_pullback",
           "ema_spread_pullback", "ema_spread_pullback_short",
           "engulfing_at_extreme", "first30_meanrev", "ibs", "inside_bar",
           "last_week_high", "last_week_low", "orb", "pivot_reaction_zone",
           "range_reversal", "rsi_meanrev", "trend_pullback",
           "trend_pullback_regime", "tsmom", "vol_break", "vol_breakout",
           "vwap_first_touch"})
    \cup {"support_resistance", "support_resistance_short"}
             \X {"plain", "rsi", "ema_filter", "volume"}
    \cup {<<"support_resistance", "bb_lower">>, <<"support_resistance_short", "bb_upper">>}
LookAheadStrategies ==
    Plain({"double_bottom", "overnight_drift", "vwap_fade", "orb_vol_filtered"})

AllStrategies == CausalStrategies \cup LookAheadStrategies
Menu ==
    [s \in AllStrategies |->
        CASE Name(s) = "inside_bar" -> {Rise, Fall, Inner, Glimpse}
          [] Name(s) = "engulfing_at_extreme" -> {Rise, Fall, Engulf, Swamp}
          [] Name(s) \in {"ema_spread_pullback", "last_week_low"} -> {Rise, Rest, Dip}
          [] Name(s) \in {"ema_spread_pullback_short", "last_week_high"} -> {Fall, Inner, Peak}
          [] Name(s) \in {"trend_pullback_regime", "pivot_reaction_zone",
                          "double_bottom", "vwap_first_touch"} -> {Rise, Fall, Dip}
          [] Name(s) \in {"ema_cross", "bbands_meanrev", "range_reversal", "tsmom",
                          "vwap_fade"} -> {Rise, Fall, Rest}
          [] Name(s) = "vol_breakout" -> {Rise, Fall, Rest, Peak}
          [] Name(s) = "rsi_meanrev" -> {Rise, Fall, Dip, Glimpse}
          [] Name(s) \in {"trend_pullback", "orb", "support_resistance",
                          "support_resistance_short"} -> {Rise, Fall, Dip, Peak}
          [] OTHER -> {Rise, Fall, Dip, Peak, Glimpse}]
Ends ==
    [s \in AllStrategies |->
        CASE Name(s) = "first30_meanrev" -> {2}
          [] Name(s) \in {"last_week_low", "last_week_high"} -> {1}
          [] Name(s) = "orb" -> {2, 4}
          [] Name(s) = "vwap_fade" -> {4}
          [] OTHER -> {3}]
Bars ==
    [s \in AllStrategies |->
        CASE Name(s) \in {"ema_spread_pullback", "ema_spread_pullback_short",
                          "pivot_reaction_zone", "trend_pullback_regime",
                          "vwap_first_touch", "double_bottom"} -> 9
          [] Name(s) \in {"ema_cross", "bbands_meanrev", "range_reversal", "tsmom",
                          "vwap_fade"} -> 8
          [] Name(s) \in {"trend_pullback", "engulfing_at_extreme"} -> 7
          [] OTHER -> 6]
=============================================================================
