----------------------------- MODULE TimeGuards -----------------------------
(***************************************************************************)
(* core/time_guards.py: when positions are forced flat and entries are     *)
(* refused.  Time is counted in minutes, minute 0 being a Monday 00:00     *)
(* UTC; a configuration is a TimeGuardCfg, with the class of the symbol    *)
(* (core/asset_class.py) as an argument.                                   *)
(***************************************************************************)
EXTENDS Integers

Day == 1440
Friday == 4

Weekday(t) == (t \div Day) % 7

\* The session close of the day of t.
CloseOf(t, cfg) == Day * (t \div Day) + cfg.close

\* The minute of the close itself is left out.
InCloseWindow_Open(t, cfg, minutes) ==
  /\ Weekday(t) <= Friday
  /\ CloseOf(t, cfg) - minutes <= t
  /\ t < CloseOf(t, cfg)

\* t is in the last minutes before the close of a weekday, the close included.
InCloseWindow(t, cfg, minutes) ==
  /\ Weekday(t) <= Friday
  /\ CloseOf(t, cfg) - minutes <= t
  /\ t <= CloseOf(t, cfg)

NeedsWeekendFlat(t, cfg) ==
  cfg.weekend /\ Weekday(t) = Friday /\ InCloseWindow(t, cfg, cfg.buffer)

NeedsDailyFlat(class, t, cfg) ==
  class \in cfg.classes /\ InCloseWindow(t, cfg, cfg.buffer)

InNoEntryWindow(t, cfg) == InCloseWindow(t, cfg, cfg.noEntry)
=============================================================================
