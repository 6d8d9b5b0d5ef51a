----------------------------- MODULE MCDayTrade -----------------------------
(* Small instances of DayTrade for TLC: two symbols, six candles. *)
EXTENDS DayTrade

Shape(o, h, l, c, v) == [open |-> o, high |-> h, low |-> l, close |-> c, volume |-> v]
Quiet == Shape(10, 10, 10, 10, 2)
SetsUp == Shape(10, 12, 10, 11, 4)
Breaks == Shape(11, 13, 11, 12, 2)      \* triggers the entry at 12, or just drifts
Fails == Shape(12, 12, 9, 9, 2)         \* reaches the first stop
Gains == Shape(13, 14, 13, 14, 2)       \* 1R
Runs == Shape(15, 17, 15, 16, 2)        \* past 2R
Gaps == Shape(13, 13, 12, 13, 2)        \* opens below the trail

Turns == Shape(13, 14, 11, 12, 2)     \* 1R and back through the entry

MCTapes ==
  LET up == <<Quiet, SetsUp>>
      late == <<Quiet, Quiet, Quiet, SetsUp, Quiet, Breaks>>
  IN {<<up \o a, b>> :
        a \in {<<Breaks, Gains, Runs, Gaps>>, <<Breaks, Turns, SetsUp, Breaks>>,
               <<Breaks, Runs, Gaps, Breaks>>, <<Quiet, Quiet, SetsUp, Breaks>>},
        b \in {up \o <<Breaks, Gains, Fails, Breaks>>,
               up \o <<Breaks, Breaks, Fails, SetsUp>>, late}}
=============================================================================
