------------------------------ MODULE MCDaemon ------------------------------
(* Daemon for TLC: see Daemon_*.cfg for the instances. *)
EXTENDS Daemon

CONSTANTS worker_, sched_, p1, p2, s1, s2

(* With days of two units: daily at their beginning, daily at their        *)
(* middle, and once in two units.                                          *)
HalfDays ==
  {d \in [kind : {"daily", "every"}, at : 0 .. 1, everyMinutes : {2}] :
     d.kind = "every" => d.at = 0}

(* A bound: the second incarnation is followed through the first day only, *)
(* while there are no more than two tasks.                                 *)
SecondLifeIsShort == boots = 2 => now < DayUnits /\ issued <= 2
=============================================================================
