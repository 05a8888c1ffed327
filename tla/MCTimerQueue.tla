---------------------------- MODULE MCTimerQueue ----------------------------
(* TimerQueue with two timers at two addresses, either of which may be     *)
(* given again; the delay is a second and a half.                          *)
EXTENDS TimerQueue
=============================================================================
