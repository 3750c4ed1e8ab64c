---------------------------- MODULE MC_TickTimer ----------------------------
(* Instances of TickTimer in a scaled unit of time: 50 ms to the tick, and a *)
(* word of 16 ticks.  The clock is set by less than an interval, by more, by *)
(* a word or nearly so, and by almost two, forward and back.                 *)
EXTENDS TickTimer

MCSettings == {-30, -16, -5, -1, 1, 5, 13, 16, 17, 30}

=============================================================================
