------------------------------ MODULE TickTimer ------------------------------
(***************************************************************************)
(* CSceneLogic::CheckTimer and GetTickTime (scenelogic.cpp): a check is    *)
(* made when mLastTickCount is Interval behind the clock.  The clock is    *)
(* CLOCK_REALTIME, a 64-bit count of milliseconds that an administrator or *)
(* NTP may set; the difference is stored in an unsigned int.               *)
(***************************************************************************)
EXTENDS Integers

CONSTANTS
  Interval,  \* 200 ms
  Word,      \* 2^32: what an unsigned int wraps at
  Settings,  \* what the clock may be moved by when it is set, either way
  Stall,     \* the longest time one turn of the main loop takes
  MaxTime,   \* bound: time without a check
  MaxClock   \* bound: how far the clock gets from where it was at the start

ASSUME TickTimerAssumption ==
  /\ Interval \in Nat \ {0} /\ Word \in Nat /\ Interval + Stall < Word
  /\ Settings \subseteq Int /\ Stall \in Nat \ {0}
  /\ MaxTime \in Nat /\ MaxClock \in Nat

VARIABLES
  clock,           \* CLOCK_REALTIME, counted from where it was at the start
  mLastTickCount,  \* the clock at the last check
  unchecked,       \* history: time passed since the last check
  steady,          \* history: ... or since the clock was set, if that was later
  moved            \* history: the clock was set since the last check

vars == <<clock, mLastTickCount, unchecked, steady, moved>>

Init ==
  /\ clock = 0 /\ mLastTickCount = 0
  /\ unchecked = 0 /\ steady = 0 /\ moved = FALSE

\* tInterval: a 64-bit difference cut to its low 32 bits
tInterval(now) == (now - mLastTickCount) % Word

DueAtOnce(now) == TRUE                   \* mutant: no interval
DueLate(now) == tInterval(now) > Interval   \* mutant: off by one
Due(now) == tInterval(now) >= Interval

\* one turn of the main loop: time passes, then CheckTimer
Run ==
  \E d \in 1 .. Stall :
    LET now == clock + d IN
    /\ unchecked + d <= MaxTime /\ now <= MaxClock
    /\ clock' = now
    /\ \/ /\ Due(now)
          /\ mLastTickCount' = now
          /\ unchecked' = 0 /\ steady' = 0 /\ moved' = FALSE
       \/ /\ ~Due(now)
          /\ unchecked' = unchecked + d /\ steady' = steady + d
          /\ UNCHANGED <<mLastTickCount, moved>>

SetClock ==
  /\ \E d \in Settings : /\ clock + d \in -MaxClock .. MaxClock
                         /\ clock' = clock + d
  /\ steady' = 0 /\ moved' = TRUE
  /\ UNCHANGED <<mLastTickCount, unchecked>>

Next == Run \/ SetClock

Spec == Init /\ [][Next]_vars

-----------------------------------------------------------------------------
(* Properties.                                                             *)

\* No turn of the main loop leaves a check overdue, however long the turns
\* take: it is made at the end of the turn in which Interval has passed since
\* the last one.  When the clock was set since then, by any amount and either
\* way, it is made within Interval of the setting, or one turn later: the cut
\* to 32 bits (CheckTimer) makes the difference small again once at most.
CheckedInTime ==
  \/ steady < Interval
  \/ moved /\ steady < Interval + Stall

\* Two checks are at least Interval apart, unless the clock was set in between
\* (the comment of GetTickTime denies that this matters, but it reads
\* CLOCK_REALTIME).
ChecksSpaced ==
  [][\A d \in 1 .. Stall :
       clock' = clock + d /\ mLastTickCount' # mLastTickCount
       => unchecked + d >= Interval \/ moved]_vars

=============================================================================
