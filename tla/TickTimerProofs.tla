--------------------------- MODULE TickTimerProofs ---------------------------
(***************************************************************************)
(* ChecksSpaced and CheckedInTime for any interval, any turns, any width   *)
(* of the difference and any setting of the clock, forward or back.        *)
(***************************************************************************)
EXTENDS TickTimer, TLAPS

\* A difference below 2^32 is not changed by the unsigned int (CheckTimer).
LEMMA NotCut ==
  ASSUME NEW a \in Int, 0 <= a, a < Word
  PROVE  a % Word = a
BY TickTimerAssumption

LEMMA CutTyped ==
  ASSUME NEW a \in Int
  PROVE  a % Word \in Nat
<1>1. Word \in Nat /\ Word > 0 BY TickTimerAssumption
<1> QED BY <1>1

\* Where a difference was cut makes none to how it grows, up to the next cut.
LEMMA GrowsUncut ==
  ASSUME NEW a \in Int, NEW d \in Nat, (a % Word) + d < Word
  PROVE  (a + d) % Word = (a % Word) + d
<1> DEFINE q == a \div Word
           r == a % Word
<1>1. /\ Word \in Nat /\ Word > 0 /\ q \in Int /\ r \in Nat
      /\ a = Word * q + r /\ r + d < Word
  BY TickTimerAssumption
<1>2. a + d = Word * q + (r + d) /\ r + d \in 0 .. Word - 1
  BY <1>1
<1> HIDE DEF q, r
<1>3. \A b \in 0 .. Word - 1 : (Word * q + b) % Word = b
  BY <1>1
<1> QED BY <1>2, <1>3 DEF r

\* The types, which no run lists: they only carry the two properties below.
Typed ==
  /\ clock \in Int /\ mLastTickCount \in Int
  /\ unchecked \in Nat /\ steady \in Nat /\ moved \in BOOLEAN

\* While nobody sets it, the clock keeps pace with the time since the last
\* check, which is less than an interval.
Paced ==
  ~moved => /\ clock - mLastTickCount = unchecked
            /\ steady = unchecked /\ unchecked < Interval

\* Once it was set, the cut difference grows with the clock from the end of the
\* first turn after, which is the only turn that can find it smaller.
Caught ==
  moved => \/ steady = 0
           \/ /\ tInterval(clock) < Interval
              /\ steady <= tInterval(clock) + Stall

TimerInv == Typed /\ Paced /\ Caught

LEMMA TimerInit == Init => TimerInv
<1> SUFFICES ASSUME Init PROVE TimerInv OBVIOUS
<1>1. clock = 0 /\ mLastTickCount = 0 /\ unchecked = 0 /\ steady = 0
  BY DEF Init
<1>2. moved = FALSE BY DEF Init
<1>3. moved \in BOOLEAN BY <1>2, Zenon
<1>6. Typed BY <1>1, <1>3 DEF Typed
<1>4. Paced BY <1>1, TickTimerAssumption DEF Paced
<1>5. Caught BY <1>1 DEF Caught
<1> QED BY <1>4, <1>5, <1>6 DEF TimerInv

\* One turn, by its length.
LEMMA Turn ==
  ASSUME Typed, Run
  PROVE  \E d \in Nat :
           /\ 1 <= d /\ d <= Stall
           /\ clock' = clock + d
           /\ \/ /\ Due(clock + d) /\ mLastTickCount' = clock + d
                 /\ unchecked' = 0 /\ steady' = 0 /\ moved' = FALSE
              \/ /\ ~Due(clock + d) /\ mLastTickCount' = mLastTickCount
                 /\ unchecked' = unchecked + d /\ steady' = steady + d
                 /\ moved' = moved
<1>1. PICK d \in 1 .. Stall :
           /\ clock' = clock + d
           /\ \/ /\ Due(clock + d) /\ mLastTickCount' = clock + d
                 /\ unchecked' = 0 /\ steady' = 0 /\ moved' = FALSE
              \/ /\ ~Due(clock + d) /\ mLastTickCount' = mLastTickCount
                 /\ unchecked' = unchecked + d /\ steady' = steady + d
                 /\ moved' = moved
  BY DEF Run
<1>2. d \in Nat /\ 1 <= d /\ d <= Stall BY TickTimerAssumption
<1> QED BY <1>1, <1>2

\* What the program computes of a turn, while nobody sets the clock.
LEMMA PacedInterval ==
  ASSUME TimerInv, ~moved, NEW d \in Nat, d <= Stall
  PROVE  tInterval(clock + d) = unchecked + d
<1>1. /\ (clock + d) - mLastTickCount = unchecked + d
      /\ (clock + d) - mLastTickCount \in Int
      /\ 0 <= (clock + d) - mLastTickCount
      /\ (clock + d) - mLastTickCount < Word
  BY TickTimerAssumption DEF TimerInv, Typed, Paced
<1>2. ((clock + d) - mLastTickCount) % Word = (clock + d) - mLastTickCount
  BY <1>1, NotCut
<1> QED BY <1>1, <1>2, Zenon DEF tInterval

LEMMA TimerNext == TimerInv /\ [Next]_vars => TimerInv'
<1> SUFFICES ASSUME TimerInv, [Next]_vars PROVE TimerInv' OBVIOUS
<1>0. Typed BY DEF TimerInv
<1>1. CASE Run
  <2>1. PICK d \in Nat :
           /\ 1 <= d /\ d <= Stall
           /\ clock' = clock + d
           /\ \/ /\ Due(clock + d) /\ mLastTickCount' = clock + d
                 /\ unchecked' = 0 /\ steady' = 0 /\ moved' = FALSE
              \/ /\ ~Due(clock + d) /\ mLastTickCount' = mLastTickCount
                 /\ unchecked' = unchecked + d /\ steady' = steady + d
                 /\ moved' = moved
    BY <1>0, <1>1, Turn
  <2>2. CASE /\ mLastTickCount' = clock + d
             /\ unchecked' = 0 /\ steady' = 0 /\ moved' = FALSE
    <3>1. Typed'
      <4>1. moved' \in BOOLEAN BY <2>2, Zenon
      <4> QED BY <1>0, <2>1, <2>2, <4>1 DEF Typed
    <3>2. Paced'
      <4>1. clock' - mLastTickCount' = unchecked'
        BY <1>0, <2>1, <2>2 DEF Typed
      <4>2. steady' = unchecked' /\ unchecked' < Interval
        BY <2>2, TickTimerAssumption
      <4> QED BY <4>1, <4>2, Zenon DEF Paced
    <3>3. Caught' BY <2>2, Zenon DEF Caught
    <3> QED BY <3>1, <3>2, <3>3 DEF TimerInv
  <2>3. CASE /\ ~Due(clock + d) /\ mLastTickCount' = mLastTickCount
             /\ unchecked' = unchecked + d /\ steady' = steady + d
             /\ moved' = moved
    <3>1. Typed' BY <1>0, <2>1, <2>3 DEF Typed
    <3>2. /\ tInterval(clock)' = tInterval(clock + d)
          /\ tInterval(clock) \in Nat /\ tInterval(clock + d) \in Nat
          /\ tInterval(clock + d) < Interval
      <4>1. tInterval(clock)' = tInterval(clock + d)
        BY <2>1, <2>3 DEF tInterval
      <4>2. /\ clock - mLastTickCount \in Int
            /\ (clock + d) - mLastTickCount \in Int
        BY <1>0 DEF Typed
      <4>3. tInterval(clock) \in Nat /\ tInterval(clock + d) \in Nat
        BY <4>2, CutTyped DEF tInterval
      <4> QED BY <2>3, <4>1, <4>3, TickTimerAssumption DEF Due
    <3>3. Paced'
      <4>1. ASSUME ~moved
            PROVE  /\ (clock + d) - mLastTickCount = unchecked + d
                   /\ steady + d = unchecked + d
                   /\ unchecked + d < Interval
        <5>1. tInterval(clock + d) = unchecked + d
          BY <2>1, <4>1, PacedInterval
        <5> QED BY <1>0, <2>1, <3>2, <4>1, <5>1 DEF TimerInv, Typed, Paced
      <4>2. (~moved)' => ~moved BY <2>3, Zenon
      <4>3. /\ clock' = clock + d /\ mLastTickCount' = mLastTickCount
            /\ unchecked' = unchecked + d /\ steady' = steady + d
        BY <2>1, <2>3
      <4> QED BY <4>1, <4>2, <4>3, Zenon DEF Paced
    <3>4. Caught'
      <4>1. SUFFICES ASSUME moved
                     PROVE  steady + d <= tInterval(clock + d) + Stall
        BY <2>3, <3>2 DEF Caught
      <4>2. CASE steady = 0
        BY <1>0, <2>1, <3>2, <4>2, TickTimerAssumption DEF Typed
      <4>3. CASE /\ tInterval(clock) < Interval
                 /\ steady <= tInterval(clock) + Stall
        <5>1. tInterval(clock) + d < Word
          BY <2>1, <3>2, <4>3, TickTimerAssumption
        <5>2. /\ clock - mLastTickCount \in Int
              /\ (clock - mLastTickCount) + d = (clock + d) - mLastTickCount
          BY <1>0 DEF Typed
        <5>3. tInterval(clock + d) = tInterval(clock) + d
          <6>1. ((clock - mLastTickCount) + d) % Word
                = ((clock - mLastTickCount) % Word) + d
            BY <5>1, <5>2, GrowsUncut DEF tInterval
          <6> QED BY <5>2, <6>1, Zenon DEF tInterval
        <5> QED BY <1>0, <3>2, <4>3, <5>3, TickTimerAssumption DEF Typed
      <4> QED BY <4>1, <4>2, <4>3 DEF TimerInv, Caught
    <3> QED BY <3>1, <3>3, <3>4 DEF TimerInv
  <2> QED BY <2>1, <2>2, <2>3
<1>2. CASE SetClock
  <2>1. PICK d \in Int : clock' = clock + d
    BY <1>2, TickTimerAssumption DEF SetClock
  <2>2. clock' \in Int BY <1>0, <2>1 DEF Typed
  <2> QED BY <1>0, <1>2, <2>2 DEF SetClock, TimerInv, Typed, Paced, Caught
<1>3. CASE UNCHANGED vars
  BY <1>3 DEF vars, TimerInv, Typed, Paced, Caught, tInterval
<1> QED BY <1>1, <1>2, <1>3 DEF Next

\* Two checks are an interval apart unless the clock was set between them, for
\* every interval, stall and setting (CheckTimer, GetTickTime).
THEOREM ChecksApart == Spec => ChecksSpaced
<1>1. TimerInv /\ [Next]_vars =>
        [\A d \in 1 .. Stall :
           clock' = clock + d /\ mLastTickCount' # mLastTickCount
           => unchecked + d >= Interval \/ moved]_vars
  <2> SUFFICES ASSUME TimerInv, [Next]_vars, NEW d \in 1 .. Stall,
                      clock' = clock + d, mLastTickCount' # mLastTickCount,
                      ~moved
               PROVE  unchecked + d >= Interval
    OBVIOUS
  <2>0. Typed /\ d \in Nat /\ d <= Stall
    BY TickTimerAssumption DEF TimerInv
  <2>1. Run BY DEF Next, SetClock, vars
  <2>2. PICK e \in Nat : clock' = clock + e /\ Due(clock + e)
    BY <2>0, <2>1, Turn
  <2>3. e = d BY <2>0, <2>2 DEF Typed
  <2>4. tInterval(clock + d) = unchecked + d BY <2>0, PacedInterval
  <2> QED BY <2>2, <2>3, <2>4 DEF Due
<1> QED BY <1>1, TimerInit, TimerNext, PTL DEF Spec, ChecksSpaced

\* A check is made within an interval of the last one and, when the clock was
\* set, by whatever amount, within an interval and a turn of the setting
\* (CheckTimer).
THEOREM CheckedAlways == Spec => []CheckedInTime
<1>1. TimerInv => CheckedInTime
  <2> SUFFICES ASSUME TimerInv PROVE CheckedInTime OBVIOUS
  <2>1. CASE ~moved BY <2>1 DEF TimerInv, Paced, CheckedInTime
  <2>2. CASE moved
    <3>1. CASE steady = 0 BY <3>1, TickTimerAssumption DEF CheckedInTime
    <3>2. CASE /\ tInterval(clock) < Interval
               /\ steady <= tInterval(clock) + Stall
      <4>1. clock - mLastTickCount \in Int BY DEF TimerInv, Typed
      <4>2. tInterval(clock) \in Nat
        BY <4>1, CutTyped DEF tInterval
      <4>3. steady < Interval + Stall
        BY <3>2, <4>2, TickTimerAssumption DEF TimerInv, Typed
      <4> QED BY <2>2, <4>3 DEF CheckedInTime
    <3> QED BY <2>2, <3>1, <3>2 DEF TimerInv, Caught
  <2> QED BY <2>1, <2>2
<1> QED BY <1>1, TimerInit, TimerNext, PTL DEF Spec

=============================================================================
