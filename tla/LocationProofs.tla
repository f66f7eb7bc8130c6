---------------------------- MODULE LocationProofs ----------------------------
(***************************************************************************)
(* What Location promises about the age of a position, for every max_age   *)
(* and every set of clock errors.                                          *)
(*                                                                         *)
(* current() compares two readings of the wall clock, so the argument is   *)
(* about the clock: unless it was set back since, a fix was stamped no     *)
(* later, against the present clock, than it was received.                 *)
(***************************************************************************)
EXTENDS Location, TLAPS

Fixes == [at : Int, r : Int, back : BOOLEAN]

\* The part of the type invariant that the proof needs.
ClockTyped ==
    /\ real \in Nat /\ offset \in Int /\ asOf \in Int
    /\ fix \in Fixes /\ sensor \in Fixes

\* Unless the clock was set back, the present clock would stamp f's reception
\* no earlier than it was stamped.
NotAhead(f) == f # NoFix /\ ~f.back => f.at - f.r <= offset

\* What was shown by the last update was young then.
YoungAt(t) == asOf = t /\ sensor # NoFix /\ ~sensor.back => t - sensor.r <= MaxAge

LocationInv ==
    /\ ClockTyped
    /\ NotAhead(fix)
    /\ asOf <= real
    /\ YoungAt(real)

-----------------------------------------------------------------------------

\* FixNow, what a reader stamps on arrival, is a fix and is stamped by the present
\* clock.
LEMMA FixNowFacts ==
    ASSUME real \in Nat, offset \in Int
    PROVE  /\ FixNow \in Fixes /\ NotAhead(FixNow)
           /\ FixNow # NoFix /\ FixNow.r = real
  BY DEF FixNow, NoFix, Fixes, NotAhead, wall

\* Source.current(): what it returns is a fix, stamped no later than received, and
\* at most max_age old, unless the clock was set back.
LEMMA CurrentFacts ==
    ASSUME ClockTyped, NotAhead(fix)
    PROVE  /\ Current \in Fixes /\ NotAhead(Current)
           /\ Current # NoFix /\ ~Current.back => real - Current.r <= MaxAge
  <1>1. CASE fix = NoFix
    <2>1. Current = NoFix
      BY <1>1 DEF Current
    <2> QED BY <2>1 DEF NoFix, Fixes, NotAhead
  <1>2. CASE fix # NoFix /\ kind = "fixed"
    <2>1. Current = FixNow
      BY <1>2 DEF Current
    <2> QED
      BY <2>1, FixNowFacts, LocationAssumption DEF ClockTyped
  <1>3. CASE fix # NoFix /\ kind # "fixed"
    <2>1. Current = IF wall - fix.at <= MaxAge THEN fix ELSE NoFix
      BY <1>3 DEF Current
    <2>2. CASE wall - fix.at <= MaxAge
      <3>1. Current = fix
        BY <2>1, <2>2
      <3> QED
        BY <2>2, <3>1, LocationAssumption DEF ClockTyped, Fixes, NotAhead, wall
    <2>3. CASE ~(wall - fix.at <= MaxAge)
      <3>1. Current = NoFix
        BY <2>1, <2>3
      <3> QED BY <3>1 DEF NoFix, Fixes, NotAhead
    <2> QED BY <2>2, <2>3
  <1> QED BY <1>1, <1>2, <1>3

\* A clock step keeps a fix stamped no later than received, or marks it.
LEMMA SetBackFacts ==
    ASSUME NEW f \in Fixes, NEW o \in Int, offset \in Int, NotAhead(f)
    PROVE  /\ SetBack(f, o) \in Fixes
           /\ SetBack(f, o).r = f.r
           /\ SetBack(f, o) # NoFix => f # NoFix
           /\ ~SetBack(f, o).back => ~f.back
           /\ SetBack(f, o) # NoFix /\ ~SetBack(f, o).back
                => SetBack(f, o).at - SetBack(f, o).r <= o
  <1>1. CASE f # NoFix /\ o < offset
    <2>1. SetBack(f, o) = [f EXCEPT !.back = TRUE]
      BY <1>1 DEF SetBack
    <2> QED BY <1>1, <2>1 DEF Fixes
  <1>2. CASE ~(f # NoFix /\ o < offset)
    <2>1. SetBack(f, o) = f
      BY <1>2 DEF SetBack
    <2> QED BY <1>2, <2>1 DEF Fixes, NotAhead
  <1> QED BY <1>1, <1>2

-----------------------------------------------------------------------------

LEMMA LocationInit == Init => LocationInv
  BY LocationAssumption DEF Init, LocationInv, ClockTyped, Fixes, NotAhead, YoungAt, NoFix

LEMMA LocationStep == LocationInv /\ [Next]_vars => LocationInv'
  <1> SUFFICES ASSUME LocationInv, [Next]_vars
               PROVE  LocationInv'
    OBVIOUS
  <1>1. ClockTyped /\ NotAhead(fix) /\ asOf <= real /\ YoungAt(real)
    BY DEF LocationInv
  <1>2. CASE UNCHANGED <<fix, sensor, asOf, real, offset>>
    BY <1>1, <1>2 DEF LocationInv, ClockTyped, NotAhead, YoungAt
  <1>3. ASSUME fix' \in {FixNow, NoFix, fix}, UNCHANGED <<sensor, asOf, real, offset>>
        PROVE  LocationInv'
    <2>1. NoFix \in Fixes
      BY DEF NoFix, Fixes
    <2>2. fix' \in Fixes
      BY <1>1, <1>3, <2>1, FixNowFacts DEF ClockTyped
    <2>3. NotAhead(fix)'
      BY <1>1, <1>3, FixNowFacts DEF ClockTyped, NotAhead
    <2> QED
      BY <1>1, <1>3, <2>2, <2>3 DEF LocationInv, ClockTyped, YoungAt
  <1>4. CASE Start
    <2>1. fix' \in {FixNow, NoFix, fix}
      BY <1>4 DEF Start
    <2> QED BY <1>3, <1>4, <2>1 DEF Start, world
  <1>5. CASE Stop
    BY <1>2, <1>5 DEF Stop, world
  <1>6. CASE Update
    <2>1. /\ sensor' = Current /\ fix' \in {Current, fix} /\ asOf' = real
          /\ UNCHANGED <<real, offset>>
      BY <1>6 DEF Update, world
    <2>2. /\ Current \in Fixes /\ NotAhead(Current)
          /\ Current # NoFix /\ ~Current.back => real - Current.r <= MaxAge
      BY <1>1, CurrentFacts
    <2>3. ClockTyped'
      BY <1>1, <2>1, <2>2 DEF ClockTyped
    <2>4. NotAhead(fix)'
      BY <1>1, <2>1, <2>2 DEF NotAhead
    <2>5. asOf' <= real' /\ YoungAt(real)'
      BY <1>1, <2>1, <2>2 DEF YoungAt, ClockTyped
    <2> QED BY <2>3, <2>4, <2>5 DEF LocationInv
  <1>7. CASE Read
    <2>1. CASE Hear
      <3>1. fix' \in {FixNow, NoFix, fix}
        BY <2>1 DEF Hear, Heard
      <3> QED BY <1>3, <2>1, <3>1 DEF Hear, world
    <2>2. CASE Loop \/ Open \/ OpenFails \/ GpsdEnds \/ NmeaEmpty \/ TtyFails \/ Pause
      BY <1>2, <2>2 DEF Loop, Open, OpenFails, GpsdEnds, NmeaEmpty, TtyFails, Pause, world
    <2> QED BY <1>7, <2>1, <2>2 DEF Read
  <1>8. CASE Outage \/ Return
    BY <1>2, <1>8 DEF Outage, Return
  <1>9. CASE Tick
    BY <1>1, <1>9 DEF Tick, LocationInv, ClockTyped, NotAhead, YoungAt
  <1>10. CASE StepClock
    <2>1. PICK o \in Offsets \ {offset} :
             offset' = o /\ fix' = SetBack(fix, o) /\ sensor' = SetBack(sensor, o)
      BY <1>10 DEF StepClock
    <2>2. o \in Int /\ UNCHANGED <<asOf, real>>
      BY <1>10, <2>1, LocationAssumption DEF StepClock
    <2>3. /\ fix' \in Fixes
          /\ NotAhead(fix)'
      BY <1>1, <2>1, <2>2, SetBackFacts DEF ClockTyped, NotAhead
    <2>4. /\ sensor' \in Fixes /\ sensor'.r = sensor.r
          /\ sensor' # NoFix => sensor # NoFix
          /\ ~sensor'.back => ~sensor.back
      <3>1. CASE sensor # NoFix /\ o < offset
        <4>1. sensor' = [sensor EXCEPT !.back = TRUE]
          BY <2>1, <3>1 DEF SetBack
        <4> QED BY <1>1, <3>1, <4>1 DEF Fixes, ClockTyped
      <3>2. CASE ~(sensor # NoFix /\ o < offset)
        <4>1. sensor' = sensor
          BY <2>1, <3>2 DEF SetBack
        <4> QED BY <1>1, <4>1 DEF ClockTyped
      <3> QED BY <3>1, <3>2
    <2> QED
      BY <1>1, <2>1, <2>2, <2>3, <2>4 DEF LocationInv, ClockTyped, YoungAt
  <1>11. CASE UNCHANGED vars
    BY <1>2, <1>11 DEF vars, world
  <1> QED
    BY <1>4, <1>5, <1>6, <1>7, <1>8, <1>9, <1>10, <1>11 DEF Next

\* update_telemetry(): for every max_age, whatever the source does and however the
\* clock is corrected, a position shown by an update is no older than max_age in
\* real time, unless the clock was set back since the fix.
THEOREM NeverParked == Spec => []NoParkedPosition
  <1>1. LocationInv => NoParkedPosition
    BY LocationAssumption DEF LocationInv, YoungAt, NoParkedPosition, ClockTyped
  <1> QED BY <1>1, LocationInit, LocationStep, PTL DEF Spec
===============================================================================
