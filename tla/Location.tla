------------------------------- MODULE Location -------------------------------
(***************************************************************************)
(* plugins/lhpc_location.py: the reader thread of a position source (gpsd, *)
(* a serial NMEA device, a FIFO, a fixed position), its one fix, and the   *)
(* telemetry sensor Sideband asks the plugin to update.                    *)
(*                                                                         *)
(* A fix is the moment it was received, by the wall clock (`at`) and       *)
(* really (`r`); its coordinates are left out, and input without a valid   *)
(* position changes nothing.                                               *)
(***************************************************************************)
EXTENDS Integers

CONSTANTS
    MaxAge,        \* max_age
    Offsets,       \* what the wall clock can be off by
    MaxTime        \* bound on real time

ASSUME LocationAssumption == MaxAge \in Nat /\ Offsets \subseteq Int /\ MaxTime \in Nat

VARIABLES
    kind,          \* location_source; "none" before start()
    run,           \* the source's _run
    reader,        \* where the reader thread is
    up,            \* the world: gpsd, the device or the FIFO's writer is there
    linked,        \* the open connection leads to what is there
    fix, sensor,   \* Source.fix, and what the telemetry shows
    asOf,          \* ghost: real time of the last update_telemetry()
    real, offset   \* clocks

source == <<kind, run>>
world  == <<up, real, offset>>
vars   == <<source, reader, world, linked, fix, sensor, asOf>>

wall == real + offset
NoFix == [at |-> 0, r |-> -1, back |-> FALSE]
FixNow == [at |-> wall, r |-> real, back |-> FALSE]

Threaded == {"gpsd", "tty", "fifo"}

Init ==
    /\ kind = "none" /\ run = FALSE /\ reader = "off"
    /\ up \in BOOLEAN /\ linked = FALSE
    /\ fix = NoFix /\ sensor = NoFix /\ asOf = 0
    /\ real = 0 /\ offset \in Offsets

-----------------------------------------------------------------------------
(* LhpcLocationPlugin                                                      *)

\* start() and make_source(): a fixed position, if it is a valid one, has no
\* reader, and "off" no source.
Start ==
    /\ kind = "none"
    /\ kind' \in Threaded \cup {"fixed", "off"}
    /\ run' = (kind' \in Threaded)
    /\ reader' = IF kind' \in Threaded THEN "loop" ELSE "off"
    /\ fix' \in IF kind' = "fixed" THEN {FixNow, NoFix} ELSE {NoFix}
    /\ UNCHANGED <<world, linked, sensor, asOf>>

Stop ==
    /\ kind # "none"
    /\ run' = FALSE
    /\ UNCHANGED <<kind, reader, world, linked, fix, sensor, asOf>>

\* Source.current() and FixedSource.current(): the fix unless it is too old.
Current ==
    CASE fix = NoFix                    -> NoFix
      [] fix # NoFix /\ kind = "fixed"  -> FixNow
      [] fix # NoFix /\ kind # "fixed"  -> IF wall - fix.at <= MaxAge THEN fix ELSE NoFix

UpdateKeeping ==
    /\ kind \in Threaded \cup {"fixed"}
    /\ sensor' = IF Current = NoFix THEN sensor ELSE Current
    /\ fix' = IF kind = "fixed" THEN Current ELSE fix
    /\ asOf' = real
    /\ UNCHANGED <<source, reader, world, linked>>

\* update_telemetry(): the sensor shows the current fix or is dropped.
Update ==
    /\ kind \in Threaded \cup {"fixed"}
    /\ sensor' = Current
    /\ fix' = IF kind = "fixed" THEN Current ELSE fix
    /\ asOf' = real
    /\ UNCHANGED <<source, reader, world, linked>>

-----------------------------------------------------------------------------
(* Source._loop() and the read_once() of gpsd and NMEA                     *)

\* The test of the outer loop.
Loop ==
    /\ reader = "loop"
    /\ reader' = IF run THEN "open" ELSE "ended"
    /\ UNCHANGED <<source, world, linked, fix, sensor, asOf>>

\* The connection or the device opens; a FIFO's open() waits for a writer.
Open ==
    /\ reader = "open" /\ up
    /\ reader' = "read" /\ linked' = TRUE
    /\ UNCHANGED <<source, world, fix, sensor, asOf>>

OpenFails ==
    /\ reader = "open" /\ kind # "fifo" /\ ~up
    /\ reader' = "pause"
    /\ UNCHANGED <<source, world, linked, fix, sensor, asOf>>

\* The tests of the inner loops.
AfterReadAlways == "read"
AfterRead == IF run THEN "read" ELSE "loop"

\* What comes in is a valid position (on the planet, with an intact checksum), or
\* changes nothing.
Heard == {FixNow, fix}

\* A line or a chunk.
Hear ==
    /\ reader = "read" /\ linked
    /\ fix' \in Heard
    /\ reader' = AfterRead
    /\ UNCHANGED <<source, world, linked, sensor, asOf>>

\* gpsd: an empty recv() ends read_once(); 15 s without data are an exception,
\* and so is a broken connection.
GpsdEnds ==
    /\ reader = "read" /\ kind = "gpsd"
    /\ \/ ~linked /\ reader' = "loop"
       \/ reader' = "pause"
    /\ linked' = FALSE
    /\ UNCHANGED <<source, world, fix, sensor, asOf>>

\* NMEA: readline() returns nothing (VTIME of a quiet or hung-up tty, a FIFO
\* without a writer) and the same descriptor is read again.
NmeaEmpty ==
    /\ reader = "read"
    /\ kind = "tty" \/ (kind = "fifo" /\ ~linked)
    /\ reader' = AfterRead
    /\ UNCHANGED <<source, world, linked, fix, sensor, asOf>>

\* A hung-up tty may raise an I/O error instead.
TtyFails ==
    /\ reader = "read" /\ kind = "tty" /\ ~linked
    /\ reader' = "pause"
    /\ UNCHANGED <<source, world, linked, fix, sensor, asOf>>

PauseDies ==
    /\ reader = "pause"
    /\ reader' = "ended"
    /\ UNCHANGED <<source, world, linked, fix, sensor, asOf>>

\* The exception handler of _loop(), after its two seconds.
Pause ==
    /\ reader = "pause"
    /\ reader' = "loop"
    /\ UNCHANGED <<source, world, linked, fix, sensor, asOf>>

Read == Loop \/ Open \/ OpenFails \/ Hear \/ GpsdEnds \/ NmeaEmpty \/ TtyFails \/ Pause

-----------------------------------------------------------------------------
(* The world                                                               *)

\* gpsd is restarted, the receiver unplugged, the FIFO's writer replaced.  Only
\* a FIFO opened before leads to the new writer.
Outage ==
    /\ up /\ up' = FALSE /\ linked' = FALSE
    /\ UNCHANGED <<source, reader, fix, sensor, asOf, real, offset>>

Return ==
    /\ ~up /\ up' = TRUE
    /\ linked' = (kind = "fifo" /\ reader = "read")
    /\ UNCHANGED <<source, reader, fix, sensor, asOf, real, offset>>

Tick ==
    /\ real < MaxTime
    /\ real' = real + 1
    /\ UNCHANGED <<source, reader, up, linked, fix, sensor, asOf, offset>>

\* The wall clock is corrected; fixes received before a correction backwards
\* carry the (ghost) mark `back`.
SetBack(f, o) == IF f # NoFix /\ o < offset THEN [f EXCEPT !.back = TRUE] ELSE f
StepClock ==
    /\ \E o \in Offsets \ {offset} :
          offset' = o /\ fix' = SetBack(fix, o) /\ sensor' = SetBack(sensor, o)
    /\ UNCHANGED <<source, reader, up, linked, asOf, real>>

Next == Start \/ Stop \/ Update \/ Read \/ Outage \/ Return \/ Tick \/ StepClock

\* The scheduler runs the reader; its reads and pauses have timeouts, but for a
\* FIFO whose writer is silent.
Spec == Init /\ [][Next]_vars /\ WF_vars(Read)

-----------------------------------------------------------------------------
(* Properties                                                              *)

\* update_telemetry() and current(): what the telemetry shows after an update
\* was received at most max_age ago in real time, however the source fell silent,
\* unless the wall clock was set back meanwhile; a parked position never looks
\* live.
NoParkedPosition ==
    sensor # NoFix /\ asOf = real => real - sensor.r <= MaxAge \/ sensor.back

\* stop(): the reader of gpsd or of a serial device ends, also while data keeps
\* coming; a FIFO's may wait for its writer for good.
ReaderEnds == []<>(run \/ kind = "fifo" \/ reader \in {"off", "ended"})

\* _loop(): no outage kills the telemetry.  A gpsd or a FIFO that is back for good
\* is read again.  (A serial device that was unplugged may not be: unless a read
\* fails, its descriptor returns nothing for ever and is never reopened.)
Recovers ==
    <>[](kind \in {"gpsd", "fifo"} /\ run /\ up) => []<>(reader = "read" /\ linked)
===============================================================================
