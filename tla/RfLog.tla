-------------------------------- MODULE RfLog ---------------------------------
(***************************************************************************)
(* loraham_rns/rflog.py: the RX and the TX thread append lines to one file *)
(* and roll it over into "<path>.1" by copy and truncate; the controller   *)
(* may truncate it at any moment.                                          *)
(*                                                                         *)
(* A line is written in up to two pieces (os.write() may be partial), so a *)
(* file is a sequence of pieces [line, half].  Sizes count pieces.         *)
(***************************************************************************)
EXTENDS Integers, SequencesExt

CONSTANTS
    Writers,       \* the threads that call rx() and tx()
    Nobody,        \* the holder of a free lock
    MaxBytes,      \* max_bytes, in pieces
    MaxLines       \* bound on the lines written

ASSUME LogAssumption ==
    /\ Nobody \notin Writers
    /\ MaxBytes \in Nat /\ MaxLines \in Nat \ {0}

VARIABLES
    logOpen,       \* _fd is not None
    logLock,       \* holder of _lock
    live, prev,    \* the log and its previous segment
    log,           \* each writer's place in rx() or tx() and its locals
    nextLine,      \* number of the next line
    done, rolled,  \* ghosts: lines written and not cleared since; before a roll-over
    torn, cut      \* ghosts: lines of the live file whose write failed or met a Clear

logVars == <<logOpen, logLock, live, prev, log, nextLine, done, rolled, torn, cut>>
files   == <<live, prev>>
record  == <<nextLine, done, rolled, torn, cut>>

LineSize == 2
Idle == [at |-> "out", line |-> 0, half |-> 1, off |-> 0]
Piece(n, h) == [line |-> n, half |-> h]

\* open(): the file may hold a line of an earlier process.
LogInit ==
    /\ logOpen = TRUE /\ logLock = Nobody
    /\ live = <<Piece(1, 1), Piece(1, 2)>> /\ prev = <<>>
    /\ log = [w \in Writers |-> Idle]
    /\ nextLine = 2
    /\ done = {1} /\ rolled = {} /\ torn = {} /\ cut = {}

-----------------------------------------------------------------------------
(* rx(), tx(), close(): under _lock                                        *)

At(w, place) == log' = [log EXCEPT ![w].at = place]
Leave(w) == logLock' = Nobody /\ log' = [log EXCEPT ![w] = Idle]

LogCall(w) ==
    /\ log[w].at = "out"
    /\ At(w, "lock")
    /\ UNCHANGED <<logOpen, logLock, files, record>>

\* The line fits, or the log is rolled over first.
AfterCheck == IF Len(live) + LineSize > MaxBytes THEN "open" ELSE "write"

LogLockUnheld(w) ==
    /\ log[w].at = "lock"
    /\ IF logOpen /\ nextLine <= MaxLines
       THEN /\ logLock' = w
            /\ log' = [log EXCEPT ![w].at = AfterCheck, ![w].line = nextLine]
            /\ nextLine' = nextLine + 1
       ELSE log' = [log EXCEPT ![w] = Idle] /\ UNCHANGED <<logLock, nextLine>>
    /\ UNCHANGED <<logOpen, files, done, rolled, torn, cut>>

\* While closed, rx() and tx() are silent no-ops (and so they are beyond the
\* bound on lines).  _write() looks at the size first.
LogLock(w) ==
    /\ log[w].at = "lock" /\ logLock = Nobody
    /\ IF logOpen /\ nextLine <= MaxLines
       THEN /\ logLock' = w
            /\ log' = [log EXCEPT ![w].at = AfterCheck, ![w].line = nextLine]
            /\ nextLine' = nextLine + 1
       ELSE log' = [log EXCEPT ![w] = Idle] /\ UNCHANGED <<logLock, nextLine>>
    /\ UNCHANGED <<logOpen, files, done, rolled, torn, cut>>

LogClose ==
    /\ logLock = Nobody
    /\ logOpen' = FALSE
    /\ UNCHANGED <<logLock, files, log, record>>

-----------------------------------------------------------------------------
(* _write() and _copy_to_previous()                                        *)

\* open(".1", "wb") empties the previous segment before anything is copied.
CopyOpen(w) ==
    /\ log[w].at = "open"
    /\ prev' = <<>>
    /\ rolled' = done /\ done' = {}
    /\ log' = [log EXCEPT ![w].at = "copy", ![w].off = 0]
    /\ UNCHANGED <<logOpen, logLock, live, nextLine, torn, cut>>

\* One chunk; an empty pread() is the end of the copy.
CopyChunk(w) ==
    /\ log[w].at = "copy"
    /\ IF log[w].off < Len(live)
       THEN /\ prev' = Append(prev, live[log[w].off + 1])
            /\ log' = [log EXCEPT ![w].off = @ + 1]
       ELSE At(w, "truncate") /\ UNCHANGED prev
    /\ UNCHANGED <<logOpen, logLock, live, record>>

CopyFailsUnseen(w) ==
    /\ log[w].at \in {"open", "copy"}
    /\ At(w, "truncate")
    /\ UNCHANGED <<logOpen, logLock, files, record>>

\* An OSError of the copy: the live file is left to grow.
CopyFails(w) ==
    /\ log[w].at \in {"open", "copy"}
    /\ At(w, "write")
    /\ UNCHANGED <<logOpen, logLock, files, record>>

\* ftruncate(), whose OSError is ignored.
Truncate(w) ==
    /\ log[w].at = "truncate"
    /\ \/ live' = <<>> /\ torn' = {} /\ cut' = {}
       \/ UNCHANGED <<live, torn, cut>>
    /\ At(w, "write")
    /\ UNCHANGED <<logOpen, logLock, prev, nextLine, done, rolled>>

\* os.write() appends what is left of the line, or a part of it.
Write(w) ==
    /\ log[w].at = "write"
    /\ \E upTo \in log[w].half..LineSize :
          /\ live' = live \o [k \in 1..(upTo - log[w].half + 1) |->
                                 Piece(log[w].line, log[w].half + k - 1)]
          /\ IF upTo = LineSize
             THEN Leave(w) /\ done' = done \cup ({log[w].line} \ cut)
             ELSE log' = [log EXCEPT ![w].half = upTo + 1] /\ UNCHANGED <<logLock, done>>
    /\ UNCHANGED <<logOpen, prev, nextLine, rolled, torn, cut>>

\* An OSError of write(): the line is given up where it is.
WriteGivesUp(w) ==
    /\ log[w].at = "write"
    /\ torn' = torn \cup {log[w].line}
    /\ Leave(w)
    /\ UNCHANGED <<logOpen, files, nextLine, done, rolled, cut>>

LogStep(w) ==
    \/ LogLock(w) \/ CopyOpen(w) \/ CopyChunk(w) \/ CopyFails(w)
    \/ Truncate(w) \/ Write(w) \/ WriteGivesUp(w)

\* The controller's Clear.
Clear ==
    /\ live # <<>>
    /\ live' = <<>> /\ done' = {} /\ rolled' = {} /\ torn' = {}
    /\ cut' = {log[w].line : w \in {v \in Writers : log[v].half > 1}}
    /\ UNCHANGED <<logOpen, logLock, prev, log, nextLine>>

-----------------------------------------------------------------------------
(* Properties                                                              *)

InWriting(n) == \E w \in Writers : log[w].at = "write" /\ log[w].line = n

\* _lock around the whole of _write(), and O_APPEND: the two halves of a line
\* stand together in the live file, over partial writes of two threads, unless
\* its write failed or the controller cleared the file in the middle of it.
LinesWhole ==
    \A i \in DOMAIN live :
        LET n == live[i].line
        IN  IF live[i].half = 1
            THEN \/ i < Len(live) /\ live[i + 1] = Piece(n, 2)
                 \/ n \in torn \/ InWriting(n)
            ELSE \/ i > 1 /\ live[i - 1] = Piece(n, 1)
                 \/ n \in cut

\* The roll-over truncates only what it has copied: a line that was written
\* completely is in the log or in its previous segment until a second roll-over
\* begins, over failed copies, failed truncations and a racing Clear of others.
Retained ==
    \A n \in done \cup rolled : \A h \in 1..LineSize :
        Piece(n, h) \in ToSet(live) \cup ToSet(prev)
===============================================================================
