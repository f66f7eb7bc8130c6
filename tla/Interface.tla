------------------------------ MODULE Interface ------------------------------
(***************************************************************************)
(* The workers of loraham_rns/interface.py after a successful __init__:    *)
(* the RX thread, the TX thread, RNS threads inside process_outgoing() and *)
(* a main thread that may detach().  They share the queue, two events, the *)
(* radio lock, the flags _run, online and fatal, and one half-duplex chip. *)
(*                                                                         *)
(* Each step is a statement (or a run of statements no other thread can    *)
(* tell apart) of the code.  A refused reservation is retried without any  *)
(* change of state, so only the ends of that loop are actions.             *)
(***************************************************************************)
EXTENDS Integers, Sequences, FiniteSets

CONSTANTS
    Callers,       \* RNS threads that call process_outgoing()
    MaxQueue,      \* MAX_QUEUE_PACKETS
    NoThread,      \* the radio lock's owner when it is free
    MaxPackets     \* bound: packets submitted

ASSUME InterfaceAssumption ==
    /\ IsFiniteSet(Callers) /\ Callers # {}
    /\ MaxQueue \in Nat \ {0} /\ MaxPackets \in Nat
    /\ NoThread \notin {"rx", "tx"}

VARIABLES
    run, online,   \* _run, online
    fatal,         \* fatal is not None
    queue,         \* _tx_queue
    refused,       \* _tx_dropped + _tx_oversize
    txEvent, txActive,             \* _tx_event, _tx_active
    radioLock,     \* owner of _radio_lock
    mode,          \* the chip: "rx" receiving, "busy" anything else
    radioOpen, busOpen,            \* not yet closed by detach()
    rx, tx, main,  \* where the threads are
    caller,        \* where each caller of process_outgoing() is
    left,          \* frames _transmit() has still to send
    next,          \* number of the next packet submitted
    broken,        \* ghost: the hardware failed (not: was closed)
    late           \* ghost: packets keyed up after _run was cleared

flags  == <<run, online, fatal>>
counts == <<refused, next>>
chip   == <<mode, radioOpen, busOpen, broken>>
vars   == <<flags, queue, counts, txEvent, txActive, radioLock, chip, rx, tx, main, caller,
            left, late>>

\* __init__ configured the radio, called start_rx(), went online and started both threads.
Init ==
    /\ run = TRUE /\ online = TRUE /\ fatal = FALSE
    /\ queue = <<>> /\ refused = 0 /\ next = 1
    /\ txEvent = FALSE /\ txActive = FALSE /\ radioLock = NoThread
    /\ mode = "rx" /\ radioOpen = TRUE /\ busOpen = TRUE /\ broken = FALSE
    /\ rx = "loop" /\ tx = "loop" /\ main = "attached"
    /\ caller = [c \in Callers |-> "idle"]
    /\ left = 0 /\ late = 0

-----------------------------------------------------------------------------
(* process_outgoing()                                                      *)

FullAbove == Len(queue) > MaxQueue
Full == Len(queue) >= MaxQueue

\* The checks; an offline interface returns without a trace.
Submit(c) ==
    /\ caller[c] = "idle" /\ online /\ next <= MaxPackets
    /\ next' = next + 1
    /\ \E oversize \in BOOLEAN :       \* len(data) > max_packet
          IF oversize \/ Full
          THEN refused' = refused + 1 /\ UNCHANGED caller
          ELSE caller' = [caller EXCEPT ![c] = "append"] /\ UNCHANGED refused
    /\ UNCHANGED <<flags, queue, txEvent, txActive, radioLock, chip, rx, tx, main, left, late>>

AppendPacket(c) ==
    /\ caller[c] = "append"
    /\ queue' = Append(queue, "packet")
    /\ caller' = [caller EXCEPT ![c] = "notify"]
    /\ UNCHANGED <<flags, counts, txEvent, txActive, radioLock, chip, rx, tx, main, left, late>>

Notify(c) ==
    /\ caller[c] = "notify"
    /\ txEvent' = TRUE
    /\ caller' = [caller EXCEPT ![c] = "idle"]
    /\ UNCHANGED <<flags, queue, counts, txActive, radioLock, chip, rx, tx, main, left, late>>

-----------------------------------------------------------------------------
(* _fail(), shared by both workers: w' is the worker's next place          *)

\* A fault met while shutting down is not a fault.
ShuttingDownNever == FALSE
ShuttingDownInverted == run
ShuttingDown == ~run

FailStep(w, wnext) ==
    \/ /\ w = "fail" /\ ShuttingDown /\ wnext = "done"
       /\ UNCHANGED <<flags, txEvent>>
    \/ /\ w = "fail" /\ ~ShuttingDown /\ wnext = "stop"
       /\ UNCHANGED <<flags, txEvent>>
    \/ /\ w = "stop" /\ wnext = "wake"
       /\ run' = FALSE /\ UNCHANGED <<online, fatal, txEvent>>
    \/ /\ w = "wake" /\ wnext = "report"
       /\ txEvent' = TRUE /\ UNCHANGED flags
    \/ /\ w = "report" /\ wnext = "record"
       /\ online' = FALSE /\ UNCHANGED <<run, fatal, txEvent>>
    \/ /\ w = "record" /\ wnext = "done"
       /\ fatal' = TRUE /\ UNCHANGED <<run, online, txEvent>>

\* A driver call raises because the line or bus was closed, or because it broke.
Raises(open) ==
    \/ ~open /\ UNCHANGED broken
    \/ broken' = TRUE

-----------------------------------------------------------------------------
(* _rx_loop()                                                              *)

RxGo(l) == rx' = l /\ UNCHANGED <<queue, counts, txActive, main, caller, tx, left, late>>

RxLoop ==
    /\ rx = "loop"
    /\ RxGo(IF ~run THEN "done" ELSE IF txActive THEN "loop" ELSE "irq")
    /\ UNCHANGED <<flags, txEvent, radioLock, chip>>

\* wait_irq() needs no lock; it returns after an edge or 0.1 s, or raises.
RxWait ==
    /\ rx = "irq"
    /\ \/ radioOpen /\ RxGo("lock") /\ UNCHANGED broken
       \/ Raises(radioOpen) /\ RxGo("fail")
    /\ UNCHANGED <<flags, txEvent, radioLock, mode, radioOpen, busOpen>>

RxLockUnchecked ==
    /\ rx = "lock" /\ radioLock = NoThread /\ RxGo("poll") /\ radioLock' = "rx"
    /\ UNCHANGED <<flags, txEvent, chip>>

\* Under the lock, TX may have taken the radio while we waited.
RxLock ==
    /\ rx = "lock" /\ radioLock = NoThread
    /\ IF txActive THEN RxGo("loop") /\ UNCHANGED radioLock
                   ELSE RxGo("poll") /\ radioLock' = "rx"
    /\ UNCHANGED <<flags, txEvent, chip>>

\* poll_rx() returns (with or without a packet) or raises; the lock is released.
RxPoll ==
    /\ rx = "poll"
    /\ radioLock' = NoThread
    /\ \/ busOpen /\ (RxGo("got") \/ RxGo("loop")) /\ UNCHANGED broken
       \/ Raises(busOpen) /\ RxGo("fail")
    /\ UNCHANGED <<flags, txEvent, mode, radioOpen, busOpen>>

\* RF log, reassembly and owner.inbound(); any other exception is logged.
RxDeliver ==
    /\ rx = "got" /\ RxGo("loop")
    /\ UNCHANGED <<flags, txEvent, radioLock, chip>>

RxFail ==
    /\ \E l \in {"stop", "wake", "report", "record", "done"} : FailStep(rx, l) /\ RxGo(l)
    /\ UNCHANGED <<radioLock, chip>>

-----------------------------------------------------------------------------
(* _tx_loop() and _transmit()                                              *)

TxGo(l) == tx' = l /\ UNCHANGED <<counts, main, caller, rx>>

TxLoopClearing ==
    /\ tx = "loop" /\ TxGo(IF run THEN "wait" ELSE "done") /\ txEvent' = FALSE
    /\ UNCHANGED <<flags, queue, txActive, radioLock, chip, left, late>>

TxLoop ==
    /\ tx = "loop" /\ TxGo(IF run THEN "wait" ELSE "done")
    /\ UNCHANGED <<flags, queue, txEvent, txActive, radioLock, chip, left, late>>

\* wait() then clear(); the one second timeout is a step of its own.
TxWake ==
    /\ tx = "wait" /\ txEvent /\ TxGo("clear")
    /\ UNCHANGED <<flags, queue, txEvent, txActive, radioLock, chip, left, late>>

TxWaitTimeout ==
    /\ tx = "wait" /\ ~txEvent /\ TxGo("clear")
    /\ UNCHANGED <<flags, queue, txEvent, txActive, radioLock, chip, left, late>>

TxClear ==
    /\ tx = "clear" /\ txEvent' = FALSE /\ TxGo("drain")
    /\ UNCHANGED <<flags, queue, txActive, radioLock, chip, left, late>>

TxTestDraining ==
    /\ tx = "drain" /\ TxGo(IF queue # <<>> THEN "pop" ELSE "loop")
    /\ UNCHANGED <<flags, queue, txEvent, txActive, radioLock, chip, left, late>>

\* while self._tx_queue and self._run: popleft()
TxTest ==
    /\ tx = "drain" /\ TxGo(IF queue # <<>> /\ run THEN "pop" ELSE "loop")
    /\ UNCHANGED <<flags, queue, txEvent, txActive, radioLock, chip, left, late>>

\* One packet is one frame, or one or two with RNode framing.
TxPop ==
    /\ tx = "pop" /\ TxGo("reserve")
    /\ queue' = Tail(queue) /\ left' \in {1, 2}
    /\ UNCHANGED <<flags, txEvent, txActive, radioLock, chip, late>>

\* The reservation is refused until MAX_DUTY_HOLD is over, or raises DutyError.
TxGiveUp ==
    /\ tx = "reserve" /\ TxGo("drain") /\ left' = 0
    /\ UNCHANGED <<flags, queue, txEvent, txActive, radioLock, chip, late>>

\* Reserved: take the radio from the RX loop.
TxReserved ==
    /\ tx = "reserve" /\ TxGo("key")
    /\ UNCHANGED <<flags, queue, txEvent, txActive, radioLock, chip, left, late>>

TxKey ==
    /\ tx = "key" /\ radioLock = NoThread
    /\ txActive' = TRUE /\ TxGo("air")
    /\ late' = IF run THEN late ELSE late + 1
    /\ UNCHANGED <<flags, queue, txEvent, radioLock, chip, left>>

\* radio.transmit() of one frame, confirmed or not.
TxFrame ==
    /\ tx = "air" /\ left > 0 /\ busOpen /\ radioOpen
    /\ mode' = "busy" /\ left' = left - 1 /\ TxGo("air")
    /\ UNCHANGED <<flags, queue, txEvent, txActive, radioLock, radioOpen, busOpen, broken, late>>

TxRelockSkipped ==
    /\ tx = "air" /\ left = 0 /\ TxGo("release")
    /\ UNCHANGED <<flags, queue, txEvent, txActive, radioLock, chip, left, late>>

TxRelock ==
    /\ tx = "air" /\ left = 0 /\ radioLock = NoThread
    /\ radioLock' = "tx" /\ TxGo("rearm")
    /\ UNCHANGED <<flags, queue, txEvent, txActive, chip, left, late>>

\* start_rx() under the lock, then the finally clause clears _tx_active.
TxRearm ==
    /\ tx = "rearm" /\ busOpen
    /\ mode' = "rx" /\ radioLock' = NoThread /\ TxGo("release")
    /\ UNCHANGED <<flags, queue, txEvent, txActive, radioOpen, busOpen, broken, left, late>>

TxRelease ==
    /\ tx = "release" /\ txActive' = FALSE /\ TxGo("drain")
    /\ UNCHANGED <<flags, queue, txEvent, radioLock, chip, left, late>>

\* transmit() or start_rx() raises; lock and _tx_active are released on the way out.
TxRaise ==
    /\ \/ tx = "air" /\ left > 0 /\ Raises(busOpen /\ radioOpen)
       \/ tx = "rearm" /\ Raises(busOpen)
    /\ TxGo("fail")
    /\ mode' = "busy" /\ txActive' = FALSE /\ left' = 0
    /\ radioLock' = IF radioLock = "tx" THEN NoThread ELSE radioLock
    /\ UNCHANGED <<flags, queue, txEvent, radioOpen, busOpen, late>>

TxFail ==
    /\ \E l \in {"stop", "wake", "report", "record", "done"} : FailStep(tx, l) /\ TxGo(l)
    /\ UNCHANGED <<queue, txActive, radioLock, chip, left, late>>

-----------------------------------------------------------------------------
(* detach()                                                                *)

MainGo(l) == main' = l /\ UNCHANGED <<fatal, queue, counts, txActive, radioLock, mode, broken, rx, tx,
                                      caller, left, late>>

DetachStop ==
    /\ main = "attached" /\ run' = FALSE /\ MainGo("wake")
    /\ UNCHANGED <<online, txEvent, radioOpen, busOpen>>

DetachWakeForgotten ==
    /\ main = "wake" /\ MainGo("offline")
    /\ UNCHANGED <<run, online, txEvent, radioOpen, busOpen>>

DetachWake ==
    /\ main = "wake" /\ txEvent' = TRUE /\ MainGo("offline")
    /\ UNCHANGED <<run, online, radioOpen, busOpen>>

DetachOffline ==
    /\ main = "offline" /\ online' = FALSE /\ MainGo("close")
    /\ UNCHANGED <<run, txEvent, radioOpen, busOpen>>

\* After 0.15 s, which a transmission in progress easily outlives.
DetachClose ==
    /\ \/ main = "close" /\ radioOpen' = FALSE /\ MainGo("close_bus") /\ UNCHANGED busOpen
       \/ main = "close_bus" /\ busOpen' = FALSE /\ MainGo("detached") /\ UNCHANGED radioOpen
    /\ UNCHANGED <<run, online, txEvent>>

-----------------------------------------------------------------------------
Call(c) == Submit(c) \/ AppendPacket(c) \/ Notify(c)
Rx == RxLoop \/ RxWait \/ RxLock \/ RxPoll \/ RxDeliver \/ RxFail
Tx == \/ TxLoop \/ TxWake \/ TxClear \/ TxTest \/ TxPop \/ TxGiveUp \/ TxReserved \/ TxKey
      \/ TxFrame \/ TxRelock \/ TxRearm \/ TxRelease \/ TxRaise \/ TxFail
Detach == DetachStop \/ DetachWake \/ DetachOffline \/ DetachClose

Next == (\E c \in Callers : Call(c)) \/ Rx \/ Tx \/ TxWaitTimeout \/ Detach

Spec == Init /\ [][Next]_vars

\* Threads that can run do run, and a thread that waits for the radio lock gets
\* it in the end: the RX loop is outside of it for up to 0.1 s of every round.
\* Nothing relies on the one second timeout of the TX worker's wait, on anyone
\* calling detach(), or on the hardware working or failing.
FairSpec ==
    /\ Spec
    /\ WF_vars(Rx) /\ SF_vars(RxLock)
    /\ WF_vars(Tx) /\ SF_vars(TxKey) /\ SF_vars(TxRelock)
    /\ \A c \in Callers : WF_vars(AppendPacket(c) \/ Notify(c))
    /\ WF_vars(DetachWake \/ DetachOffline \/ DetachClose)

-----------------------------------------------------------------------------
(* Properties                                                              *)

Failing(w) == w \in {"fail", "stop", "wake", "report", "record", "done"}

\* _radio_lock with _tx_active: poll_rx() never runs on the chip while
\* transmit() or start_rx() does, although transmit() holds no lock.
RadioExclusive == ~(rx = "poll" /\ tx \in {"air", "rearm"})

\* After every packet the radio listens again: when the TX worker is not using
\* it and has not failed, the chip is in receive mode.
Listening == ~txActive /\ ~Failing(tx) => mode = "rx"

\* MAX_QUEUE_PACKETS: the test and the append of process_outgoing() are two
\* steps, so the cap can be passed, by one packet per other caller at most.
QueueBounded == Len(queue) <= MaxQueue + Cardinality(Callers) - 1

\* "A fault raised while we are already shutting down is not a fault": fatal is
\* only set when the hardware failed, never by detach()'s own closing.
FatalIsReal == fatal => broken

\* Both loops stop on _run: at most the packet already in hand is keyed up
\* after it is cleared, whatever is queued.
AtMostOneAfterStop == late <= 1

\* _fail() and detach(): once _run is cleared both workers end, the sleeping TX
\* worker too, without its timeout.
WorkersStop == ~run ~> rx = "done" /\ tx = "done"

\* process_outgoing() never loses a wake-up: a queued packet is taken off the
\* queue, or the interface stops, without the TX worker's timeout.
QueueMoves == queue # <<>> ~> tx = "pop" \/ ~run

\* A fault of the hardware takes the interface offline (unless it was already
\* shutting down, which also ends offline).
FaultGoesOffline == broken ~> ~online
=============================================================================
