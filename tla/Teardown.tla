------------------------------- MODULE Teardown -------------------------------
(***************************************************************************)
(* The RX and the TX worker of loraham_rns/interface.py over the SPI bus   *)
(* and the RF log, while detach() takes both away: how the interface's     *)
(* shutdown interleaves with transactions and log lines under way.         *)
(*                                                                         *)
(* `chip` is who uses the radio: the lock and the flag that make that one  *)
(* worker at a time are modelled in Interface (RadioExclusive).            *)
(***************************************************************************)
EXTENDS SpiBus, RfLog

CONSTANTS
    RX, TX,        \* the two workers
    MaxTransfers   \* bound on the transfers of one use of the radio

ASSUME TeardownAssumption == Writers = {RX, TX} /\ RX # TX /\ MaxTransfers \in Nat \ {0}

VARIABLES
    run,           \* _run
    chip,          \* the worker that uses the radio
    left,          \* transfers left of this use
    task,          \* what each worker does
    detach         \* how far detach() has come

ownVars == <<run, chip, left, task, detach>>
allVars == <<busVars, logVars, ownVars>>

Init ==
    /\ BusInit /\ LogInit
    /\ run = TRUE /\ chip = Nobody /\ left = 0
    /\ task = [w \in Writers |-> "loop"]
    /\ detach = "no"

-----------------------------------------------------------------------------
(* _rx_loop(), _tx_loop(), _transmit()                                     *)

Doing(w, what) == task' = [task EXCEPT ![w] = what]

\* The line of the last operation is written or given up.
Logged(w) == log[w].at = "out"

\* The test of _run.  The RX loop turns in it while the TX worker has the radio;
\* either worker may wait past it until the other is done with the radio.
LoopTest(w) ==
    /\ task[w] = "loop" /\ Logged(w) /\ run
    /\ w = RX => chip # TX
    /\ nextLine <= MaxLines
    /\ Doing(w, "go")
    /\ UNCHANGED <<busVars, logVars, run, chip, left, detach>>

\* poll_rx(), or the first frame of _transmit(), has the radio.
TakeRadio(w) ==
    /\ task[w] = "go" /\ chip = Nobody
    /\ chip' = w /\ left' = MaxTransfers
    /\ Doing(w, "radio")
    /\ UNCHANGED <<busVars, logVars, run, detach>>

Transfer(w) ==
    /\ chip = w /\ left > 0 /\ Logged(w)
    /\ BeginXfer
    /\ left' = left - 1
    /\ UNCHANGED <<logVars, run, chip, task, detach>>

\* A step of xfer(), taken by the worker that has the radio.
BusStep(w) == chip = w /\ XferStep /\ UNCHANGED <<logVars, ownVars>>

\* The operation may end after any of its transfers.
OperationDone(w, what) == task[w] = what /\ place = "out" /\ ~raised /\ left < MaxTransfers

\* (With no line left to write, a poll finds nothing and a packet is one frame.)
\* poll_rx() returns None, or a packet that is logged once the radio is left.
PollReturns ==
    /\ OperationDone(RX, "radio")
    /\ chip' = Nobody /\ left' = 0
    /\ Doing(RX, "loop")
    /\ (nextLine <= MaxLines /\ LogCall(RX)) \/ UNCHANGED logVars
    /\ UNCHANGED <<busVars, run, detach>>

\* transmit() returns: its outcome is logged with the radio still taken, and the
\* TX worker goes on with the packet's second frame or with start_rx().
TransmitReturns ==
    /\ \/ OperationDone(TX, "radio") /\ nextLine < MaxLines /\ Doing(TX, "second")
       \/ (OperationDone(TX, "radio") \/ OperationDone(TX, "second")) /\ Doing(TX, "rearm")
    /\ LogCall(TX)
    /\ left' = MaxTransfers
    /\ UNCHANGED <<busVars, run, chip, detach>>

\* A step of rx() or tx() of the RF log.
LogProgress(w) == LogStep(w) /\ UNCHANGED <<busVars, ownVars>>

\* start_rx() returns and _tx_active is cleared.
TransmitDone ==
    /\ OperationDone(TX, "rearm")
    /\ chip' = Nobody /\ left' = 0
    /\ Doing(TX, "loop")
    /\ UNCHANGED <<busVars, logVars, run, detach>>

\* SpiBusError: the radio is left, _fail(), and the worker ends.  A worker that
\* waits past the test of _run uses the radio all the same.
Fault(w) ==
    /\ chip = w /\ place = "out" /\ raised
    /\ raised' = FALSE
    /\ run' = FALSE
    /\ chip' = Nobody /\ left' = 0
    /\ Doing(w, "ended")
    /\ UNCHANGED <<opened, owner, peer, nss, place, excused, stuck, logVars, detach>>

Leaves(w) ==
    /\ task[w] = "loop" /\ Logged(w) /\ ~run
    /\ Doing(w, "ended")
    /\ UNCHANGED <<busVars, logVars, run, chip, left, detach>>

-----------------------------------------------------------------------------
(* detach(): its 0.15 s pause is no promise that the workers have noticed. *)

Detach ==
    /\ detach = "no"
    /\ detach' = "spi" /\ run' = FALSE
    /\ UNCHANGED <<busVars, logVars, chip, left, task>>

DetachSpi == detach = "spi" /\ CloseSpi /\ detach' = "cs"
DetachCs == detach = "cs" /\ CloseCs /\ detach' = "lock"
DetachLock == detach = "lock" /\ CloseLock /\ detach' = "log"
DetachBusLockFirst ==
    /\ \/ detach = "spi" /\ CloseLock /\ detach' = "cs"
       \/ detach = "cs" /\ CloseCs /\ detach' = "lock"
       \/ detach = "lock" /\ CloseSpi /\ detach' = "log"
    /\ UNCHANGED <<logVars, run, chip, left, task>>
DetachBus ==
    /\ DetachSpi \/ DetachCs \/ DetachLock
    /\ UNCHANGED <<logVars, run, chip, left, task>>

DetachLog ==
    /\ detach = "log" /\ LogClose
    /\ detach' = "done"
    /\ UNCHANGED <<busVars, run, chip, left, task>>

-----------------------------------------------------------------------------
Work(w) ==
    \/ LoopTest(w) \/ TakeRadio(w) \/ Transfer(w) \/ BusStep(w) \/ LogProgress(w)
    \/ Fault(w) \/ Leaves(w)
    \/ w = RX /\ PollReturns
    \/ w = TX /\ (TransmitReturns \/ TransmitDone)
Closing == DetachBus \/ DetachLog
Others == (Peer /\ UNCHANGED <<logVars, ownVars>>) \/ (Clear /\ UNCHANGED <<busVars, ownVars>>)

Next == (\E w \in Writers : Work(w)) \/ Detach \/ Closing \/ Others

\* The scheduler runs some thread of ours that can run, in no fair order.
\* Nothing is assumed of the peer, which may keep the bus for good.
Spec == Init /\ [][Next]_allVars /\ WF_allVars((\E w \in Writers : Work(w)) \/ Closing)

-----------------------------------------------------------------------------
(* Properties                                                              *)

\* xfer()'s finally clause: outside of a transaction we hold the flock only when
\* LOCK_UN itself failed, after no other failure, and then the interface stops: a
\* worker has the error in hand or _run is cleared.  It never goes on as the wedged
\* peer the daemon takes us for.
LockReturned == owner = "us" => Inside \/ (stuck /\ (raised \/ ~run))

ShutDown == detach = "done" /\ \A w \in Writers : task[w] = "ended"

\* _acquire()'s bounded wait and the clauses that free the locks: every xfer()
\* returns or raises although a peer may keep the bus for good, and detach() and
\* both workers end wherever the closing descriptors meet a transaction or a log
\* line.  (detach() never begins, or ShutDown is reached; both last.)
CallsReturn == []<>(place = "out") /\ []<>(detach = "no" \/ ShutDown)
===============================================================================
