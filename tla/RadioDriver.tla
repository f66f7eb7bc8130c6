----------------------------- MODULE RadioDriver -----------------------------
(***************************************************************************)
(* The drivers of loraham_rns/sx127x.py and sx126x.py on one chip:         *)
(* poll_rx(), transmit() and start_rx() as bus transfers, each of which    *)
(* may raise, against a chip that receives and finishes sending between    *)
(* any two of them.  One operation runs at a time (RadioExclusive of       *)
(* Interface); the worker an exception reaches ends, the other one may     *)
(* still use the chip.                                                     *)
(***************************************************************************)
EXTENDS Integers, Sequences

CONSTANTS
    Families,      \* the drivers, of {"sx127x", "sx126x"}
    MaxPackets,    \* bound: packets the chip receives
    MaxFrames      \* bound: frames transmitted

ASSUME RadioAssumption ==
    /\ Families \subseteq {"sx127x", "sx126x"}
    /\ MaxPackets \in Nat /\ MaxFrames \in Nat

VARIABLES
    family,        \* the driver in use
    mode,          \* the chip: "rx", "stdby" or "tx"
    irq,           \* the chip's interrupt flags
    last,          \* the packet its length and address registers speak of
    txen,          \* the TX-enable line is asserted
    pc,            \* where the driver is
    flags, size, ptr,              \* locals of poll_rx()
    result,        \* how transmit() is about to end: "true", "false" or "raise"
    frame,         \* number of the frame being (or last) sent
    rxKinds,       \* ghost: kind of every packet received, in order
    returned,      \* ghost: what poll_rx() returned: packets of its size and data
    cleared,       \* ghost: packets whose flag transmit() or start_rx() cleared
    overrun,       \* ghost: a packet was received before the one before it was collected
    aired,         \* ghost: frames the chip sent to the end
    confirmed,     \* ghost: frames transmit() returned True for
    raised         \* steps that raised: "poll_rx", or the step of transmit() or start_rx()

chip   == <<mode, irq, last>>
locals == <<flags, size, ptr>>
rxLog  == <<rxKinds, returned, cleared, overrun>>
txLog  == <<aired, confirmed>>
vars   == <<family, chip, txen, pc, locals, result, frame, rxLog, txLog, raised>>

Kinds == {"intact", "corrupt", "empty"}

\* __init__ of the interface has called configure() and start_rx().
Init ==
    /\ family \in Families
    /\ mode = "rx" /\ irq = {} /\ last = 0 /\ txen = FALSE
    /\ pc = "idle" /\ flags = {} /\ size = 0 /\ ptr = 0
    /\ result = "false" /\ frame = 0
    /\ rxKinds = <<>> /\ returned = <<>> /\ cleared = {} /\ overrun = FALSE
    /\ aired = {} /\ confirmed = {} /\ raised = {}

\* The packet the RxDone flag announces.
Announced == IF "RxDone" \in irq THEN {last} ELSE {}
Polling == pc \in {"clear", "length", "address", "data"}
RxAlive == "poll_rx" \notin raised
TxAlive == raised \subseteq {"poll_rx"}

-----------------------------------------------------------------------------
(* The chip                                                                *)

\* A packet is complete: registers, flags and the interrupt line follow at once.
Receive(kind) ==
    /\ mode = "rx" /\ Len(rxKinds) < MaxPackets
    /\ rxKinds' = Append(rxKinds, kind)
    /\ last' = Len(rxKinds) + 1
    /\ irq' = irq \cup {"RxDone"} \cup (IF kind = "corrupt" THEN {"CrcErr"} ELSE {})
    /\ overrun' = (overrun \/ "RxDone" \in irq \/ Polling)
    /\ UNCHANGED <<family, mode, txen, pc, locals, result, frame, returned, cleared, txLog, raised>>

SendingEnds ==
    /\ mode = "tx"
    /\ mode' = "stdby" /\ irq' = irq \cup {"TxDone"}
    /\ aired' = aired \cup {frame}
    /\ UNCHANGED <<family, last, txen, pc, locals, result, frame, rxLog, confirmed, raised>>

-----------------------------------------------------------------------------
(* poll_rx()                                                               *)

Goto(l) == pc' = l /\ UNCHANGED <<family, txen, result, frame, aired, confirmed, raised>>

\* Read the flags; without RxDone there is nothing.
PollFlags ==
    /\ pc = "idle" /\ RxAlive
    /\ flags' = irq
    /\ Goto(IF "RxDone" \in irq THEN "clear" ELSE "idle")
    /\ UNCHANGED <<chip, size, ptr, rxLog>>

\* Which flags poll_rx() clears: fixed ones (sx127x) or those it read (sx126x).
ConsumedDoneOnly == {"RxDone"}
Consumed == IF family = "sx127x" THEN {"RxDone", "CrcErr"} ELSE flags

\* Clear them; a packet with a CRC error is dropped.
Wanted == "CrcErr" \notin flags
PollClear ==
    /\ pc = "clear"
    /\ irq' = irq \ Consumed
    /\ Goto(IF Wanted THEN "length" ELSE "idle")
    /\ UNCHANGED <<mode, last, locals, rxLog>>

\* Length, then address, of the packet; sx126x gets both in one transfer.
PollLength ==
    /\ pc = "length"
    /\ size' = last
    /\ IF family = "sx127x" THEN Goto("address") /\ UNCHANGED ptr
                            ELSE Goto("data") /\ ptr' = last
    /\ UNCHANGED <<chip, flags, rxLog>>

PollAddress ==
    /\ pc = "address"
    /\ ptr' = last /\ Goto("data")
    /\ UNCHANGED <<chip, flags, size, rxLog>>

\* The payload at the address, which a newer packet may have overwritten
\* meanwhile; nothing is returned for an empty one.  RSSI and SNR follow.
PollData ==
    /\ pc = "data"
    /\ \E data \in {ptr, last} :
         returned' = IF rxKinds[size] = "empty" THEN returned
                     ELSE Append(returned, [size |-> size, data |-> data])
    /\ Goto("idle")
    /\ UNCHANGED <<chip, locals, rxKinds, cleared, overrun>>

-----------------------------------------------------------------------------
(* transmit() and start_rx()                                               *)

Stay == UNCHANGED <<family, last, locals, rxKinds, returned, overrun, aired, raised>>

TransmitStandby ==
    /\ pc \in {"idle", "sent"} /\ TxAlive /\ frame < MaxFrames
    /\ frame' = frame + 1 /\ mode' = "stdby" /\ pc' = "tx_clear"
    /\ Stay /\ UNCHANGED <<irq, txen, result, cleared, confirmed>>

\* Every flag is cleared, an uncollected packet's too; then the FIFO is written.
TransmitClearNothing ==
    /\ pc = "tx_clear" /\ pc' = "tx_key"
    /\ Stay /\ UNCHANGED <<mode, irq, txen, result, frame, cleared, confirmed>>
TransmitClear ==
    /\ pc = "tx_clear"
    /\ irq' = {} /\ cleared' = cleared \cup Announced /\ pc' = "tx_key"
    /\ Stay /\ UNCHANGED <<mode, txen, result, frame, confirmed>>

TransmitKey ==
    /\ pc = "tx_key"
    /\ txen' = TRUE /\ pc' = "tx_start"
    /\ Stay /\ UNCHANGED <<mode, irq, result, frame, cleared, confirmed>>

TransmitStart ==
    /\ pc = "tx_start"
    /\ mode' = "tx" /\ pc' = "tx_wait"
    /\ Stay /\ UNCHANGED <<irq, txen, result, frame, cleared, confirmed>>

\* The flags are polled: TxDone is cleared (sx126x clears all) and confirmed,
TransmitDone ==
    /\ pc = "tx_wait" /\ "TxDone" \in irq
    /\ irq' = IF family = "sx127x" THEN irq \ {"TxDone"} ELSE {}
    /\ result' = "true" /\ pc' = "tx_unkey"
    /\ Stay /\ UNCHANGED <<mode, txen, frame, cleared, confirmed>>

\* or the deadline passes first.
TransmitTimeout ==
    /\ pc = "tx_wait"
    /\ result' = "false" /\ pc' = "tx_unkey"
    /\ Stay /\ UNCHANGED <<mode, irq, txen, frame, cleared, confirmed>>

\* The finally clause, then the return or the exception under way.
UnkeyConfirmed == IF result = "true" THEN FALSE ELSE txen
Unkey == FALSE
TransmitUnkey ==
    /\ pc = "tx_unkey"
    /\ txen' = Unkey
    /\ pc' = IF result = "raise" THEN "idle" ELSE "sent"
    /\ confirmed' = IF result = "true" THEN confirmed \cup {frame} ELSE confirmed
    /\ Stay /\ UNCHANGED <<mode, irq, result, frame, cleared>>

\* After its last frame _transmit() calls start_rx(): flags first, mode second.
StartRxClear ==
    /\ pc = "sent"
    /\ irq' = {} /\ cleared' = cleared \cup Announced /\ pc' = "rx_mode"
    /\ Stay /\ UNCHANGED <<mode, txen, result, frame, confirmed>>

StartRxMode ==
    /\ pc = "rx_mode"
    /\ mode' = "rx" /\ pc' = "idle"
    /\ Stay /\ UNCHANGED <<irq, txen, result, frame, cleared, confirmed>>

\* A transfer, BUSY or a GPIO line fails: SpiBusError or RadioError.  What the
\* failed step was to do may have happened.
PollRaises ==
    /\ RxAlive /\ (pc = "idle" \/ Polling)
    /\ irq' \in IF pc = "clear" THEN {irq, irq \ Consumed} ELSE {irq}
    /\ raised' = raised \cup {"poll_rx"} /\ pc' = "idle"
    /\ UNCHANGED <<family, mode, last, txen, locals, result, frame, rxLog, txLog>>

\* Only the wait for TxDone is inside the try whose finally releases the line.
TransmitRaises ==
    /\ TxAlive /\ ~Polling /\ pc # "tx_unkey"
    /\ raised' = raised \cup {pc}
    /\ IF pc = "tx_wait" THEN pc' = "tx_unkey" /\ result' = "raise"
                         ELSE pc' = "idle" /\ UNCHANGED result
    /\ txen' \in IF pc = "tx_key" THEN BOOLEAN ELSE {txen}
    /\ mode' \in IF pc = "tx_start" THEN {mode, "tx"} ELSE {mode}
    /\ irq' \in IF pc \in {"tx_clear", "sent", "tx_wait"} THEN {irq, {}} ELSE {irq}
    /\ cleared' = IF irq' = irq THEN cleared ELSE cleared \cup Announced
    /\ UNCHANGED <<family, last, locals, frame, rxKinds, returned, overrun, txLog>>

\* set_txen(False) itself raises, in the finally clause.
ReleaseRaises ==
    /\ pc = "tx_unkey"
    /\ txen' \in BOOLEAN
    /\ raised' = raised \cup {pc} /\ pc' = "idle"
    /\ UNCHANGED <<family, chip, locals, result, frame, rxLog, txLog>>

-----------------------------------------------------------------------------
Next ==
    \/ \E kind \in Kinds : Receive(kind)
    \/ SendingEnds
    \/ PollFlags \/ PollClear \/ PollLength \/ PollAddress \/ PollData
    \/ TransmitStandby \/ TransmitClear \/ TransmitKey \/ TransmitStart \/ TransmitDone
    \/ TransmitTimeout \/ TransmitUnkey \/ StartRxClear \/ StartRxMode
    \/ PollRaises \/ TransmitRaises \/ ReleaseRaises

Spec == Init /\ [][Next]_vars

-----------------------------------------------------------------------------
(* Properties                                                              *)

\* The packets that are neither announced any more nor being collected.
Settled(n) ==
    /\ n \notin Announced
    /\ ~(Polling /\ n = last)

\* The packets poll_rx() should have returned by now.
Due == {n \in 1 .. Len(rxKinds) : rxKinds[n] = "intact" /\ n \notin cleared /\ Settled(n)}

\* "the status registers stay the authority, so a missed edge costs latency":
\* as long as no packet is received on top of an uncollected one, poll_rx()
\* returns every intact packet once, in order, with its own bytes, and nothing
\* else, except those whose flag a transmission cleared, until poll_rx() raises.
PollExact ==
    ~overrun /\ RxAlive =>
        /\ \A i \in 1 .. Len(returned) : returned[i].data = returned[i].size
        /\ \A i, j \in 1 .. Len(returned) : i < j => returned[i].size < returned[j].size
        /\ {returned[i].size : i \in 1 .. Len(returned)} = Due

\* transmit() returns True only for a frame the chip has sent to its end: the
\* late TxDone of an earlier, unconfirmed frame is never taken for it.
ConfirmedWasAired == confirmed \subseteq aired

\* set_txen(False) in the finally clause: outside of transmit() the RF path is
\* not keyed, whatever raised in the wait for TxDone; only a fault of the line
\* itself or of the command that starts the transmission leaves it keyed.
TxenReleased ==
    txen => \/ pc \in {"tx_start", "tx_wait", "tx_unkey"}
            \/ raised \cap {"tx_key", "tx_start", "tx_unkey"} # {}
=============================================================================
