--------------------------- MODULE RadioDriverProofs ---------------------------
(***************************************************************************)
(* Proofs about RadioDriver, for both drivers and any number of packets    *)
(* and frames.                                                             *)
(***************************************************************************)
EXTENDS RadioDriver, TLAPS

\* transmit() starts from a chip in standby with its flags cleared.
PreparedOK ==
    /\ pc \in {"tx_clear", "tx_key", "tx_start"} => mode = "stdby"
    /\ pc \in {"tx_key", "tx_start"} => "TxDone" \notin irq

\* A TxDone seen in the wait, and a result taken from it, are of this frame.
DoneOK ==
    /\ pc = "tx_wait" /\ "TxDone" \in irq => frame \in aired
    /\ pc = "tx_unkey" /\ result = "true" => frame \in aired

SentInv == ConfirmedWasAired /\ PreparedOK /\ DoneOK

\* The chip sets TxDone for the frame it sent, and a reception sets none.
LEMMA ChipSent ==
    ASSUME SentInv, (\E kind \in Kinds : Receive(kind)) \/ SendingEnds PROVE SentInv'
<1> USE DEF SentInv, ConfirmedWasAired, PreparedOK, DoneOK, txLog
<1>1. ASSUME NEW kind \in Kinds, Receive(kind) PROVE SentInv'
  <2>1. "TxDone" \in irq' => "TxDone" \in irq BY <1>1 DEF Receive
  <2> QED BY <1>1, <2>1 DEF Receive
<1>2. CASE SendingEnds BY <1>2 DEF SendingEnds
<1> QED BY <1>1, <1>2

\* poll_rx() and start_rx() confirm nothing and leave transmit() alone.
LEMMA ReceiverSent ==
    ASSUME SentInv,
           \/ PollFlags \/ PollClear \/ PollLength \/ PollAddress \/ PollData \/ PollRaises
           \/ StartRxClear \/ StartRxMode
    PROVE  SentInv'
<1> USE DEF SentInv, ConfirmedWasAired, PreparedOK, DoneOK, Goto, Stay, txLog, rxLog, chip
<1>1. CASE PollFlags BY <1>1 DEF PollFlags
<1>2. CASE PollClear BY <1>2 DEF PollClear
<1>3. CASE PollLength BY <1>3 DEF PollLength
<1>4. CASE PollAddress BY <1>4 DEF PollAddress
<1>5. CASE PollData BY <1>5 DEF PollData
<1>6. CASE PollRaises BY <1>6 DEF PollRaises, Polling
<1>7. CASE StartRxClear BY <1>7 DEF StartRxClear
<1>8. CASE StartRxMode BY <1>8 DEF StartRxMode
<1> QED BY <1>1, <1>2, <1>3, <1>4, <1>5, <1>6, <1>7, <1>8

\* Every transfer of transmit(), and an exception in it, keeps the argument.
LEMMA TransmitterSent ==
    ASSUME SentInv,
           \/ TransmitStandby \/ TransmitClear \/ TransmitKey \/ TransmitStart
           \/ TransmitDone \/ TransmitTimeout \/ TransmitUnkey
           \/ TransmitRaises \/ ReleaseRaises
    PROVE  SentInv'
<1> USE DEF SentInv, ConfirmedWasAired, PreparedOK, DoneOK, Stay, txLog, rxLog, chip
<1>1. CASE TransmitStandby BY <1>1 DEF TransmitStandby
<1>2. CASE TransmitClear BY <1>2 DEF TransmitClear
<1>3. CASE TransmitKey BY <1>3 DEF TransmitKey
<1>4. CASE TransmitStart BY <1>4 DEF TransmitStart
<1>5. CASE TransmitDone BY <1>5 DEF TransmitDone
<1>6. CASE TransmitTimeout BY <1>6 DEF TransmitTimeout
<1>7. CASE TransmitUnkey BY <1>7 DEF TransmitUnkey
<1>8. CASE TransmitRaises BY <1>8 DEF TransmitRaises
<1>9. CASE ReleaseRaises BY <1>9 DEF ReleaseRaises
<1> QED BY <1>1, <1>2, <1>3, <1>4, <1>5, <1>6, <1>7, <1>8, <1>9

\* transmit() of both drivers confirms only frames the chip has sent to their
\* end, whatever timed out, raised or was received before.
THEOREM OnlyAiredConfirmed == Spec => []ConfirmedWasAired
<1>1. Init => SentInv
  BY DEF Init, SentInv, ConfirmedWasAired, PreparedOK, DoneOK
<1>2. SentInv /\ [Next]_vars => SentInv'
  <2> SUFFICES ASSUME SentInv, [Next]_vars PROVE SentInv' OBVIOUS
  <2>1. CASE Next BY <2>1, ChipSent, ReceiverSent, TransmitterSent DEF Next
  <2>2. CASE UNCHANGED vars
    BY <2>2 DEF vars, chip, txLog, SentInv, ConfirmedWasAired, PreparedOK, DoneOK
  <2> QED BY <2>1, <2>2
<1>3. SentInv => ConfirmedWasAired BY DEF SentInv
<1> QED BY <1>1, <1>2, <1>3, PTL DEF Spec

-----------------------------------------------------------------------------
(* The TX-enable line                                                      *)

\* Keying, release and every exception keep the line's invariant, which is
\* inductive: a worker that left the line asserted never transmits again.
LEMMA TxenStep == TxenReleased /\ [Next]_vars => TxenReleased'
<1> SUFFICES ASSUME TxenReleased, [Next]_vars PROVE TxenReleased' OBVIOUS
<1> USE DEF TxenReleased, TxAlive, Polling, Goto, Stay, chip, locals
<1>1. CASE (\E kind \in Kinds : Receive(kind)) \/ SendingEnds
  BY <1>1 DEF Receive, SendingEnds
<1>2. CASE PollFlags \/ PollClear \/ PollLength \/ PollAddress \/ PollData
  BY <1>2 DEF PollFlags, PollClear, PollLength, PollAddress, PollData
<1>3. CASE PollRaises BY <1>3 DEF PollRaises
<1>4. CASE TransmitStandby \/ TransmitClear \/ TransmitKey \/ TransmitStart
  BY <1>4 DEF TransmitStandby, TransmitClear, TransmitKey, TransmitStart
<1>5. CASE TransmitDone \/ TransmitTimeout \/ TransmitUnkey
  BY <1>5 DEF TransmitDone, TransmitTimeout, TransmitUnkey, Unkey
<1>6. CASE StartRxClear \/ StartRxMode BY <1>6 DEF StartRxClear, StartRxMode
<1>7. CASE TransmitRaises BY <1>7 DEF TransmitRaises
<1>8. CASE ReleaseRaises BY <1>8 DEF ReleaseRaises
<1>9. CASE UNCHANGED vars BY <1>9 DEF vars
<1> QED BY <1>1, <1>2, <1>3, <1>4, <1>5, <1>6, <1>7, <1>8, <1>9 DEF Next

\* set_txen(False) of transmit(): the RF path is keyed outside of transmit()
\* only after a fault of the line or of the command that starts the sending.
THEOREM TxenIsReleased == Spec => []TxenReleased
<1>1. Init => TxenReleased BY DEF Init, TxenReleased
<1> QED BY <1>1, TxenStep, PTL DEF Spec

-----------------------------------------------------------------------------
(* Reception                                                               *)

Results == [size : Nat, data : Nat]

\* Types, and what the chip's registers speak of: the packet received last.
RxTypes ==
    /\ rxKinds \in Seq(Kinds) /\ last = Len(rxKinds)
    /\ returned \in Seq(Results) /\ size \in Nat /\ ptr \in Nat
    /\ cleared \subseteq 1..last
    /\ "RxDone" \in irq => last # 0

\* transmit() has left receive mode, and then cleared the flags: its own clearing
\* of TxDone takes no packet along.
Quiet ==
    /\ pc \in {"tx_clear", "tx_key", "tx_start", "tx_wait"} => mode # "rx"
    /\ pc \in {"tx_key", "tx_start", "tx_wait"} => "RxDone" \notin irq

\* The error flag is of the packet that is announced.
Flagged ==
    /\ "CrcErr" \in irq <=> "RxDone" \in irq /\ rxKinds[last] = "corrupt"
    /\ "RxDone" \in irq \/ Polling => last \notin cleared

\* What poll_rx() has read so far is about the last packet.
Collecting ==
    /\ Polling => last # 0
    /\ pc = "clear" => /\ "RxDone" \in irq /\ "RxDone" \in flags
                       /\ "CrcErr" \in flags <=> rxKinds[last] = "corrupt"
    /\ pc \in {"length", "address", "data"} => "RxDone" \notin irq /\ rxKinds[last] # "corrupt"
    /\ pc \in {"address", "data"} => size = last
    /\ pc = "data" => ptr = last

RxInv == RxTypes /\ Quiet /\ (~overrun /\ RxAlive => Flagged /\ Collecting) /\ PollExact

\* A packet that is announced or being collected is not due.
Busy == "RxDone" \in irq \/ Polling

\* A step that receives and returns nothing keeps PollExact when it settles no
\* packet but by clearing it, or one that is not intact.
LEMMA DueStep ==
    ASSUME PollExact, RxAlive' => RxAlive, UNCHANGED <<rxKinds, last, returned, overrun>>,
           ~overrun /\ RxAlive' => \A n \in 1..Len(rxKinds) : rxKinds[n] = "intact" =>
               ((n \in cleared' \/ (n = last /\ Busy')) <=> (n \in cleared \/ (n = last /\ Busy)))
    PROVE  PollExact'
<1>1. ~overrun /\ RxAlive' => Due' = Due
  BY DEF Due, Settled, Announced, Busy
<1> QED BY <1>1 DEF PollExact

LEMMA RxInit == Init => RxInv
<1> SUFFICES ASSUME Init PROVE RxInv OBVIOUS
<1>1. rxKinds \in Seq(Kinds) /\ Len(rxKinds) = 0 /\ returned \in Seq(Results) /\ Len(returned) = 0
  BY DEF Init
<1>2. RxTypes BY <1>1 DEF Init, RxTypes
<1>3. Quiet /\ Flagged /\ Collecting BY DEF Init, Quiet, Flagged, Collecting, Polling
<1>4. Due = {} /\ {returned[i].size : i \in 1..Len(returned)} = {} BY <1>1 DEF Due
<1>5. PollExact BY <1>1, <1>4 DEF PollExact
<1> QED BY <1>2, <1>3, <1>5 DEF RxInv

LEMMA AnnouncedKnown == RxTypes => Announced \subseteq 1..last
<1> SUFFICES ASSUME RxTypes PROVE Announced \subseteq 1..last OBVIOUS
<1>1. last \in Nat BY DEF RxTypes
<1>2. last # 0 => last \in 1..last BY <1>1
<1> QED BY <1>2 DEF RxTypes, Announced

\* Every step but a reception and the end of a poll that has a packet.
OtherStep ==
    \/ SendingEnds \/ PollFlags \/ PollClear \/ PollLength \/ PollAddress
    \/ TransmitStandby \/ TransmitClear \/ TransmitKey \/ TransmitStart \/ TransmitDone
    \/ TransmitTimeout \/ TransmitUnkey \/ StartRxClear \/ StartRxMode
    \/ PollRaises \/ TransmitRaises \/ ReleaseRaises

\* Such a step receives and returns nothing, and a dead receiver stays dead.
LEMMA OtherFrame ==
    ASSUME RxInv, OtherStep
    PROVE  (RxAlive' => RxAlive) /\ UNCHANGED <<rxKinds, last, returned, overrun>>
<1> USE DEF Goto, Stay, chip, locals, rxLog, txLog, Polling, RxAlive
<1>1. CASE SendingEnds BY <1>1 DEF SendingEnds
<1>2. CASE PollFlags BY <1>2 DEF PollFlags
<1>3. CASE PollClear BY <1>3 DEF PollClear
<1>4. CASE PollLength BY <1>4 DEF PollLength
<1>5. CASE PollAddress BY <1>5 DEF PollAddress
<1>6. CASE TransmitStandby BY <1>6 DEF TransmitStandby
<1>7. CASE TransmitClear BY <1>7 DEF TransmitClear
<1>8. CASE TransmitKey BY <1>8 DEF TransmitKey
<1>9. CASE TransmitStart BY <1>9 DEF TransmitStart
<1>10. CASE TransmitDone BY <1>10 DEF TransmitDone
<1>11. CASE TransmitTimeout BY <1>11 DEF TransmitTimeout
<1>12. CASE TransmitUnkey BY <1>12 DEF TransmitUnkey
<1>13. CASE StartRxClear BY <1>13 DEF StartRxClear
<1>14. CASE StartRxMode BY <1>14 DEF StartRxMode
<1>15. CASE PollRaises BY <1>15 DEF PollRaises
<1>16. CASE TransmitRaises BY <1>16 DEF TransmitRaises
<1>17. CASE ReleaseRaises BY <1>17 DEF ReleaseRaises
<1> QED
  BY <1>1, <1>2, <1>3, <1>4, <1>5, <1>6, <1>7, <1>8, <1>9,
     <1>10, <1>11, <1>12, <1>13, <1>14, <1>15, <1>16, <1>17 DEF OtherStep

\* What transmit() or start_rx() clears was received.
LEMMA OtherTypes ==
    ASSUME RxInv, OtherStep
    PROVE  RxTypes'
<1> USE DEF Goto, Stay, chip, locals, rxLog, txLog, Polling, RxAlive, RxInv, RxTypes
<1>1. CASE SendingEnds BY <1>1 DEF SendingEnds
<1>2. CASE PollFlags BY <1>2 DEF PollFlags
<1>3. CASE PollClear BY <1>3 DEF PollClear
<1>4. CASE PollLength BY <1>4 DEF PollLength
<1>5. CASE PollAddress BY <1>5 DEF PollAddress
<1>6. CASE TransmitStandby BY <1>6 DEF TransmitStandby
<1>7. CASE TransmitClear BY <1>7, AnnouncedKnown DEF TransmitClear
<1>8. CASE TransmitKey BY <1>8 DEF TransmitKey
<1>9. CASE TransmitStart BY <1>9 DEF TransmitStart
<1>10. CASE TransmitDone BY <1>10 DEF TransmitDone
<1>11. CASE TransmitTimeout BY <1>11 DEF TransmitTimeout
<1>12. CASE TransmitUnkey BY <1>12 DEF TransmitUnkey
<1>13. CASE StartRxClear BY <1>13, AnnouncedKnown DEF StartRxClear
<1>14. CASE StartRxMode BY <1>14 DEF StartRxMode
<1>15. CASE PollRaises BY <1>15 DEF PollRaises
<1>16. CASE TransmitRaises BY <1>16, AnnouncedKnown DEF TransmitRaises
<1>17. CASE ReleaseRaises BY <1>17 DEF ReleaseRaises
<1> QED
  BY <1>1, <1>2, <1>3, <1>4, <1>5, <1>6, <1>7, <1>8, <1>9,
     <1>10, <1>11, <1>12, <1>13, <1>14, <1>15, <1>16, <1>17 DEF OtherStep

\* Receive mode is left before the flags are cleared, and entered again last.
LEMMA OtherQuiet ==
    ASSUME RxInv, OtherStep
    PROVE  Quiet'
<1> USE DEF Goto, Stay, chip, locals, rxLog, txLog, Polling, RxAlive, RxInv, Quiet
<1>1. CASE SendingEnds BY <1>1 DEF SendingEnds
<1>2. CASE PollFlags BY <1>2 DEF PollFlags
<1>3. CASE PollClear BY <1>3 DEF PollClear
<1>4. CASE PollLength BY <1>4 DEF PollLength
<1>5. CASE PollAddress BY <1>5 DEF PollAddress
<1>6. CASE TransmitStandby BY <1>6 DEF TransmitStandby
<1>7. CASE TransmitClear BY <1>7 DEF TransmitClear
<1>8. CASE TransmitKey BY <1>8 DEF TransmitKey
<1>9. CASE TransmitStart BY <1>9 DEF TransmitStart
<1>10. CASE TransmitDone BY <1>10 DEF TransmitDone
<1>11. CASE TransmitTimeout BY <1>11 DEF TransmitTimeout
<1>12. CASE TransmitUnkey BY <1>12 DEF TransmitUnkey
<1>13. CASE StartRxClear BY <1>13 DEF StartRxClear
<1>14. CASE StartRxMode BY <1>14 DEF StartRxMode
<1>15. CASE PollRaises BY <1>15 DEF PollRaises
<1>16. CASE TransmitRaises BY <1>16 DEF TransmitRaises
<1>17. CASE ReleaseRaises BY <1>17 DEF ReleaseRaises
<1> QED
  BY <1>1, <1>2, <1>3, <1>4, <1>5, <1>6, <1>7, <1>8, <1>9,
     <1>10, <1>11, <1>12, <1>13, <1>14, <1>15, <1>16, <1>17 DEF OtherStep

\* Both drivers clear the error flag together with the packet's.
LEMMA OtherFlagged ==
    ASSUME RxInv, OtherStep
    PROVE  ~overrun' /\ RxAlive' => Flagged'
<1> USE DEF Goto, Stay, chip, locals, rxLog, txLog, Polling, RxAlive,
            RxInv, RxTypes, Quiet, Flagged, Collecting, Announced, Consumed, Wanted
<1>1. CASE SendingEnds BY <1>1 DEF SendingEnds
<1>2. CASE PollFlags BY <1>2 DEF PollFlags
<1>3. CASE PollClear BY <1>3 DEF PollClear
<1>4. CASE PollLength BY <1>4 DEF PollLength
<1>5. CASE PollAddress BY <1>5 DEF PollAddress
<1>6. CASE TransmitStandby BY <1>6 DEF TransmitStandby
<1>7. CASE TransmitClear BY <1>7 DEF TransmitClear
<1>8. CASE TransmitKey BY <1>8 DEF TransmitKey
<1>9. CASE TransmitStart BY <1>9 DEF TransmitStart
<1>10. CASE TransmitDone BY <1>10 DEF TransmitDone
<1>11. CASE TransmitTimeout BY <1>11 DEF TransmitTimeout
<1>12. CASE TransmitUnkey BY <1>12 DEF TransmitUnkey
<1>13. CASE StartRxClear BY <1>13 DEF StartRxClear
<1>14. CASE StartRxMode BY <1>14 DEF StartRxMode
<1>15. CASE PollRaises BY <1>15 DEF PollRaises
<1>16. CASE TransmitRaises BY <1>16 DEF TransmitRaises
<1>17. CASE ReleaseRaises BY <1>17 DEF ReleaseRaises
<1> QED
  BY <1>1, <1>2, <1>3, <1>4, <1>5, <1>6, <1>7, <1>8, <1>9,
     <1>10, <1>11, <1>12, <1>13, <1>14, <1>15, <1>16, <1>17 DEF OtherStep

\* A poll reads the registers of one packet.
LEMMA OtherCollecting ==
    ASSUME RxInv, OtherStep
    PROVE  ~overrun' /\ RxAlive' => Collecting'
<1> USE DEF Goto, Stay, chip, locals, rxLog, txLog, Polling, RxAlive,
            RxInv, RxTypes, Quiet, Flagged, Collecting, Consumed, Wanted
<1>1. CASE SendingEnds BY <1>1 DEF SendingEnds
<1>2. CASE PollFlags BY <1>2 DEF PollFlags
<1>3. CASE PollClear BY <1>3 DEF PollClear
<1>4. CASE PollLength BY <1>4 DEF PollLength
<1>5. CASE PollAddress BY <1>5 DEF PollAddress
<1>6. CASE TransmitStandby BY <1>6 DEF TransmitStandby
<1>7. CASE TransmitClear BY <1>7 DEF TransmitClear
<1>8. CASE TransmitKey BY <1>8 DEF TransmitKey
<1>9. CASE TransmitStart BY <1>9 DEF TransmitStart
<1>10. CASE TransmitDone BY <1>10 DEF TransmitDone
<1>11. CASE TransmitTimeout BY <1>11 DEF TransmitTimeout
<1>12. CASE TransmitUnkey BY <1>12 DEF TransmitUnkey
<1>13. CASE StartRxClear BY <1>13 DEF StartRxClear
<1>14. CASE StartRxMode BY <1>14 DEF StartRxMode
<1>15. CASE PollRaises BY <1>15 DEF PollRaises
<1>16. CASE TransmitRaises BY <1>16 DEF TransmitRaises
<1>17. CASE ReleaseRaises BY <1>17 DEF ReleaseRaises
<1> QED
  BY <1>1, <1>2, <1>3, <1>4, <1>5, <1>6, <1>7, <1>8, <1>9,
     <1>10, <1>11, <1>12, <1>13, <1>14, <1>15, <1>16, <1>17 DEF OtherStep

\* No such step drops an intact packet unrecorded.
LEMMA OtherDue ==
    ASSUME RxInv, OtherStep
    PROVE  ~overrun /\ RxAlive' => \A n \in 1..Len(rxKinds) : rxKinds[n] = "intact" =>
               ((n \in cleared' \/ (n = last /\ Busy')) <=> (n \in cleared \/ (n = last /\ Busy)))
<1> USE DEF Goto, Stay, chip, locals, rxLog, txLog, Polling, RxAlive, Busy,
            RxInv, RxTypes, Quiet, Flagged, Collecting, Announced, Consumed, Wanted
<1>1. CASE SendingEnds BY <1>1 DEF SendingEnds
<1>2. CASE PollFlags BY <1>2 DEF PollFlags
<1>3. CASE PollClear BY <1>3 DEF PollClear
<1>4. CASE PollLength BY <1>4 DEF PollLength
<1>5. CASE PollAddress BY <1>5 DEF PollAddress
<1>6. CASE TransmitStandby BY <1>6 DEF TransmitStandby
<1>7. CASE TransmitClear BY <1>7 DEF TransmitClear
<1>8. CASE TransmitKey BY <1>8 DEF TransmitKey
<1>9. CASE TransmitStart BY <1>9 DEF TransmitStart
<1>10. CASE TransmitDone BY <1>10 DEF TransmitDone
<1>11. CASE TransmitTimeout BY <1>11 DEF TransmitTimeout
<1>12. CASE TransmitUnkey BY <1>12 DEF TransmitUnkey
<1>13. CASE StartRxClear BY <1>13 DEF StartRxClear
<1>14. CASE StartRxMode BY <1>14 DEF StartRxMode
<1>15. CASE PollRaises BY <1>15 DEF PollRaises
<1>16. CASE TransmitRaises BY <1>16 DEF TransmitRaises
<1>17. CASE ReleaseRaises BY <1>17 DEF ReleaseRaises
<1> QED
  BY <1>1, <1>2, <1>3, <1>4, <1>5, <1>6, <1>7, <1>8, <1>9,
     <1>10, <1>11, <1>12, <1>13, <1>14, <1>15, <1>16, <1>17 DEF OtherStep

LEMMA OtherKeeps == ASSUME RxInv, OtherStep PROVE RxInv'
<1>1. PollExact' BY OtherFrame, OtherDue, DueStep DEF RxInv
<1> QED BY <1>1, OtherTypes, OtherQuiet, OtherFlagged, OtherCollecting DEF RxInv

\* A reception on top of nothing: the packet before it is settled already.
LEMMA ReceiveKeeps == ASSUME RxInv, NEW kind \in Kinds, Receive(kind) PROVE RxInv'
<1>1. /\ mode = "rx" /\ rxKinds' = Append(rxKinds, kind) /\ last' = Len(rxKinds) + 1
      /\ irq' = irq \cup {"RxDone"} \cup (IF kind = "corrupt" THEN {"CrcErr"} ELSE {})
      /\ ~overrun' => ~overrun /\ "RxDone" \notin irq /\ ~Polling
      /\ UNCHANGED <<mode, pc, flags, size, ptr, returned, cleared, raised>>
  BY DEF Receive, locals
<1>2. rxKinds \in Seq(Kinds) /\ last = Len(rxKinds) /\ last \in Nat /\ cleared \subseteq 1..last
  BY DEF RxInv, RxTypes
<1>3. /\ rxKinds' \in Seq(Kinds) /\ last' = Len(rxKinds') /\ last' = last + 1
      /\ rxKinds'[last'] = kind /\ \A n \in 1..last : rxKinds'[n] = rxKinds[n]
  BY <1>1, <1>2
<1>4. cleared' \subseteq 1..last' /\ last' # 0 /\ last' \notin cleared'
  BY <1>1, <1>2, <1>3
<1>5. RxTypes' BY <1>1, <1>3, <1>4 DEF RxInv, RxTypes
<1>6. Quiet' BY <1>1 DEF RxInv, Quiet
<1>7. ASSUME ~overrun', RxAlive' PROVE Flagged' /\ Collecting' /\ Due' = Due
  <2>1. ~overrun /\ RxAlive /\ "RxDone" \notin irq /\ ~Polling /\ ~Polling'
    BY <1>1, <1>7 DEF RxAlive, Polling
  <2>2. "CrcErr" \notin irq BY <2>1 DEF RxInv, Flagged
  <2>3. Flagged' BY <1>1, <1>3, <1>4, <2>2 DEF Flagged
  <2>4. Collecting' BY <2>1 DEF Collecting, Polling
  <2>5. \A n : n \in Due' <=> n \in Due
    <3>1. Announced = {} /\ Announced' = {last'} BY <1>1, <2>1 DEF Announced
    <3>2. \A n : n \in 1..Len(rxKinds') /\ n # last' <=> n \in 1..last BY <1>2, <1>3
    <3> QED BY <1>1, <1>2, <1>3, <2>1, <3>1, <3>2 DEF Due, Settled
  <2>6. Due' = Due
    <3>1. Due' \subseteq Due /\ Due \subseteq Due' BY <2>5
    <3> QED BY <3>1
  <2> QED BY <2>3, <2>4, <2>6
<1>8. PollExact' BY <1>1, <1>7 DEF RxInv, PollExact, RxAlive
<1> QED BY <1>5, <1>6, <1>7, <1>8 DEF RxInv

\* The end of a poll: an intact packet is returned after all the earlier ones.
LEMMA PollDataKeeps == ASSUME RxInv, PollData PROVE RxInv'
<1>1. /\ pc = "data" /\ pc' = "idle" /\ Polling /\ ~Polling'
      /\ UNCHANGED <<mode, irq, last, flags, size, ptr, rxKinds, cleared, overrun, raised>>
  BY DEF PollData, Goto, chip, locals, Polling
<1>2. /\ rxKinds \in Seq(Kinds) /\ last = Len(rxKinds) /\ last \in Nat /\ size \in Nat /\ ptr \in Nat
      /\ returned \in Seq(Results)
  BY DEF RxInv, RxTypes
<1>3. PICK data \in {ptr, last} :
          returned' = IF rxKinds[size] = "empty" THEN returned
                      ELSE Append(returned, [size |-> size, data |-> data])
  BY DEF PollData
<1>4. [size |-> size, data |-> data] \in Results BY <1>2, <1>3 DEF Results
<1>5. returned' \in Seq(Results) BY <1>2, <1>3, <1>4
<1>6. RxTypes' BY <1>1, <1>5 DEF RxInv, RxTypes
<1>7. Quiet' BY <1>1 DEF RxInv, Quiet
<1>8. ASSUME ~overrun', RxAlive'
      PROVE  /\ Flagged' /\ Collecting'
             /\ \A i \in 1..Len(returned') : returned'[i].data = returned'[i].size
             /\ \A i, j \in 1..Len(returned') : i < j => returned'[i].size < returned'[j].size
             /\ {returned'[i].size : i \in 1..Len(returned')} = Due'
  <2>1. /\ ~overrun /\ RxAlive /\ "RxDone" \notin irq /\ last # 0 /\ last \notin cleared
        /\ size = last /\ data = last /\ rxKinds[last] # "corrupt" /\ "CrcErr" \notin irq
    BY <1>1, <1>3, <1>8 DEF RxAlive, RxInv, Flagged, Collecting
  <2>2. Flagged' /\ Collecting' BY <1>1, <2>1 DEF Flagged, Collecting
  <2>3. last \in 1..Len(rxKinds) BY <1>2, <2>1
  <2>4. rxKinds[last] \in Kinds BY <1>2, <2>3
  <2>5. Announced = {} /\ Announced' = {} BY <1>1, <2>1 DEF Announced
  <2>6. \A n : n \in Due' <=> n \in Due \/ (n = last /\ rxKinds[last] = "intact")
    BY <1>1, <2>1, <2>3, <2>5 DEF Due, Settled
  <2>7. last \notin Due /\ \A n \in Due : n \in Nat /\ n < last
    BY <1>1, <1>2 DEF Due, Settled
  <2>8. /\ \A i \in 1..Len(returned) : returned[i].data = returned[i].size
        /\ \A i, j \in 1..Len(returned) : i < j => returned[i].size < returned[j].size
        /\ {returned[i].size : i \in 1..Len(returned)} = Due
    BY <2>1 DEF RxInv, PollExact
  <2>9. CASE rxKinds[last] = "empty"
    <3>1. returned' = returned BY <1>3, <2>1, <2>9
    <3>2. Due' = Due
      <4>1. Due' \subseteq Due /\ Due \subseteq Due' BY <2>6, <2>9
      <4> QED BY <4>1
    <3> QED BY <2>2, <2>8, <3>1, <3>2
  <2>10. CASE rxKinds[last] = "intact"
    <3> DEFINE r == [size |-> last, data |-> last]
               L == Len(returned)
    <3>1. returned' = Append(returned, r) BY <1>3, <2>1, <2>10
    <3>2. r \in Results /\ r.size = last /\ r.data = last BY <1>2 DEF Results
    <3>3. /\ L \in Nat /\ Len(returned') = L + 1 /\ returned'[L + 1] = r
          /\ \A i \in 1..L : returned'[i] = returned[i]
      BY <1>2, <3>1, <3>2
    <3> HIDE DEF r, L
    <3>4. \A i : i \in 1..Len(returned') <=> i \in 1..L \/ i = L + 1 BY <3>3
    <3>5. \A i \in 1..L : returned[i].size \in Due BY <2>8 DEF L
    <3>6. \A i \in 1..Len(returned') : returned'[i].data = returned'[i].size
      BY <2>8, <3>2, <3>3, <3>4 DEF L
    <3>7. \A i, j \in 1..Len(returned') : i < j => returned'[i].size < returned'[j].size
      <4> SUFFICES ASSUME NEW i \in 1..Len(returned'), NEW j \in 1..Len(returned'), i < j
                   PROVE  returned'[i].size < returned'[j].size
        OBVIOUS
      <4>1. i \in 1..L BY <3>3
      <4>2. CASE j \in 1..L BY <2>8, <3>3, <4>1, <4>2 DEF L
      <4>3. CASE j = L + 1 BY <2>7, <3>2, <3>3, <3>5, <4>1, <4>3
      <4> QED BY <3>4, <4>2, <4>3
    <3>8. \A n : (\E i \in 1..Len(returned') : returned'[i].size = n)
                   <=> n = last \/ \E i \in 1..L : returned[i].size = n
      BY <3>2, <3>3, <3>4
    <3>9. \A n : n \in Due <=> \E i \in 1..L : returned[i].size = n BY <2>8 DEF L
    <3>10. {returned'[i].size : i \in 1..Len(returned')} = Due' BY <2>6, <2>10, <3>8, <3>9
    <3> QED BY <2>2, <3>6, <3>7, <3>10
  <2> QED BY <2>1, <2>4, <2>9, <2>10 DEF Kinds
<1>9. PollExact' BY <1>8 DEF PollExact
<1> QED BY <1>6, <1>7, <1>8, <1>9 DEF RxInv

\* poll_rx() of both drivers: without an overrun every intact packet is returned
\* once, in order and with its own bytes, unless a transmission cleared its flag,
\* for any number of packets and frames.
THEOREM PollsExactly == Spec => []PollExact
<1>1. RxInv /\ [Next]_vars => RxInv'
  <2> SUFFICES ASSUME RxInv, [Next]_vars PROVE RxInv' OBVIOUS
  <2>1. CASE OtherStep BY <2>1, OtherKeeps
  <2>2. CASE PollData BY <2>2, PollDataKeeps
  <2>3. CASE \E kind \in Kinds : Receive(kind) BY <2>3, ReceiveKeeps
  <2>4. CASE UNCHANGED vars
    BY <2>4 DEF vars, chip, locals, rxLog, RxInv, RxTypes, Quiet, Flagged, Collecting, PollExact,
                Due, Settled, Announced, Polling, RxAlive
  <2> QED BY <2>1, <2>2, <2>3, <2>4 DEF Next, OtherStep
<1>2. RxInv => PollExact BY DEF RxInv
<1> QED BY <1>1, <1>2, RxInit, PTL DEF Spec
=============================================================================
