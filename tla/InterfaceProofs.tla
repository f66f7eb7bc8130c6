---------------------------- MODULE InterfaceProofs ----------------------------
(***************************************************************************)
(* Proofs about Interface, for every number of callers, queue length and   *)
(* number of packets.                                                      *)
(***************************************************************************)
EXTENDS Interface, FiniteSetTheorems, TLAPS

\* The radio lock is held by the thread that is inside it, and by no other.
LockOK ==
    /\ rx = "poll" => radioLock = "rx"
    /\ tx = "rearm" => radioLock = "tx"

\* _tx_active is up while the TX worker uses the chip, and the RX loop is not
\* on the chip then.
ActiveOK ==
    /\ tx \in {"air", "rearm", "release"} => txActive
    /\ rx = "poll" => ~txActive

\* The chip leaves receive mode only in the TX worker's hands.
ModeOK == mode = "rx" \/ (mode = "busy" /\ (tx \in {"air", "rearm"} \/ Failing(tx)))

RadioInv == LockOK /\ ActiveOK /\ ModeOK

\* RxGo, TxGo and MainGo say what the thread leaves alone.
LEMMA RadioStep == RadioInv /\ [Next]_vars => RadioInv'
<1> SUFFICES ASSUME RadioInv, [Next]_vars PROVE RadioInv' OBVIOUS
<1>n. NoThread # "rx" /\ NoThread # "tx" BY InterfaceAssumption
<1> USE DEF RadioInv, LockOK, ActiveOK, ModeOK, Failing
<1>1. ASSUME NEW c \in Callers, Call(c) PROVE RadioInv'
  BY <1>1 DEF Call, Submit, AppendPacket, Notify, chip
<1>2. CASE Rx
  <2>1. CASE RxLoop BY <2>1 DEF RxLoop, RxGo, chip
  <2>2. CASE RxWait BY <2>2 DEF RxWait, RxGo
  <2>3. CASE RxLock BY <2>3, <1>n DEF RxLock, RxGo, chip
  <2>4. CASE RxPoll BY <2>4 DEF RxPoll, RxGo
  <2>5. CASE RxDeliver BY <2>5 DEF RxDeliver, RxGo, chip
  <2>6. CASE RxFail BY <2>6 DEF RxFail, RxGo, chip
  <2> QED BY <1>2, <2>1, <2>2, <2>3, <2>4, <2>5, <2>6 DEF Rx
<1>3. CASE Tx
  <2>1. CASE TxLoop \/ TxWake \/ TxClear \/ TxTest \/ TxPop \/ TxGiveUp \/ TxReserved
    BY <2>1 DEF TxLoop, TxWake, TxClear, TxTest, TxPop, TxGiveUp, TxReserved, TxGo, chip
  <2>2. CASE TxKey BY <2>2, <1>n DEF TxKey, TxGo, chip
  <2>3. CASE TxFrame BY <2>3 DEF TxFrame, TxGo
  <2>4. CASE TxRelock BY <2>4, <1>n DEF TxRelock, TxGo, chip
  <2>5. CASE TxRearm BY <2>5, <1>n DEF TxRearm, TxGo
  <2>6. CASE TxRelease BY <2>6 DEF TxRelease, TxGo, chip
  <2>7. CASE TxRaise BY <2>7, <1>n DEF TxRaise, TxGo
  <2>8. CASE TxFail BY <2>8 DEF TxFail, FailStep, TxGo, chip
  <2> QED BY <1>3, <2>1, <2>2, <2>3, <2>4, <2>5, <2>6, <2>7, <2>8 DEF Tx
<1>4. CASE TxWaitTimeout BY <1>4 DEF TxWaitTimeout, TxGo, chip
<1>5. CASE Detach
  BY <1>5 DEF Detach, DetachStop, DetachWake, DetachOffline, DetachClose, MainGo
<1>6. CASE UNCHANGED vars BY <1>6 DEF vars, chip
<1> QED BY <1>1, <1>2, <1>3, <1>4, <1>5, <1>6 DEF Next

\* The radio's inductive invariant: every step of the workers, of the callers
\* and of detach() keeps it.
LEMMA RadioInvariant == Spec => []RadioInv
<1>1. Init => RadioInv BY DEF Init, RadioInv, LockOK, ActiveOK, ModeOK
<1> QED BY <1>1, RadioStep, PTL DEF Spec

\* _radio_lock with _tx_active: poll_rx() never runs on the chip while
\* transmit() or start_rx() does, although transmit() itself holds no lock.
THEOREM Exclusive == Spec => []RadioExclusive
<1>1. RadioInv => RadioExclusive
  BY InterfaceAssumption DEF RadioInv, LockOK, ActiveOK, RadioExclusive
<1> QED BY <1>1, RadioInvariant, PTL

\* _transmit() re-arms the receiver before it clears _tx_active: unless the TX
\* worker has failed, a radio it is not using listens.
THEOREM Listens == Spec => []Listening
<1>1. RadioInv => Listening
  BY DEF RadioInv, ActiveOK, ModeOK, Listening
<1> QED BY <1>1, RadioInvariant, PTL

-----------------------------------------------------------------------------
(* Only a fault of the hardware is fatal                                   *)

\* detach() closes nothing before it has cleared _run.
CloseOK ==
    /\ run => main = "attached"
    /\ main \in {"attached", "wake", "offline", "close"} => radioOpen /\ busOpen

\* A worker on its way into _fail() met broken hardware, or _run is cleared;
\* one that got past _fail()'s test met broken hardware.
FaultOK(w) ==
    /\ w = "fail" => broken \/ ~run
    /\ w \in {"stop", "wake", "report", "record"} => broken

FaultInv == CloseOK /\ FaultOK(rx) /\ FaultOK(tx) /\ FatalIsReal

\* No step of the workers or of detach() sets fatal, or prepares to, without a
\* fault of the hardware.
LEMMA FaultStep == FaultInv /\ [Next]_vars => FaultInv'
<1> SUFFICES ASSUME FaultInv, [Next]_vars PROVE FaultInv' OBVIOUS
<1> USE DEF FaultInv, CloseOK, FaultOK, FatalIsReal, flags
<1>1. ASSUME NEW c \in Callers, Call(c) PROVE FaultInv'
  BY <1>1 DEF Call, Submit, AppendPacket, Notify, chip
<1>2. CASE Rx
  <2>1. CASE RxLoop BY <2>1 DEF RxLoop, RxGo, chip
  <2>2. CASE RxWait BY <2>2 DEF RxWait, RxGo, Raises
  <2>3. CASE RxLock BY <2>3 DEF RxLock, RxGo, chip
  <2>4. CASE RxPoll BY <2>4 DEF RxPoll, RxGo, Raises
  <2>5. CASE RxDeliver BY <2>5 DEF RxDeliver, RxGo, chip
  <2>6. CASE RxFail BY <2>6 DEF RxFail, FailStep, ShuttingDown, RxGo, chip
  <2> QED BY <1>2, <2>1, <2>2, <2>3, <2>4, <2>5, <2>6 DEF Rx
<1>3. CASE Tx
  <2>1. CASE TxLoop \/ TxWake \/ TxClear \/ TxTest \/ TxPop \/ TxGiveUp \/ TxReserved
    BY <2>1 DEF TxLoop, TxWake, TxClear, TxTest, TxPop, TxGiveUp, TxReserved, TxGo, chip
  <2>2. CASE TxKey \/ TxRelock \/ TxRelease BY <2>2 DEF TxKey, TxRelock, TxRelease, TxGo, chip
  <2>3. CASE TxFrame \/ TxRearm BY <2>3 DEF TxFrame, TxRearm, TxGo
  <2>4. CASE TxRaise BY <2>4 DEF TxRaise, TxGo, Raises
  <2>5. CASE TxFail BY <2>5 DEF TxFail, FailStep, ShuttingDown, TxGo, chip
  <2> QED BY <1>3, <2>1, <2>2, <2>3, <2>4, <2>5 DEF Tx
<1>4. CASE TxWaitTimeout BY <1>4 DEF TxWaitTimeout, TxGo, chip
<1>5. CASE Detach
  BY <1>5 DEF Detach, DetachStop, DetachWake, DetachOffline, DetachClose, MainGo
<1>6. CASE UNCHANGED vars BY <1>6 DEF vars, chip
<1> QED BY <1>1, <1>2, <1>3, <1>4, <1>5, <1>6 DEF Next

\* detach()'s order and _fail()'s test of _run: whatever the workers trip over
\* while detach() closes the line and the bus, `fatal` is only ever set for a
\* fault of the hardware.
THEOREM FaultsAreReal == Spec => []FatalIsReal
<1>1. Init => FaultInv BY DEF Init, FaultInv, CloseOK, FaultOK, FatalIsReal
<1>2. FaultInv => FatalIsReal BY DEF FaultInv
<1> QED BY <1>1, <1>2, FaultStep, PTL DEF Spec

-----------------------------------------------------------------------------
(* After _run is cleared                                                   *)

\* Nothing is keyed up late while _run is set, and once one packet was, the TX
\* worker has none in hand and no way to take another off the queue.
LateInv ==
    /\ late \in {0, 1}
    /\ run => late = 0
    /\ late = 1 => tx \notin {"pop", "reserve", "key"}

LEMMA LateStep == LateInv /\ [Next]_vars => LateInv'
<1> SUFFICES ASSUME LateInv, [Next]_vars PROVE LateInv' OBVIOUS
<1> USE DEF LateInv, flags
<1>1. ASSUME NEW c \in Callers, Call(c) PROVE LateInv'
  BY <1>1 DEF Call, Submit, AppendPacket, Notify
<1>2. CASE Rx
  <2>1. CASE RxLoop \/ RxWait \/ RxLock \/ RxPoll \/ RxDeliver
    BY <2>1 DEF RxLoop, RxWait, RxLock, RxPoll, RxDeliver, RxGo
  <2>2. CASE RxFail BY <2>2 DEF RxFail, FailStep, RxGo
  <2> QED BY <1>2, <2>1, <2>2 DEF Rx
<1>3. CASE Tx
  <2>1. CASE TxLoop \/ TxWake \/ TxClear \/ TxPop \/ TxGiveUp \/ TxReserved
    BY <2>1 DEF TxLoop, TxWake, TxClear, TxPop, TxGiveUp, TxReserved, TxGo
  <2>2. CASE TxTest BY <2>2 DEF TxTest, TxGo
  <2>3. CASE TxKey BY <2>3 DEF TxKey, TxGo
  <2>4. CASE TxFrame \/ TxRelock \/ TxRearm \/ TxRelease \/ TxRaise
    BY <2>4 DEF TxFrame, TxRelock, TxRearm, TxRelease, TxRaise, TxGo
  <2>5. CASE TxFail BY <2>5 DEF TxFail, FailStep, TxGo
  <2> QED BY <1>3, <2>1, <2>2, <2>3, <2>4, <2>5 DEF Tx
<1>4. CASE TxWaitTimeout BY <1>4 DEF TxWaitTimeout, TxGo
<1>5. CASE Detach
  BY <1>5 DEF Detach, DetachStop, DetachWake, DetachOffline, DetachClose, MainGo
<1>6. CASE UNCHANGED vars BY <1>6 DEF vars
<1> QED BY <1>1, <1>2, <1>3, <1>4, <1>5, <1>6 DEF Next

\* The tests of _run in _tx_loop(): whoever clears it, and whatever is queued, at
\* most the packet already in the TX worker's hands is keyed up afterwards.
THEOREM OneAfterStop == Spec => []AtMostOneAfterStop
<1>1. Init => LateInv BY DEF Init, LateInv
<1>2. LateInv => AtMostOneAfterStop BY DEF LateInv, AtMostOneAfterStop
<1> QED BY <1>1, <1>2, LateStep, PTL DEF Spec

-----------------------------------------------------------------------------
(* The queue's cap                                                         *)

\* The callers that passed the test of the cap and have not appended yet.
Appending == {c \in Callers : caller[c] = "append"}

\* Each of them has room reserved beyond the cap, less the one that found the
\* queue short of it.  Only the TX worker takes packets off the queue.
QueueInv ==
    /\ queue \in Seq({"packet"}) /\ caller \in [Callers -> {"idle", "append", "notify"}]
    /\ tx = "pop" => queue # <<>>
    /\ Len(queue) + Cardinality(Appending) <= MaxQueue + Cardinality(Callers) - 1

LEMMA AppendingFinite ==
    /\ IsFiniteSet(Callers) /\ Cardinality(Callers) \in Nat
    /\ IsFiniteSet(Appending) /\ Cardinality(Appending) \in Nat
    /\ Cardinality(Appending) <= Cardinality(Callers)
  <1>1. IsFiniteSet(Callers)
    BY InterfaceAssumption
  <1>2. Appending \subseteq Callers
    BY DEF Appending
  <1> QED BY <1>1, <1>2, FS_Subset, FS_CardinalityType

\* A step that moves no caller and leaves the queue alone.
LEMMA QueueIdle ==
    ASSUME QueueInv, UNCHANGED <<queue, caller>>, tx' = "pop" => tx = "pop" \/ queue # <<>>
    PROVE  QueueInv'
  BY DEF QueueInv, Appending

LEMMA QueueStep == QueueInv /\ [Next]_vars => QueueInv'
<1> SUFFICES ASSUME QueueInv, [Next]_vars PROVE QueueInv' OBVIOUS
<1>n. MaxQueue \in Nat BY InterfaceAssumption
<1>1. ASSUME NEW c \in Callers, Submit(c) PROVE QueueInv'
  <2>1. CASE UNCHANGED caller
    BY <1>1, <2>1, QueueIdle DEF Submit
  <2>2. CASE ~Full /\ caller' = [caller EXCEPT ![c] = "append"]
    <3>1. Len(queue) \in Nat /\ Len(queue) <= MaxQueue - 1
      BY <1>n, <2>2 DEF Full, QueueInv
    <3>2. UNCHANGED <<queue, tx>>
      BY <1>1 DEF Submit
    <3>3. Cardinality(Appending)' \in Nat /\ Cardinality(Appending)' <= Cardinality(Callers)
          /\ Cardinality(Callers) \in Nat
      <4>1. Appending' \subseteq Callers
        BY DEF Appending
      <4> QED BY <4>1, AppendingFinite, FS_Subset, FS_CardinalityType
    <3>4. Len(queue') + Cardinality(Appending)' <= MaxQueue + Cardinality(Callers) - 1
      BY <1>n, <3>1, <3>2, <3>3
    <3> QED BY <2>2, <3>2, <3>4 DEF QueueInv
  <2> QED BY <1>1, <2>1, <2>2 DEF Submit
<1>2. ASSUME NEW c \in Callers, AppendPacket(c) PROVE QueueInv'
  <2>1. /\ caller[c] = "append" /\ queue' = Append(queue, "packet")
        /\ caller' = [caller EXCEPT ![c] = "notify"] /\ tx' = tx
    BY <1>2 DEF AppendPacket
  <2>2. c \in Appending /\ Appending' = Appending \ {c}
    BY <2>1 DEF Appending, QueueInv
  <2>3. Cardinality(Appending)' = Cardinality(Appending) - 1
    BY <2>2, AppendingFinite, FS_RemoveElement
  <2>4. queue \in Seq({"packet"})
    BY DEF QueueInv
  <2>5. queue' \in Seq({"packet"}) /\ Len(queue') = Len(queue) + 1 /\ queue' # <<>>
    BY <2>1, <2>4
  <2>6. Len(queue) \in Nat /\ Cardinality(Appending) \in Nat /\ Cardinality(Callers) \in Nat
    BY <2>4, AppendingFinite
  <2>7. Len(queue') + Cardinality(Appending)' <= MaxQueue + Cardinality(Callers) - 1
    BY <1>n, <2>3, <2>5, <2>6 DEF QueueInv
  <2> QED BY <2>1, <2>5, <2>7 DEF QueueInv
<1>3. ASSUME NEW c \in Callers, Notify(c) PROVE QueueInv'
  <2>1. /\ caller[c] = "notify" /\ caller' = [caller EXCEPT ![c] = "idle"]
        /\ UNCHANGED <<queue, tx>>
    BY <1>3 DEF Notify
  <2>2. Appending' = Appending
    BY <2>1 DEF Appending, QueueInv
  <2> QED BY <2>1, <2>2 DEF QueueInv
<1>4. CASE Rx
  BY <1>4, QueueIdle
  DEF Rx, RxLoop, RxWait, RxLock, RxPoll, RxDeliver, RxFail, RxGo
<1>5. CASE TxPop
  <2>1. tx = "pop" /\ queue' = Tail(queue) /\ tx' = "reserve" /\ caller' = caller
    BY <1>5 DEF TxPop, TxGo
  <2>2. queue \in Seq({"packet"}) /\ queue # <<>>
    BY <2>1 DEF QueueInv
  <2>3. queue' \in Seq({"packet"}) /\ Len(queue') = Len(queue) - 1
    BY <2>1, <2>2
  <2>4. Appending' = Appending
    BY <2>1 DEF Appending
  <2>5. Len(queue) \in Nat /\ Cardinality(Appending) \in Nat /\ Cardinality(Callers) \in Nat
    BY <2>2, AppendingFinite
  <2>6. Len(queue') + Cardinality(Appending)' <= MaxQueue + Cardinality(Callers) - 1
    BY <1>n, <2>3, <2>4, <2>5 DEF QueueInv
  <2> QED BY <2>1, <2>3, <2>6 DEF QueueInv
<1>6. CASE Tx
  BY <1>5, <1>6, QueueIdle
  DEF Tx, TxLoop, TxWake, TxClear, TxTest, TxGiveUp, TxReserved, TxKey, TxFrame, TxRelock,
      TxRearm, TxRelease, TxRaise, TxFail, TxGo
<1>7. CASE TxWaitTimeout
  BY <1>7, QueueIdle DEF TxWaitTimeout, TxGo
<1>8. CASE Detach
  BY <1>8, QueueIdle DEF Detach, DetachStop, DetachWake, DetachOffline, DetachClose, MainGo
<1>9. CASE UNCHANGED vars BY <1>9, QueueIdle DEF vars
<1> QED BY <1>1, <1>2, <1>3, <1>4, <1>6, <1>7, <1>8, <1>9 DEF Next, Call

\* process_outgoing(): test and append are two steps, and yet, for any number of
\* calling threads, the queue passes MAX_QUEUE_PACKETS by at most one packet per
\* other caller.
THEOREM QueueIsBounded == Spec => []QueueBounded
<1>1. Init => QueueInv
  <2> SUFFICES ASSUME Init PROVE QueueInv OBVIOUS
  <2>1. Appending = {}
    BY DEF Init, Appending
  <2>2. Cardinality(Appending) = 0
    BY <2>1, FS_EmptySet
  <2>3. queue = <<>> /\ queue \in Seq({"packet"}) /\ Len(queue) = 0
    BY DEF Init
  <2>4. MaxQueue \in Nat \ {0} /\ Cardinality(Callers) \in Nat
    BY InterfaceAssumption, AppendingFinite
  <2>5. Len(queue) + Cardinality(Appending) <= MaxQueue + Cardinality(Callers) - 1
    BY <2>2, <2>3, <2>4
  <2> QED BY <2>3, <2>5 DEF Init, QueueInv
<1>2. QueueInv => QueueBounded
  <2> SUFFICES ASSUME QueueInv PROVE QueueBounded OBVIOUS
  <2>1. Len(queue) \in Nat
    BY DEF QueueInv
  <2> QED BY <2>1, InterfaceAssumption, AppendingFinite DEF QueueInv, QueueBounded
<1> QED BY <1>1, <1>2, QueueStep, PTL DEF Spec
================================================================================
