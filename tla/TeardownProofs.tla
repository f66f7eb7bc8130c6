---------------------------- MODULE TeardownProofs ----------------------------
(***************************************************************************)
(* The SPI bus of loraham_rns under detach(): the lock is ours only inside *)
(* a transaction or after a failed LOCK_UN that stops the interface, and   *)
(* the peer daemon is not disturbed, for any number of transfers, log      *)
(* lines and failures.                                                     *)
(***************************************************************************)
EXTENDS Teardown, TLAPS

Places == {"out", "lock", "select", "start", "wire", "deselect", "unlock"}

\* Types of the bus's part of the state.
BusTypes ==
    /\ soft \in BOOLEAN /\ spiOpen \in BOOLEAN /\ csOpen \in BOOLEAN
    /\ lockOpen \in BOOLEAN /\ nss \in BOOLEAN /\ excused \in BOOLEAN
    /\ owner \in {"us", "peer", "none"} /\ peer \in {"off", "wire"}
    /\ place \in Places

\* close() closes in this order, so a descriptor of the lock that is gone means
\* that nothing is left to transfer with.
ClosingOrder ==
    /\ detach \in {"no", "spi"} => lockOpen
    /\ detach = "cs" => lockOpen /\ ~spiOpen
    /\ detach = "lock" => lockOpen /\ ~spiOpen /\ ~csOpen
    /\ ~lockOpen => ~spiOpen /\ ~csOpen

\* Who is inside with a lock that can be held holds it, and our chip is selected
\* only between Select and Deselect of a transaction.
LockHeld ==
    /\ owner = "peer" <=> peer = "wire"
    /\ owner = "us" => lockOpen /\ (Inside \/ stuck)
    /\ Inside /\ lockOpen => owner = "us"
    /\ ~excused /\ place = "wire" => lockOpen
    /\ csOpen => soft
    /\ ~excused /\ nss => place \in {"start", "wire", "deselect"} /\ csOpen

\* A lock that LOCK_UN left to us: its error is on the way to _fail(), or _run is
\* cleared, which nothing undoes.
StuckStops == stuck => ~run \/ (raised /\ place = "out")

BusInv == BusTypes /\ ClosingOrder /\ LockHeld /\ StuckStops

LEMMA BusInvInit == Init => BusInv
<1> SUFFICES ASSUME Init PROVE BusInv OBVIOUS
<1> USE DEF Init, BusInit
<1>1. BusTypes BY DEF BusTypes, Places
<1>2. ClosingOrder BY DEF ClosingOrder
<1>3. LockHeld /\ StuckStops BY DEF LockHeld, Inside, StuckStops
<1> QED BY <1>1, <1>2, <1>3 DEF BusInv

\* What xfer() does at each of its steps keeps the lock's discipline.
LEMMA XferKeeps ==
    ASSUME BusInv, XferStep \/ BeginXfer, UNCHANGED <<detach, run>>
    PROVE  BusInv'
<1> USE DEF BusInv, BusTypes, Places, ClosingOrder, LockHeld, StuckStops, Inside, opened
<1>1. CASE BeginXfer BY <1>1 DEF BeginXfer
<1>2. CASE Acquire BY <1>2 DEF Acquire
<1>3. CASE AcquireReused BY <1>3 DEF AcquireReused
<1>4. CASE AcquireFails BY <1>4 DEF AcquireFails
<1>5. CASE Select BY <1>5 DEF Select
<1>6. CASE SelectFails BY <1>6 DEF SelectFails
<1>7. CASE Start BY <1>7 DEF Start, AfterWire
<1>8. CASE Finish BY <1>8 DEF Finish, AfterWire
<1>9. CASE Deselect BY <1>9 DEF Deselect
<1>10. CASE DeselectFails BY <1>10 DEF DeselectFails
<1>11. CASE Release BY <1>11 DEF Release
<1>12. CASE ReleaseFails BY <1>12 DEF ReleaseFails
<1> QED BY <1>1, <1>2, <1>3, <1>4, <1>5, <1>6, <1>7, <1>8, <1>9, <1>10, <1>11, <1>12 DEF XferStep

LEMMA CloseKeeps == ASSUME BusInv, DetachBus PROVE BusInv'
<1> USE DEF BusInv, BusTypes, Places, ClosingOrder, LockHeld, StuckStops, Inside
<1> UNCHANGED run BY DEF DetachBus
<1>1. CASE DetachSpi BY <1>1 DEF DetachSpi, CloseSpi
<1>2. CASE DetachCs
  <2>1. BusTypes' BY <1>2 DEF DetachCs, CloseCs
  <2>2. ClosingOrder' BY <1>2 DEF DetachCs, CloseCs
  <2>3. nss' /\ ~excused' => nss /\ ~excused /\ ~(csOpen /\ Inside)
    BY <1>2 DEF DetachCs, CloseCs
  <2>4. ~(nss' /\ ~excused') BY <2>3
  <2>5. ~excused' => ~excused BY <1>2 DEF DetachCs, CloseCs
  <2>6. UNCHANGED <<soft, lockOpen, owner, peer, place, stuck, raised>> /\ ~csOpen'
    BY <1>2 DEF DetachCs, CloseCs
  <2>7. LockHeld' BY <2>4, <2>5, <2>6
  <2>8. StuckStops' BY <2>6
  <2> QED BY <2>1, <2>2, <2>7, <2>8
<1>3. CASE DetachLock BY <1>3 DEF DetachLock, CloseLock
<1> QED BY <1>1, <1>2, <1>3 DEF DetachBus

LEMMA PeerKeeps == ASSUME BusInv, Peer, UNCHANGED <<detach, run>> PROVE BusInv'
BY DEF BusInv, BusTypes, Places, ClosingOrder, LockHeld, StuckStops, Inside, Peer, PeerBegin,
       PeerEnd, opened

LEMMA BusInvNext == BusInv /\ [Next]_allVars => BusInv'
<1> SUFFICES ASSUME BusInv, [Next]_allVars PROVE BusInv' OBVIOUS
<1>idle. ASSUME UNCHANGED busVars, UNCHANGED <<detach, run>> PROVE BusInv'
  BY <1>idle DEF BusInv, BusTypes, Places, ClosingOrder, LockHeld, StuckStops, Inside, busVars
<1>1. ASSUME NEW w \in Writers, Work(w) PROVE BusInv'
  <2>1. CASE TakeRadio(w) BY <2>1, <1>idle DEF TakeRadio
  <2>2. CASE Transfer(w) BY <2>2, XferKeeps DEF Transfer
  <2>3. CASE BusStep(w) BY <2>3, XferKeeps DEF BusStep, ownVars
  <2>4. CASE LogProgress(w) BY <2>4, <1>idle DEF LogProgress, ownVars
  <2>5. CASE Fault(w)
    BY <2>5 DEF Fault, opened, BusInv, BusTypes, Places, ClosingOrder, LockHeld, StuckStops, Inside
  <2>6. CASE Leaves(w) BY <2>6, <1>idle DEF Leaves
  <2>7. CASE PollReturns BY <2>7, <1>idle DEF PollReturns
  <2>8. CASE TransmitReturns \/ TransmitDone
    BY <2>8, <1>idle DEF TransmitReturns, TransmitDone
  <2>9. CASE LoopTest(w) BY <2>9, <1>idle DEF LoopTest
  <2> QED BY <1>1, <2>1, <2>2, <2>3, <2>4, <2>5, <2>6, <2>7, <2>8, <2>9 DEF Work
<1>2. CASE Detach
  BY <1>2 DEF Detach, BusInv, BusTypes, Places, ClosingOrder, LockHeld, StuckStops, Inside, busVars
<1>3. CASE DetachBus BY <1>3, CloseKeeps
<1>4. CASE DetachLog
  BY <1>4 DEF DetachLog, BusInv, BusTypes, Places, ClosingOrder, LockHeld, StuckStops, Inside, busVars
<1>5. CASE Peer /\ UNCHANGED <<logVars, ownVars>> BY <1>5, PeerKeeps DEF ownVars
<1>6. CASE Clear /\ UNCHANGED <<busVars, ownVars>> BY <1>6, <1>idle DEF ownVars
<1>7. CASE UNCHANGED allVars BY <1>7, <1>idle DEF allVars, ownVars
<1> QED BY <1>1, <1>2, <1>3, <1>4, <1>5, <1>6, <1>7 DEF Next, Closing, Others

LEMMA BusInvAlways == Spec => []BusInv
BY BusInvInit, BusInvNext, PTL DEF Spec

\* xfer()'s finally clause: outside of a transaction the bus lock is ours only when
\* LOCK_UN itself failed, and then the interface stops, however far close() has come.
THEOREM LockIsReturned == Spec => []LockReturned
<1>1. BusInv => LockReturned BY DEF BusInv, LockHeld, StuckStops, LockReturned
<1> QED BY <1>1, BusInvAlways, PTL

\* xfer() and the order of close(): while the peer is on the wire we neither
\* transfer nor keep our chip selected, but for what PeerUndisturbed excuses.
THEOREM PeerIsUndisturbed == Spec => []PeerUndisturbed
<1>1. BusInv => PeerUndisturbed
  BY DEF BusInv, BusTypes, ClosingOrder, LockHeld, Inside, PeerUndisturbed
<1> QED BY <1>1, BusInvAlways, PTL

-----------------------------------------------------------------------------
(* The RF log                                                              *)

Pieces == [line : Nat, half : 1..2]
Inner == {"open", "copy", "truncate", "write"}
Call == [at : {"out", "lock"} \cup Inner, line : Nat, half : 1..2, off : Nat]

LogTypes ==
    /\ live \in Seq(Pieces) /\ prev \in Seq(Pieces)
    /\ log \in [Writers -> Call] /\ nextLine \in Nat

\* Only the holder of _lock is inside _write(), and only a line of which a part is
\* written is at its second half.
Serial ==
    /\ \A w \in Writers : log[w].at \in Inner => logLock = w
    /\ \A w \in Writers : log[w].half = 2 => log[w].at = "write"

\* Line numbers are used once: a line not begun has nothing in the file.
LineNumbers ==
    /\ \A i \in 1..Len(live) : live[i].line < nextLine
    /\ \A w \in Writers : log[w].at \in Inner => log[w].line < nextLine
    /\ \A w \in Writers : log[w].at \in Inner /\ log[w].half = 1 =>
          \A i \in 1..Len(live) : live[i].line # log[w].line

\* A line half written stands at the end of the file, or was cleared away.
Begun ==
    \A w \in Writers : log[w].half = 2 =>
        /\ \/ Len(live) > 0 /\ live[Len(live)] = Piece(log[w].line, 1)
           \/ log[w].line \in cut
        /\ \A i \in 1..Len(live) : live[i] = Piece(log[w].line, 1) => i = Len(live)

\* What was written since the last roll-over is in the live file.
DoneLive == \A n \in done : \A h \in 1..2 : Piece(n, h) \in ToSet(live)

\* The copy has what it has passed, and no line is finished during it.
Copied ==
    \A w \in Writers :
        /\ log[w].at = "copy" => \A i \in 1..Len(live) : i <= log[w].off => live[i] \in ToSet(prev)
        /\ log[w].at = "truncate" => \A i \in 1..Len(live) : live[i] \in ToSet(prev)
        /\ log[w].at \in {"copy", "truncate"} => done = {}

LogInv ==
    LogTypes /\ Serial /\ LineNumbers /\ Begun /\ LinesWhole /\ DoneLive /\ Copied /\ Retained

LEMMA ElementsOf ==
    ASSUME NEW s \in Seq(Pieces)
    PROVE  DOMAIN s = 1..Len(s) /\ Len(s) \in Nat /\ \A x : x \in ToSet(s) <=> \E i \in 1..Len(s) : s[i] = x
BY DEF ToSet

LEMMA LogInvInit == Init => LogInv
<1> SUFFICES ASSUME Init PROVE LogInv OBVIOUS
<1>1. /\ live = <<Piece(1, 1), Piece(1, 2)>> /\ prev = <<>> /\ log = [w \in Writers |-> Idle]
      /\ nextLine = 2 /\ done = {1} /\ rolled = {} /\ cut = {}
  BY DEF Init, LogInit
<1>2. Piece(1, 1) \in Pieces /\ Piece(1, 2) \in Pieces BY DEF Piece, Pieces
<1>3. /\ live \in Seq(Pieces) /\ Len(live) = 2 /\ live[1] = Piece(1, 1) /\ live[2] = Piece(1, 2)
      /\ prev \in Seq(Pieces)
  BY <1>1, <1>2
<1>4. \A i \in 1..Len(live) : i = 1 \/ i = 2 BY <1>3
<1>5. \A w \in Writers : log[w].at = "out" /\ log[w].half = 1 /\ log[w] \in Call
  BY <1>1 DEF Idle, Call
<1>6. LogTypes BY <1>1, <1>3, <1>5 DEF LogTypes, Call
<1>7. Serial /\ Begun /\ Copied BY <1>5 DEF Serial, Begun, Copied, Inner
<1>8. LineNumbers BY <1>1, <1>3, <1>4, <1>5 DEF LineNumbers, Inner, Piece
<1>9. LinesWhole BY <1>3, <1>4, ElementsOf DEF LinesWhole, Piece
<1>10. DoneLive
  <2>1. \A h \in 1..2 : h = 1 \/ h = 2 OBVIOUS
  <2>2. 1 \in 1..Len(live) /\ 2 \in 1..Len(live) BY <1>3
  <2>3. Piece(1, 1) \in ToSet(live) /\ Piece(1, 2) \in ToSet(live) BY <1>3, <2>2, ElementsOf
  <2> QED BY <1>1, <2>1, <2>3 DEF DoneLive
<1>11. Retained BY <1>1, <1>10 DEF Retained, DoneLive, LineSize
<1> QED BY <1>6, <1>7, <1>8, <1>9, <1>10, <1>11 DEF LogInv

\* While one thread is inside _write(), the others are outside.
LEMMA OthersOut ==
    ASSUME LogTypes, Serial, NEW w \in Writers, log[w].at \in Inner
    PROVE  \A v \in Writers : v # w => log[v].at \notin Inner /\ log[v].half = 1
<1> SUFFICES ASSUME NEW v \in Writers, v # w PROVE log[v].at \notin Inner /\ log[v].half = 1
  OBVIOUS
<1>1. log[v].at \notin Inner BY DEF Serial
<1>2. log[v] \in Call BY DEF LogTypes
<1>3. log[v].half = 1 \/ log[v].half = 2 BY <1>2 DEF Call
<1>4. log[v].half # 2 BY <1>1 DEF Serial, Inner
<1> QED BY <1>1, <1>3, <1>4

\* A step that leaves the files alone and moves a thread to another place, outside
\* or ahead of the writing.
LEMMA CallKeeps == ASSUME LogInv, NEW w \in Writers, LogCall(w) PROVE LogInv'
<1> USE DEF LogInv
<1>1. log[w] \in Call /\ log[w].at = "out" BY DEF LogCall, LogTypes
<1>2. /\ log' \in [Writers -> Call] /\ log'[w].at = "lock" /\ log'[w].half = log[w].half
      /\ \A v \in Writers : v # w => log'[v] = log[v]
      /\ log[w].half = 1 => log'[w].half = 1
  BY <1>1 DEF LogCall, At, LogTypes, Call
<1>3. log[w].half # 2 BY <1>1 DEF Serial
<1>4. UNCHANGED <<live, prev, logLock, nextLine, done, rolled, torn, cut>>
  BY DEF LogCall, files, record
<1>5. LogTypes' BY <1>2, <1>4 DEF LogTypes
<1>6. \A v \in Writers : log'[v].at \in Inner \/ log'[v].half = 2 => log'[v] = log[v]
  BY <1>2, <1>3 DEF Inner
<1>7. Serial' BY <1>4, <1>6 DEF Serial, Inner
<1>8. LineNumbers' BY <1>4, <1>6 DEF LineNumbers
<1>9. Begun' BY <1>4, <1>6 DEF Begun
<1>10. \A n : InWriting(n) => InWriting(n)' BY <1>1, <1>2 DEF InWriting
<1>11. LinesWhole' BY <1>4, <1>10 DEF LinesWhole
<1>12. DoneLive' /\ Retained' BY <1>4 DEF DoneLive, Retained
<1>13. Copied' BY <1>4, <1>6 DEF Copied, Inner
<1> QED BY <1>5, <1>7, <1>8, <1>9, <1>11, <1>12, <1>13

LEMMA LockKeeps == ASSUME LogInv, NEW w \in Writers, LogLock(w) PROVE LogInv'
<1> USE DEF LogInv
<1>1. /\ log[w] \in Call /\ log[w].at = "lock" /\ logLock = Nobody /\ nextLine \in Nat
      /\ \A v \in Writers : log[v].at \notin Inner
  BY LogAssumption DEF LogLock, LogTypes, Serial
<1>2. \A v \in Writers : log[v].half # 2 BY <1>1 DEF Serial, Inner
<1>3. UNCHANGED <<live, prev, done, rolled, torn, cut>> BY DEF LogLock, files
<1>4. \A v \in Writers : log'[v].at \in Inner => v = w /\ logLock' = w
                             /\ log'[w].line = nextLine /\ nextLine' = nextLine + 1
                             /\ log'[w].at \in {"open", "write"}
  BY <1>1 DEF LogLock, AfterCheck, Idle, Inner, LogTypes, Call
<1>5. /\ log' \in [Writers -> Call] /\ nextLine' \in Nat /\ nextLine <= nextLine'
      /\ \A v \in Writers : log'[v].half # 2
  <2>1. nextLine' \in Nat /\ nextLine <= nextLine' BY <1>1 DEF LogLock
  <2>2. log \in [Writers -> Call] BY DEF LogTypes
  <2>3. CASE log' = [log EXCEPT ![w].at = AfterCheck, ![w].line = nextLine]
    <3>1. AfterCheck \in Inner BY DEF AfterCheck, Inner
    <3>2. log' \in [Writers -> Call] BY <1>1, <2>2, <2>3, <3>1 DEF Call
    <3>3. \A v \in Writers : log'[v].half = log[v].half BY <1>1, <2>2, <2>3 DEF Call
    <3> QED BY <1>2, <2>1, <3>2, <3>3
  <2>4. CASE log' = [log EXCEPT ![w] = Idle]
    <3>1. Idle \in Call /\ Idle.half = 1 BY DEF Idle, Call
    <3>2. \A v \in Writers : log'[v] = Idle \/ log'[v] = log[v] BY <2>2, <2>4
    <3> QED BY <1>2, <2>1, <2>2, <2>4, <3>1, <3>2
  <2> QED BY <2>3, <2>4 DEF LogLock
<1>6. LogTypes' BY <1>3, <1>5 DEF LogTypes
<1>7. Serial' /\ Begun' BY <1>4, <1>5 DEF Serial, Begun
<1>8. LineNumbers'
  <2>0. \A i \in 1..Len(live) : live[i] \in Pieces BY DEF LogTypes
  <2>1. \A i \in 1..Len(live) : live[i].line \in Nat /\ live[i].line < nextLine
    BY <2>0 DEF LineNumbers, Pieces
  <2>2. \A i \in 1..Len(live) : live[i].line < nextLine' /\ live[i].line # nextLine
    BY <1>1, <1>5, <2>1
  <2> QED BY <1>1, <1>3, <1>4, <2>2 DEF LineNumbers
<1>9. \A n : ~InWriting(n) BY <1>1 DEF InWriting, Inner
<1>10. LinesWhole' BY <1>3, <1>9 DEF LinesWhole
<1>11. DoneLive' /\ Retained' BY <1>3 DEF DoneLive, Retained
<1>12. Copied' BY <1>4 DEF Copied, Inner
<1> QED BY <1>6, <1>7, <1>8, <1>10, <1>11, <1>12

\* Moves inside the roll-over: the live file and what is known of its lines stay.
LEMMA MoveKeeps ==
    ASSUME LogInv, NEW w \in Writers, log[w].at \in {"open", "copy", "truncate"},
           log' \in [Writers -> Call], log'[w].at \in Inner,
           log'[w].half = log[w].half, log'[w].line = log[w].line,
           \A v \in Writers : v # w => log'[v] = log[v],
           UNCHANGED <<live, logLock, nextLine, torn, cut>>, prev' \in Seq(Pieces)
    PROVE  /\ LogTypes' /\ Serial' /\ LineNumbers' /\ Begun' /\ LinesWhole'
           /\ \A v \in Writers : v # w => log'[v].at \notin Inner
<1> USE DEF LogInv
<1>1. log[w].at \in Inner /\ log[w].at # "write" BY DEF Inner
<1>2. log[w].half # 2 BY <1>1 DEF Serial
<1>3. \A v \in Writers : v # w => log'[v].at \notin Inner /\ log'[v].half # 2
  BY <1>1, OthersOut
<1>4. LogTypes' BY DEF LogTypes
<1>5. logLock = w BY <1>1 DEF Serial
<1>6. Serial' /\ Begun' BY <1>2, <1>3, <1>5 DEF Serial, Begun
<1>7. LineNumbers' BY <1>1, <1>3 DEF LineNumbers
<1>8. \A n : ~InWriting(n) BY <1>1, OthersOut DEF InWriting, Inner
<1>9. LinesWhole' BY <1>8 DEF LinesWhole
<1> QED BY <1>3, <1>4, <1>6, <1>7, <1>9

LEMMA CopyOpenKeeps == ASSUME LogInv, NEW w \in Writers, CopyOpen(w) PROVE LogInv'
<1>1. log[w] \in Call /\ log[w].at = "open" BY DEF LogInv, CopyOpen, LogTypes
<1>2. /\ log' \in [Writers -> Call] /\ log'[w].at = "copy" /\ log'[w].off = 0
      /\ log'[w].half = log[w].half /\ log'[w].line = log[w].line
      /\ \A v \in Writers : v # w => log'[v] = log[v]
  BY <1>1 DEF CopyOpen, LogInv, LogTypes, Call, Inner
<1>3. /\ UNCHANGED <<live, logLock, nextLine, torn, cut>> /\ prev' = <<>>
      /\ rolled' = done /\ done' = {}
  BY DEF CopyOpen
<1>4. prev' \in Seq(Pieces) BY <1>3
<1>5. log'[w].at \in Inner BY <1>2 DEF Inner
<1>6. /\ LogTypes' /\ Serial' /\ LineNumbers' /\ Begun' /\ LinesWhole'
      /\ \A v \in Writers : v # w => log'[v].at \notin Inner
  BY <1>1, <1>2, <1>3, <1>4, <1>5, MoveKeeps
<1>7. DoneLive' /\ Retained' BY <1>3 DEF LogInv, DoneLive, Retained, LineSize
<1>8. \A i \in 1..Len(live') : ~(i <= 0) OBVIOUS
<1>9. Copied' BY <1>2, <1>3, <1>6, <1>8 DEF Copied, Inner
<1> QED BY <1>6, <1>7, <1>9 DEF LogInv

LEMMA CopyChunkKeeps == ASSUME LogInv, NEW w \in Writers, CopyChunk(w) PROVE LogInv'
<1>1. /\ log[w] \in Call /\ log[w].at = "copy" /\ log[w].off \in Nat
      /\ live \in Seq(Pieces) /\ prev \in Seq(Pieces) /\ Len(live) \in Nat
  BY DEF LogInv, CopyChunk, LogTypes, Call
<1>2. UNCHANGED <<live, logLock, nextLine, torn, cut, done, rolled>> BY DEF CopyChunk, record
<1>3. /\ log' \in [Writers -> Call] /\ log'[w].at \in {"copy", "truncate"}
      /\ log'[w].half = log[w].half /\ log'[w].line = log[w].line
      /\ \A v \in Writers : v # w => log'[v] = log[v]
  <2>1. log \in [Writers -> Call] BY DEF LogInv, LogTypes
  <2>2. CASE log' = [log EXCEPT ![w].off = log[w].off + 1]
    <3>1. log[w].off + 1 \in Nat BY <1>1
    <3>2. log' \in [Writers -> Call] BY <1>1, <2>1, <2>2, <3>1 DEF Call
    <3> QED BY <1>1, <2>1, <2>2, <3>2 DEF Call
  <2>3. CASE log' = [log EXCEPT ![w].at = "truncate"] BY <1>1, <2>1, <2>3 DEF Call, Inner
  <2> QED BY <2>2, <2>3 DEF CopyChunk, At
<1>4. CASE log[w].off < Len(live)
  <2>1. log[w].off + 1 \in 1..Len(live) BY <1>1, <1>4
  <2>2. /\ live[log[w].off + 1] \in Pieces /\ prev' = Append(prev, live[log[w].off + 1])
        /\ log'[w].at = "copy" /\ log'[w].off = log[w].off + 1
    <3>1. live[log[w].off + 1] \in Pieces BY <1>1, <2>1
    <3>2. prev' = Append(prev, live[log[w].off + 1]) BY <1>4 DEF CopyChunk
    <3>3. log' = [log EXCEPT ![w].off = log[w].off + 1] BY <1>4 DEF CopyChunk
    <3>4. log \in [Writers -> Call] BY DEF LogInv, LogTypes
    <3> QED BY <1>1, <3>1, <3>2, <3>3, <3>4 DEF Call
  <2>3. prev' \in Seq(Pieces) /\ ToSet(prev) \subseteq ToSet(prev')
        /\ live[log[w].off + 1] \in ToSet(prev')
    <3>1. /\ prev' \in Seq(Pieces) /\ Len(prev') = Len(prev) + 1
          /\ prev'[Len(prev) + 1] = live[log[w].off + 1]
          /\ \A i \in 1..Len(prev) : prev'[i] = prev[i]
      BY <1>1, <2>2
    <3>2. Len(prev) + 1 \in 1..Len(prev') /\ \A i \in 1..Len(prev) : i \in 1..Len(prev')
      BY <1>1, <3>1
    <3>3. \A x : x \in ToSet(prev') <=> \E i \in 1..Len(prev') : prev'[i] = x BY <3>1, ElementsOf
    <3>4. \A x : x \in ToSet(prev) <=> \E i \in 1..Len(prev) : prev[i] = x BY <1>1, ElementsOf
    <3>5. ASSUME NEW x \in ToSet(prev) PROVE x \in ToSet(prev')
      <4>1. PICK i \in 1..Len(prev) : prev[i] = x BY <3>4
      <4>2. i \in 1..Len(prev') /\ prev'[i] = x BY <3>1, <3>2, <4>1
      <4> QED BY <3>3, <4>2
    <3>6. live[log[w].off + 1] \in ToSet(prev') BY <3>1, <3>2, <3>3
    <3> QED BY <3>1, <3>5, <3>6
  <2>4. log'[w].at \in Inner BY <1>3 DEF Inner
  <2>5. /\ LogTypes' /\ Serial' /\ LineNumbers' /\ Begun' /\ LinesWhole'
        /\ \A v \in Writers : v # w => log'[v].at \notin Inner
    BY <1>1, <1>2, <1>3, <2>3, <2>4, MoveKeeps
  <2>6. DoneLive' /\ Retained' BY <1>2, <2>3 DEF LogInv, DoneLive, Retained
  <2>7. \A i \in 1..Len(live) : i <= log[w].off + 1 => i <= log[w].off \/ i = log[w].off + 1
    BY <1>1
  <2>8. \A i \in 1..Len(live) : i <= log[w].off + 1 => live[i] \in ToSet(prev')
    BY <1>1, <2>3, <2>7 DEF LogInv, Copied
  <2>9. done' = {} BY <1>1, <1>2 DEF LogInv, Copied
  <2>10. Copied' BY <1>2, <2>2, <2>5, <2>8, <2>9 DEF Copied, Inner
  <2> QED BY <2>5, <2>6, <2>10 DEF LogInv
<1>5. CASE ~(log[w].off < Len(live))
  <2>1. log'[w].at = "truncate" /\ prev' = prev
    BY <1>1, <1>5 DEF CopyChunk, At, LogInv, LogTypes, Call
  <2>2. log'[w].at \in Inner BY <2>1 DEF Inner
  <2>3. /\ LogTypes' /\ Serial' /\ LineNumbers' /\ Begun' /\ LinesWhole'
        /\ \A v \in Writers : v # w => log'[v].at \notin Inner
    BY <1>1, <1>2, <1>3, <2>1, <2>2, MoveKeeps
  <2>4. DoneLive' /\ Retained' BY <1>2, <2>1 DEF LogInv, DoneLive, Retained
  <2>5. \A i \in 1..Len(live) : i <= log[w].off BY <1>1, <1>5
  <2>6. done' = {} /\ \A i \in 1..Len(live) : live[i] \in ToSet(prev)
    BY <1>1, <1>2, <2>5 DEF LogInv, Copied
  <2>7. Copied' BY <1>2, <2>1, <2>3, <2>6 DEF Copied, Inner
  <2> QED BY <2>3, <2>4, <2>7 DEF LogInv
<1> QED BY <1>4, <1>5

LEMMA CopyFailsKeeps == ASSUME LogInv, NEW w \in Writers, CopyFails(w) PROVE LogInv'
<1>1. log[w] \in Call /\ log[w].at \in {"open", "copy"} /\ prev \in Seq(Pieces)
  BY DEF LogInv, CopyFails, LogTypes
<1>2. UNCHANGED <<live, prev, logLock, nextLine, torn, cut, done, rolled>>
  BY DEF CopyFails, files, record
<1>3. /\ log' \in [Writers -> Call] /\ log'[w].at = "write"
      /\ log'[w].half = log[w].half /\ log'[w].line = log[w].line
      /\ \A v \in Writers : v # w => log'[v] = log[v]
  BY <1>1 DEF CopyFails, LogInv, LogTypes, Call, Inner, At
<1>4. log'[w].at \in Inner /\ prev' \in Seq(Pieces) BY <1>1, <1>2, <1>3 DEF Inner
<1>5. /\ LogTypes' /\ Serial' /\ LineNumbers' /\ Begun' /\ LinesWhole'
      /\ \A v \in Writers : v # w => log'[v].at \notin Inner
  BY <1>1, <1>2, <1>3, <1>4, MoveKeeps
<1>6. DoneLive' /\ Retained' BY <1>2 DEF LogInv, DoneLive, Retained
<1>7. Copied' BY <1>3, <1>5 DEF Copied, Inner
<1> QED BY <1>5, <1>6, <1>7 DEF LogInv

\* ftruncate(): everything in the live file is in the previous segment by now.
LEMMA TruncateKeeps == ASSUME LogInv, NEW w \in Writers, Truncate(w) PROVE LogInv'
<1>1. log[w] \in Call /\ log[w].at = "truncate" /\ prev \in Seq(Pieces) /\ live \in Seq(Pieces)
  BY DEF LogInv, Truncate, LogTypes
<1>2. UNCHANGED <<prev, logLock, nextLine, done, rolled>> BY DEF Truncate
<1>3. /\ log' \in [Writers -> Call] /\ log'[w].at = "write"
      /\ log'[w].half = log[w].half /\ log'[w].line = log[w].line
      /\ \A v \in Writers : v # w => log'[v] = log[v]
  BY <1>1 DEF Truncate, LogInv, LogTypes, Call, Inner, At
<1>4. log'[w].at \in Inner /\ log[w].at \in Inner /\ prev' \in Seq(Pieces)
  BY <1>1, <1>2, <1>3 DEF Inner
<1>5. CASE UNCHANGED <<live, torn, cut>>
  <2>1. /\ LogTypes' /\ Serial' /\ LineNumbers' /\ Begun' /\ LinesWhole'
        /\ \A v \in Writers : v # w => log'[v].at \notin Inner
    BY <1>1, <1>2, <1>3, <1>4, <1>5, MoveKeeps
  <2>2. DoneLive' /\ Retained' BY <1>2, <1>5 DEF LogInv, DoneLive, Retained
  <2>3. Copied' BY <1>3, <2>1 DEF Copied, Inner
  <2> QED BY <2>1, <2>2, <2>3 DEF LogInv
<1>6. CASE live' = <<>>
  <2>1. \A v \in Writers : v # w => log'[v].at \notin Inner /\ log'[v].half # 2
    BY <1>3, <1>4, OthersOut DEF LogInv
  <2>2. log'[w].half # 2 /\ logLock' = w BY <1>1, <1>2, <1>3, <1>4 DEF LogInv, Serial
  <2>3. live' \in Seq(Pieces) /\ Len(live') = 0 /\ DOMAIN live' = {} BY <1>6
  <2>4. LogTypes' BY <1>2, <1>3, <1>4, <2>3 DEF LogInv, LogTypes
  <2>5. Serial' /\ Begun' BY <2>1, <2>2 DEF Serial, Begun
  <2>6. \A i \in 1..Len(live') : FALSE BY <2>3
  <2>7. log[w].line < nextLine BY <1>4 DEF LogInv, LineNumbers
  <2>8. LineNumbers' BY <1>2, <1>3, <2>1, <2>6, <2>7 DEF LineNumbers
  <2>9. LinesWhole' BY <2>3 DEF LinesWhole
  <2>10. done' = {} /\ \A i \in 1..Len(live) : live[i] \in ToSet(prev)
    BY <1>1, <1>2 DEF LogInv, Copied
  <2>11. DoneLive' BY <2>10 DEF DoneLive
  <2>12. ToSet(live) \subseteq ToSet(prev) BY <1>1, <2>10, ElementsOf
  <2>13. Retained' BY <1>2, <2>10, <2>12 DEF LogInv, Retained
  <2>14. Copied' BY <1>3, <2>1 DEF Copied, Inner
  <2> QED BY <2>4, <2>5, <2>8, <2>9, <2>11, <2>13, <2>14 DEF LogInv
<1> QED BY <1>5, <1>6 DEF Truncate

\* write() fails: the line is torn where it stands.
LEMMA GiveUpKeeps == ASSUME LogInv, NEW w \in Writers, WriteGivesUp(w) PROVE LogInv'
<1>1. log[w] \in Call /\ log[w].at = "write" /\ log[w].at \in Inner
  BY DEF LogInv, WriteGivesUp, LogTypes, Inner
<1>2. /\ UNCHANGED <<live, prev, nextLine, done, rolled, cut>>
      /\ torn' = torn \cup {log[w].line}
  BY DEF WriteGivesUp, files
<1>3. Idle \in Call /\ Idle.half = 1 /\ Idle.at = "out" BY DEF Idle, Call
<1>4. /\ log' \in [Writers -> Call] /\ log'[w] = Idle
      /\ \A v \in Writers : v # w => log'[v] = log[v]
  BY <1>3 DEF WriteGivesUp, Leave, LogInv, LogTypes
<1>5. \A v \in Writers : log'[v].at \notin Inner /\ log'[v].half # 2
  BY <1>1, <1>3, <1>4, OthersOut DEF LogInv, Inner
<1>6. LogTypes' BY <1>2, <1>4 DEF LogInv, LogTypes
<1>7. Serial' /\ Begun' /\ Copied' BY <1>5 DEF Serial, Begun, Copied, Inner
<1>8. LineNumbers' BY <1>2, <1>5 DEF LogInv, LineNumbers
<1>9. \A n : InWriting(n) => n \in torn' BY <1>1, <1>2, OthersOut DEF InWriting, LogInv, Inner
<1>10. LinesWhole' BY <1>2, <1>9 DEF LogInv, LinesWhole
<1>11. DoneLive' /\ Retained' BY <1>2 DEF LogInv, DoneLive, Retained
<1> QED BY <1>6, <1>7, <1>8, <1>10, <1>11 DEF LogInv

LEMMA ClearKeeps == ASSUME LogInv, Clear PROVE LogInv'
<1>1. /\ UNCHANGED <<prev, log, logLock, nextLine>>
      /\ live' = <<>> /\ done' = {} /\ rolled' = {}
      /\ cut' = {log[w].line : w \in {v \in Writers : log[v].half > 1}}
  BY DEF Clear
<1>2. live' \in Seq(Pieces) /\ Len(live') = 0 /\ DOMAIN live' = {} BY <1>1
<1>3. \A i \in 1..Len(live') : FALSE BY <1>2
<1>4. LogTypes' BY <1>1, <1>2 DEF LogInv, LogTypes
<1>5. Serial' BY <1>1 DEF LogInv, Serial
<1>6. LineNumbers' BY <1>1, <1>3 DEF LogInv, LineNumbers
<1>7. \A w \in Writers : log[w].half = 2 => log[w].line \in cut' BY <1>1
<1>8. Begun' BY <1>1, <1>3, <1>7 DEF Begun
<1>9. LinesWhole' BY <1>2 DEF LinesWhole
<1>10. DoneLive' /\ Retained' BY <1>1 DEF DoneLive, Retained
<1>11. Copied' BY <1>1, <1>3 DEF Copied
<1> QED BY <1>4, <1>5, <1>6, <1>8, <1>9, <1>10, <1>11 DEF LogInv

\* LinesWhole at one place of the file.
WholeAt(i) ==
    IF live[i].half = 1
    THEN \/ i < Len(live) /\ live[i + 1] = Piece(live[i].line, 2)
         \/ live[i].line \in torn
         \/ \E w \in Writers : log[w].at = "write" /\ log[w].line = live[i].line
    ELSE \/ i > 1 /\ live[i - 1] = Piece(live[i].line, 1)
         \/ live[i].line \in cut

LEMMA WholeAtEach ==
    /\ live \in Seq(Pieces) => (LinesWhole <=> \A i \in 1..Len(live) : WholeAt(i))
    /\ live' \in Seq(Pieces) => (LinesWhole' <=> \A i \in 1..Len(live') : WholeAt(i)')
<1>1. live \in Seq(Pieces) => (LinesWhole <=> \A i \in 1..Len(live) : WholeAt(i))
  BY ElementsOf DEF LinesWhole, WholeAt, InWriting
<1>2. live' \in Seq(Pieces) => DOMAIN live' = 1..Len(live') BY ElementsOf
<1>3. live' \in Seq(Pieces) => (LinesWhole' <=> \A i \in 1..Len(live') : WholeAt(i)')
  BY <1>2 DEF LinesWhole, WholeAt, InWriting
<1> QED BY <1>1, <1>3

\* What os.write() appends: the first half, the whole line, or its second half.
LEMMA WriteCases ==
    ASSUME LogTypes, NEW w \in Writers, Write(w)
    PROVE  LET n == log[w].line
               L == Len(live)
           IN  /\ live' \in Seq(Pieces) /\ \A i \in 1..L : live'[i] = live[i]
               /\ \/ /\ log[w].half = 1 /\ Len(live') = L + 1 /\ live'[L + 1] = Piece(n, 1)
                     /\ log' = [log EXCEPT ![w].half = 2] /\ UNCHANGED <<logLock, done>>
                  \/ /\ log[w].half = 1 /\ Len(live') = L + 2
                     /\ live'[L + 1] = Piece(n, 1) /\ live'[L + 2] = Piece(n, 2)
                     /\ Leave(w) /\ done' = done \cup ({n} \ cut)
                  \/ /\ log[w].half = 2 /\ Len(live') = L + 1 /\ live'[L + 1] = Piece(n, 2)
                     /\ Leave(w) /\ done' = done \cup ({n} \ cut)
<1> DEFINE n == log[w].line
           h == log[w].half
           L == Len(live)
<1>1. PICK upTo \in h..2 :
          /\ live' = live \o [k \in 1..(upTo - h + 1) |-> Piece(n, h + k - 1)]
          /\ IF upTo = 2
             THEN Leave(w) /\ done' = done \cup ({n} \ cut)
             ELSE log' = [log EXCEPT ![w].half = upTo + 1] /\ UNCHANGED <<logLock, done>>
  BY DEF Write, LineSize
<1>2. n \in Nat /\ (h = 1 \/ h = 2) /\ live \in Seq(Pieces) /\ L \in Nat
  BY DEF LogTypes, Call
<1>3. Piece(n, 1) \in Pieces /\ Piece(n, 2) \in Pieces BY <1>2 DEF Piece, Pieces
<1>4. CASE h = 1 /\ upTo = 1
  <2>1. [k \in 1..(upTo - h + 1) |-> Piece(n, h + k - 1)] = <<Piece(n, 1)>>
    <3>1. upTo - h + 1 = 1 /\ \A k \in 1..1 : h + k - 1 = 1 BY <1>4
    <3> QED BY <3>1
  <2>2. live' = live \o <<Piece(n, 1)>> BY <1>1, <2>1
  <2>3. live' \in Seq(Pieces) /\ Len(live') = L + 1 /\ live'[L + 1] = Piece(n, 1)
        /\ \A i \in 1..L : live'[i] = live[i]
    BY <1>2, <1>3, <2>2
  <2> QED BY <1>1, <1>4, <2>3
<1>5. CASE h = 1 /\ upTo = 2
  <2>1. [k \in 1..(upTo - h + 1) |-> Piece(n, h + k - 1)] = <<Piece(n, 1), Piece(n, 2)>>
    <3>1. upTo - h + 1 = 2 /\ \A k \in 1..2 : h + k - 1 = k /\ (k = 1 \/ k = 2) BY <1>5
    <3> QED BY <3>1
  <2>2. live' = live \o <<Piece(n, 1), Piece(n, 2)>> BY <1>1, <2>1
  <2>3. live' \in Seq(Pieces) /\ Len(live') = L + 2
        /\ live'[L + 1] = Piece(n, 1) /\ live'[L + 2] = Piece(n, 2)
        /\ \A i \in 1..L : live'[i] = live[i]
    BY <1>2, <1>3, <2>2
  <2> QED BY <1>1, <1>5, <2>3
<1>6. CASE h = 2
  <2>0. upTo = 2 BY <1>1, <1>6
  <2>1. [k \in 1..(upTo - h + 1) |-> Piece(n, h + k - 1)] = <<Piece(n, 2)>>
    <3>1. upTo - h + 1 = 1 /\ \A k \in 1..1 : h + k - 1 = 2 BY <1>6, <2>0
    <3> QED BY <3>1
  <2>2. live' = live \o <<Piece(n, 2)>> BY <1>1, <2>1
  <2>3. live' \in Seq(Pieces) /\ Len(live') = L + 1 /\ live'[L + 1] = Piece(n, 2)
        /\ \A i \in 1..L : live'[i] = live[i]
    BY <1>2, <1>3, <2>2
  <2> QED BY <1>1, <1>6, <2>0, <2>3
<1>7. h = 1 => upTo = 1 \/ upTo = 2 BY <1>1
<1> QED BY <1>2, <1>4, <1>5, <1>6, <1>7

\* write() under _lock: only the holder's line is open at the end of the file.
LEMMA WriteKeeps == ASSUME LogInv, NEW w \in Writers, Write(w) PROVE LogInv'
<1> DEFINE n == log[w].line
           L == Len(live)
<1> USE DEF LogInv
<1>1. /\ log[w] \in Call /\ log[w].at = "write" /\ log[w].at \in Inner /\ n \in Nat
      /\ log \in [Writers -> Call] /\ live \in Seq(Pieces) /\ L \in Nat /\ logLock = w
  BY DEF Write, LogTypes, Inner, Serial, Call
<1>2. UNCHANGED <<prev, nextLine, rolled, torn, cut>> BY DEF Write
<1>3. live' \in Seq(Pieces) /\ \A i \in 1..L : live'[i] = live[i] BY WriteCases
<1>4. \A v \in Writers : v # w => log[v].at \notin Inner /\ log[v].half = 1 BY <1>1, OthersOut
<1>5. \A v \in Writers : log[v].at = "write" => v = w BY <1>4 DEF Inner
<1>6. \A i \in 1..L : live[i] \in Pieces /\ live[i].line < nextLine
  BY <1>1 DEF LineNumbers
<1>7. n < nextLine BY <1>1 DEF LineNumbers
<1>8. Piece(n, 1).line = n /\ Piece(n, 2).line = n /\ Piece(n, 1).half = 1 /\ Piece(n, 2).half = 2
  BY DEF Piece
<1>9. ASSUME Len(live') >= L, Len(live') \in Nat,
             \A i \in 1..Len(live') : i > L => live'[i].line = n
      PROVE  /\ ToSet(live) \subseteq ToSet(live')
             /\ \A i \in 1..Len(live') : live'[i].line < nextLine'
  <2>1. \A i \in 1..L : i \in 1..Len(live') BY <1>1, <1>9
  <2>2. \A x \in ToSet(live) : x \in ToSet(live') BY <1>1, <1>3, <2>1, ElementsOf
  <2>3. \A i \in 1..Len(live') : i \in 1..L \/ i > L BY <1>1, <1>9
  <2> QED BY <1>2, <1>3, <1>6, <1>7, <1>9, <2>2, <2>3
<1>10. CASE /\ log[w].half = 1 /\ Len(live') = L + 1 /\ live'[L + 1] = Piece(n, 1)
            /\ log' = [log EXCEPT ![w].half = 2] /\ UNCHANGED <<logLock, done>>
  <2>1. /\ log' \in [Writers -> Call] /\ log'[w].at = "write" /\ log'[w].half = 2
        /\ log'[w].line = n /\ \A v \in Writers : v # w => log'[v] = log[v]
    <3>1. 2 \in 1..2 OBVIOUS
    <3>2. log' \in [Writers -> Call] BY <1>1, <1>10, <3>1 DEF Call
    <3> QED BY <1>1, <1>10, <3>2 DEF Call
  <2>2. Len(live') >= L /\ Len(live') \in Nat /\ \A i \in 1..Len(live') : i > L => i = L + 1
    BY <1>1, <1>10
  <2>3. \A i \in 1..Len(live') : i > L => live'[i].line = n BY <1>8, <1>10, <2>2
  <2>4. /\ ToSet(live) \subseteq ToSet(live')
        /\ \A i \in 1..Len(live') : live'[i].line < nextLine'
    BY <1>9, <2>2, <2>3
  <2>5. \A v \in Writers : log'[v].at \in Inner \/ log'[v].half = 2 => v = w
    BY <1>4, <2>1
  <2>6. LogTypes' BY <1>2, <1>3, <2>1 DEF LogTypes
  <2>7. Serial' BY <1>1, <1>10, <2>1, <2>5 DEF Serial
  <2>8. LineNumbers' BY <1>2, <1>7, <2>1, <2>4, <2>5 DEF LineNumbers
  <2>9. \A i \in 1..L : live[i].line # n BY <1>1, <1>10 DEF LineNumbers
  <2>10. \A i \in 1..Len(live') : i \in 1..L \/ i = L + 1 BY <1>1, <1>10
  <2>11. Begun'
    <3>1. \A i \in 1..Len(live') : live'[i] = Piece(n, 1) => i = L + 1
      BY <1>3, <1>8, <2>9, <2>10
    <3>2. Len(live') > 0 BY <1>1, <1>10
    <3> QED BY <1>10, <2>1, <2>5, <3>1, <3>2 DEF Begun
  <2>13. LinesWhole'
    <3> SUFFICES ASSUME NEW i \in 1..Len(live') PROVE WholeAt(i)'
      BY <1>3, WholeAtEach
    <3>1. CASE i \in 1..L
      <4>1. live'[i] = live[i] /\ (i < L => i + 1 \in 1..L) /\ (i > 1 => i - 1 \in 1..L)
            /\ (i < L => i < Len(live'))
        BY <1>1, <1>3, <1>10, <3>1
      <4>2. live[i].line # n BY <2>9, <3>1
      <4>3. WholeAt(i) BY <1>1, <3>1, WholeAtEach
      <4> QED BY <1>2, <1>3, <1>5, <3>1, <4>1, <4>2, <4>3 DEF WholeAt
    <3>2. CASE i = L + 1 BY <1>8, <1>10, <2>1, <3>2 DEF WholeAt
    <3> QED BY <2>10, <3>1, <3>2
  <2>14. DoneLive' /\ Retained' BY <1>2, <1>10, <2>4 DEF DoneLive, Retained
  <2>15. Copied' BY <2>1, <2>5 DEF Copied, Inner
  <2> QED BY <2>6, <2>7, <2>8, <2>11, <2>13, <2>14, <2>15
<1>11. ASSUME Leave(w), done' = done \cup ({n} \ cut), Len(live') >= L, Len(live') \in Nat,
              \A i \in 1..Len(live') : i > L => live'[i].line = n,
              n \notin cut => Piece(n, 1) \in ToSet(live') /\ Piece(n, 2) \in ToSet(live'),
              LinesWhole'
       PROVE  LogInv'
  <2>1. Idle \in Call /\ Idle.half = 1 /\ Idle.at = "out" BY DEF Idle, Call
  <2>2. /\ log' \in [Writers -> Call] /\ log'[w] = Idle
        /\ \A v \in Writers : v # w => log'[v] = log[v]
    BY <1>1, <1>11, <2>1 DEF Leave
  <2>3. \A v \in Writers : log'[v].at \notin Inner /\ log'[v].half # 2
    BY <1>4, <2>1, <2>2 DEF Inner
  <2>4. /\ ToSet(live) \subseteq ToSet(live')
        /\ \A i \in 1..Len(live') : live'[i].line < nextLine'
    BY <1>9, <1>11
  <2>5. LogTypes' BY <1>2, <1>3, <2>2 DEF LogTypes
  <2>6. Serial' /\ Begun' /\ Copied' BY <2>3 DEF Serial, Begun, Copied, Inner
  <2>7. LineNumbers' BY <2>3, <2>4 DEF LineNumbers
  <2>8. \A h \in 1..2 : h = 1 \/ h = 2 OBVIOUS
  <2>9. DoneLive' BY <1>11, <2>4, <2>8 DEF DoneLive
  <2>10. Retained' BY <1>2, <1>11, <2>4, <2>9 DEF Retained, DoneLive, LineSize
  <2> QED BY <1>11, <2>5, <2>6, <2>7, <2>9, <2>10
<1>12. CASE /\ log[w].half = 1 /\ Len(live') = L + 2
            /\ live'[L + 1] = Piece(n, 1) /\ live'[L + 2] = Piece(n, 2)
            /\ Leave(w) /\ done' = done \cup ({n} \ cut)
  <2>1. /\ Len(live') >= L /\ Len(live') \in Nat
        /\ \A i \in 1..Len(live') : i \in 1..L \/ i = L + 1 \/ i = L + 2
        /\ \A i \in 1..Len(live') : i > L => i = L + 1 \/ i = L + 2
        /\ L + 1 \in 1..Len(live') /\ L + 2 \in 1..Len(live')
    BY <1>1, <1>12
  <2>2. \A i \in 1..Len(live') : i > L => live'[i].line = n BY <1>8, <1>12, <2>1
  <2>3. Piece(n, 1) \in ToSet(live') /\ Piece(n, 2) \in ToSet(live')
    BY <1>3, <1>12, <2>1, ElementsOf
  <2>4. \A i \in 1..L : live[i].line # n BY <1>1, <1>12 DEF LineNumbers
  <2>5. LinesWhole'
    <3> SUFFICES ASSUME NEW i \in 1..Len(live') PROVE WholeAt(i)'
      BY <1>3, WholeAtEach
    <3>1. CASE i \in 1..L
      <4>1. live'[i] = live[i] /\ (i < L => i + 1 \in 1..L) /\ (i > 1 => i - 1 \in 1..L)
            /\ (i < L => i < Len(live'))
        BY <1>1, <1>3, <1>12, <3>1
      <4>2. live[i].line # n BY <2>4, <3>1
      <4>3. WholeAt(i) BY <1>1, <3>1, WholeAtEach
      <4> QED BY <1>2, <1>3, <1>5, <3>1, <4>1, <4>2, <4>3 DEF WholeAt
    <3>2. CASE i = L + 1
      <4>1. i < Len(live') /\ i + 1 = L + 2 BY <1>1, <1>12, <3>2
      <4> QED BY <1>8, <1>12, <3>2, <4>1 DEF WholeAt
    <3>3. CASE i = L + 2
      <4>1. i > 1 /\ i - 1 = L + 1 BY <1>1, <3>3
      <4> QED BY <1>8, <1>12, <3>3, <4>1 DEF WholeAt
    <3> QED BY <2>1, <3>1, <3>2, <3>3
  <2> QED BY <1>11, <1>12, <2>1, <2>2, <2>3, <2>5
<1>13. CASE /\ log[w].half = 2 /\ Len(live') = L + 1 /\ live'[L + 1] = Piece(n, 2)
            /\ Leave(w) /\ done' = done \cup ({n} \ cut)
  <2>1. /\ Len(live') >= L /\ Len(live') \in Nat
        /\ \A i \in 1..Len(live') : i \in 1..L \/ i = L + 1
        /\ \A i \in 1..Len(live') : i > L => i = L + 1
        /\ L + 1 \in 1..Len(live')
    BY <1>1, <1>13
  <2>2. \A i \in 1..Len(live') : i > L => live'[i].line = n BY <1>8, <1>13, <2>1
  <2>3. /\ (L > 0 /\ live[L] = Piece(n, 1)) \/ n \in cut
        /\ \A i \in 1..L : live[i] = Piece(n, 1) => i = L
    BY <1>13 DEF Begun
  <2>4. n \notin cut => Piece(n, 1) \in ToSet(live') /\ Piece(n, 2) \in ToSet(live')
    <3>1. Piece(n, 2) \in ToSet(live') BY <1>3, <1>13, <2>1, ElementsOf
    <3>2. L > 0 => L \in 1..L /\ L \in 1..Len(live') BY <1>1, <1>13
    <3> QED BY <1>3, <2>3, <3>1, <3>2, ElementsOf
  <2>5. LinesWhole'
    <3> SUFFICES ASSUME NEW i \in 1..Len(live') PROVE WholeAt(i)'
      BY <1>3, WholeAtEach
    <3>1. CASE i \in 1..L
      <4>1. live'[i] = live[i] /\ (i < L => i + 1 \in 1..L) /\ (i > 1 => i - 1 \in 1..L)
            /\ i < Len(live') /\ (i = L => i + 1 = L + 1)
        BY <1>1, <1>3, <1>13, <3>1
      <4>2. live[i].half = 1 /\ live[i].line = n => i = L
        <5>1. live[i].half = 1 /\ live[i].line = n => live[i] = Piece(n, 1)
          BY <1>6, <3>1 DEF Pieces, Piece
        <5> QED BY <2>3, <3>1, <5>1
      <4>3. CASE live[i].half = 1 /\ live[i].line = n BY <1>13, <4>1, <4>2, <4>3 DEF WholeAt
      <4>4. CASE ~(live[i].half = 1 /\ live[i].line = n)
        <5>1. WholeAt(i) BY <1>1, <3>1, WholeAtEach
        <5> QED BY <1>2, <1>3, <1>5, <3>1, <4>1, <4>4, <5>1 DEF WholeAt
      <4> QED BY <4>3, <4>4
    <3>2. CASE i = L + 1
      <4>1. L > 0 => i > 1 /\ i - 1 = L /\ L \in 1..L BY <1>1, <3>2
      <4> QED BY <1>2, <1>3, <1>8, <1>13, <2>3, <3>2, <4>1 DEF WholeAt
    <3> QED BY <2>1, <3>1, <3>2
  <2> QED BY <1>11, <1>13, <2>1, <2>2, <2>4, <2>5
<1> QED BY <1>10, <1>12, <1>13, WriteCases

\* Every other step of Teardown leaves the log alone.
LEMMA LogInvNext == LogInv /\ [Next]_allVars => LogInv'
<1> SUFFICES ASSUME LogInv, [Next]_allVars PROVE LogInv' OBVIOUS
<1>idle. ASSUME UNCHANGED logVars PROVE LogInv'
  BY <1>idle DEF logVars, LogInv, LogTypes, Serial, LineNumbers, Begun, LinesWhole, InWriting,
                 DoneLive, Copied, Retained
<1>1. ASSUME NEW w \in Writers, Work(w) PROVE LogInv'
  <2>1. CASE TakeRadio(w) BY <2>1, <1>idle DEF TakeRadio
  <2>2. CASE Transfer(w) BY <2>2, <1>idle DEF Transfer
  <2>3. CASE BusStep(w) BY <2>3, <1>idle DEF BusStep
  <2>4. CASE LogProgress(w)
    BY <2>4, LockKeeps, CopyOpenKeeps, CopyChunkKeeps, CopyFailsKeeps, TruncateKeeps,
       WriteKeeps, GiveUpKeeps DEF LogProgress, LogStep
  <2>5. CASE Fault(w) BY <2>5, <1>idle DEF Fault
  <2>6. CASE Leaves(w) BY <2>6, <1>idle DEF Leaves
  <2>7. CASE w = RX /\ PollReturns BY <2>7, <1>idle, CallKeeps DEF PollReturns
  <2>8. CASE LoopTest(w) BY <2>8, <1>idle DEF LoopTest
  <2>9. CASE w = TX /\ TransmitReturns BY <2>9, CallKeeps DEF TransmitReturns
  <2>10. CASE TransmitDone BY <2>10, <1>idle DEF TransmitDone
  <2> QED BY <1>1, <2>1, <2>2, <2>3, <2>4, <2>5, <2>6, <2>7, <2>8, <2>9, <2>10 DEF Work
<1>2. CASE Detach BY <1>2, <1>idle DEF Detach
<1>3. CASE DetachBus BY <1>3, <1>idle DEF DetachBus
<1>4. CASE DetachLog
  BY <1>4 DEF DetachLog, LogClose, files, record, LogInv, LogTypes, Serial, LineNumbers, Begun,
              LinesWhole, InWriting, DoneLive, Copied, Retained
<1>5. CASE Peer /\ UNCHANGED <<logVars, ownVars>> BY <1>5, <1>idle
<1>6. CASE Clear /\ UNCHANGED <<busVars, ownVars>> BY <1>6, ClearKeeps
<1>7. CASE UNCHANGED allVars BY <1>7, <1>idle DEF allVars
<1> QED BY <1>1, <1>2, <1>3, <1>4, <1>5, <1>6, <1>7 DEF Next, Closing, Others

LEMMA LogInvAlways == Spec => []LogInv
BY LogInvInit, LogInvNext, PTL DEF Spec

\* _lock and O_APPEND: the halves of a line stay together, whatever partial writes,
\* failures, roll-overs and Clears the two threads meet, and however detach() closes
\* the log between them.
THEOREM LinesStayWhole == Spec => []LinesWhole
<1>1. LogInv => LinesWhole BY DEF LogInv
<1> QED BY <1>1, LogInvAlways, PTL

\* _copy_to_previous() before ftruncate(): a complete line is in the log or in its
\* previous segment until a second roll-over begins, for every size limit.
THEOREM LinesRetained == Spec => []Retained
<1>1. LogInv => Retained BY DEF LogInv
<1> QED BY <1>1, LogInvAlways, PTL
===============================================================================
