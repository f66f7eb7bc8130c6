---------------------------- MODULE FramingProofs -----------------------------
(***************************************************************************)
(* The RNode framing of loraham_rns/framing.py, for any number of stations,*)
(* packets and losses: what the Reassembler counts, glues, delivers and    *)
(* loses, and how far it agrees with the firmware's receiver.              *)
(***************************************************************************)
EXTENDS Framing, SequenceTheorems, FiniteSetTheorems, TLAPS

Byte == Nat \X Nat
Frame == [seq : Seqs, split : BOOLEAN, payload : Seq(Byte)]
Half == [seq : Seqs \cup {Unset}, buf : Seq(Byte), since : Nat]
Reception == [frame : Frame, at : Nat]
Delivery == [data : Seq(Byte), split : BOOLEAN, last : Nat]

TypeOK ==
    /\ outbox \in [Stations -> Seq(Frame)]
    /\ sent \in Seq([seq : Seqs, data : Seq(Byte)])
    /\ time \in Nat
    /\ heard \in Seq(Reception)
    /\ half \in Half /\ fwHalf \in Half
    /\ dropped \in Nat
    /\ delivered \in Seq(Delivery) /\ fwDelivered \in Seq(Seq(Byte))

\* Sequences of one and of two elements.
LEMMA Singles ==
    /\ \A x : <<x>> # <<>> /\ Head(<<x>>) = x /\ Len(<<x>>) = 1
    /\ \A S : \A x \in S : <<x>> \in Seq(S)
    /\ \A S : \A x, y \in S : <<x, y>> \in Seq(S)
OBVIOUS

-----------------------------------------------------------------------------
(* feed(), case by case                                                    *)

\* What feed() makes of a frame of each kind.  A half it completes is fresh.
LEMMA FeedTrailers ==
    ASSUME NEW h, NEW f, NEW t, f.payload = <<>>
    PROVE  feed(h, f, t) = [half |-> NoHalf, out |-> <<>>, dropped |-> Halves(h) + 1]
BY DEF feed, FeedTrailer, Outcome

LEMMA FeedCompletes ==
    ASSUME NEW h \in Half, NEW f \in Frame, NEW t, f.payload # <<>>, f.split, Fresh(h, t).seq = f.seq
    PROVE  /\ feed(h, f, t) = [half |-> NoHalf, out |-> <<h.buf \o f.payload>>, dropped |-> 0]
           /\ h.seq = f.seq /\ ~(t - h.since > MaxAge) /\ Fresh(h, t) = h
<1>1. f.seq # Unset BY FramingAssumption DEF Frame
<1>2. Fresh(h, t) = h BY <1>1 DEF Fresh, NoHalf
<1>3. h.seq = f.seq /\ ~(t - h.since > MaxAge)
  <2>1. h.seq = f.seq BY <1>2
  <2>2. ~(t - h.since > MaxAge) BY <1>1, <2>1 DEF Fresh, NoHalf
  <2> QED BY <2>1, <2>2
<1>4. FeedSplit(h, f, t) = [half |-> NoHalf, out |-> <<h.buf \o f.payload>>, dropped |-> 0]
  BY <1>3 DEF FeedSplit, Outcome
<1>5. 0 + (Halves(h) - Halves(h)) = 0 BY DEF Halves
<1>6. \A x : [[half |-> NoHalf, out |-> x, dropped |-> 0] EXCEPT !.dropped = @ + (Halves(h) - Halves(h))]
               = [half |-> NoHalf, out |-> x, dropped |-> 0]
  BY <1>5
<1>7. feed(h, f, t) = [FeedSplit(h, f, t) EXCEPT !.dropped = @ + (Halves(h) - Halves(h))]
  BY <1>2 DEF feed
<1>8. feed(h, f, t) = [half |-> NoHalf, out |-> <<h.buf \o f.payload>>, dropped |-> 0]
  BY <1>4, <1>6, <1>7, Zenon
<1> QED BY <1>2, <1>3, <1>8

LEMMA FeedKeeps ==
    ASSUME NEW h \in Half, NEW f \in Frame, NEW t, f.payload # <<>>, f.split, Fresh(h, t).seq # f.seq
    PROVE  feed(h, f, t) = [half |-> [seq |-> f.seq, buf |-> f.payload, since |-> t], out |-> <<>>,
                            dropped |-> Halves(h)]
<1> DEFINE g == Fresh(h, t)
<1>1. FeedSplit(g, f, t) = [half |-> [seq |-> f.seq, buf |-> f.payload, since |-> t], out |-> <<>>,
                            dropped |-> Halves(g)]
  BY DEF FeedSplit, Outcome
<1>2. Halves(g) + (Halves(h) - Halves(g)) = Halves(h) BY DEF Halves
<1> QED BY <1>1, <1>2 DEF feed

LEMMA FeedWholes ==
    ASSUME NEW h \in Half, NEW f \in Frame, NEW t, f.payload # <<>>, ~f.split
    PROVE  feed(h, f, t) = [half |-> NoHalf, out |-> <<f.payload>>, dropped |-> Halves(h)]
<1> DEFINE g == Fresh(h, t)
<1>1. FeedWhole(g, f) = [half |-> NoHalf, out |-> <<f.payload>>, dropped |-> Halves(g)]
  BY DEF FeedWhole, Outcome
<1>2. Halves(g) + (Halves(h) - Halves(g)) = Halves(h) BY DEF Halves
<1> QED BY <1>1, <1>2 DEF feed

-----------------------------------------------------------------------------
(* Types                                                                   *)

\* What frame() and the trailer put on the air of a packet: at most three frames.
LEMMA FramesTyped ==
    ASSUME NEW data \in Seq(Byte), Len(data) \in 1..(2 * FramePayload), NEW q \in Seqs, NEW s
    PROVE  /\ frame(data, q) \in Seq(Frame) /\ Trailer(s, data, q) \in Seq(Frame)
           /\ frame(data, q) \o Trailer(s, data, q) \in Seq(Frame)
<1>1. FramePayload \in Nat \ {0} BY FramingAssumption
<1>2. frame(data, q) \in Seq(Frame)
  <2>1. CASE Len(data) <= FramePayload
    <3>1. AirFrame(q, FALSE, data) \in Frame BY DEF AirFrame, Frame
    <3> QED BY <2>1, <3>1, Singles, Zenon DEF frame
  <2>2. CASE ~(Len(data) <= FramePayload)
    <3>1. SubSeq(data, 1, FramePayload) \in Seq(Byte) BY <1>1, <2>2
    <3>2. SubSeq(data, FramePayload + 1, Len(data)) \in Seq(Byte) BY <1>1, <2>2
    <3>3. /\ AirFrame(q, TRUE, SubSeq(data, 1, FramePayload)) \in Frame
          /\ AirFrame(q, TRUE, SubSeq(data, FramePayload + 1, Len(data))) \in Frame
      BY <3>1, <3>2 DEF AirFrame, Frame
    <3> QED BY <2>2, <3>3, Singles, Zenon DEF frame
  <2> QED BY <2>1, <2>2
<1>3. Trailer(s, data, q) \in Seq(Frame)
  <2>1. AirFrame(q, TRUE, <<>>) \in Frame BY DEF AirFrame, Frame
  <2>2. <<>> \in Seq(Frame) OBVIOUS
  <2> QED BY <2>1, <2>2, Singles, Zenon DEF Trailer
<1> QED BY <1>2, <1>3

\* The data of a new packet.
NewData(n, k) == [i \in 1 .. n |-> <<k, i>>]

LEMMA DataTyped ==
    ASSUME NEW n \in Lengths, NEW k \in Nat
    PROVE  /\ NewData(n, k) \in Seq(Byte) /\ Len(NewData(n, k)) = n
           /\ n \in 1..(2 * FramePayload) /\ \A i \in 1..n : NewData(n, k)[i] = <<k, i>>
<1>1. n \in 1..(2 * FramePayload) /\ n \in Nat BY FramingAssumption
<1>2. \A i \in 1..n : <<k, i>> \in Byte BY <1>1 DEF Byte
<1> QED BY <1>1, <1>2 DEF NewData

\* Hear(s), for each kind of frame: what becomes of the half, of the counter and of
\* what was delivered.
Heard(s) == Head(outbox[s])
Delivered(data, s) ==
    delivered' = Append(delivered, [data |-> data, split |-> Heard(s).split, last |-> Len(heard) + 1])

LEMMA HearCases ==
    ASSUME TypeOK, NEW s \in Stations, Hear(s)
    PROVE  /\ outbox[s] # <<>> /\ Heard(s) \in Frame
           /\ outbox' = [outbox EXCEPT ![s] = Tail(@)]
           /\ heard' = Append(heard, [frame |-> Heard(s), at |-> time])
           /\ UNCHANGED <<sent, time>>
           /\ \/ /\ Heard(s).payload = <<>>
                 /\ half' = NoHalf /\ dropped' = dropped + (Halves(half) + 1)
                 /\ delivered' = delivered
              \/ /\ Heard(s).payload # <<>> /\ Heard(s).split
                 /\ half.seq = Heard(s).seq /\ ~(time - half.since > MaxAge)
                 /\ half' = NoHalf /\ dropped' = dropped + 0
                 /\ Delivered(half.buf \o Heard(s).payload, s)
              \/ /\ Heard(s).payload # <<>> /\ Heard(s).split
                 /\ half.seq # Heard(s).seq \/ time - half.since > MaxAge
                 /\ half' = [seq |-> Heard(s).seq, buf |-> Heard(s).payload, since |-> time]
                 /\ dropped' = dropped + Halves(half) /\ delivered' = delivered
              \/ /\ Heard(s).payload # <<>> /\ ~Heard(s).split
                 /\ half' = NoHalf /\ dropped' = dropped + Halves(half)
                 /\ Delivered(Heard(s).payload, s)
<1> DEFINE f == Heard(s)
           o == feed(half, f, time)
<1>1. outbox[s] # <<>> /\ f \in Frame /\ half \in Half BY DEF Hear, TypeOK, Heard
<1>2. /\ outbox' = [outbox EXCEPT ![s] = Tail(@)]
      /\ heard' = Append(heard, [frame |-> f, at |-> time])
      /\ UNCHANGED <<sent, time>>
      /\ half' = o.half /\ dropped' = dropped + o.dropped
      /\ delivered' = IF o.out = <<>> THEN delivered
                      ELSE Append(delivered, [data |-> Head(o.out), split |-> f.split, last |-> Len(heard) + 1])
  BY DEF Hear, Heard
<1> HIDE DEF f
<1>3. CASE f.payload = <<>> BY <1>1, <1>2, <1>3, FeedTrailers DEF f
<1>4. CASE f.payload # <<>> /\ f.split /\ Fresh(half, time).seq = f.seq
  <2>1. /\ o = [half |-> NoHalf, out |-> <<half.buf \o f.payload>>, dropped |-> 0]
        /\ half.seq = f.seq /\ ~(time - half.since > MaxAge)
    BY <1>1, <1>4, FeedCompletes
  <2>2. \A x : LET r == [half |-> NoHalf, out |-> <<x>>, dropped |-> 0]
               IN  r.out # <<>> /\ Head(r.out) = x /\ r.half = NoHalf /\ r.dropped = 0
    OBVIOUS
  <2>3. /\ o.out # <<>> /\ Head(o.out) = half.buf \o f.payload
        /\ o.half = NoHalf /\ o.dropped = 0
    <3> HIDE DEF o
    <3> QED BY <2>1, <2>2, Zenon
  <2> HIDE DEF o
  <2> QED BY <1>1, <1>2, <1>4, <2>1, <2>3 DEF f, Delivered
<1>5. CASE f.payload # <<>> /\ f.split /\ Fresh(half, time).seq # f.seq
  <2>1. o = [half |-> [seq |-> f.seq, buf |-> f.payload, since |-> time], out |-> <<>>,
             dropped |-> Halves(half)]
    BY <1>1, <1>5, FeedKeeps
  <2>2. half.seq # f.seq \/ time - half.since > MaxAge BY <1>5 DEF Fresh
  <2> QED BY <1>1, <1>2, <1>5, <2>1, <2>2 DEF f
<1>6. CASE f.payload # <<>> /\ ~f.split
  <2>1. o = [half |-> NoHalf, out |-> <<f.payload>>, dropped |-> Halves(half)]
    BY <1>1, <1>6, FeedWholes
  <2>2. o.out # <<>> /\ Head(o.out) = f.payload BY <2>1
  <2> QED BY <1>1, <1>2, <1>6, <2>1, <2>2 DEF f, Delivered
<1> QED BY <1>3, <1>4, <1>5, <1>6

LEMMA FirmwareCases ==
    ASSUME NEW s \in Stations, Hear(s)
    PROVE  \/ /\ ~Heard(s).split
              /\ fwHalf' = NoHalf /\ fwDelivered' = fwDelivered \o <<Heard(s).payload>>
           \/ /\ Heard(s).split /\ fwHalf.seq = Heard(s).seq
              /\ fwHalf' = NoHalf /\ fwDelivered' = fwDelivered \o <<fwHalf.buf \o Heard(s).payload>>
           \/ /\ Heard(s).split /\ fwHalf.seq # Heard(s).seq
              /\ fwHalf' = [seq |-> Heard(s).seq, buf |-> Heard(s).payload, since |-> time]
              /\ fwDelivered' = fwDelivered \o <<>>
<1> DEFINE f == Heard(s)
           fw == FirmwareFeed(fwHalf, f, time)
<1>1. fwHalf' = fw.half /\ fwDelivered' = fwDelivered \o fw.out BY DEF Hear, Heard
<1>2. \A h, x : LET r == [half |-> h, out |-> x, dropped |-> 0] IN r.half = h /\ r.out = x
  OBVIOUS
<1> HIDE DEF f
<1>3. CASE ~f.split
  <2>1. fw = [half |-> NoHalf, out |-> <<f.payload>>, dropped |-> 0]
    BY <1>3, Zenon DEF FirmwareFeed, Outcome
  <2> HIDE DEF fw
  <2> QED BY <1>1, <1>2, <1>3, <2>1, Zenon DEF f
<1>4. CASE f.split /\ fwHalf.seq = f.seq
  <2>1. fw = [half |-> NoHalf, out |-> <<fwHalf.buf \o f.payload>>, dropped |-> 0]
    BY <1>4, Zenon DEF FirmwareFeed, Outcome
  <2> HIDE DEF fw
  <2> QED BY <1>1, <1>2, <1>4, <2>1, Zenon DEF f
<1>5. CASE f.split /\ fwHalf.seq # f.seq
  <2>1. fw = [half |-> [seq |-> f.seq, buf |-> f.payload, since |-> time], out |-> <<>>, dropped |-> 0]
    BY <1>5, Zenon DEF FirmwareFeed, Outcome
  <2> HIDE DEF fw
  <2> QED BY <1>1, <1>2, <1>5, <2>1, Zenon DEF f
<1> QED BY <1>3, <1>4, <1>5

LEMMA TypeInit == Init => TypeOK
<1> SUFFICES ASSUME Init PROVE TypeOK OBVIOUS
<1>1. NoHalf \in Half BY DEF NoHalf, Half
<1>2. outbox \in [Stations -> Seq(Frame)] BY DEF Init
<1> QED BY <1>1, <1>2 DEF Init, TypeOK

LEMMA TypeStep == TypeOK /\ [Next]_vars => TypeOK'
<1> SUFFICES ASSUME TypeOK, [Next]_vars PROVE TypeOK' OBVIOUS
<1>1. NoHalf \in Half BY DEF NoHalf, Half
<1>2. ASSUME NEW s \in Stations, NEW n \in Lengths, NEW q \in Seqs, Send(s, n, q) PROVE TypeOK'
  <2> DEFINE data == NewData(n, Len(sent) + 1)
  <2>1. data \in Seq(Byte) /\ Len(data) \in 1..(2 * FramePayload) BY DataTyped DEF TypeOK
  <2>2. /\ sent' = Append(sent, [seq |-> q, data |-> data])
        /\ outbox' = [outbox EXCEPT ![s] = frame(data, q) \o Trailer(s, data, q)]
        /\ UNCHANGED <<time, heard, half, dropped, delivered, fwHalf, fwDelivered, guarded>>
    BY <1>2 DEF Send, NewData
  <2> HIDE DEF data
  <2>3. frame(data, q) \o Trailer(s, data, q) \in Seq(Frame) BY <2>1, FramesTyped
  <2>4. outbox' \in [Stations -> Seq(Frame)] BY <2>2, <2>3 DEF TypeOK
  <2>5. sent' \in Seq([seq : Seqs, data : Seq(Byte)]) BY <2>1, <2>2 DEF TypeOK
  <2> QED BY <2>2, <2>4, <2>5 DEF TypeOK
<1>3. ASSUME NEW s \in Stations, Hear(s) PROVE TypeOK'
  <2> DEFINE f == Heard(s)
  <2>1. /\ outbox[s] # <<>> /\ f \in Frame
        /\ outbox' = [outbox EXCEPT ![s] = Tail(@)]
        /\ heard' = Append(heard, [frame |-> f, at |-> time])
        /\ UNCHANGED <<sent, time>>
    BY <1>3, HearCases
  <2> HIDE DEF f
  <2>2. f.seq \in Seqs /\ f.split \in BOOLEAN /\ f.payload \in Seq(Byte) BY <2>1 DEF Frame
  <2>3. outbox' \in [Stations -> Seq(Frame)] BY <2>1 DEF TypeOK
  <2>4. heard' \in Seq(Reception) BY <2>1 DEF TypeOK, Reception
  <2>5. [seq |-> f.seq, buf |-> f.payload, since |-> time] \in Half BY <2>2 DEF Half, TypeOK
  <2>6. half.buf \o f.payload \in Seq(Byte) /\ fwHalf.buf \o f.payload \in Seq(Byte)
    BY <2>2 DEF TypeOK, Half
  <2>7. half' \in Half BY <1>1, <1>3, <2>5, HearCases DEF f
  <2>8. dropped' \in Nat
    <3>1. Halves(half) \in Nat BY DEF Halves
    <3> HIDE DEF Halves
    <3>2. \/ dropped' = dropped + (Halves(half) + 1) \/ dropped' = dropped + 0
          \/ dropped' = dropped + Halves(half)
      BY <1>3, HearCases
    <3> QED BY <3>1, <3>2 DEF TypeOK
  <2>9. delivered' \in Seq(Delivery)
    <3>1. ASSUME NEW x \in Seq(Byte), Delivered(x, s) PROVE delivered' \in Seq(Delivery)
      <4>1. [data |-> x, split |-> f.split, last |-> Len(heard) + 1] \in Delivery
        BY <2>2 DEF Delivery, TypeOK
      <4> QED BY <3>1, <4>1 DEF Delivered, f, TypeOK
    <3>2. delivered' = delivered \/ Delivered(half.buf \o f.payload, s) \/ Delivered(f.payload, s)
      BY <1>3, HearCases DEF f
    <3> QED BY <2>2, <2>6, <3>1, <3>2 DEF TypeOK
  <2>10. fwHalf' \in Half BY <1>1, <1>3, <2>5, FirmwareCases DEF f
  <2>11. fwDelivered' \in Seq(Seq(Byte))
    <3>1. \A x \in Seq(Byte) : fwDelivered \o <<x>> \in Seq(Seq(Byte)) BY DEF TypeOK
    <3>2. fwDelivered \o <<>> \in Seq(Seq(Byte)) BY DEF TypeOK
    <3>3. \/ fwDelivered' = fwDelivered \o <<f.payload>>
          \/ fwDelivered' = fwDelivered \o <<fwHalf.buf \o f.payload>>
          \/ fwDelivered' = fwDelivered \o <<>>
      BY <1>3, FirmwareCases, Zenon DEF f
    <3> QED BY <2>2, <2>6, <3>1, <3>2, <3>3, Zenon
  <2> QED BY <2>1, <2>3, <2>4, <2>7, <2>8, <2>9, <2>10, <2>11 DEF TypeOK
<1>4. ASSUME NEW s \in Stations, Lose(s) PROVE TypeOK'
  BY <1>4 DEF Lose, TypeOK
<1>5. ASSUME Tick PROVE TypeOK' BY <1>5 DEF Tick, TypeOK
<1>6. ASSUME UNCHANGED vars PROVE TypeOK' BY <1>6 DEF vars, TypeOK
<1> QED BY <1>2, <1>3, <1>4, <1>5, <1>6 DEF Next

-----------------------------------------------------------------------------
(* The firmware's receiver                                                 *)

LEMMA FunctionIsSeq ==
    ASSUME NEW S, NEW n \in Nat, NEW g \in [1..n -> S] PROVE g \in Seq(S) /\ Len(g) = n
OBVIOUS

\* What the packets delivered carry, one more delivered.
LEMMA MappedAppend ==
    ASSUME NEW dl \in Seq(Delivery), NEW d \in Delivery
    PROVE  LET dn == Append(dl, d)
           IN  [n \in 1..Len(dn) |-> dn[n].data] = [n \in 1..Len(dl) |-> dl[n].data] \o <<d.data>>
<1> DEFINE dn == Append(dl, d)
           a == [n \in 1..Len(dn) |-> dn[n].data]
           b == [n \in 1..Len(dl) |-> dl[n].data]
<1>1. Len(dn) = Len(dl) + 1 /\ \A n \in 1..Len(dl) : dn[n] = dl[n] OBVIOUS
<1>2. dn[Len(dl) + 1] = d /\ dn \in Seq(Delivery) OBVIOUS
<1> HIDE DEF dn
<1>d. \A e \in Delivery : e.data \in Seq(Byte) BY DEF Delivery
<1>3. \A n \in 1..Len(dn) : dn[n].data \in Seq(Byte) BY <1>2, <1>d, ElementOfSeq
<1>4. \A n \in 1..Len(dl) : dl[n].data \in Seq(Byte) BY <1>d, ElementOfSeq
<1>5. a \in Seq(Seq(Byte)) /\ Len(a) = Len(dl) + 1
  <2>1. a \in [1..(Len(dl) + 1) -> Seq(Byte)] BY <1>1, <1>3
  <2> QED BY <2>1, FunctionIsSeq
<1>6. b \in Seq(Seq(Byte)) /\ Len(b) = Len(dl)
  <2>1. b \in [1..Len(dl) -> Seq(Byte)] BY <1>4
  <2> QED BY <2>1, FunctionIsSeq
<1>7. d.data \in Seq(Byte) BY DEF Delivery
<1>8. /\ b \o <<d.data>> \in Seq(Seq(Byte)) /\ Len(b \o <<d.data>>) = Len(dl) + 1
      /\ \A n \in 1..Len(dl) : (b \o <<d.data>>)[n] = b[n]
      /\ (b \o <<d.data>>)[Len(dl) + 1] = d.data
  <2> HIDE DEF b
  <2> QED BY <1>6, <1>7
<1>9. \A n \in 1..(Len(dl) + 1) : a[n] = (b \o <<d.data>>)[n] BY <1>1, <1>2, <1>8
<1> HIDE DEF a, b
<1> QED BY <1>5, <1>8, <1>9, SeqEqual DEF a, b, dn

LEMMA FirmwareStep == TypeOK /\ FirmwareUntilGuard /\ [Next]_vars => FirmwareUntilGuard'
<1> SUFFICES ASSUME TypeOK, FirmwareUntilGuard, [Next]_vars PROVE FirmwareUntilGuard' OBVIOUS
<1>1. ASSUME UNCHANGED <<half, delivered, fwHalf, fwDelivered, guarded>> PROVE FirmwareUntilGuard'
  BY <1>1 DEF FirmwareUntilGuard
<1>2. ASSUME NEW s \in Stations, Hear(s) PROVE FirmwareUntilGuard'
  <2> SUFFICES ASSUME ~guarded'
               PROVE  half' = fwHalf' /\ fwDelivered' = [n \in 1 .. Len(delivered') |-> delivered'[n].data]
    BY DEF FirmwareUntilGuard
  <2> DEFINE f == Heard(s)
             b == [n \in 1 .. Len(delivered) |-> delivered[n].data]
  <2>1. ~guarded /\ f.payload # <<>> /\ Fresh(half, time) = half BY <1>2 DEF Hear, Heard
  <2>2. half = fwHalf /\ fwDelivered = b BY <2>1 DEF FirmwareUntilGuard
  <2>3. f \in Frame /\ f.seq # Unset BY <1>2, HearCases, FramingAssumption DEF Frame
  <2>4. f.split \in BOOLEAN /\ f.payload \in Seq(Byte) BY <2>3 DEF Frame
  <2>5. ASSUME NEW x \in Seq(Byte), Delivered(x, s), fwDelivered' = fwDelivered \o <<x>>
        PROVE  fwDelivered' = [n \in 1 .. Len(delivered') |-> delivered'[n].data]
    <3> DEFINE d == [data |-> x, split |-> f.split, last |-> Len(heard) + 1]
    <3>1. d \in Delivery BY <2>4 DEF Delivery, TypeOK
    <3>2. delivered' = Append(delivered, d) /\ d.data = x BY <2>5 DEF Delivered
    <3>3. delivered \in Seq(Delivery) BY DEF TypeOK
    <3> HIDE DEF d
    <3>4. [n \in 1 .. Len(delivered') |-> delivered'[n].data] = b \o <<d.data>>
      BY <3>1, <3>2, <3>3, MappedAppend
    <3> QED BY <2>2, <2>5, <3>2, <3>4, Zenon
  <2> HIDE DEF f
  <2>6. CASE ~f.split
    <3>1. half' = NoHalf /\ Delivered(f.payload, s) BY <1>2, <2>1, <2>6, HearCases DEF f
    <3>2. fwHalf' = NoHalf /\ fwDelivered' = fwDelivered \o <<f.payload>>
      BY <1>2, <2>6, FirmwareCases, Zenon DEF f
    <3> QED BY <2>4, <2>5, <3>1, <3>2
  <2>7. CASE f.split /\ half.seq = f.seq
    <3>1. ~(time - half.since > MaxAge) BY <2>1, <2>3, <2>7 DEF Fresh, NoHalf
    <3>2. half' = NoHalf /\ Delivered(half.buf \o f.payload, s)
      BY <1>2, <2>1, <2>7, <3>1, HearCases DEF f
    <3>3. fwHalf' = NoHalf /\ fwDelivered' = fwDelivered \o <<fwHalf.buf \o f.payload>>
      BY <1>2, <2>2, <2>7, FirmwareCases, Zenon DEF f
    <3>4. half.buf \o f.payload \in Seq(Byte) BY <2>4 DEF TypeOK, Half
    <3>5. fwDelivered' = fwDelivered \o <<half.buf \o f.payload>> BY <2>2, <3>3, Zenon
    <3> QED BY <2>5, <3>2, <3>3, <3>4, <3>5
  <2>8. CASE f.split /\ half.seq # f.seq
    <3>1. half' = [seq |-> f.seq, buf |-> f.payload, since |-> time] /\ delivered' = delivered
      BY <1>2, <2>1, <2>8, HearCases DEF f
    <3>2. /\ fwHalf' = [seq |-> f.seq, buf |-> f.payload, since |-> time]
          /\ fwDelivered' = fwDelivered \o <<>>
      BY <1>2, <2>2, <2>8, FirmwareCases, Zenon DEF f
    <3>3. fwDelivered \o <<>> = fwDelivered BY DEF TypeOK
    <3> QED BY <2>2, <3>1, <3>2, <3>3
  <2> QED BY <2>6, <2>7, <2>8
<1>3. ASSUME NEW s \in Stations, Lose(s) PROVE FirmwareUntilGuard' BY <1>1, <1>3 DEF Lose
<1>4. ASSUME NEW s \in Stations, NEW n \in Lengths, NEW q \in Seqs, Send(s, n, q)
      PROVE  FirmwareUntilGuard'
  BY <1>1, <1>4 DEF Send
<1>5. ASSUME Tick PROVE FirmwareUntilGuard' BY <1>1, <1>5 DEF Tick
<1>6. ASSUME UNCHANGED vars PROVE FirmwareUntilGuard' BY <1>1, <1>6 DEF vars
<1> QED BY <1>2, <1>3, <1>4, <1>5, <1>6 DEF Next

\* feed() against the firmware's receiver on any air: until one of the two added
\* rules discards something, both hold the same half and have delivered the same
\* packets in the same order.
THEOREM AgreesWithFirmware == Spec => []FirmwareUntilGuard
<1>1. Init => FirmwareUntilGuard
  <2> SUFFICES ASSUME Init PROVE FirmwareUntilGuard OBVIOUS
  <2>1. half = fwHalf /\ delivered = <<>> /\ fwDelivered = <<>> BY DEF Init
  <2>2. <<>> = [n \in 1 .. Len(<<>>) |-> <<>>[n].data] OBVIOUS
  <2> QED BY <2>1, <2>2 DEF FirmwareUntilGuard
<1> QED BY <1>1, TypeInit, TypeStep, FirmwareStep, PTL DEF Spec

-----------------------------------------------------------------------------
(* What is glued, and what is lost                                         *)

\* The pending half is the frame heard last.
HalfIsLast ==
    half.seq # Unset =>
        /\ Len(heard) > 0
        /\ heard[Len(heard)].frame.split /\ heard[Len(heard)].frame.payload # <<>>
        /\ heard[Len(heard)].frame.seq = half.seq /\ heard[Len(heard)].frame.payload = half.buf
        /\ heard[Len(heard)].at = half.since

\* A packet glued when frame i was heard.
GluedAt(i) == \E n \in 1 .. Len(delivered) : delivered[n].last = i /\ delivered[n].split

\* A fragment heard last is pending, or completed a packet.
PendingOrGlued ==
    Len(heard) > 0 /\ heard[Len(heard)].frame.split /\ heard[Len(heard)].frame.payload # <<>> =>
        half.seq # Unset \/ GluedAt(Len(heard))

\* What can be glued is, unless its first half went into the packet before.
GluableGlued ==
    \A i \in 1 .. Len(heard) - 1 : Gluable(i) => GluedAt(i + 1) \/ (i > 1 /\ Gluable(i - 1))

GlueInv == HalfIsLast /\ GluedBackToBack /\ PendingOrGlued /\ GluableGlued

LEMMA GlueKept ==
    ASSUME GlueInv, UNCHANGED <<heard, half, delivered>> PROVE GlueInv'
BY DEF GlueInv, HalfIsLast, GluedBackToBack, PendingOrGlued, GluableGlued, GluedAt, Gluable

LEMMA GlueHear ==
    ASSUME TypeOK, GlueInv, NEW s \in Stations, Hear(s)
    PROVE  GlueInv'
<1> DEFINE f == Heard(s)
           r == [frame |-> f, at |-> time]
<1>1. f \in Frame /\ heard' = Append(heard, r) BY HearCases
<1>2. f.seq \in Seqs /\ f.seq # Unset /\ f.split \in BOOLEAN /\ f.payload \in Seq(Byte)
  BY <1>1, FramingAssumption DEF Frame
<1> HIDE DEF f
<1>3. r \in Reception /\ r.frame = f /\ r.at = time BY <1>1 DEF Reception, TypeOK
<1>4. heard \in Seq(Reception) /\ delivered \in Seq(Delivery) BY DEF TypeOK
<1> HIDE DEF r
<1>k. PICK k \in Nat : k = Len(heard) BY <1>4
<1>5. /\ k \in Nat /\ Len(heard') = k + 1 /\ heard'[k + 1] = r
      /\ \A i \in 1..k : heard'[i] = heard[i]
  BY <1>1, <1>3, <1>4, <1>k
<1>6. ASSUME NEW x, Delivered(x, s)
      PROVE  /\ Len(delivered') = Len(delivered) + 1
             /\ \A n \in 1..Len(delivered) : delivered'[n] = delivered[n]
             /\ delivered'[Len(delivered) + 1].data = x
             /\ delivered'[Len(delivered) + 1].split = f.split
             /\ delivered'[Len(delivered) + 1].last = k + 1
  <2> DEFINE d == [data |-> x, split |-> f.split, last |-> k + 1]
  <2>1. d.data = x /\ d.split = f.split /\ d.last = k + 1 OBVIOUS
  <2>2. delivered' = Append(delivered, d) BY <1>6, <1>k DEF Delivered, f
  <2> HIDE DEF d
  <2> QED BY <1>4, <2>1, <2>2
<1>7. /\ \A n \in 1..Len(delivered) : delivered'[n] = delivered[n]
      /\ Len(delivered') \in {Len(delivered), Len(delivered) + 1}
  <2>1. delivered' = delivered \/ \E x : Delivered(x, s) BY HearCases
  <2> QED BY <1>6, <2>1
<1>8. ASSUME NEW i \in Nat, GluedAt(i) PROVE GluedAt(i)'
  <2>1. PICK n \in 1 .. Len(delivered) : delivered[n].last = i /\ delivered[n].split BY <1>8 DEF GluedAt
  <2>2. n \in 1 .. Len(delivered') /\ delivered'[n] = delivered[n] BY <1>4, <1>7
  <2> QED BY <2>1, <2>2 DEF GluedAt
<1>9. \A i \in 1 .. k - 1 : Gluable(i)' <=> Gluable(i) BY <1>5 DEF Gluable
<1>10. HalfIsLast'
  <2>1. \/ half' = NoHalf
        \/ /\ f.split /\ f.payload # <<>>
           /\ half' = [seq |-> f.seq, buf |-> f.payload, since |-> time]
    BY HearCases DEF f
  <2> QED BY <1>3, <1>5, <2>1 DEF HalfIsLast, NoHalf
<1>11. ASSUME half.seq = f.seq, f.split, f.payload # <<>>, ~(time - half.since > MaxAge)
       PROVE  /\ k > 0 /\ Gluable(k)' /\ heard'[k].frame.payload = half.buf
  <2>1. /\ k > 0 /\ heard[k].frame.split /\ heard[k].frame.payload # <<>>
        /\ heard[k].frame.seq = f.seq /\ heard[k].frame.payload = half.buf /\ heard[k].at = half.since
    BY <1>k, <1>2, <1>11 DEF GlueInv, HalfIsLast
  <2>2. heard'[k] = heard[k] BY <1>5, <2>1
  <2>3. time - half.since <= MaxAge BY <1>11, FramingAssumption DEF TypeOK, Half
  <2> QED BY <1>3, <1>5, <1>11, <2>1, <2>2, <2>3 DEF Gluable
<1>12. GluedBackToBack'
  <2> SUFFICES ASSUME NEW n \in 1 .. Len(delivered'), NEW d, d = delivered'[n]
               PROVE  IF d.split
                      THEN /\ d.last \in 2 .. Len(heard') /\ Gluable(d.last - 1)'
                           /\ d.data = heard'[d.last - 1].frame.payload \o heard'[d.last].frame.payload
                      ELSE /\ d.last \in 1 .. Len(heard') /\ ~heard'[d.last].frame.split
                           /\ d.data = heard'[d.last].frame.payload
    BY DEF GluedBackToBack
  <2>1. CASE n \in 1 .. Len(delivered)
    <3>2. delivered[n] = d BY <1>7, <2>1
    <3>1. IF d.split
          THEN /\ d.last \in 2 .. k /\ Gluable(d.last - 1)
               /\ d.data = heard[d.last - 1].frame.payload \o heard[d.last].frame.payload
          ELSE /\ d.last \in 1 .. k /\ ~heard[d.last].frame.split
               /\ d.data = heard[d.last].frame.payload
      BY <1>k, <2>1, <3>2 DEF GlueInv, GluedBackToBack
    <3>3. CASE d.split
      <4>0. d.last \in 2 .. k BY <3>1, <3>3, Zenon
      <4>1. d.last \in 2 .. k + 1 /\ d.last \in 1..k /\ d.last - 1 \in 1 .. k - 1 /\ d.last - 1 \in 1..k
        BY <4>0
      <4>2. heard'[d.last - 1] = heard[d.last - 1] /\ heard'[d.last] = heard[d.last]
        BY <1>5, <4>1
      <4> QED BY <1>5, <1>9, <3>1, <3>2, <3>3, <4>1, <4>2
    <3>4. CASE ~d.split
      <4>1. d.last \in 1 .. k + 1 /\ heard'[d.last] = heard[d.last] BY <1>5, <3>1, <3>4
      <4> QED BY <1>5, <3>1, <3>2, <3>4, <4>1
    <3> QED BY <3>3, <3>4
  <2>2. CASE n \notin 1 .. Len(delivered)
    <3>1. n = Len(delivered) + 1 /\ delivered' # delivered BY <1>4, <1>7, <2>2
    <3>2. CASE f.split
      <4>1. /\ half.seq = f.seq /\ f.payload # <<>> /\ ~(time - half.since > MaxAge)
            /\ Delivered(half.buf \o f.payload, s)
        BY <3>1, <3>2, HearCases DEF f
      <4>2. k > 0 /\ Gluable(k)' /\ heard'[k].frame.payload = half.buf BY <1>11, <3>2, <4>1
      <4>3. /\ d.split /\ d.last = k + 1
            /\ d.data = half.buf \o f.payload
        BY <1>6, <3>1, <3>2, <4>1
      <4>4. k + 1 \in 2 .. Len(heard') /\ (k + 1) - 1 = k BY <1>5, <4>2
      <4> QED BY <1>3, <1>5, <4>2, <4>3, <4>4
    <3>3. CASE ~f.split
      <4>1. Delivered(f.payload, s) BY <3>1, <3>3, HearCases DEF f
      <4>2. /\ ~d.split /\ d.last = k + 1 /\ d.data = f.payload
        BY <1>6, <3>1, <3>3, <4>1
      <4>3. k + 1 \in 1 .. Len(heard') BY <1>5
      <4> QED BY <1>3, <1>5, <3>3, <4>2, <4>3
    <3> QED BY <3>2, <3>3
  <2> QED BY <2>1, <2>2
<1>13. ASSUME half.seq = f.seq, f.split, f.payload # <<>>, ~(time - half.since > MaxAge)
       PROVE  GluedAt(k + 1)'
  <2>1. Delivered(half.buf \o f.payload, s) BY <1>13, HearCases DEF f
  <2>2. /\ delivered'[Len(delivered) + 1].split /\ delivered'[Len(delivered) + 1].last = k + 1
        /\ Len(delivered) + 1 \in 1 .. Len(delivered')
    <3>1. /\ Len(delivered') = Len(delivered) + 1
          /\ delivered'[Len(delivered) + 1].split = f.split
          /\ delivered'[Len(delivered) + 1].last = k + 1
      BY <1>6, <2>1
    <3>2. Len(delivered) + 1 \in 1 .. Len(delivered') BY <1>4, <3>1
    <3> QED BY <1>13, <3>1, <3>2
  <2> QED BY <2>2 DEF GluedAt
<1>14. PendingOrGlued'
  <2> SUFFICES ASSUME f.split, f.payload # <<>> PROVE half'.seq # Unset \/ GluedAt(k + 1)'
    BY <1>3, <1>5 DEF PendingOrGlued, GluedAt
  <2>1. CASE half.seq = f.seq /\ ~(time - half.since > MaxAge) BY <1>13, <2>1
  <2>2. CASE ~(half.seq = f.seq /\ ~(time - half.since > MaxAge))
    <3>1. half' = [seq |-> f.seq, buf |-> f.payload, since |-> time] BY <2>2, HearCases DEF f
    <3> QED BY <1>2, <3>1
  <2> QED BY <2>1, <2>2
<1>15. GluableGlued'
  <2> SUFFICES ASSUME NEW i \in 1 .. k, Gluable(i)'
               PROVE  GluedAt(i + 1)' \/ (i > 1 /\ Gluable(i - 1)')
    BY <1>5 DEF GluableGlued
  <2>1. CASE i < k
    <3>1. i \in 1 .. k - 1 /\ i + 1 \in Nat BY <1>5, <2>1
    <3>2. GluedAt(i + 1) \/ (i > 1 /\ Gluable(i - 1))
      BY <1>k, <1>9, <3>1 DEF GlueInv, GluableGlued
    <3>3. i > 1 => i - 1 \in 1 .. k - 1 BY <3>1
    <3> QED BY <1>8, <1>9, <3>1, <3>2, <3>3
  <2>2. CASE i = k
    <3>1. heard'[k] = heard[k] /\ heard'[k + 1] = r BY <1>5, <2>2
    <3>2. /\ heard[k].frame.split /\ heard[k].frame.payload # <<>>
          /\ f.split /\ f.payload # <<>> /\ heard[k].frame.seq = f.seq
          /\ time - heard[k].at <= MaxAge
      BY <1>3, <2>2, <3>1 DEF Gluable
    <3>3. half.seq # Unset \/ GluedAt(k) BY <1>k, <3>2, <2>2 DEF GlueInv, PendingOrGlued
    <3>4. CASE half.seq # Unset
      <4>1. half.seq = f.seq /\ heard[k].at = half.since BY <1>k, <3>2, <3>4 DEF GlueInv, HalfIsLast
      <4>2. ~(time - half.since > MaxAge) BY <3>2, <4>1, FramingAssumption DEF TypeOK, Half
      <4> QED BY <1>13, <2>2, <3>2, <4>1, <4>2
    <3>5. CASE GluedAt(k)
      <4>1. PICK n \in 1 .. Len(delivered) : delivered[n].last = k /\ delivered[n].split
        BY <3>5 DEF GluedAt
      <4>2. k \in 2 .. k /\ Gluable(k - 1) BY <1>k, <4>1 DEF GlueInv, GluedBackToBack
      <4>3. k > 1 /\ k - 1 \in 1 .. k - 1 BY <1>5, <4>2
      <4> QED BY <1>9, <2>2, <4>2, <4>3
    <3> QED BY <3>3, <3>4, <3>5
  <2> QED BY <1>5, <2>1, <2>2
<1> QED BY <1>10, <1>12, <1>14, <1>15 DEF GlueInv

LEMMA GlueStep == TypeOK /\ GlueInv /\ [Next]_vars => GlueInv'
<1> SUFFICES ASSUME TypeOK, GlueInv, [Next]_vars PROVE GlueInv' OBVIOUS
<1>1. ASSUME NEW s \in Stations, Lose(s) PROVE GlueInv' BY <1>1, GlueKept DEF Lose
<1>2. ASSUME NEW s \in Stations, NEW n \in Lengths, NEW q \in Seqs, Send(s, n, q) PROVE GlueInv'
  BY <1>2, GlueKept DEF Send
<1>3. ASSUME Tick PROVE GlueInv' BY <1>3, GlueKept DEF Tick
<1>4. ASSUME UNCHANGED vars PROVE GlueInv' BY <1>4, GlueKept DEF vars
<1> QED BY <1>1, <1>2, <1>3, <1>4, GlueHear DEF Next

LEMMA GlueAlways == Spec => [](TypeOK /\ GlueInv)
<1>1. Init => GlueInv
  <2> SUFFICES ASSUME Init PROVE GlueInv OBVIOUS
  <2>1. Len(heard) = 0 /\ Len(delivered) = 0 /\ half.seq = Unset BY DEF Init, NoHalf
  <2> QED BY <2>1 DEF GlueInv, HalfIsLast, GluedBackToBack, PendingOrGlued, GluableGlued
<1> QED BY <1>1, TypeInit, TypeStep, GlueStep, PTL DEF Spec

\* The stale guard and the clearing rules of feed(), on any air: what is glued was
\* heard back to back, of one sequence and within max_age.
THEOREM BackToBack == Spec => []GluedBackToBack
<1>1. GlueInv => GluedBackToBack BY DEF GlueInv
<1> QED BY <1>1, GlueAlways, PTL

\* The two halves of a packet that was sent can be glued when they are heard in time.
LEMMA PartnersGluable ==
    ASSUME TypeOK, NEW i \in 1 .. Len(heard) - 1, Partners(i), heard[i + 1].at - heard[i].at <= MaxAge
    PROVE  Gluable(i)
<1>1. PICK k \in 1 .. Len(sent) :
         /\ Len(sent[k].data) > FramePayload
         /\ <<heard[i].frame, heard[i + 1].frame>> = frame(sent[k].data, sent[k].seq)
  BY DEF Partners
<1> DEFINE data == sent[k].data
           a == SubSeq(data, 1, FramePayload)
           b == SubSeq(data, FramePayload + 1, Len(data))
<1>2. data \in Seq(Byte)
  <2>1. sent[k] \in [seq : Seqs, data : Seq(Byte)] BY <1>1, ElementOfSeq DEF TypeOK
  <2> QED BY <2>1
<1>3. FramePayload \in Nat \ {0} BY FramingAssumption
<1> HIDE DEF data
<1>4. a # <<>> /\ b # <<>>
  <2>1. Len(data) \in Nat /\ Len(data) > FramePayload BY <1>1, <1>2 DEF data
  <2>2. Len(a) = FramePayload /\ Len(b) = Len(data) - FramePayload
    BY <1>2, <1>3, <2>1, SubSeqProperties
  <2> HIDE DEF a, b
  <2>3. Len(a) > 0 /\ Len(b) > 0 BY <1>3, <2>1, <2>2
  <2> QED BY <2>3
<1> HIDE DEF a, b
<1>5. frame(data, sent[k].seq) = <<AirFrame(sent[k].seq, TRUE, a), AirFrame(sent[k].seq, TRUE, b)>>
  <2>1. ~(Len(data) <= FramePayload) BY <1>1, <1>2, <1>3 DEF data
  <2> QED BY <2>1, Zenon DEF frame, a, b
<1>6. \A x, y, u, v : <<x, y>> = <<u, v>> => x = u /\ y = v OBVIOUS
<1>7. <<heard[i].frame, heard[i + 1].frame>> =
         <<AirFrame(sent[k].seq, TRUE, a), AirFrame(sent[k].seq, TRUE, b)>>
  BY <1>1, <1>5, Zenon DEF data
<1>8. /\ heard[i].frame = AirFrame(sent[k].seq, TRUE, a)
      /\ heard[i + 1].frame = AirFrame(sent[k].seq, TRUE, b)
  BY <1>6, <1>7, Zenon
<1> QED BY <1>4, <1>8 DEF AirFrame, Gluable

\* feed(), for any number of stations and losses: halves heard back to back and in
\* time are put together, unless the first completed a foreign half of its sequence.
THEOREM LossNeedsCollision == Spec => []LostOnlyByCollision
<1>1. TypeOK /\ GlueInv => LostOnlyByCollision
  BY PartnersGluable DEF GlueInv, GluableGlued, GluedAt, LostOnlyByCollision
<1> QED BY <1>1, GlueAlways, PTL

-----------------------------------------------------------------------------
(* The counter                                                             *)

LEMMA CountStep == TypeOK /\ Conservation /\ [Next]_vars => Conservation'
<1> SUFFICES ASSUME TypeOK, Conservation, [Next]_vars PROVE Conservation' OBVIOUS
<1>1. ASSUME UNCHANGED <<heard, half, dropped, delivered>> PROVE Conservation'
  BY <1>1 DEF Conservation, Splits, Halves
<1>2. ASSUME NEW s \in Stations, Hear(s) PROVE Conservation'
  <2> DEFINE f == Heard(s)
             c == Cardinality(Splits)
             n == Len(delivered)
             k == Len(heard)
             h == Halves(half)
  <2>1. f \in Frame /\ f.seq # Unset BY <1>2, HearCases, FramingAssumption DEF Frame
  <2>2. k \in Nat /\ n \in Nat /\ h \in 0..1 /\ dropped \in Nat BY DEF TypeOK, Halves
  <2>3. IsFiniteSet(Splits) /\ c \in Nat
    <3>1. IsFiniteSet(1..n) BY <2>2, FS_Interval
    <3>2. Splits \subseteq 1..n BY DEF Splits
    <3>3. IsFiniteSet(Splits) BY <3>1, <3>2, FS_Subset
    <3> QED BY <3>3, FS_CardinalityType
  <2>4. k = n + c + h + dropped BY DEF Conservation
  <2>5. Len(heard') = k + 1
    <3>1. heard' = Append(heard, [frame |-> f, at |-> time]) BY <1>2, HearCases
    <3>2. [frame |-> f, at |-> time] \in Reception BY <2>1 DEF Reception, TypeOK
    <3> QED BY <3>1, <3>2, AppendProperties DEF TypeOK
  <2> HIDE DEF f
  <2>6. ASSUME NEW x, Delivered(x, s)
        PROVE  /\ Len(delivered') = n + 1
               /\ f.split => Cardinality(Splits') = c + 1
               /\ ~f.split => Cardinality(Splits') = c
    <3> DEFINE d == [data |-> x, split |-> f.split, last |-> Len(heard) + 1]
    <3>1. d.split = f.split OBVIOUS
    <3>2. delivered' = Append(delivered, d) BY <2>6 DEF Delivered, f
    <3> HIDE DEF d
    <3>3. /\ Len(delivered') = n + 1 /\ delivered'[n + 1] = d
          /\ \A i \in 1..n : delivered'[i] = delivered[i]
      BY <3>2 DEF TypeOK
    <3>4. CASE f.split
      <4>0. 1..(n + 1) = 1..n \cup {n + 1} BY <2>2
      <4>1. Splits' = Splits \cup {n + 1}
        <5> HIDE DEF n
        <5> QED BY <3>1, <3>3, <3>4, <4>0, Zenon DEF Splits, n
      <4>2. n + 1 \notin Splits BY <2>2 DEF Splits
      <4> QED BY <2>3, <3>3, <3>4, <4>1, <4>2, FS_AddElement
    <3>5. CASE ~f.split
      <4>1. Splits' = Splits BY <2>2, <3>1, <3>3, <3>5 DEF Splits
      <4> QED BY <3>3, <3>5, <4>1
    <3> QED BY <3>4, <3>5
  <2>7. delivered' = delivered => Len(delivered') = n /\ Cardinality(Splits') = c BY DEF Splits
  <2>8. /\ half' = NoHalf => Halves(half') = 0
        /\ half' = [seq |-> f.seq, buf |-> f.payload, since |-> time] => Halves(half') = 1
        /\ half.seq = f.seq => h = 1
    BY <2>1 DEF Halves, NoHalf
  <2>9. Conservation' <=>
           Len(heard') = Len(delivered') + Cardinality(Splits') + Halves(half') + dropped'
    BY DEF Conservation, Halves
  <2>10. \/ /\ dropped' = dropped + (h + 1) /\ Halves(half') = 0
            /\ Len(delivered') = n /\ Cardinality(Splits') = c
         \/ /\ dropped' = dropped + 0 /\ Halves(half') = 0 /\ h = 1
            /\ Len(delivered') = n + 1 /\ Cardinality(Splits') = c + 1
         \/ /\ dropped' = dropped + h /\ Halves(half') = 1
            /\ Len(delivered') = n /\ Cardinality(Splits') = c
         \/ /\ dropped' = dropped + h /\ Halves(half') = 0
            /\ Len(delivered') = n + 1 /\ Cardinality(Splits') = c
    <3> HIDE DEF c, n, h
    <3> QED BY <1>2, <2>6, <2>7, <2>8, HearCases DEF f, h
  <2> HIDE DEF c, n, h, k
  <2>11. Len(heard') = Len(delivered') + Cardinality(Splits') + Halves(half') + dropped'
    BY <2>2, <2>3, <2>4, <2>5, <2>10
  <2> QED BY <2>9, <2>11
<1>3. ASSUME NEW s \in Stations, Lose(s) PROVE Conservation' BY <1>1, <1>3 DEF Lose
<1>4. ASSUME NEW s \in Stations, NEW n \in Lengths, NEW q \in Seqs, Send(s, n, q) PROVE Conservation'
  BY <1>1, <1>4 DEF Send
<1>5. ASSUME Tick PROVE Conservation' BY <1>1, <1>5 DEF Tick
<1>6. ASSUME UNCHANGED vars PROVE Conservation' BY <1>1, <1>6 DEF vars
<1> QED BY <1>2, <1>3, <1>4, <1>5, <1>6 DEF Next

\* Reassembler.dropped is exact on any air: every frame fed is delivered, pending or
\* counted, and none twice.
THEOREM CountedExactly == Spec => []Conservation
<1>1. Init => Conservation
  <2> SUFFICES ASSUME Init PROVE Conservation OBVIOUS
  <2>1. Len(heard) = 0 /\ Len(delivered) = 0 /\ half.seq = Unset /\ dropped = 0 BY DEF Init, NoHalf
  <2>2. Splits = {} BY <2>1 DEF Splits
  <2> QED BY <2>1, <2>2, FS_EmptySet DEF Conservation, Halves
<1> QED BY <1>1, TypeInit, TypeStep, CountStep, PTL DEF Spec

-----------------------------------------------------------------------------
(* Whose frames are glued                                                  *)

Packet == [seq : Seqs, data : Seq(Byte)]
FirstHalf(p) == AirFrame(p.seq, TRUE, SubSeq(p.data, 1, FramePayload))
SecondHalf(p) == AirFrame(p.seq, TRUE, SubSeq(p.data, FramePayload + 1, Len(p.data)))

\* A frame of packet p that carries some of its bytes.
Piece(x, p) ==
    \/ Len(p.data) <= FramePayload /\ x = AirFrame(p.seq, FALSE, p.data)
    \/ Len(p.data) > FramePayload /\ x \in {FirstHalf(p), SecondHalf(p)}

\* Packet p is the k-th.
Numbered(p, k) ==
    p \in Packet /\ Len(p.data) \in 1 .. (2 * FramePayload) /\ \A i \in 1 .. Len(p.data) : p.data[i] = <<k, i>>

LEMMA PieceKeys ==
    ASSUME NEW p, NEW k \in Nat, Numbered(p, k)
    PROVE  /\ p.data # <<>> /\ p.data[1] = <<k, 1>>
           /\ Len(p.data) > FramePayload =>
                 LET a == SubSeq(p.data, 1, FramePayload)
                     b == SubSeq(p.data, FramePayload + 1, Len(p.data))
                 IN  /\ a # <<>> /\ a[1] = <<k, 1>>
                     /\ b # <<>> /\ b[1] = <<k, FramePayload + 1>>
                     /\ a \o b = p.data
<1> DEFINE data == p.data
           l == Len(data)
           a == SubSeq(data, 1, FramePayload)
           b == SubSeq(data, FramePayload + 1, l)
<1>1. data \in Seq(Byte) /\ l \in 1 .. (2 * FramePayload) /\ \A i \in 1 .. l : data[i] = <<k, i>>
  BY DEF Numbered, Packet
<1>2. FramePayload \in Nat \ {0} BY FramingAssumption
<1> HIDE DEF data
<1>3. data # <<>> /\ data[1] = <<k, 1>> BY <1>1
<1>4. ASSUME l > FramePayload
      PROVE  /\ a # <<>> /\ a[1] = <<k, 1>> /\ b # <<>> /\ b[1] = <<k, FramePayload + 1>>
             /\ a \o b = data
  <2>1. l \in Nat /\ FramePayload \in 0..l /\ 1 \in 1..(l + 1) /\ l \in FramePayload..l
    BY <1>1, <1>2, <1>4
  <2>2. \A i \in 1..l : data[i] \in Byte BY <1>1, ElementOfSeq
  <2>3. Len(a) = FramePayload /\ \A i \in 1..(FramePayload - 1 + 1) : a[i] = data[1 + i - 1]
    BY <1>2, <2>1, <2>2, SubSeqProperties
  <2>4. Len(b) = l - (FramePayload + 1) + 1 /\ \A i \in 1..(l - (FramePayload + 1) + 1) : b[i] = data[FramePayload + 1 + i - 1]
    <3>1. \A i \in (FramePayload + 1)..l : data[i] \in Byte BY <1>2, <2>1, <2>2
    <3>2. FramePayload + 1 \in Int /\ l \in Int /\ FramePayload + 1 <= l BY <1>2, <1>4, <2>1
    <3> HIDE DEF l
    <3> QED BY <3>1, <3>2, SubSeqProperties
  <2>5. a \o b = SubSeq(data, 1, l)
    <3> HIDE DEF l
    <3>1. FramePayload \in (1 - 1)..l BY <2>1
    <3> QED BY <1>1, <2>1, <3>1, ConcatAdjacentSubSeq DEF l
  <2>6. SubSeq(data, 1, l) = data BY <1>1, SubSeqFull
  <2> HIDE DEF a, b, l
  <2>7. a[1] = data[1] BY <1>2, <2>3
  <2>8. b[1] = data[FramePayload + 1] BY <1>2, <1>4, <2>1, <2>4
  <2>9. Len(a) > 0 /\ Len(b) > 0 BY <1>2, <1>4, <2>1, <2>3, <2>4
  <2>10. FramePayload + 1 \in 1..l BY <1>2, <1>4, <2>1
  <2> QED BY <1>1, <1>3, <2>5, <2>6, <2>7, <2>8, <2>9, <2>10
<1> QED BY <1>3, <1>4 DEF data

\* The first byte of a frame tells its packet and its place in it.
Key(x) == x.payload[1]

LEMMA PieceFacts ==
    ASSUME NEW p, NEW k \in Nat, Numbered(p, k), NEW x, Piece(x, p)
    PROVE  /\ x.payload # <<>> /\ x.seq = p.seq
           /\ \/ ~x.split /\ Len(p.data) <= FramePayload /\ x.payload = p.data /\ Key(x) = <<k, 1>>
              \/ /\ x.split /\ Len(p.data) > FramePayload
                 /\ x.payload = SubSeq(p.data, 1, FramePayload) /\ Key(x) = <<k, 1>>
              \/ /\ x.split /\ Len(p.data) > FramePayload
                 /\ x.payload = SubSeq(p.data, FramePayload + 1, Len(p.data))
                 /\ Key(x) = <<k, FramePayload + 1>>
<1>2. CASE Len(p.data) <= FramePayload /\ x = AirFrame(p.seq, FALSE, p.data)
  <2>1. p.data # <<>> /\ p.data[1] = <<k, 1>> BY PieceKeys
  <2>2. x.seq = p.seq /\ x.payload = p.data /\ ~x.split BY <1>2 DEF AirFrame
  <2> QED BY <1>2, <2>1, <2>2 DEF Key
<1>3. CASE Len(p.data) > FramePayload /\ x = FirstHalf(p)
  <2> DEFINE a == SubSeq(p.data, 1, FramePayload)
  <2>1. a # <<>> /\ a[1] = <<k, 1>> BY <1>3, PieceKeys
  <2> HIDE DEF a
  <2>2. x.seq = p.seq /\ x.payload = a /\ x.split BY <1>3 DEF FirstHalf, AirFrame, a
  <2> QED BY <1>3, <2>1, <2>2 DEF Key, a
<1>4. CASE Len(p.data) > FramePayload /\ x = SecondHalf(p)
  <2> DEFINE b == SubSeq(p.data, FramePayload + 1, Len(p.data))
  <2>1. b # <<>> /\ b[1] = <<k, FramePayload + 1>> BY <1>4, PieceKeys
  <2> HIDE DEF b
  <2>2. x.seq = p.seq /\ x.payload = b /\ x.split BY <1>4 DEF SecondHalf, AirFrame, b
  <2> QED BY <1>4, <2>1, <2>2 DEF Key, b
<1> QED BY <1>2, <1>3, <1>4 DEF Piece

\* If both carry bytes of one packet, those of x come before those of y.
Precedes(x, y) ==
    x.payload # <<>> /\ y.payload # <<>> /\ Key(x)[1] = Key(y)[1] => Key(x)[2] < Key(y)[2]

\* Each packet's bytes are numbered, and each frame is a trailer or of some packet.
SentOK == \A k \in 1 .. Len(sent) : Numbered(sent[k], k)
Known(x) == (x.split /\ x.payload = <<>>) \/ \E k \in 1 .. Len(sent) : Piece(x, sent[k])
Origin ==
    /\ \A i \in 1 .. Len(heard) : Known(heard[i].frame)
    /\ \A s \in Stations : \A m \in 1 .. Len(outbox[s]) : Known(outbox[s][m])

\* No frame is heard twice, nor the second half of a packet before its first.
HeardOrder == \A i, j \in 1 .. Len(heard) : i < j => Precedes(heard[i].frame, heard[j].frame)
ToCome ==
    \A s \in Stations : \A m \in 1 .. Len(outbox[s]) :
        /\ \A i \in 1 .. Len(heard) : Precedes(heard[i].frame, outbox[s][m])
        /\ \A n \in 1 .. Len(outbox[s]) : m < n => Precedes(outbox[s][m], outbox[s][n])
        /\ \A r \in Stations \ {s} : \A n \in 1 .. Len(outbox[r]) : Precedes(outbox[s][m], outbox[r][n])

OrderInv == SentOK /\ Origin /\ HeardOrder /\ ToCome

\* A station's next frame is heard or lost.
LEMMA OrderTail ==
    ASSUME TypeOK, OrderInv, NEW s \in Stations, outbox[s] # <<>>,
           outbox' = [outbox EXCEPT ![s] = Tail(@)], UNCHANGED sent,
           \/ heard' = heard
           \/ \E t \in Nat : heard' = Append(heard, [frame |-> Head(outbox[s]), at |-> t])
    PROVE  OrderInv'
<1> DEFINE o == outbox[s]
           f == Head(o)
<1>1. o \in Seq(Frame) /\ heard \in Seq(Reception) BY DEF TypeOK
<1>2. /\ f = o[1] /\ f \in Frame /\ 1 \in 1..Len(o) /\ Len(Tail(o)) = Len(o) - 1 /\ Len(o) \in Nat
      /\ \A m \in 1..Len(Tail(o)) : m + 1 \in 1..Len(o) /\ Tail(o)[m] = o[m + 1]
  BY <1>1
<1>3. outbox'[s] = Tail(o) /\ \A r \in Stations : r # s => outbox'[r] = outbox[r] BY DEF TypeOK
<1> HIDE DEF o, f
\* Every frame still to come was one, at the same place or one further.
<1>4. ASSUME NEW r \in Stations, NEW m \in 1..Len(outbox'[r])
      PROVE  \E j \in 1..Len(outbox[r]) :
                /\ outbox'[r][m] = outbox[r][j]
                /\ r = s => j = m + 1
                /\ r # s => j = m
  BY <1>2, <1>3, <1>4 DEF o
<1>5. SentOK' BY DEF OrderInv, SentOK
<1>6. \A x : Known(x)' <=> Known(x) BY DEF Known
<1>7. /\ Len(heard) \in Nat /\ Len(heard') \in {Len(heard), Len(heard) + 1}
      /\ \A i \in 1..Len(heard) : heard'[i] = heard[i]
      /\ Len(heard') = Len(heard) + 1 => heard'[Len(heard) + 1].frame = f
  <2>1. CASE heard' = heard BY <1>1, <2>1
  <2>2. ASSUME NEW t \in Nat, heard' = Append(heard, [frame |-> f, at |-> t]) PROVE <1>7
    <3> DEFINE e == [frame |-> f, at |-> t]
    <3>1. e \in Reception /\ e.frame = f BY <1>2 DEF Reception
    <3> HIDE DEF e
    <3> QED BY <1>1, <2>2, <3>1 DEF e
  <2> QED BY <2>1, <2>2 DEF f, o
<1>8. ASSUME NEW i \in 1..Len(heard')
      PROVE  \/ i \in 1..Len(heard) /\ heard'[i].frame = heard[i].frame
             \/ i = Len(heard) + 1 /\ heard'[i].frame = o[1]
  BY <1>2, <1>7
<1>9. Origin'
  <2>1. \A i \in 1..Len(heard') : Known(heard'[i].frame)
    BY <1>2, <1>8 DEF OrderInv, Origin, o
  <2>2. \A r \in Stations : \A m \in 1 .. Len(outbox'[r]) : Known(outbox'[r][m])
    BY <1>4 DEF OrderInv, Origin
  <2> QED BY <1>6, <2>1, <2>2 DEF Origin
<1>10. HeardOrder'
  <2> SUFFICES ASSUME NEW i \in 1..Len(heard'), NEW j \in 1..Len(heard'), i < j
               PROVE  Precedes(heard'[i].frame, heard'[j].frame)
    BY DEF HeardOrder, Precedes, Key
  <2>1. i \in 1..Len(heard) /\ heard'[i].frame = heard[i].frame BY <1>7, <1>8
  <2>2. CASE j \in 1..Len(heard) /\ heard'[j].frame = heard[j].frame
    BY <2>1, <2>2 DEF OrderInv, HeardOrder
  <2>3. CASE heard'[j].frame = o[1]
    BY <1>2, <2>1, <2>3 DEF OrderInv, ToCome, o
  <2> QED BY <1>8, <2>2, <2>3
<1>11. ToCome'
  <2> SUFFICES ASSUME NEW r \in Stations, NEW m \in 1 .. Len(outbox'[r])
               PROVE  /\ \A i \in 1 .. Len(heard') : Precedes(heard'[i].frame, outbox'[r][m])
                      /\ \A n \in 1 .. Len(outbox'[r]) : m < n => Precedes(outbox'[r][m], outbox'[r][n])
                      /\ \A q \in Stations \ {r} : \A n \in 1 .. Len(outbox'[q]) :
                            Precedes(outbox'[r][m], outbox'[q][n])
    BY DEF ToCome, Precedes, Key
  <2>1. PICK j \in 1..Len(outbox[r]) :
           outbox'[r][m] = outbox[r][j] /\ (r = s => j = m + 1) /\ (r # s => j = m)
    BY <1>4
  <2>2. ASSUME NEW i \in 1 .. Len(heard') PROVE Precedes(heard'[i].frame, outbox'[r][m])
    <3>1. CASE i \in 1..Len(heard) /\ heard'[i].frame = heard[i].frame
      BY <2>1, <3>1 DEF OrderInv, ToCome
    <3>2. CASE heard'[i].frame = o[1] /\ r = s
      <4>1. 1 < j BY <2>1, <3>2
      <4> QED BY <1>2, <2>1, <3>2, <4>1 DEF OrderInv, ToCome, o
    <3>3. CASE heard'[i].frame = o[1] /\ r # s
      BY <1>2, <2>1, <3>3 DEF OrderInv, ToCome, o
    <3> QED BY <1>8, <3>1, <3>2, <3>3
  <2>3. ASSUME NEW n \in 1 .. Len(outbox'[r]), m < n PROVE Precedes(outbox'[r][m], outbox'[r][n])
    <3>1. PICK i \in 1..Len(outbox[r]) :
             outbox'[r][n] = outbox[r][i] /\ (r = s => i = n + 1) /\ (r # s => i = n)
      BY <1>4
    <3>2. j < i BY <2>1, <2>3, <3>1
    <3> QED BY <2>1, <3>1, <3>2 DEF OrderInv, ToCome
  <2>4. ASSUME NEW q \in Stations \ {r}, NEW n \in 1 .. Len(outbox'[q])
        PROVE  Precedes(outbox'[r][m], outbox'[q][n])
    <3>1. PICK i \in 1..Len(outbox[q]) : outbox'[q][n] = outbox[q][i] BY <1>4
    <3> QED BY <2>1, <3>1 DEF OrderInv, ToCome
  <2> QED BY <2>2, <2>3, <2>4
<1> QED BY <1>5, <1>9, <1>10, <1>11 DEF OrderInv

\* The frames of a new packet, and the trailer, in the order they are sent.
LEMMA NewFrames ==
    ASSUME NEW p, NEW k \in Nat, Numbered(p, k), NEW s
    PROVE  LET o == frame(p.data, p.seq) \o Trailer(s, p.data, p.seq)
           IN  /\ \A m \in 1 .. Len(o) : Piece(o[m], p) \/ (o[m].split /\ o[m].payload = <<>>)
               /\ \A m, n \in 1 .. Len(o) : m < n => Precedes(o[m], o[n])
<1> DEFINE l == Len(p.data)
           t == AirFrame(p.seq, TRUE, <<>>)
           o == frame(p.data, p.seq) \o Trailer(s, p.data, p.seq)
<1>1. FramePayload \in Nat \ {0} /\ l \in 1 .. (2 * FramePayload) BY FramingAssumption DEF Numbered
<1>2. t.split /\ t.payload = <<>> BY DEF AirFrame
<1>3. /\ \A x : <<x>> \o <<>> = <<x>> /\ Len(<<x>>) = 1
      /\ \A x, y : <<x, y>> \o <<>> = <<x, y>> /\ Len(<<x, y>>) = 2
      /\ \A x, y, z : <<x, y>> \o <<z>> = <<x, y, z>> /\ Len(<<x, y, z>>) = 3
  <2>1. \A x : <<x>> \o <<>> = <<x>> /\ Len(<<x>>) = 1 OBVIOUS
  <2>2. \A x, y : <<x, y>> \o <<>> = <<x, y>> /\ Len(<<x, y>>) = 2 OBVIOUS
  <2>3. ASSUME NEW x, NEW y, NEW z
        PROVE  <<x, y>> \o <<z>> = <<x, y, z>> /\ Len(<<x, y, z>>) = 3
    <3> DEFINE S == {x, y, z}
               u == <<x, y>>
               v == <<z>>
               w == <<x, y, z>>
    <3>1. u \in Seq(S) /\ Len(u) = 2 /\ u[1] = x /\ u[2] = y OBVIOUS
    <3>2. v \in Seq(S) /\ Len(v) = 1 /\ v[1] = z OBVIOUS
    <3>3. w \in Seq(S) /\ Len(w) = 3 /\ w[1] = x /\ w[2] = y /\ w[3] = z OBVIOUS
    <3> HIDE DEF u, v, w, S
    <3> DEFINE c == u \o v
    <3>4. /\ c \in Seq(S) /\ Len(c) = Len(u) + Len(v)
          /\ \A i \in 1 .. Len(u) + Len(v) : c[i] = IF i <= Len(u) THEN u[i] ELSE v[i - Len(u)]
      BY <3>1, <3>2, ConcatProperties
    <3> HIDE DEF c
    <3>5. Len(c) = 3 /\ c[1] = x /\ c[2] = y /\ c[3] = z BY <3>1, <3>2, <3>4
    <3>6. \A i \in 1..3 : c[i] = w[i] BY <3>3, <3>5
    <3>7. c = w BY <3>3, <3>4, <3>5, <3>6, SeqEqual
    <3> QED BY <3>3, <3>7 DEF c, u, v, w
  <2> QED BY <2>1, <2>2, <2>3
<1> HIDE DEF l, t
<1>4. CASE l <= FramePayload
  <2> DEFINE w == AirFrame(p.seq, FALSE, p.data)
  <2>1. Piece(w, p) BY <1>4 DEF Piece, l
  <2> HIDE DEF w
  <2>2. Trailer(s, p.data, p.seq) = <<>>
    <3>1. l # 2 * FramePayload BY <1>1, <1>4
    <3> QED BY <3>1, Zenon DEF Trailer, l
  <2>3. frame(p.data, p.seq) = <<w>> BY <1>4, Zenon DEF frame, l, w
  <2>4. o = <<w>> BY <1>3, <2>2, <2>3, Zenon
  <2> HIDE DEF o
  <2>5. Len(o) = 1 /\ o[1] = w BY <2>4
  <2> QED BY <2>1, <2>5 DEF o
<1>5. CASE l > FramePayload
  <2> DEFINE a == FirstHalf(p)
             b == SecondHalf(p)
  <2>1. Piece(a, p) /\ Piece(b, p) BY <1>5 DEF Piece, l
  <2>2. frame(p.data, p.seq) = <<a, b>>
    <3>1. ~(l <= FramePayload) BY <1>1, <1>5
    <3> QED BY <3>1, Zenon DEF frame, l, FirstHalf, SecondHalf
  <2>3. Precedes(a, b)
    <3>1. Key(a) = <<k, 1>>
      <4>1. LET u == SubSeq(p.data, 1, FramePayload) IN u[1] = <<k, 1>> BY <1>5, PieceKeys DEF l
      <4>2. a.payload = SubSeq(p.data, 1, FramePayload) BY DEF FirstHalf, AirFrame
      <4> QED BY <4>1, <4>2 DEF Key
    <3>2. Key(b) = <<k, FramePayload + 1>>
      <4>1. LET u == SubSeq(p.data, FramePayload + 1, Len(p.data)) IN u[1] = <<k, FramePayload + 1>>
        BY <1>5, PieceKeys DEF l
      <4>2. b.payload = SubSeq(p.data, FramePayload + 1, Len(p.data)) BY DEF SecondHalf, AirFrame
      <4> QED BY <4>1, <4>2 DEF Key
    <3>3. Key(a)[2] = 1 /\ Key(b)[2] = FramePayload + 1 BY <3>1, <3>2
    <3> QED BY <1>1, <3>3 DEF Precedes
  <2> HIDE DEF a, b
  <2>4. \A x : Precedes(x, t) BY <1>2 DEF Precedes
  <2>5. CASE Trailer(s, p.data, p.seq) = <<>>
    <3>1. o = <<a, b>> BY <1>3, <2>2, <2>5, Zenon
    <3> HIDE DEF o
    <3>2. Len(o) = 2 /\ o[1] = a /\ o[2] = b BY <3>1
    <3>3. \A m \in 1..Len(o) : m = 1 \/ m = 2 BY <3>2
    <3>4. \A m, n \in 1..Len(o) : m < n => m = 1 /\ n = 2 BY <3>2
    <3> QED BY <2>1, <2>3, <3>2, <3>3, <3>4, Zenon DEF o
  <2>6. CASE Trailer(s, p.data, p.seq) = <<t>>
    <3>1. o = <<a, b, t>> BY <1>3, <2>2, <2>6, Zenon
    <3> HIDE DEF o
    <3>2. Len(o) = 3 /\ o[1] = a /\ o[2] = b /\ o[3] = t BY <3>1
    <3>3. \A m \in 1..Len(o) : m = 1 \/ m = 2 \/ m = 3 BY <3>2
    <3>4. \A m, n \in 1..Len(o) : m < n => (m = 1 /\ n = 2) \/ n = 3 BY <3>2
    <3> QED BY <1>2, <2>1, <2>3, <2>4, <3>2, <3>3, <3>4, Zenon DEF o
  <2> QED BY <2>5, <2>6, Zenon DEF Trailer, t
<1> QED BY <1>1, <1>4, <1>5

LEMMA OrderSend ==
    ASSUME TypeOK, OrderInv, NEW s \in Stations, NEW n \in Lengths, NEW q \in Seqs, Send(s, n, q)
    PROVE  OrderInv'
<1>k. PICK k \in Nat : k = Len(sent) + 1 BY DEF TypeOK
<1> DEFINE data == NewData(n, k)
           p == [seq |-> q, data |-> data]
           o == frame(data, q) \o Trailer(s, data, q)
<1>1. /\ data \in Seq(Byte) /\ Len(data) = n /\ n \in 1..(2 * FramePayload)
      /\ \A i \in 1..n : data[i] = <<k, i>>
  BY DataTyped
<1>2. /\ outbox[s] = <<>> /\ sent' = Append(sent, p) /\ outbox' = [outbox EXCEPT ![s] = o]
      /\ heard' = heard
  BY <1>k DEF Send, NewData
<1> HIDE DEF data
<1>3. p \in Packet /\ p.seq = q /\ p.data = data BY <1>1 DEF Packet
<1> HIDE DEF p
<1>4. Numbered(p, k) BY <1>1, <1>3 DEF Numbered
<1>5. /\ \A m \in 1 .. Len(o) : Piece(o[m], p) \/ (o[m].split /\ o[m].payload = <<>>)
      /\ \A m, j \in 1 .. Len(o) : m < j => Precedes(o[m], o[j])
  BY <1>3, <1>4, NewFrames
<1> HIDE DEF o
<1>6. Len(sent') = k /\ sent'[k] = p /\ \A j \in 1..Len(sent) : sent'[j] = sent[j] /\ j \in 1..k
  BY <1>2, <1>3, <1>k DEF TypeOK, Packet
<1>7. SentOK'
  <2> SUFFICES ASSUME NEW j \in 1..k PROVE Numbered(sent'[j], j)
    BY <1>6 DEF SentOK, Numbered
  <2>1. CASE j = k BY <1>4, <1>6, <2>1
  <2>2. CASE j # k
    <3>1. j \in 1..Len(sent) BY <1>k, <2>2
    <3> QED BY <1>6, <3>1 DEF OrderInv, SentOK
  <2> QED BY <2>1, <2>2
<1>8. ASSUME NEW x, Known(x) PROVE Known(x)'
  <2>1. CASE x.split /\ x.payload = <<>> BY <2>1 DEF Known
  <2>2. ASSUME NEW j \in 1..Len(sent), Piece(x, sent[j]) PROVE Known(x)'
    <3>1. j \in 1..Len(sent') /\ Piece(x, sent'[j]) BY <1>6, <2>2
    <3> QED BY <3>1, Zenon DEF Known
  <2> QED BY <1>8, <2>1, <2>2 DEF Known
<1>9. ASSUME NEW x, Known(x), x.payload # <<>> PROVE Key(x)[1] < k
  <2>1. PICK j \in 1..Len(sent) : Piece(x, sent[j]) BY <1>9 DEF Known
  <2>2. Numbered(sent[j], j) /\ j \in Nat BY DEF OrderInv, SentOK
  <2>3. Key(x) = <<j, 1>> \/ Key(x) = <<j, FramePayload + 1>> BY <2>1, <2>2, PieceFacts
  <2>4. Key(x)[1] = j BY <2>3
  <2> QED BY <1>k, <2>4
<1>10. ASSUME NEW m \in 1..Len(o), o[m].payload # <<>> PROVE Key(o[m])[1] = k
  <2>1. Piece(o[m], p) BY <1>5, <1>10
  <2>2. Key(o[m]) = <<k, 1>> \/ Key(o[m]) = <<k, FramePayload + 1>> BY <1>4, <2>1, PieceFacts
  <2> QED BY <2>2
<1>11. ASSUME NEW x, Known(x), NEW m \in 1..Len(o) PROVE Precedes(x, o[m]) /\ Precedes(o[m], x)
  BY <1>9, <1>10, <1>11 DEF Precedes
<1>12. \A m \in 1..Len(o) : Known(o[m])'
  <2> SUFFICES ASSUME NEW m \in 1..Len(o), NEW x, x = o[m] PROVE Known(x)'
    BY DEF Known
  <2>1. CASE x.split /\ x.payload = <<>> BY <2>1 DEF Known
  <2>2. CASE Piece(x, p)
    <3>1. k \in 1..Len(sent') /\ Piece(x, sent'[k])
      <4>1. k \in 1..k BY <1>k DEF TypeOK
      <4> QED BY <1>6, <2>2, <4>1
    <3> QED BY <3>1, Zenon DEF Known
  <2> QED BY <1>5, <2>1, <2>2
<1>13. outbox'[s] = o /\ Len(outbox[s]) = 0 /\ \A r \in Stations : r # s => outbox'[r] = outbox[r]
  BY <1>2 DEF TypeOK
<1>14. \A i \in 1..Len(heard) : Known(heard[i].frame) BY DEF OrderInv, Origin
<1>15. \A r \in Stations : \A m \in 1..Len(outbox[r]) : Known(outbox[r][m]) BY DEF OrderInv, Origin
<1>16. Origin'
  <2>1. ASSUME NEW i \in 1..Len(heard), NEW x, x = heard[i].frame PROVE Known(x)'
    BY <1>8, <1>14, <2>1
  <2>2. ASSUME NEW r \in Stations, NEW m \in 1..Len(outbox'[r]), NEW x, x = outbox'[r][m]
        PROVE  Known(x)'
    <3>1. CASE r = s BY <1>12, <1>13, <2>2, <3>1
    <3>2. CASE r # s BY <1>8, <1>13, <1>15, <2>2, <3>2
    <3> QED BY <3>1, <3>2
  <2>3. \A i \in 1..Len(heard') : Known(heard[i].frame)' BY <1>2, <2>1 DEF Known
  <2>4. \A r \in Stations : \A m \in 1..Len(outbox'[r]) : Known(outbox[r][m])' BY <2>2 DEF Known
  <2> QED BY <2>3, <2>4 DEF Origin
<1>17. HeardOrder' BY <1>2 DEF OrderInv, HeardOrder, Precedes, Key
<1>18. ToCome'
  <2> SUFFICES ASSUME NEW r \in Stations, NEW m \in 1 .. Len(outbox'[r])
               PROVE  /\ \A i \in 1 .. Len(heard') : Precedes(heard'[i].frame, outbox'[r][m])
                      /\ \A j \in 1 .. Len(outbox'[r]) : m < j => Precedes(outbox'[r][m], outbox'[r][j])
                      /\ \A t \in Stations \ {r} : \A j \in 1 .. Len(outbox'[t]) :
                            Precedes(outbox'[r][m], outbox'[t][j])
    BY DEF ToCome, Precedes, Key
  <2>1. CASE r = s
    <3>1. \A i \in 1 .. Len(heard') : Precedes(heard'[i].frame, outbox'[r][m])
      BY <1>2, <1>11, <1>13, <1>14, <2>1
    <3>2. \A j \in 1 .. Len(outbox'[r]) : m < j => Precedes(outbox'[r][m], outbox'[r][j])
      BY <1>5, <1>13, <2>1
    <3>3. \A t \in Stations \ {r} : \A j \in 1 .. Len(outbox'[t]) : Precedes(outbox'[r][m], outbox'[t][j])
      BY <1>11, <1>13, <1>15, <2>1
    <3> QED BY <3>1, <3>2, <3>3
  <2>2. CASE r # s
    <3>0. outbox'[r] = outbox[r] BY <1>13, <2>2
    <3>1. \A i \in 1 .. Len(heard') : Precedes(heard'[i].frame, outbox'[r][m])
      BY <1>2, <3>0 DEF OrderInv, ToCome
    <3>2. \A j \in 1 .. Len(outbox'[r]) : m < j => Precedes(outbox'[r][m], outbox'[r][j])
      BY <3>0 DEF OrderInv, ToCome
    <3>3. ASSUME NEW t \in Stations \ {r}, NEW j \in 1 .. Len(outbox'[t])
          PROVE  Precedes(outbox'[r][m], outbox'[t][j])
      <4>1. CASE t = s BY <1>11, <1>13, <1>15, <3>0, <4>1
      <4>2. CASE t # s BY <1>13, <3>0, <4>2 DEF OrderInv, ToCome
      <4> QED BY <4>1, <4>2
    <3> QED BY <3>1, <3>2, <3>3
  <2> QED BY <2>1, <2>2
<1> QED BY <1>7, <1>16, <1>17, <1>18 DEF OrderInv

LEMMA OrderStep == TypeOK /\ OrderInv /\ [Next]_vars => OrderInv'
<1> SUFFICES ASSUME TypeOK, OrderInv, [Next]_vars PROVE OrderInv' OBVIOUS
<1>1. ASSUME NEW s \in Stations, Hear(s) PROVE OrderInv'
  <2>1. /\ outbox[s] # <<>> /\ outbox' = [outbox EXCEPT ![s] = Tail(@)] /\ UNCHANGED sent
        /\ heard' = Append(heard, [frame |-> Head(outbox[s]), at |-> time])
    BY <1>1 DEF Hear
  <2>2. time \in Nat BY DEF TypeOK
  <2> QED BY <2>1, <2>2, OrderTail
<1>2. ASSUME NEW s \in Stations, Lose(s) PROVE OrderInv'
  BY <1>2, OrderTail DEF Lose
<1>3. ASSUME UNCHANGED <<outbox, sent, heard>> PROVE OrderInv'
  BY <1>3 DEF OrderInv, SentOK, Origin, Known, HeardOrder, ToCome
<1>4. ASSUME Tick \/ UNCHANGED vars PROVE OrderInv' BY <1>3, <1>4 DEF Tick, vars
<1> QED BY <1>1, <1>2, <1>4, OrderSend DEF Next

LEMMA GluedFromOne ==
    ASSUME TypeOK, GlueInv, OrderInv PROVE ChimeraNeedsCollision
<1> SUFFICES ASSUME NEW n \in 1 .. Len(delivered)
             PROVE  \/ \E k \in 1 .. Len(sent) : sent[k].data = delivered[n].data
                    \/ \E j, k \in 1 .. Len(sent) :
                          /\ j # k /\ sent[j].seq = sent[k].seq
                          /\ Len(sent[j].data) > FramePayload /\ Len(sent[k].data) > FramePayload
  BY DEF ChimeraNeedsCollision
<1> DEFINE d == delivered[n]
           b == heard[d.last].frame
           a == heard[d.last - 1].frame
<1>1. IF d.split
      THEN /\ d.last \in 2 .. Len(heard) /\ Gluable(d.last - 1)
           /\ d.data = a.payload \o b.payload
      ELSE /\ d.last \in 1 .. Len(heard) /\ ~b.split
           /\ d.data = b.payload
  BY DEF GlueInv, GluedBackToBack
<1>2. \A i \in 1 .. Len(heard) : Known(heard[i].frame) BY DEF OrderInv, Origin
<1>3. \A k \in 1 .. Len(sent) : Numbered(sent[k], k) /\ k \in Nat BY DEF OrderInv, SentOK
<1>4. CASE ~d.split
  <2>1. d.last \in 1 .. Len(heard) /\ ~b.split /\ d.data = b.payload BY <1>1, <1>4, Zenon
  <2>2. PICK k \in 1 .. Len(sent) : Piece(b, sent[k]) BY <1>2, <2>1 DEF Known
  <2>3. b.payload = sent[k].data BY <1>3, <2>1, <2>2, PieceFacts
  <2> QED BY <2>1, <2>3
<1>5. CASE d.split
  <2>1. d.last \in 2 .. Len(heard) /\ Gluable(d.last - 1) /\ d.data = a.payload \o b.payload
    BY <1>1, <1>5, Zenon
  <2>2. Len(heard) \in Nat BY DEF TypeOK
  <2>3. /\ d.last - 1 \in 1 .. Len(heard) /\ d.last \in 1 .. Len(heard)
        /\ d.last - 1 < d.last /\ (d.last - 1) + 1 = d.last
    <3> HIDE DEF d
    <3> QED BY <2>1, <2>2
  <2>4. a.split /\ b.split /\ a.payload # <<>> /\ b.payload # <<>> /\ a.seq = b.seq
    <3> HIDE DEF d
    <3> QED BY <2>1, <2>3 DEF Gluable
  <2>5. Precedes(a, b)
    <3> HIDE DEF d
    <3> QED BY <2>3 DEF OrderInv, HeardOrder
  <2>6. Known(a) /\ Known(b) BY <1>2, <2>3
  <2> HIDE DEF a, b
  <2>7. PICK j \in 1 .. Len(sent) : Piece(a, sent[j]) BY <2>4, <2>6 DEF Known
  <2>8. PICK k \in 1 .. Len(sent) : Piece(b, sent[k]) BY <2>4, <2>6 DEF Known
  <2>9. /\ a.seq = sent[j].seq /\ Len(sent[j].data) > FramePayload
        /\ \/ a.payload = SubSeq(sent[j].data, 1, FramePayload) /\ Key(a) = <<j, 1>>
           \/ Key(a) = <<j, FramePayload + 1>>
    BY <1>3, <2>4, <2>7, PieceFacts
  <2>10. /\ b.seq = sent[k].seq /\ Len(sent[k].data) > FramePayload
         /\ \/ Key(b) = <<k, 1>>
            \/ /\ b.payload = SubSeq(sent[k].data, FramePayload + 1, Len(sent[k].data))
               /\ Key(b) = <<k, FramePayload + 1>>
    BY <1>3, <2>4, <2>8, PieceFacts
  <2>11. CASE j # k BY <2>4, <2>9, <2>10, <2>11
  <2>12. CASE j = k
    <3>1. Key(a)[1] = j /\ Key(b)[1] = k BY <2>9, <2>10
    <3>2. Key(a)[2] < Key(b)[2] BY <2>4, <2>5, <2>12, <3>1 DEF Precedes
    <3>3. FramePayload \in Nat \ {0} BY FramingAssumption
    <3>4. Key(a) = <<j, 1>> /\ Key(b) = <<k, FramePayload + 1>> BY <2>9, <2>10, <3>2, <3>3
    <3>5. /\ a.payload = SubSeq(sent[j].data, 1, FramePayload)
          /\ b.payload = SubSeq(sent[k].data, FramePayload + 1, Len(sent[k].data))
      BY <2>9, <2>10, <3>3, <3>4
    <3>6. a.payload \o b.payload = sent[k].data BY <1>3, <2>10, <2>12, <3>5, PieceKeys
    <3> QED BY <2>1, <3>6
  <2> QED BY <2>11, <2>12
<1> QED BY <1>4, <1>5

\* feed() on the frames of any stations, interleaved and lost in any way: a packet
\* nobody sent needs two split packets of one sequence.
THEOREM ChimerasCollide == Spec => []ChimeraNeedsCollision
<1>1. Init => OrderInv
  <2> SUFFICES ASSUME Init PROVE OrderInv OBVIOUS
  <2>1. Len(heard) = 0 /\ Len(sent) = 0 /\ \A s \in Stations : Len(outbox[s]) = 0 BY DEF Init
  <2> QED BY <2>1 DEF OrderInv, SentOK, Origin, HeardOrder, ToCome
<1>2. TypeOK /\ OrderInv /\ [Next]_vars => OrderInv' BY OrderStep
<1>3. TypeOK /\ GlueInv /\ OrderInv => ChimeraNeedsCollision BY GluedFromOne
<1> QED BY <1>1, <1>2, <1>3, GlueAlways, PTL DEF Spec
===============================================================================
