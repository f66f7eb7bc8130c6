------------------------------- MODULE Framing -------------------------------
(***************************************************************************)
(* The RNode air framing of loraham_rns/framing.py: stations cut packets   *)
(* into one or two frames with a header (sequence, split flag), the air    *)
(* interleaves and loses frames, and one Reassembler puts packets together *)
(* again.  Beside it runs the receiver of the RNode firmware that          *)
(* framing.py describes and compares itself with.                          *)
(*                                                                         *)
(* A byte of a packet is the pair of its packet's number and its position. *)
(***************************************************************************)
EXTENDS Integers, Sequences, FiniteSets

CONSTANTS
    Stations,      \* senders within range
    RNodes,        \* those that run the RNode firmware
    Seqs,          \* the 4-bit sequences
    Unset,         \* SEQ_UNSET
    FramePayload,  \* FRAME_PAYLOAD
    Lengths,       \* lengths of the packets sent
    MaxAge,        \* Reassembler(max_age=...)
    MaxPackets, MaxTime            \* bounds

ASSUME FramingAssumption ==
    /\ Unset \notin Seqs
    /\ RNodes \subseteq Stations
    /\ FramePayload \in Nat \ {0}
    /\ Lengths \subseteq 1 .. 2 * FramePayload
    /\ MaxAge \in Nat /\ MaxPackets \in Nat /\ MaxTime \in Nat

VARIABLES
    outbox,        \* frames each station has still to send
    sent,          \* ghost: every packet sent, [seq, data]
    time,          \* the receiver's monotonic clock
    heard,         \* ghost: every frame the radio delivered, [frame, at]
    half,          \* _seq, _buf, _since
    dropped,       \* dropped
    delivered,     \* ghost: packets feed() returned, [data, split, last], where
                   \* last is the place in `heard` of the frame that completed it
    fwHalf, fwDelivered,           \* the firmware's receiver on the same frames
    guarded        \* ghost: a rule the firmware lacks discarded something

vars == <<outbox, sent, time, heard, half, dropped, delivered, fwHalf, fwDelivered, guarded>>

NoHalf == [seq |-> Unset, buf |-> <<>>, since |-> 0]

Init ==
    /\ outbox = [s \in Stations |-> <<>>] /\ sent = <<>>
    /\ time = 0 /\ heard = <<>>
    /\ half = NoHalf /\ dropped = 0 /\ delivered = <<>>
    /\ fwHalf = NoHalf /\ fwDelivered = <<>> /\ guarded = FALSE

-----------------------------------------------------------------------------
(* frame()                                                                 *)

AirFrame(seq, split, payload) == [seq |-> seq, split |-> split, payload |-> payload]

\* One frame, or two that carry the same header.
frame(data, seq) ==
    IF Len(data) <= FramePayload
    THEN <<AirFrame(seq, FALSE, data)>>
    ELSE <<AirFrame(seq, TRUE, SubSeq(data, 1, FramePayload)),
           AirFrame(seq, TRUE, SubSeq(data, FramePayload + 1, Len(data)))>>

\* The firmware ends an exactly full packet with a frame that is only a header.
Trailer(s, data, seq) ==
    IF s \in RNodes /\ Len(data) = 2 * FramePayload
    THEN <<AirFrame(seq, TRUE, <<>>)>> ELSE <<>>

-----------------------------------------------------------------------------
(* Reassembler.feed()                                                      *)

Halves(h) == IF h.seq = Unset THEN 0 ELSE 1
Outcome(h, out, n) == [half |-> h, out |-> out, dropped |-> n]

\* The guard against gluing a stale half.
FreshUnlimited(h, t) == IF t >= 0 THEN h ELSE NoHalf
Fresh(h, t) == IF h.seq # Unset /\ t - h.since > MaxAge THEN NoHalf ELSE h

\* A header with nothing behind it discards itself and any pending half.
FeedTrailer(h) == Outcome(NoHalf, <<>>, Halves(h) + 1)

\* A fragment completes a half of its own sequence or becomes the half.
FeedSplitAny(h, f, t) ==
    IF h.seq # Unset THEN Outcome(NoHalf, <<h.buf \o f.payload>>, 0)
    ELSE Outcome([seq |-> f.seq, buf |-> f.payload, since |-> t], <<>>, 0)
FeedSplitFirstWins(h, f, t) ==
    IF h.seq = f.seq THEN Outcome(NoHalf, <<h.buf \o f.payload>>, 0)
    ELSE IF h.seq # Unset THEN Outcome(h, <<>>, 1)
    ELSE Outcome([seq |-> f.seq, buf |-> f.payload, since |-> t], <<>>, 0)
FeedSplit(h, f, t) ==
    IF h.seq = f.seq THEN Outcome(NoHalf, <<h.buf \o f.payload>>, 0)
    ELSE Outcome([seq |-> f.seq, buf |-> f.payload, since |-> t], <<>>, Halves(h))

\* A whole packet is delivered and discards any pending half.
FeedWholeUncounted(h, f) == Outcome(NoHalf, <<f.payload>>, 0)
FeedWholeKeeping(h, f) == Outcome(h, <<f.payload>>, 0)
FeedWhole(h, f) == Outcome(NoHalf, <<f.payload>>, Halves(h))

feed(h, f, t) ==
    IF f.payload = <<>> THEN FeedTrailer(h)
    ELSE LET g == Fresh(h, t)
             o == IF f.split THEN FeedSplit(g, f, t) ELSE FeedWhole(g, f)
         IN  [o EXCEPT !.dropped = @ + (Halves(h) - Halves(g))]

\* The firmware: no age limit, and a lone header completes a pending half.
FirmwareFeed(h, f, t) ==
    IF ~f.split THEN Outcome(NoHalf, <<f.payload>>, 0)
    ELSE IF h.seq = f.seq THEN Outcome(NoHalf, <<h.buf \o f.payload>>, 0)
    ELSE Outcome([seq |-> f.seq, buf |-> f.payload, since |-> t], <<>>, 0)

-----------------------------------------------------------------------------
\* A station whose previous packet is out sends the next one.
Send(s, n, seq) ==
    /\ outbox[s] = <<>>
    /\ Len(sent) < MaxPackets
    /\ LET data == [i \in 1 .. n |-> <<Len(sent) + 1, i>>]
       IN  /\ sent' = Append(sent, [seq |-> seq, data |-> data])
           /\ outbox' = [outbox EXCEPT ![s] = frame(data, seq) \o Trailer(s, data, seq)]
    /\ UNCHANGED <<time, heard, half, dropped, delivered, fwHalf, fwDelivered, guarded>>

\* A frame reaches the radio, and feed() runs on it in the RX worker.
Hear(s) ==
    /\ outbox[s] # <<>>
    /\ outbox' = [outbox EXCEPT ![s] = Tail(@)]
    /\ LET f  == Head(outbox[s])
           o  == feed(half, f, time)
           fw == FirmwareFeed(fwHalf, f, time)
       IN  /\ heard' = Append(heard, [frame |-> f, at |-> time])
           /\ half' = o.half
           /\ dropped' = dropped + o.dropped
           /\ delivered' = IF o.out = <<>> THEN delivered
                           ELSE Append(delivered,
                                  [data |-> Head(o.out), split |-> f.split, last |-> Len(heard) + 1])
           /\ fwHalf' = fw.half
           /\ fwDelivered' = fwDelivered \o fw.out
           /\ guarded' = (guarded \/ f.payload = <<>> \/ Fresh(half, time) # half)
    /\ UNCHANGED <<sent, time>>

Lose(s) ==
    /\ outbox[s] # <<>>
    /\ outbox' = [outbox EXCEPT ![s] = Tail(@)]
    /\ UNCHANGED <<sent, time, heard, half, dropped, delivered, fwHalf, fwDelivered, guarded>>

Tick ==
    /\ time < MaxTime
    /\ time' = time + 1
    /\ UNCHANGED <<outbox, sent, heard, half, dropped, delivered, fwHalf, fwDelivered, guarded>>

Next ==
    \/ \E s \in Stations : Hear(s) \/ Lose(s) \/ \E n \in Lengths, q \in Seqs : Send(s, n, q)
    \/ Tick

Spec == Init /\ [][Next]_vars

-----------------------------------------------------------------------------
(* Properties                                                              *)

Splits == {i \in 1 .. Len(delivered) : delivered[i].split}

\* Heard frames i and i + 1 would be glued: fragments of one sequence, in time.
Gluable(i) ==
    LET a == heard[i]  b == heard[i + 1]
    IN  /\ a.frame.split /\ b.frame.split
        /\ a.frame.payload # <<>> /\ b.frame.payload # <<>>
        /\ a.frame.seq = b.frame.seq
        /\ b.at - a.at <= MaxAge

\* Heard frames i and i + 1 are the two halves of one packet that was sent.
Partners(i) ==
    \E k \in 1 .. Len(sent) :
        /\ Len(sent[k].data) > FramePayload
        /\ <<heard[i].frame, heard[i + 1].frame>> = frame(sent[k].data, sent[k].seq)

\* Reassembler.dropped is exact: every frame fed was delivered (alone, or as
\* one of two), is the pending half, or was counted as dropped.
Conservation ==
    Len(heard) = Len(delivered) + Cardinality(Splits) + Halves(half) + dropped

\* The stale guard and the clearing rules of feed(): a packet glued from two
\* frames is glued from two frames heard back to back, of one sequence, within
\* max_age; a packet delivered alone is the payload of its frame.
GluedBackToBack ==
    \A n \in 1 .. Len(delivered) :
        LET d == delivered[n]
        IN  IF d.split
            THEN /\ d.last \in 2 .. Len(heard) /\ Gluable(d.last - 1)
                 /\ d.data = heard[d.last - 1].frame.payload \o heard[d.last].frame.payload
            ELSE /\ d.last \in 1 .. Len(heard) /\ ~heard[d.last].frame.split
                 /\ d.data = heard[d.last].frame.payload

\* feed() on frames of frame(): a packet nobody sent is delivered only when two
\* split packets drew the same 4-bit sequence.
ChimeraNeedsCollision ==
    \A n \in 1 .. Len(delivered) :
        \/ \E k \in 1 .. Len(sent) : sent[k].data = delivered[n].data
        \/ \E j, k \in 1 .. Len(sent) :
              /\ j # k /\ sent[j].seq = sent[k].seq
              /\ Len(sent[j].data) > FramePayload /\ Len(sent[k].data) > FramePayload

\* feed() loses no packet whose halves it hears back to back and in time,
\* except to a foreign half of the same sequence heard just before.
LostOnlyByCollision ==
    \A i \in 1 .. Len(heard) - 1 :
        Partners(i) /\ heard[i + 1].at - heard[i].at <= MaxAge =>
            \/ \E n \in 1 .. Len(delivered) : delivered[n].last = i + 1 /\ delivered[n].split
            \/ i > 1 /\ Gluable(i - 1)

\* "The firmware's receive rules": until one of the two added guards discards
\* something, feed() delivers what the RNode firmware delivers, in its order.
FirmwareUntilGuard ==
    ~guarded => /\ half = fwHalf
                /\ fwDelivered = [n \in 1 .. Len(delivered) |-> delivered[n].data]
=============================================================================
