---------------------------- MODULE AirtimeAccount ----------------------------
(***************************************************************************)
(* What DutyAccount.reserve() promises its callers, without files, locks,  *)
(* clocks and retries: one account in which a packet's airtime is booked   *)
(* in a single step, against real time, before the packet may be radiated. *)
(* DutyLedger implements it (DutyLedger!Refines).                          *)
(***************************************************************************)
EXTENDS Integers, FiniteSetsExt

CONSTANTS Ids, Airtimes, ShortWindow, ShortBudget, LongWindow, LongBudget

VARIABLES
    time,          \* real time
    usable,        \* the account can be read and written
    booked,        \* reservations of the current long window
    outstanding,   \* reservations a caller may still radiate
    onAir          \* packets radiated

vars == <<time, usable, booked, outstanding, onAir>>

Reservation(ids, upTo) == [id : ids, a : Airtimes, r : 0..upTo]
Airtime(packets) == MapThenSumSet(LAMBDA x : x.a, packets)
Within(packets, window, t) == {x \in packets : t - x.r < window}

Init ==
    /\ time = 0 /\ usable = FALSE
    /\ booked = {} /\ outstanding = {} /\ onAir = {}

\* First use: an account starts empty, and never after a packet was allowed.
Open ==
    /\ ~usable /\ onAir = {} /\ outstanding = {}
    /\ usable' = TRUE
    /\ UNCHANGED <<time, booked, outstanding, onAir>>

\* Both limits hold with x booked; the burst guard spares a lone packet.
Fits(x) ==
    LET recent == Within(booked, ShortWindow, time)
    IN  /\ recent # {} => Airtime(recent) + x.a <= ShortBudget
        /\ Airtime(booked) + x.a <= LongBudget

Reserve ==
    /\ usable
    /\ \E x \in Reservation(Ids, time) :
          /\ \A y \in booked \cup outstanding \cup onAir : y.id # x.id
          /\ Fits(x)
          /\ booked' = Within(booked \cup {x}, LongWindow, time)
          /\ outstanding' = outstanding \cup {x}
    /\ UNCHANGED <<time, usable, onAir>>

Radiate ==
    /\ \E x \in outstanding : outstanding' = outstanding \ {x} /\ onAir' = onAir \cup {x}
    /\ UNCHANGED <<time, usable, booked>>

\* The caller dies or is told of an error: the airtime stays booked.
Abandon ==
    /\ outstanding' \in SUBSET outstanding
    /\ UNCHANGED <<time, usable, booked, onAir>>

\* A power loss takes the callers, and may take bookings nobody radiated.
PowerLoss ==
    /\ outstanding' = {}
    /\ booked' \in SUBSET booked
    /\ booked \cap onAir \subseteq booked'
    /\ usable' \in {usable, FALSE}
    /\ onAir # {} => usable' = usable
    /\ UNCHANGED <<time, onAir>>

\* The account is lost or damaged: no more reservations.
Lose ==
    /\ usable /\ usable' = FALSE
    /\ booked' = {}
    /\ UNCHANGED <<time, outstanding, onAir>>

Tick ==
    /\ time' = time + 1
    /\ booked' = Within(booked, LongWindow, time')
    /\ UNCHANGED <<usable, outstanding, onAir>>

Next == Open \/ Reserve \/ Radiate \/ Abandon \/ PowerLoss \/ Lose \/ Tick

Spec == Init /\ [][Next]_vars
===============================================================================
