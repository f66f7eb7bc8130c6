-------------------------------- MODULE SpiBus --------------------------------
(***************************************************************************)
(* loraham_rns/spibus.py after a successful __init__: xfer() as a          *)
(* transaction under the flock that is shared with a peer process (the     *)
(* LoRaHAM daemon of the other band), and close().                         *)
(*                                                                         *)
(* One thread at a time is inside xfer() (Interface!RadioExclusive), so    *)
(* the place in it is one variable.  A flock belongs to the open file: it  *)
(* goes when LOCK_UN is called or when the descriptor is closed.           *)
(***************************************************************************)
EXTENDS Naturals

VARIABLES
    soft,          \* we drive the chip select ourselves (_cs is not None)
    owner,         \* who has the flock on spi0.lock: "us", "peer" or "none"
    peer,          \* the peer: "off" or on the "wire"
    spiOpen, csOpen, lockOpen,     \* what close() has not closed yet
    nss,           \* our chip select line is asserted
    place,         \* where the transaction is; "out" between transactions
    raised,        \* the transaction ends with SpiBusError
    excused,       \* ghost: close() took something from a transaction, or a call on
                   \* the chip select line failed in our hands
    stuck          \* ghost: LOCK_UN failed, and the lock was not freed since

busVars == <<soft, owner, peer, spiOpen, csOpen, lockOpen, nss, place, raised, excused, stuck>>
opened  == <<soft, spiOpen, csOpen, lockOpen>>

BusInit ==
    /\ soft \in BOOLEAN
    /\ owner = "none" /\ peer = "off"
    /\ spiOpen = TRUE /\ csOpen = soft /\ lockOpen = TRUE
    /\ nss = FALSE /\ place = "out" /\ raised = FALSE
    /\ excused = FALSE /\ stuck = FALSE

-----------------------------------------------------------------------------
(* _acquire(): outside of the try statement of xfer()                      *)

BeginXfer ==
    /\ place = "out" /\ ~raised
    /\ place' = "lock"
    /\ UNCHANGED <<opened, owner, peer, nss, raised, excused, stuck>>

\* flock() succeeds at once when it is free (or already held by this file).
Acquire ==
    /\ place = "lock" /\ lockOpen /\ owner # "peer"
    /\ owner' = "us"
    /\ place' = IF soft THEN "select" ELSE "start"
    /\ UNCHANGED <<opened, peer, nss, raised, excused, stuck>>

\* close() freed the descriptor's number and another file of this process got
\* it: flock() locks that file, and the transaction goes on without the lock.
AcquireReused ==
    /\ place = "lock" /\ ~lockOpen
    /\ place' = IF soft THEN "select" ELSE "start"
    /\ UNCHANGED <<opened, owner, peer, nss, raised, excused, stuck>>

AcquirePatient ==
    /\ place = "lock" /\ ~lockOpen
    /\ place' = "out" /\ raised' = TRUE
    /\ UNCHANGED <<opened, owner, peer, nss, excused, stuck>>

\* EBADF, or two seconds behind a peer that holds the lock.
AcquireFails ==
    /\ place = "lock" /\ (lockOpen => owner = "peer")
    /\ place' = "out" /\ raised' = TRUE
    /\ UNCHANGED <<opened, owner, peer, nss, excused, stuck>>

-----------------------------------------------------------------------------
(* xfer() with the lock held                                               *)

Select ==
    /\ place = "select" /\ csOpen
    /\ nss' = TRUE
    /\ place' = "start"
    /\ UNCHANGED <<opened, owner, peer, raised, excused, stuck>>

\* A failing line may have been driven all the same; a released one was not.
SelectFailsHolding ==
    /\ place = "select"
    /\ nss' \in {nss, nss \/ csOpen}
    /\ place' = "out" /\ raised' = TRUE
    /\ excused' = (excused \/ csOpen)
    /\ UNCHANGED <<opened, owner, peer, stuck>>

SelectFails ==
    /\ place = "select"
    /\ nss' \in {nss, nss \/ csOpen}
    /\ place' = "unlock" /\ raised' = TRUE
    /\ excused' = (excused \/ csOpen)
    /\ UNCHANGED <<opened, owner, peer, stuck>>

AfterWire == IF soft THEN "deselect" ELSE "unlock"

\* xfer2() begins: a closed spidev raises before anything is on the wire.
Start ==
    /\ place = "start"
    /\ place' = IF spiOpen THEN "wire" ELSE AfterWire
    /\ raised' = ~spiOpen
    /\ UNCHANGED <<opened, owner, peer, nss, excused, stuck>>

Finish ==
    /\ place = "wire"
    /\ place' = AfterWire
    /\ raised' \in BOOLEAN
    /\ UNCHANGED <<opened, owner, peer, nss, excused, stuck>>

Deselect ==
    /\ place = "deselect" /\ csOpen
    /\ nss' = FALSE
    /\ place' = "unlock"
    /\ UNCHANGED <<opened, owner, peer, raised, excused, stuck>>

DeselectFails ==
    /\ place = "deselect"
    /\ nss' \in {nss, nss /\ ~csOpen}
    /\ place' = "unlock" /\ raised' = TRUE
    /\ excused' = (excused \/ csOpen)
    /\ UNCHANGED <<opened, owner, peer, stuck>>

\* The finally clause.  On a closed descriptor LOCK_UN raises EBADF, or unlocks
\* the file that got its number.
Release ==
    /\ place = "unlock"
    /\ place' = "out"
    /\ owner' = IF lockOpen /\ owner = "us" THEN "none" ELSE owner
    /\ raised' \in IF lockOpen THEN {raised} ELSE {raised, TRUE}
    /\ stuck' = FALSE
    /\ UNCHANGED <<opened, peer, nss, excused>>

\* LOCK_UN raises on the open descriptor: "a failed release leaves the daemon's
\* bus lock held", until this file is unlocked after all or is closed.
ReleaseFails ==
    /\ place = "unlock" /\ lockOpen
    /\ place' = "out" /\ raised' = TRUE
    /\ stuck' = TRUE
    /\ UNCHANGED <<opened, owner, peer, nss, excused>>

XferStep ==
    \/ Acquire \/ AcquireReused \/ AcquireFails
    \/ Select \/ SelectFails \/ Start \/ Finish \/ Deselect \/ DeselectFails
    \/ Release \/ ReleaseFails

-----------------------------------------------------------------------------
(* close(), one descriptor after the other                                 *)

Inside == place \notin {"out", "lock"}

CloseSpi ==
    /\ spiOpen' = FALSE
    /\ UNCHANGED <<soft, csOpen, lockOpen, owner, peer, nss, place, raised, excused, stuck>>

\* The line is given back to the kernel, which may leave it at its level.
CloseCs ==
    /\ csOpen' = FALSE
    /\ nss' \in {nss, FALSE}
    /\ excused' = (excused \/ (csOpen /\ Inside))
    /\ UNCHANGED <<soft, spiOpen, lockOpen, owner, peer, place, raised, stuck>>

\* The last reference to the open file goes and the flock with it, also under
\* a transfer that is on the wire.
CloseLock ==
    /\ lockOpen' = FALSE
    /\ owner' = IF owner = "us" THEN "none" ELSE owner
    /\ excused' = (excused \/ Inside) /\ stuck' = FALSE
    /\ UNCHANGED <<soft, spiOpen, csOpen, peer, nss, place, raised>>

-----------------------------------------------------------------------------
(* The peer keeps the same contract, and may wedge with the lock held.     *)

PeerBegin ==
    /\ owner = "none" /\ peer = "off"
    /\ owner' = "peer" /\ peer' = "wire"
    /\ UNCHANGED <<opened, nss, place, raised, excused, stuck>>

PeerEnd ==
    /\ peer = "wire"
    /\ owner' = "none" /\ peer' = "off"
    /\ UNCHANGED <<opened, nss, place, raised, excused, stuck>>

Peer == PeerBegin \/ PeerEnd

-----------------------------------------------------------------------------
(* Properties                                                              *)

\* xfer()'s contract with the daemon: while the peer is on the wire we neither
\* transfer nor keep our chip selected, whatever xfer() raised before and
\* however far close() has come, unless close() itself cut into a transaction
\* or the chip select line failed in our hands.
PeerUndisturbed ==
    peer = "wire" /\ ~excused => place # "wire" /\ ~nss
===============================================================================
