------------------------------ MODULE DutyLedger ------------------------------
(***************************************************************************)
(* The airtime ledger of loraham_rns/duty.py: processes that reserve       *)
(* airtime in one state file before they transmit, over the file system    *)
(* (lock file, ledger, what of both survives a power loss) and over the    *)
(* machine's clocks (real time, a wall clock that may be stepped, a        *)
(* monotonic clock that restarts at every boot).                           *)
(*                                                                         *)
(* A percent limit of the code is the airtime it allows in its window      *)
(* (ShortBudget, LongBudget).  Fields and variables marked "ghost" are     *)
(* read by properties only.                                                *)
(***************************************************************************)
EXTENDS Integers, FiniteSets, FiniteSetsExt

CONSTANTS
    Procs,         \* processes (or threads) that call reserve() and usage()
    NoOne,         \* the flock's holder when it is free
    Airtimes,      \* airtimes asked for
    ShortWindow, ShortBudget,      \* short_window, short_limit
    LongWindow, LongBudget,        \* long_window, long_limit
    Skew,          \* CLOCK_SKEW_S
    Offsets,       \* what a step of the wall clock can leave wall - real at
    StepInside,    \* may the wall clock be stepped while the flock is held?
    MaxReal, MaxGrants, MaxBoots   \* bounds

\* Steps the code tolerates as jitter (up to Skew) are left out: the offsets
\* the wall clock moves between are equal or further apart than that.
ASSUME DutyAssumption ==
    /\ IsFiniteSet(Procs) /\ NoOne \notin Procs
    /\ Airtimes \subseteq Nat \ {0}
    /\ ShortWindow \in Nat /\ ShortBudget \in Nat
    /\ LongWindow \in Nat /\ LongBudget \in Nat
    /\ Skew \in Nat
    /\ Offsets \subseteq Int
    /\ \A x, y \in Offsets : x = y \/ x - y > Skew \/ y - x > Skew
    /\ StepInside \in BOOLEAN
    /\ MaxReal \in Nat /\ MaxGrants \in Nat /\ MaxBoots \in Nat

VARIABLES
    lockFile,      \* the lock file exists
    lockDurable,   \* and would survive a power loss
    ledger,        \* the ledger other processes see
    durable,       \* the ledger a power loss may leave instead
    holder,        \* who has the flock
    pc,            \* where each process is in reserve() or usage()
    first,         \* first_use
    now,           \* now, and (ghost) the real time it was read at
    view,          \* entries
    pending,       \* _pending_rebase
    why,           \* which _write() of reserve() is under way
    air,           \* airtime; Status when the call is usage()
    ticket,        \* ghost: number of the reservation granted
    real, offset, boot, bootReal,  \* the machine's clocks
    nextId,        \* ghost: number of the next reservation
    radiated,      \* ghost: packets on the air, with the time of their grant
    faulted        \* ghost: a crash, a failed write, a timeout or damage happened

disk  == <<lockFile, lockDurable, ledger, durable>>
local == <<first, now, view, air, ticket>>
clock == <<real, offset, boot, bootReal>>
ghost == <<nextId, radiated>>
vars  == <<disk, holder, pc, why, pending, local, clock, ghost, faulted>>

Status == 0
wall == real + offset
mono == real - bootReal

\* One reservation: number (ghost), time stamp, airtime, real time (ghost).
Entry == [id : Nat, t : Int, a : Airtimes, r : Nat]
\* Clock evidence stored with the entries; `at` (ghost) is its real time.
Evidence == [boot : Nat, mono : Int, wall : Int, at : Nat]
Ledger == [kind : {"missing", "corrupt", "ok"}, clock : Evidence, entries : SUBSET Entry]

EvidenceNow == [boot |-> boot, mono |-> mono, wall |-> wall, at |-> real]
NoLedger(kind) ==
    [kind |-> kind, clock |-> [boot |-> 0, mono |-> 0, wall |-> 0, at |-> 0], entries |-> {}]

NoTime == [wall |-> 0, real |-> 0]

Init ==
    /\ lockFile = FALSE /\ lockDurable = FALSE
    /\ ledger = NoLedger("missing") /\ durable = NoLedger("missing")
    /\ holder = NoOne
    /\ pc = [p \in Procs |-> "idle"] /\ why = [p \in Procs |-> "none"]
    /\ first = [p \in Procs |-> FALSE] /\ pending = [p \in Procs |-> FALSE]
    /\ now = [p \in Procs |-> NoTime] /\ view = [p \in Procs |-> {}]
    /\ air = [p \in Procs |-> Status] /\ ticket = [p \in Procs |-> 0]
    /\ real = 0 /\ offset \in Offsets /\ boot = 0 /\ bootReal = 0
    /\ nextId = 1 /\ radiated = {} /\ faulted = FALSE

-----------------------------------------------------------------------------
(* Pure parts: used(), _rebase(), the future check and the verdict.        *)

Used(es, window, t) == MapThenSumSet(LAMBDA e : e.a, {e \in es : e.t > t - window})

\* How far the wall clock moved beyond what the evidence accounts for.
ClockStepWall(ev) == wall - ev.wall
ClockStep(ev) ==
    IF ev.boot = boot THEN (wall - ev.wall) - (mono - ev.mono) ELSE wall - ev.wall

\* Across a boot only a forward step moves the stamps.
SteppedThisBoot(ev) == ev.boot = boot /\ (ClockStep(ev) > Skew \/ -ClockStep(ev) > Skew)
Stepped(ev) == ClockStep(ev) > Skew \/ (ev.boot = boot /\ -ClockStep(ev) > Skew)

Rebase(es, ev) ==
    IF Stepped(ev) THEN {[e EXCEPT !.t = @ + ClockStep(ev)] : e \in es} ELSE es

PlausibleAlways(es) == es = es
Plausible(es) == \A e \in es : e.t <= wall + Skew

\* What reserve() keeps of the entries.
KeptShort(es, t) == {e \in es : e.t > t - ShortWindow}
Kept(es, t) == {e \in es : e.t > t - LongWindow}

PermittedByLedger(p) == Used(view[p], LongWindow, now[p].wall) < LongBudget
PermittedByLongWindow(p) == Used(view[p], LongWindow, now[p].wall) + air[p] <= LongBudget
Permitted(p) ==
    LET short == Used(view[p], ShortWindow, now[p].wall)
    IN  /\ short > 0 => short + air[p] <= ShortBudget
        /\ Used(view[p], LongWindow, now[p].wall) + air[p] <= LongBudget

-----------------------------------------------------------------------------
(* _open_locked() and _flock()                                             *)

Goto(p, l) == pc' = [pc EXCEPT ![p] = l]

\* The call returns or raises: its locals are gone.
Return(p) ==
    /\ Goto(p, "idle")
    /\ why' = [why EXCEPT ![p] = "none"]
    /\ first' = [first EXCEPT ![p] = FALSE]
    /\ now' = [now EXCEPT ![p] = NoTime]
    /\ view' = [view EXCEPT ![p] = {}]
    /\ air' = [air EXCEPT ![p] = Status]
    /\ ticket' = [ticket EXCEPT ![p] = 0]

\* reserve(a): open the lock file if it is there.
OpenLock(p, a) ==
    /\ pc[p] = "idle"
    /\ nextId <= MaxGrants
    /\ air' = [air EXCEPT ![p] = a]
    /\ Goto(p, IF lockFile THEN "exists" ELSE "create")
    /\ UNCHANGED <<disk, holder, why, pending, first, now, view, ticket, clock, ghost, faulted>>

\* usage(): create=False, so a missing lock file ends the call at once, (0, 0).
OpenUsage(p) ==
    /\ pc[p] = "idle"
    /\ Goto(p, IF lockFile THEN "flock" ELSE "idle")
    /\ UNCHANGED <<disk, holder, why, pending, local, clock, ghost, faulted>>

\* O_CREAT | O_EXCL: the creator is the one first user, a loser opens it.
CreateLock(p) ==
    /\ pc[p] = "create"
    /\ lockFile' = TRUE
    /\ first' = [first EXCEPT ![p] = ~lockFile]
    /\ Goto(p, IF lockFile THEN "exists" ELSE "flock")
    /\ UNCHANGED <<lockDurable, ledger, durable, holder, why, pending, now, view, air, ticket,
                   clock, ghost, faulted>>

\* Wait for the creator's initialisation, or give up waiting for it.
AwaitLedger(p) ==
    /\ pc[p] = "exists"
    /\ ledger.kind # "missing"
    /\ Goto(p, "flock")
    /\ UNCHANGED <<disk, holder, why, pending, local, clock, ghost, faulted>>

AwaitTimeout(p) ==
    /\ pc[p] = "exists"
    /\ ledger.kind = "missing"
    /\ Goto(p, "flock")
    /\ UNCHANGED <<disk, holder, why, pending, local, clock, ghost, faulted>>

FlockShared(p) ==
    /\ pc[p] = "flock"
    /\ holder' = p
    /\ now' = [now EXCEPT ![p] = [wall |-> wall, real |-> real]]
    /\ Goto(p, "read")
    /\ UNCHANGED <<disk, why, pending, first, view, air, ticket, clock, ghost, faulted>>

\* The flock is granted; reserve() and usage() then read the clock.
Flock(p) ==
    /\ pc[p] = "flock"
    /\ holder = NoOne
    /\ holder' = p
    /\ now' = [now EXCEPT ![p] = [wall |-> wall, real |-> real]]
    /\ Goto(p, "read")
    /\ UNCHANGED <<disk, why, pending, first, view, air, ticket, clock, ghost, faulted>>

FlockPatient(p) == pc[p] = "gone" /\ UNCHANGED vars
FlockTimeout(p) ==
    /\ pc[p] = "flock"
    /\ holder # NoOne
    /\ Return(p)
    /\ faulted' = TRUE
    /\ UNCHANGED <<disk, holder, pending, clock, ghost>>

-----------------------------------------------------------------------------
(* reserve() and usage() with the flock held                               *)

\* The ledger can be read, or need not exist because we created the lock.
Readable == ledger.kind = "ok" /\ Plausible(ledger.entries)
Fresh(p) == ledger.kind = "missing" /\ first[p]

\* What follows the read: nothing for usage(), else the writes due and the verdict.
Label(l, w) == [pc |-> l, why |-> w]
AfterReadNoInit(p, stepped) ==
    IF air[p] = Status THEN Label("unlock", "none") ELSE Label("decide", "none")
AfterRead(p, stepped) ==
    CASE air[p] = Status               -> Label("unlock", "none")
      [] air[p] # Status /\ first[p]   -> Label("write", "init")
      [] air[p] # Status /\ ~first[p]  ->
            IF stepped THEN Label("write", "rebase") ELSE Label("decide", "none")

\* _read() of a usable ledger, rebased, then pruned to the long window.
ReadLedger(p) ==
    /\ pc[p] = "read"
    /\ Readable
    /\ LET stepped == ledger.entries # {} /\ Stepped(ledger.clock)
           next    == AfterRead(p, stepped)
       IN  /\ view' = [view EXCEPT ![p] =
                Kept(Rebase(ledger.entries, ledger.clock), now[p].wall)]
           /\ pending' = [pending EXCEPT ![p] = stepped]
           /\ Goto(p, next.pc)
           /\ why' = [why EXCEPT ![p] = next.why]
    /\ UNCHANGED <<disk, holder, first, now, air, ticket, clock, ghost, faulted>>

\* No ledger yet and we created the lock: a fresh account.
ReadFresh(p) ==
    /\ pc[p] = "read"
    /\ Fresh(p)
    /\ view' = [view EXCEPT ![p] = {}]
    /\ Goto(p, AfterRead(p, pending[p]).pc)
    /\ why' = [why EXCEPT ![p] = AfterRead(p, pending[p]).why]
    /\ UNCHANGED <<disk, holder, pending, first, now, air, ticket, clock, ghost, faulted>>

\* DutyError: the ledger has disappeared, is unreadable or lies in the future.
ReadFails(p) ==
    /\ pc[p] = "read"
    /\ ~Readable /\ ~Fresh(p)
    /\ Goto(p, "unlock")
    /\ UNCHANGED <<disk, holder, why, pending, local, clock, ghost, faulted>>

\* _write() up to the rename: the evidence is read when the blob is built.
Replace(p) ==
    /\ pc[p] = "write"
    /\ ledger' = [kind |-> "ok", clock |-> EvidenceNow, entries |-> view[p]]
    /\ Goto(p, "sync")
    /\ UNCHANGED <<lockFile, lockDurable, durable, holder, why, pending, local, clock, ghost, faulted>>

\* _write()'s directory fsync makes the rename and the lock file durable.
SyncDir(p) ==
    /\ pc[p] = "sync"
    /\ durable' = ledger
    /\ lockDurable' = lockFile
    /\ LET rebase == why[p] = "init" /\ pending[p]
       IN  /\ Goto(p, IF rebase THEN "write" ELSE IF why[p] = "grant" THEN "unlock" ELSE "decide")
           /\ why' = [why EXCEPT ![p] = IF rebase THEN "rebase" ELSE @]
    /\ pending' = [pending EXCEPT ![p] = @ /\ why[p] # "rebase"]
    /\ UNCHANGED <<lockFile, ledger, holder, local, clock, ghost, faulted>>

\* An OSError before or after the rename: DutyError, no verdict, no packet.
WriteFails(p) ==
    /\ pc[p] \in {"write", "sync"}
    /\ Goto(p, "unlock")
    /\ why' = [why EXCEPT ![p] = "none"]
    /\ faulted' = TRUE
    /\ UNCHANGED <<disk, holder, pending, local, clock, ghost>>

\* The verdict of reserve(); a grant is appended and written before it is given.
Grant(p) ==
    /\ pc[p] = "decide"
    /\ Permitted(p)
    /\ view' = [view EXCEPT ![p] = @ \cup
         {[id |-> nextId, t |-> now[p].wall, a |-> air[p], r |-> now[p].real]}]
    /\ ticket' = [ticket EXCEPT ![p] = nextId]
    /\ nextId' = nextId + 1
    /\ Goto(p, "write")
    /\ why' = [why EXCEPT ![p] = "grant"]
    /\ UNCHANGED <<disk, holder, pending, first, now, air, clock, radiated, faulted>>

Refuse(p) ==
    /\ pc[p] = "decide"
    /\ ~Permitted(p)
    /\ Goto(p, "unlock")
    /\ why' = [why EXCEPT ![p] = "none"]
    /\ UNCHANGED <<disk, holder, pending, local, clock, ghost, faulted>>

\* The finally clause: release the flock, then return or raise.  Should LOCK_UN
\* fail, closing the descriptor releases it, and DutyError withholds the grant.
Unlock(p) ==
    /\ pc[p] = "unlock"
    /\ holder' = NoOne
    /\ \/ why[p] = "grant" /\ Goto(p, "granted") /\ UNCHANGED <<why, local>>
       \/ Return(p)
    /\ UNCHANGED <<disk, pending, clock, ghost, faulted>>

\* reserve() returned (True, ""): the caller keys up (interface.py, _transmit).
Transmit(p) ==
    /\ pc[p] = "granted"
    /\ radiated' = radiated \cup {[id |-> ticket[p], a |-> air[p], r |-> now[p].real]}
    /\ Return(p)
    /\ UNCHANGED <<disk, holder, pending, clock, nextId, faulted>>

-----------------------------------------------------------------------------
(* The environment                                                         *)

\* A process dies; the kernel closes its descriptors and drops its flock.
Crash(p) ==
    /\ pc[p] # "idle"
    /\ Return(p)
    /\ pending' = [pending EXCEPT ![p] = FALSE]
    /\ holder' = IF holder = p THEN NoOne ELSE holder
    /\ faulted' = TRUE
    /\ UNCHANGED <<disk, clock, ghost>>

\* Power loss: what was not synced may or may not be there afterwards, the
\* monotonic clock restarts and the wall clock comes up at some offset.
Reboot ==
    /\ boot < MaxBoots
    /\ ledger' \in {ledger, durable} /\ durable' = ledger'
    /\ lockFile' \in {lockFile, lockDurable} /\ lockDurable' = lockFile'
    /\ boot' = boot + 1 /\ bootReal' = real
    /\ offset' \in Offsets
    /\ pc' = [p \in Procs |-> "idle"] /\ why' = [p \in Procs |-> "none"]
    /\ first' = [p \in Procs |-> FALSE] /\ pending' = [p \in Procs |-> FALSE]
    /\ now' = [p \in Procs |-> NoTime] /\ view' = [p \in Procs |-> {}]
    /\ air' = [p \in Procs |-> Status] /\ ticket' = [p \in Procs |-> 0]
    /\ holder' = NoOne
    /\ faulted' = TRUE
    /\ UNCHANGED <<real, ghost>>

\* An NTP correction.
StepClock ==
    /\ StepInside \/ holder = NoOne
    /\ offset' \in Offsets \ {offset}
    /\ UNCHANGED <<disk, holder, pc, why, pending, local, real, boot, bootReal, ghost, faulted>>

Tick ==
    /\ real < MaxReal
    /\ real' = real + 1
    /\ UNCHANGED <<disk, holder, pc, why, pending, local, offset, boot, bootReal, ghost, faulted>>

\* Someone or something else removes, truncates or damages the ledger, outside
\* a critical section and outside the seconds of a first use (a creator that
\* waits for the flock would take a ledger removed meanwhile for a fresh one).
Damage ==
    /\ ledger.kind = "ok" /\ holder = NoOne
    /\ \A p \in Procs : ~first[p]
    /\ \E kind \in {"missing", "corrupt"} : ledger' = NoLedger(kind) /\ durable' = NoLedger(kind)
    /\ faulted' = TRUE
    /\ UNCHANGED <<lockFile, lockDurable, holder, pc, why, pending, local, clock, ghost>>

-----------------------------------------------------------------------------
Work(p) ==
    \/ CreateLock(p) \/ AwaitLedger(p) \/ AwaitTimeout(p) \/ Flock(p) \/ FlockTimeout(p)
    \/ ReadLedger(p) \/ ReadFresh(p) \/ ReadFails(p)
    \/ Replace(p) \/ SyncDir(p) \/ WriteFails(p)
    \/ Grant(p) \/ Refuse(p) \/ Unlock(p) \/ Transmit(p)

Call(p) == OpenUsage(p) \/ \E a \in Airtimes : OpenLock(p, a)

Environment == Reboot \/ StepClock \/ Tick \/ Damage

Next == (\E p \in Procs : Call(p) \/ Work(p) \/ Crash(p)) \/ Environment

Spec == Init /\ [][Next]_vars

\* The operating system schedules a process that can run.
FairSpec == Spec /\ \A p \in Procs : WF_vars(Work(p))

-----------------------------------------------------------------------------
(* Properties                                                              *)

Sum(packets) == MapThenSumSet(LAMBDA x : x.a, packets)
InWindow(window) == {x \in radiated : real - x.r < window}
ClockOffset(ev) == ev.wall - ev.at
Holds(p) == pc[p] \in {"read", "write", "sync", "decide", "unlock"}

\* Types of the variables of duty.py's ledger, locals and clocks.
TypeOK ==
    /\ lockFile \in BOOLEAN /\ lockDurable \in BOOLEAN /\ faulted \in BOOLEAN
    /\ ledger \in Ledger /\ durable \in Ledger
    /\ holder \in Procs \cup {NoOne}
    /\ pc \in [Procs -> {"idle", "create", "exists", "flock", "read", "write", "sync",
                         "decide", "unlock", "granted"}]
    /\ why \in [Procs -> {"none", "init", "rebase", "grant"}]
    /\ first \in [Procs -> BOOLEAN] /\ pending \in [Procs -> BOOLEAN]
    /\ now \in [Procs -> [wall : Int, real : Nat]]
    /\ view \in [Procs -> SUBSET Entry]
    /\ air \in [Procs -> Airtimes \cup {Status}] /\ ticket \in [Procs -> Nat]
    /\ real \in Nat /\ offset \in Offsets /\ boot \in Nat /\ bootReal \in Nat
    /\ nextId \in Nat \ {0}
    /\ radiated \subseteq [id : Nat, a : Airtimes, r : Nat]

\* The legal limit of reserve(): the airtime granted and used in any real (not
\* wall-clock) long window stays within the budget, whatever crashed in
\* between and whatever the wall clock showed.
RealBudget == Sum(InWindow(LongWindow)) <= LongBudget

\* The burst guard of reserve(): two or more packets of one real short window
\* stay within the short budget together (a lone packet may exceed it).
BurstGuard ==
    Cardinality(InWindow(ShortWindow)) > 1 => Sum(InWindow(ShortWindow)) <= ShortBudget

\* reserve() persists before it grants and prunes only what is really old: a
\* packet radiated less than a long window ago is in the ledger everyone reads
\* and in the one a power loss would leave.
Charged ==
    \A x \in InWindow(LongWindow) : \A l \in {ledger, durable} :
        l.kind = "ok" => \E e \in l.entries : e.id = x.id /\ e.a = x.a

\* _rebase(): measured by the evidence stored with them, no entry of a ledger
\* looks older than it really is, over clock steps, crashes and boots.
LedgerNotOlder ==
    \A l \in {ledger, durable} : l.kind = "ok" =>
        \A e \in l.entries : l.clock.wall - e.t <= l.clock.at - e.r

\* _read() with _rebase(): no written ledger lies further in the future of its
\* own evidence than the skew, so the future check never locks the radio out
\* unless the wall clock is set back afterwards.
StampsPlausible ==
    \A l \in {ledger, durable} : l.kind = "ok" =>
        \A e \in l.entries : e.t <= l.clock.wall + Skew

\* _rebase() within one boot: between two evidences an entry ages by exactly
\* the real time between them, so steps neither wipe it nor pin it.
AgesExactly ==
    [][ledger.kind = "ok" /\ ledger'.kind = "ok" /\ ledger'.clock.boot = ledger.clock.boot
        => \A e \in ledger.entries, f \in ledger'.entries : f.id = e.id =>
               (ledger'.clock.wall - f.t) - (ledger.clock.wall - e.t)
                    = ledger'.clock.at - ledger.clock.at]_vars

\* The account reserve() promises (AirtimeAccount): the entries of the real long
\* window, the reservations written and not yet radiated, and real time.
Account == INSTANCE AirtimeAccount WITH
    Ids <- 1..(MaxGrants + Cardinality(Procs)),
    time <- real,
    usable <- ledger.kind = "ok",
    booked <- {[id |-> e.id, a |-> e.a, r |-> e.r] :
                  e \in {f \in ledger.entries : real - f.r < LongWindow}},
    outstanding <- {[id |-> ticket[p], a |-> air[p], r |-> now[p].real] :
                  p \in {q \in Procs : why[q] = "grant" /\ pc[q] \in {"sync", "unlock", "granted"}}},
    onAir <- radiated

\* reserve() and _write() under the flock book a packet in one step against the
\* real window: no other process, crash, power loss or damage of the file in
\* between lets a packet out that the account does not hold.
Refines == Account!Spec

\* First use: as long as nothing failed, a lock file without a ledger has a
\* creator that is about to write the ledger; a refused first packet never
\* leaves the account unusable.
FirstUseCompletes ==
    lockFile /\ ledger.kind = "missing" /\ ~faulted =>
        \E p \in Procs : first[p] /\ pc[p] \in {"flock", "read", "write"}

\* _flock()'s and _open_locked()'s bounded waits: every call returns.
ReserveReturns == \A p \in Procs : pc[p] # "idle" ~> pc[p] = "idle"
===============================================================================
