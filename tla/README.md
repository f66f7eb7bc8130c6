# Verification of the LoRaHAM RNS interface

TLA+ models of `loraham_rns`, a Reticulum (RNS) interface that drives an SX127x
or SX1262 LoRa radio over SPI from Python threads, keeps a legal airtime budget
in a file shared by processes, speaks the RNode air framing, and runs as a
service that other programs attach to. TLC checks the models on small
instances; TLAPS proves the theorems in the `*Proofs` modules for every value
of the constants.

Run a check with `tlc -config MCInterface.cfg MCInterface`, a proof with
`tlapm InterfaceProofs.tla`.

## The system

| part | state | operations | talks to |
|---|---|---|---|
| duty account (`duty.py`) | lock file, ledger (`airtime.json`: entries and clock evidence), kept over boots | `reserve()`, `usage()` | file system, wall and monotonic clock, other processes; called by the TX worker before every packet |
| framing (`framing.py`) | one pending half, a drop counter | `frame()`, `Reassembler.feed()` | the air, RNode firmware on the other side |
| interface workers (`interface.py`) | queue, two events, radio lock, `_run`, `online`, `fatal` | `process_outgoing()`, `_rx_loop()`, `_tx_loop()`, `_transmit()`, `_fail()`, `detach()` | RNS threads, radio driver, duty account |
| radio drivers (`radio.py`, `sx127x.py`, `sx126x.py`) | the chip's mode, flags and registers, the TX-enable line | `poll_rx()`, `transmit()`, `start_rx()`, `configure()`, `probe()` | SPI bus, GPIO lines |
| SPI bus (`spibus.py`) | process-shared lock, chip select, three descriptors | `__init__()`, `xfer()`, `close()` | other daemons on the bus; called by the drivers |
| service runner (`node.py`) | ready marker, exit status | `main()` and its signal handler | RNS, the interface, whoever reads the marker |
| client launcher (`client.py`) | none | `instance_present()`, `main()` | the shared instance |
| RF log (`rflog.py`) | one log file and its previous segment | `open()`, `rx()`, `tx()`, roll-over, `close()` | both workers, a controller that truncates it |
| policy (`interface.py`) and profiles (`profiles.py`) | tables | `duty_ceiling()`, `resolve()`, the checks of `__init__()` | drivers and bus, which they configure |
| location plugin (`lhpc_location.py`) | one fix, the telemetry sensor | `start()`, `stop()`, `update_telemetry()`, the reader thread | gpsd, a serial device, a FIFO; Sideband |
| plugin switch, loader shim | none | one sequential function each | - |

Where it is hard: processes that share a ledger through a file, with power
losses and a stepped wall clock between their steps; four kinds of threads over
one half-duplex chip, where `transmit()` runs without the radio lock; a chip
that receives between two bus transfers; a bus whose descriptors are closed
under a transfer and whose lock a peer may keep; fragments of several stations with a
4-bit sequence on a lossy channel; signals between any two statements of a
service whose only report is a marker file; shutdown and faults at the same
time; settings edited by hand that end in registers. `PROJECT.json` lists these hazards line by line with the properties that
would catch them.

## Modules

| module | models | proofs |
|---|---|---|
| `DutyLedger` | `duty.py`, and the `reserve()`/`transmit()` order of `_transmit()` | `DutyLedgerProofs` |
| `AirtimeAccount` | what `reserve()` promises, without files, locks and clocks; `DutyLedger` implements it | `DutyLedgerProofs` |
| `Framing` | `framing.py` and, beside it, the firmware's receiver it describes | `FramingProofs` |
| `Policy` | `duty_ceiling()`, band, segment and board tables, `resolve()`, and what they mean on the air | `BringupProofs` |
| `Bringup` | `__init__()` of the interface, the bus and the drivers' `configure()` (extends `Policy`) | `BringupProofs` |
| `Interface` | the threads of `interface.py` after a successful `__init__` | `InterfaceProofs` |
| `RadioDriver` | `poll_rx()`, `transmit()`, `start_rx()` of both drivers over a chip | `RadioDriverProofs` |
| `SpiBus` | `xfer()` and `close()` of `spibus.py`, and a peer daemon | `TeardownProofs` |
| `RfLog` | `rflog.py` with two writers and a controller | `TeardownProofs` |
| `Teardown` | both workers over `SpiBus` and `RfLog` while `detach()` closes them (extends both) | `TeardownProofs` |
| `Node` | `node.py` and `client.py` | `NodeProofs` |
| `Location` | `lhpc_location.py` | `LocationProofs` |

Each component has an `MC` module and one or more `.cfg` files. The modules
describe the same system at different places. `Bringup` ends where `Interface`
starts. `Interface` takes each radio operation as one step that may raise, and
shows that operations never overlap (`RadioExclusive`); `RadioDriver` opens one
operation into its bus transfers, and `Teardown` opens one transfer into its
lock, chip select and wire, and both rely on just that. `Interface` takes
`reserve()` as one step that grants or gives up; `DutyLedger` opens it, and
`Refines` shows that it books in one step indeed.

### DutyLedger

A process is at a place `pc` inside `reserve()` or `usage()`: `create`/`exists`
(`_open_locked()`), `flock`, `read`, `write` (up to the rename), `sync` (the
directory fsync), `decide`, `unlock`, `granted` (before it transmits). `ledger`
is the file others see, `durable` the one a power loss may leave: the rename is
visible at once and durable after the fsync. The code's percentages are airtime
budgets per window. Stamps are wall-clock times; `real` is the time the law
means and no code can read; a packet counts from the moment its grant was
computed, and the delay until it is on the air is not charged. The monotonic clock restarts at a boot.

- A crash leaves the files and frees the flock. A reboot picks, for lock file
  and ledger, the visible or the durable one, and a wall-clock offset.
- `Damage` removes or corrupts the ledger outside of critical sections and
  first uses: between `O_EXCL` and the creator's write a removed ledger cannot
  be told from one that never was.
- `LOCK_UN` may fail at the end of `reserve()`: the descriptor is closed all the
  same, which frees the flock, and `DutyError` withholds a grant already booked.
- Offsets of the wall clock are equal or further apart than `CLOCK_SKEW_S`:
  steps the code treats as jitter are left out (`DutyAssumption`).
- `StepInside` says whether the wall clock may be stepped while the flock is
  held. The passing runs and the theorems that say so assume it is not;
  `duty_step_inside` shows what happens if it is.

`Refines` maps the ledger to `AirtimeAccount`: a reservation is booked by the
rename that makes it visible, counts while it is in the real long window, and
is outstanding between its grant and its transmission. The mapping is stated in
`DutyLedger` (`Account`).

The docstring of `_rebase()` (duty.py:185-186) describes an older behaviour
than the comment at duty.py:191-197 and the code; the model follows the code.

### Framing

A byte is a pair (packet, position), so a packet glued from two others is
visible as such. `Send` cuts a packet with `frame()`; stations' frames
interleave in any way and any frame may be lost. `Hear` is `feed()`, whole:
trailer, stale half, fragment and whole-packet rules, with the counter. The
firmware's receiver sees the same frames; `guarded` remembers that a rule the
firmware lacks has discarded something.

### Interface

Each thread has a place; a step is one statement, or a run of statements no
other thread can tell apart. The test and the append of `process_outgoing()`
are two steps, and so are `wait()` and `clear()`; each flag `_fail()` sets
(`_run`, the event, `online`, `fatal`) and each closing of `detach()` is a step of
its own. A packet has one or two frames. A refused
reservation is retried without changing any state, so only the ends of that
loop are actions. `_radio_lock` is re-entrant in the code but never taken twice.
Every use of the radio raises if the hardware broke or `detach()` closed it.
`_tx_active` is what keeps the RX loop off the chip during `transmit()`; the
comment at interface.py:178-179 speaks of the lock alone.

### Bringup and Policy

One action per statement of `__init__()` that can refuse, in the code's order:
profile, IFAC pair, policy, framing and preamble, log, bus, lines, reset, TCXO
and its fallback, probe, registers, `start_rx()`, workers. Settings are chosen
where the code first reads them; the hardware's facts (what the SPI controller
answers, what crystal is soldered) where they first matter. A refusal is
`Refuse`, from which nothing runs. Register arithmetic is exact: the synthesiser
word, the bandwidth code and the coding rate that shares its register on the
SX127x, the two preamble bytes, the power clamp. `Accepted` is the code's test
(a segment that holds the whole channel); `Legal` says the same of the points
of the air a channel covers, with the gaps kept for alarm systems written down
separately, so that a mistake in either shows.

Coding rates are integers of any size and sign, as in the code, which checks
neither end; `RateBits` is what `((cr - 4) << 1) & 0xFF` leaves in the upper half
of the register. Zero divides by zero, in `rnode_preamble()` with framing on and
in `bitrate()` at the latest. Spreading factors are 5 to 12: only the SX127x
refuses small ones, and neither driver checks the upper end. A TCXO may fail to
start although it is fitted; the fallback that follows is not read back, so on a
board without a crystal it ends with no clock.

### SpiBus, RfLog and Teardown

`xfer()` is a sequence of places (`lock`, `select`, `start`, `wire`,
`deselect`, `unlock`); each may raise, and the places left show what the
`finally` clauses still do. `close()` closes spidev, chip select and lock in
that order, also in the middle of a transfer. After it the number of the lock's
descriptor may belong to another file of the process, so that `flock()` seems
to succeed (`AcquireReused`). The peer keeps the same contract and may keep the
lock for ever. `LOCK_UN` may raise on the open descriptor too (`ReleaseFails`):
the lock then stays with us, marked by `stuck`, until a later `LOCK_UN` or the
closing of the descriptor. `excused` marks what no code of ours can prevent: a
descriptor that `close()` took from a transaction under way, or a chip select
line that fails in our hands.

The log is a sequence of half lines, since `os.write()` may be partial. `_write()`
opens into the size check, the copy piece by piece, the truncation and the
write; the controller's `Clear` falls between any two of them.

In `Teardown` the workers use the bus and log their lines, faults end them, and
`detach()` closes both. The test of `_run` and the taking of the radio are two
steps, so both workers can be past the test when `_run` is cleared; the one that
waited then uses the radio all the same. `_fail()` is one step with the leaving of
the radio, since `Interface` has its statements apart. That only one worker uses the radio at a time is taken
from `Interface`, which also has the release of the GPIO lines by
`radio.close()`.

### Location

The reader thread of gpsd, a serial device or a FIFO, over outages, a source
that returns, and corrections of the clock; `update_telemetry()` and
`current()`; a fixed position. A fix is when it was received, by the wall clock
and really. Parsing is the choice between a valid position and nothing.

### RadioDriver

One disjunct per bus transfer, or per run of transfers the chip cannot tell
apart. The drivers differ in the flags `poll_rx()` clears (fixed ones, or those
it read), in whether length and address arrive together, and in what
`transmit()` clears when it is done; `family` chooses. The chip may complete a
packet between any two transfers while it is in receive mode, and its sending
at any time. Any transfer may raise; what it was to do may then have happened.
The worker that gets the exception ends, the other may still use the chip. The
SX1262's own TX timeout is disabled by the command the driver sends, so only
the software deadline is there. The board has a TX-enable line; on boards
without one `set_txen()` does nothing.

### Node

`main()` from statement to statement, in order: clear the marker, exposure
check, `Reticulum()`, ownership, interface, SIGTERM handler, listener, marker,
`try`, loop, `finally`. SIGTERM, SIGINT and SIGKILL may arrive at any of them
and do what they do there (default action before the handler is installed,
`SystemExit` after it, `KeyboardInterrupt` inside and outside the `try`). RNS
is external: `Reticulum()` makes the launch owner, client or standalone, and
its own handlers are not modelled. A client probes, and becomes an RNS instance
some time later. The probe finds a listener on the instance's address: the owner,
or a foreign process with a plain socket there (client.py:40-43), which comes and
goes (`ForeignListener`). `lost` is kept per client and reset by its probe: what
that probe found has ended since. `_clear_ready()` may fail, at the start and in
the `finally`.

## Runs

| run | checks | distinct states |
|---|---|---|
| `duty_clock` | One process over clock steps, a crash, a power loss, damage. `RealBudget` and `BurstGuard` bound what is radiated in real windows; `Charged` says no recent packet is missing from either ledger; `LedgerNotOlder`, `AgesExactly`, `StampsPlausible` say how stamps follow a stepped clock. | 2.1 M |
| `duty_race` | Two processes over lock file, first use, flock, failed writes, damage, a power loss. `Refines` (the ledger implements `AirtimeAccount`); `FirstUseCompletes`; `ReserveReturns` (liveness). | 0.19 M |
| `framing` | Two stations, one an RNode. `Conservation` (the drop counter is exact), `GluedBackToBack`, `ChimeraNeedsCollision`, `LostOnlyByCollision`, `FirmwareUntilGuard`. | 3.3 M |
| `bringup` | Every board, setup name, band edge, power, duty, bus and oscillator. `OnAirLegal` (the registers of a running interface are permitted), `BusProven` (no other board's chip select follows us), `ReceiverReady` (it listens, with an RNode's preamble, and with a running oscillator if there is one that starts). | 2.9 M |
| `interface` | The RX and the TX worker, two callers, `detach()`. `RadioExclusive`, `Listening`, `QueueBounded`, `FatalIsReal`, `AtMostOneAfterStop`; liveness `WorkersStop`, `QueueMoves`, `FaultGoesOffline`. | 0.18 M |
| `radio` | Both drivers. `PollExact` (each intact packet once, in order, with its own bytes, unless packets overrun each other or a transmission cleared its flag), `ConfirmedWasAired`, `TxenReleased`. | 2.9 M |
| `shutdown` | Both workers, bus, log, peer, controller, `detach()`. `PeerUndisturbed`, `LockReturned`, `LinesWhole`, `Retained`; liveness `CallsReturn`. | 1.2 M |
| `node` | Two launches one after the other, two clients and a foreign listener. `ReadyMeansOwner`, `NoBorrowedReadiness`, `ClientNeverFirst`; liveness `RadioLossEnds`. | 0.48 M |
| `location` | `NoParkedPosition` (nothing older than `max_age` is shown); liveness `ReaderEnds`, `Recovers`. | 0.45 M |

Three runs end in a counterexample. Each checks one sentence of the code's
comments:

- `duty_step_inside` (`RealBudget`): `reserve()` reads `now` and rebases before
  the write, `_write()` takes the clock evidence later. A step in between is
  stored as if it had been accounted for, the entries age out at once, and the
  budget is granted twice. The moment is short (the file system work of one
  write), but the first NTP correction after a boot is when it matters.
- `node_term` (`TermClearsMarker`): SIGTERM between `_set_ready()` and the
  `try`, or again inside the `finally`, leaves the marker behind.
- `bringup_edit` (`OnAirLegal`): the coding rate is not range-checked, and on
  the SX127x a value outside of 4..11 (modulo 128) sets bits of the bandwidth
  field: 12 makes the channel on the air wider than the one the policy accepted,
  3 sets all four bits, a code without a bandwidth. `OnAir` (below) shows that
  whatever else is configured, a coding rate that leaves these bits alone keeps
  the channel legal.

### Known limits and small divergences, without a run of their own

- framing.py:20-21 says the reassembler "never delivers anything the firmware
  would not". Discarding a stale half changes which later fragments are paired,
  so after such a discard it can deliver a genuine packet the firmware does not;
  `FirmwareUntilGuard` states where the two agree.
- node.py:104: the radio is checked before the wait for the listener and not
  again before the marker is written; the loop notices at most
  `CHECK_INTERVAL_S` later (`RadioLossEnds`).
- node.py:166-167: with overlapping launches the marker of a predecessor that
  was still starting can appear after it was cleared. Without overlap (a service
  manager that waits for the old process) `NoBorrowedReadiness` holds.
- `usage()` lets the `DutyError` of a busy lock through; tests/test_audit_round4.py:83
  calls it contracted never to raise.
- rflog.py:138: opening `.1` for writing empties it before the copy, so a copy
  that fails there has lost the older segment. `Retained` covers the
  lines that were in the live file when the last roll-over began, and later ones.
- lhpc_location.py:64-65 says 0,0 is rejected; `_valid_position()` accepts it.
- A serial device that is unplugged may be read for ever without being reopened
  (lhpc_location.py:116 speaks of reconnecting); see `Recovers`.
- A board without a crystal whose TCXO does not start, be it dead or late, goes
  online without a clock (sx126x.py:113-128: the fallback is not read back).
  `ReceiverReady` excepts just that: the TCXO failed and there is no crystal.
- client.py:40-43: the probe proves a listener, not an instance. A plain socket on
  the instance's address lets a client start, and when that socket goes before the
  client's own `Reticulum()`, the client becomes the owner. `ClientNeverFirst`
  says of both, owner and plain socket, that one must have ended in between.
- spibus.py:241-246: a failed `LOCK_UN` leaves the daemon's bus lock with us. The
  worker ends and the interface goes offline, but the lock is only given back by
  `close()` (`detach()`) or the end of the process. `LockReturned` says that no
  other failure keeps it and that the interface stops.
- node.py:45-48: a marker that cannot be removed in the `finally` survives the
  node; the exit says so.
- The preamble setting (interface.py:156) is not range-checked; two bytes of it
  reach the chip (`PreambleWritten`).
- After `close()` a transfer may lock a file that got the lock's descriptor
  number; spidev is closed first, so nothing is on the wire (`PeerUndisturbed`).

### Bounds, and why they are enough

- `duty_clock`: `MaxReal` 4 exceeds the long window 3, so entries age out of
  both windows within a run; budgets 2 and 3 with airtimes 1 and 2 reach both
  limits exactly and beyond. Two grants suffice for the budget to be broken by
  a forgotten entry, one boot for evidence of another boot. The offsets contain
  a forward and a backward step larger than the skew.
- `duty_race`: both processes can be in the first use, in the wait for the
  creator and in the flock at once; clocks are still, because `duty_clock`
  moves them.
- `framing`: three packets of one or two frames from two stations with two
  sequences: a collision of sequences between stations, a lost half, an
  interleaved whole packet, a trailer and a stale half (time 2, age 1) all
  occur. Sequences are interchangeable (symmetry).
- `interface`: a queue of one makes the cap and the race of two callers over
  it happen; three packets of up to two frames cross every other step.
- `radio`: three packets can overrun each other or not, before, in and after
  two frames, the second of which follows a timed-out one.
- `node`: two launches are a predecessor and a successor, also after a marker
  from before and with a foreign process on the port or on the instance's
  address; two clients can check before one of them takes over, and each again
  after that.
- `shutdown`: each worker can be in a transfer or in a log line when `detach()`
  closes them; a line from before and two new ones over a file of one and a half
  lines make two roll-overs; one transfer per operation, since a second begins
  where the first began.
- `bringup`: frequencies at the segments' edges, at the places where a channel
  of 125 kHz just fits, and in the middle of the 250 kHz segment, with
  bandwidths that fit there and do not; powers and duties at and one beyond the
  limits; coding rates 5, 11 (the last that keeps to its bits) and 0. `OnAir`
  removes these bounds.
- `location`: `MaxTime` 5 lets a fix outlive `MaxAge` 2 and the source come
  back; offsets of 2 in both directions hide or double just that age.

Deadlock is checked in the duty runs. The others may stop: every worker has
ended, or a bound is reached.

### Fairness

- `DutyLedger`: weak fairness of each process's own steps (the scheduler).
  Locks are not assumed to be granted: `FlockTimeout` and `AwaitTimeout` end
  the waits, as in the code.
- `Interface`: weak fairness of each worker, of a caller that has begun, and of
  a `detach()` that has begun; strong fairness of taking the radio lock, which
  the RX loop leaves for up to 0.1 s in every round. The one second timeout of
  the TX worker's wait is possible but not assumed, so `QueueMoves` shows that
  no wake-up is lost. Nobody is assumed to call `detach()`.
- `Node`: weak fairness of `main()`, whose waits all have timeouts.
- `Teardown`: one weak fairness condition over all steps of our own threads
  together (some thread that can run does), nothing for the peer or the
  controller. The workers' loops are bounded by `MaxLines`, so this suffices.
- `Location`: weak fairness of the reader, whose reads and pauses have timeouts;
  a FIFO's `open()` without a writer is not enabled.

## Proofs

Every invariant the passing runs check is also proved, and so are the action
property `AgesExactly` and the refinement `Refines`. The theorems are
`Spec => []P` by an inductive invariant, one step per action, from the modules'
named assumptions about their constants only, and from the hypotheses given
here.

### Duty account

Where it says *no step inside*, the theorem supposes `~StepInside`: no wall-clock
step while the flock is held. Without it the statements are false
(`duty_step_inside`).

- `TypeCorrect` (`TypeOK`). Strengthened by `AirOK`: only a reservation, never a
  status read, gets past the read, so what is recorded is an airtime.
- `NeverOlder` (`LedgerNotOlder`), no step inside. `AgeInv` adds: who is inside
  the critical section holds the flock (`LockOK`); each ledger's evidence is
  consistent with the clocks of its boot and its entries are not older than they
  look by it (`LedgersOK`); a process's `now` is a reading of the present offset
  (`NowOK`); and its entries, rebased to the present clock, are not older than
  they look (`ViewOK`). Without the last two a write could store entries of one
  clock beside evidence of another, which is exactly the counterexample.
- `FirstUse` (`FirstUseCompletes`), with `CreatorPays`: only a reservation
  creates the lock file, so its creator does not leave without writing.
- `NeverAhead` (`StampsPlausible`), no step inside, from `StampInv`: what a
  process is about to write is no further ahead of the clock than the skew.
- `ExactAges` (`AgesExactly`, an action property), no step inside. `ExactInv`:
  an entry's number is its own, the durable ledger is an earlier state of the
  visible one, and what a process holds means the same moments as the ledgers of
  this boot (`SameMoment`); `RebaseShift` says `_rebase()` moves all entries by
  what the clock was stepped by.
- `AlwaysCharged` (`Charged`), no step inside, from `BookInv`: what was cleared
  to be sent within a long window is in both ledgers and in the entries of
  whoever is about to write (`ChargedAll`). It needs that the sync is of the
  ledger just renamed (`SyncOK`), and that the lock file survives a power loss
  from the first grant on (`LockKept`): else a lost ledger would be taken for a
  first use.
- `WithinBudget` (`RealBudget`) and `NoBurst` (`BurstGuard`), no step inside, from
  `BudgetInv`: the entries of both ledgers, of every writer, and what was cleared
  keep within the limits by real time. `UsedCovers`: the verdict counts at least
  the entries of the real window, since none looks older than it is. The packets
  of the window map one to one into the ledger (`BookedFine`), so they sum to no
  more (`SumInto`). `NoBurst` also supposes `ShortWindow <= LongWindow`, because
  the ledger is pruned to the long window; the interface uses the defaults of
  `duty.py`, 15 s and 3600 s, and the code does not compare them.
- `ImplementsAccount` (`Refines`), no step inside. `RefInv` adds to all of the above what
  the account holds of each ledger (`LedgerBooks`), of the entries before the
  verdict (`ViewBooks`) and after a grant (`GrantBooks`: it still fits however
  long the write takes), and that the numbers suffice (`IdsOK`). `RefStep` maps
  every action to a step of `AirtimeAccount` or to a stutter.

`MapThenSumSet` is a recursive function on subsets. What is needed of it
(`SumRec`, `SumRemove`, `SumInto`) is proved without an induction rule: a
counterexample would have a minimal one among the subsets of a finite set
(`MinimalSubset`).

### Framing

All for any number of stations, packets and losses.

- `AgreesWithFirmware` (`FirmwareUntilGuard`) and `CountedExactly`
  (`Conservation`), by what `Hear` does with each kind of frame.
- `BackToBack` (`GluedBackToBack`) and `LossNeedsCollision`
  (`LostOnlyByCollision`) from `GlueInv`: the pending half is the frame heard
  last, a fragment heard last is pending or completed a packet, and what can be
  glued was, unless its first half went into the packet before.
- `ChimerasCollide` (`ChimeraNeedsCollision`) from `OrderInv`: every frame on the
  air is a trailer or a piece of a packet sent, none is heard twice, and no second
  half before its first. So two halves of one packet glue to that packet.

### Interface workers

- `Exclusive` and `Listens` (`RadioExclusive`, `Listening`) from `RadioInv`: the
  lock is held by the thread inside it, `_tx_active` is up whenever the TX worker
  uses the chip and down whenever the RX loop polls, and the chip leaves receive
  mode only in the TX worker's hands.
- `FaultsAreReal` (`FatalIsReal`) from `FaultInv`: lines are closed only after
  `_run` was cleared, so a worker that sees an exception and `_run` still set has
  met a fault.
- `OneAfterStop` (`AtMostOneAfterStop`) from `LateInv`: after one late packet the
  TX worker has none in hand and no way to take another.
- `QueueIsBounded` (`QueueBounded`) from `QueueInv`: every caller between test and
  append has room reserved beyond the cap, less the one that found it short.

### Radio drivers

- `OnlyAiredConfirmed` (`ConfirmedWasAired`) from `SentInv`: `transmit()` keys a
  chip in standby without flags, so a TxDone it then sees is of its own frame.
- `TxenIsReleased` (`TxenReleased`, itself inductive).
- `PollsExactly` (`PollExact`) from `RxInv`: receive mode is left before the flags
  are cleared, so clearing TxDone takes no packet along (`Quiet`); the error flag
  is of the packet announced (`Flagged`); and what a poll has read is about the
  packet received last (`Collecting`). `PollExact` states "once and in order" as
  strictly increasing packet numbers whose set is `Due`.

### Bus and RF log under detach()

- `LockIsReturned` and `PeerIsUndisturbed` (`LockReturned`, `PeerUndisturbed`)
  from `BusInv`: a failed release has its exception on the way or `_run` is
  already cleared (`StuckStops`); the descriptors close in the order spidev, chip select, lock
  (`ClosingOrder`); who is inside a transaction with the lock's descriptor open
  holds the lock, and unless excused that descriptor is open on the wire and the
  chip is selected only around it (`LockHeld`). Without the order the transfer
  that locked a foreign file could reach the wire.
- `LinesStayWhole` and `LinesRetained` (`LinesWhole`, `Retained`) from `LogInv`:
  only the holder of `_lock` is inside `_write()` (`Serial`); a line not begun has
  nothing in the file (`LineNumbers`) and a half-written one stands at its end or
  was cleared (`Begun`); what was written since the last roll-over is in the live
  file (`DoneLive`); and the copy holds what it has passed, all of it before
  `ftruncate()`, with no line finished during it (`Copied`).

### Bring-up

- `OnAir` (`RateFits => OnAirLegal`), for every frequency, bandwidth, power, duty
  limit and coding rate. `RateFits` is a condition on the present state: the chip
  is not an SX127x, or the eight bits of its coding rate leave the bandwidth's
  alone. Without it the statement is false (`bringup_edit`). `AcceptedIsLegal`: a channel inside one
  segment, moved by a synthesiser step, shares no more than that step with
  anything apart from the segment, and segments and reserved ranges are pairwise
  apart. `NearestStep`: rounding to a step of 15625/256 or 15625/16384 Hz moves
  the frequency by at most 31 Hz. `CodeWritten` and `PowerKept`: the bandwidth
  code is read back as written, and clamping never raises the power above the
  band's. `AirInv` carries the accepted settings from the policy check to the
  registers.
- `BusIsProven` (`BusProven`), together with the fact that there is no bus before
  `SpiBus.__init__()`.
- `ReceiverIsReady` (`ReceiverReady`), for every coding rate too. `ClockInv`: the
  oscillator runs from the reset, its calibration or the fallback on, unless the
  fallback found no crystal, and the preamble in the chip is the one of the settings; `PreambleFits`: the one
  computed lasts for the target, no longer than it has to, and fits two bytes.

### Service runner, clients, location

- `ReadyIsOwner` (`ReadyMeansOwner`) from `ReadyInv`: what `main()` has
  established at each place about owner, port and marker, which nobody else takes
  away while the launch lives; overlapping launches included.
- `NothingBorrowed` (`NoBorrowedReadiness`), if launches do not overlap
  (`~Overlap`), from `CleanInv`: a launch that is starting has removed the marker
  and nobody else lives to write one. With overlap it is false (see the limits).
- `NeverFirst` (`ClientNeverFirst`): a client between its check and its start has
  a listener on the instance's address or has lost one since that check, and so
  finds it free only in the second case (`SeenOK`).
- `NeverParked` (`NoParkedPosition`) from `LocationInv`: unless the clock was set
  back, a fix is stamped no later than the present clock would stamp its
  reception, so the age it shows is not less than its real one.

### Only model-checked

The liveness properties (`ReserveReturns`, `WorkersStop`, `QueueMoves`,
`FaultGoesOffline`, `CallsReturn`, `RadioLossEnds`, `ReaderEnds`, `Recovers`):
they need fairness, which the prover does not reason about.

## Not modelled

- `time_on_air()`: floating-point arithmetic; the ledger takes its result as an
  airtime.
- Sync word, low-data-rate bit, PA rows, calibration bytes: constants written to
  registers that no later decision depends on.
- The plugin switch (`enable_sideband_plugins.py`), a one-shot edit of a file,
  and the loader shim (`LoRaSPIInterface.py`), one import and one assignment: no
  state and no second actor.
- Formatting, parsing, log texts, and the counters only logs read.
- Clock drift below `CLOCK_SKEW_S` that adds up over many writes, and the
  measure of `MAX_DUTY_HOLD` with a stepped clock: listed as hazards, without a
  property.

## Plan

The model is complete but for what the section above leaves out, and so are the
proofs of the safety properties. What is left is upkeep: a change of the code
first moves its action, then the run, then the invariant's step for that action.
