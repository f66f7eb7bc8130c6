-------------------------------- MODULE Bringup -------------------------------
(***************************************************************************)
(* The bring-up of loraham_rns/interface.py (__init__): configuration and  *)
(* policy, RF log, SPI bus (SpiBus.__init__), GPIO lines, configure() and  *)
(* start_rx() of both drivers, and the workers' start.  Each statement     *)
(* that can refuse is a step; settings and hardware are chosen where they  *)
(* are first read.  Interface starts where this module ends.               *)
(***************************************************************************)
EXTENDS Policy

CONSTANTS
    SetupNames,            \* "hardware" in the configuration
    Frequencies, Bandwidths, SpreadingFactors, CodingRates, Powers,
    Shorts, Longs,         \* airtime_limit_short and _long, 0 when absent
    PreambleSettings       \* "preamble", Default when absent

Default == 0

ASSUME BringupAssumption ==
    /\ Frequencies \subseteq Nat /\ Bandwidths \subseteq Nat \ {0}
    /\ SpreadingFactors \subseteq 5..12 /\ CodingRates \subseteq Int
    /\ Powers \subseteq Int /\ Shorts \subseteq Nat /\ Longs \subseteq Nat
    /\ PreambleSettings \subseteq Nat

VARIABLES
    stage,         \* the statement of __init__ that is next
    board,         \* preset of the hardware profile
    conf,          \* the settings read so far
    bus,           \* how SpiBus settled the chip select, and (ghost) the controller's facts
    chip           \* what the drivers have made of the radio

vars == <<stage, board, conf, bus, chip>>

profile == Presets[board]
NoBus == [mode |-> "none", cs |-> "none", noCs |-> "none", device |-> 0]
NoConf == [frequency |-> 0, bandwidth |-> 1, txpower |-> 0, short |-> 0, long |-> 0,
           sf |-> 7, cr |-> 5, framing |-> FALSE, asked |-> Default]
NoChip == [crystal |-> "none", clock |-> "stopped", mode |-> "any",
           frf |-> 0, bw |-> 0, dbm |-> 0, preamble |-> 0]

Init ==
    /\ stage = "profile" /\ board = "loraham433"
    /\ conf = NoConf /\ bus = NoBus /\ chip = NoChip

Go(next) == stage' = next
Refuse == Go("refused") /\ UNCHANGED <<board, conf, bus, chip>>

-----------------------------------------------------------------------------
(* The configuration                                                       *)

ResolveProfile ==
    /\ stage = "profile"
    /\ \E setup \in SetupNames, band \in Bands \cup {"other"} :
          \/ /\ Resolve(setup, band) # {}
             /\ board' \in Resolve(setup, band)
             /\ Go("ifac")
             /\ UNCHANGED <<conf, bus, chip>>
          \/ Resolve(setup, band) = {} /\ Refuse

\* A network name without its passphrase, or the reverse, is refused.
CheckIfac ==
    /\ stage = "ifac"
    /\ \E netname, passphrase \in BOOLEAN :
          IF netname = passphrase THEN Go("policy") /\ UNCHANGED <<board, conf, bus, chip>>
                                  ELSE Refuse

CheckPolicy ==
    /\ stage = "policy"
    /\ \E f \in Frequencies, w \in Bandwidths, p \in Powers, s \in Shorts, l \in Longs :
          LET c == [conf EXCEPT !.frequency = f, !.bandwidth = w, !.txpower = p,
                                !.short = s, !.long = l]
          IN  IF Accepted(profile.band, c)
              THEN conf' = c /\ Go("framing") /\ UNCHANGED <<board, bus, chip>>
              ELSE Refuse

\* rnode_preamble(): symbols for 24 ms, for 6 ms above 30 kbit/s, at least 18.
\* A negative coding rate makes a negative bit rate; zero divides by zero.
RnodePreamble(sf, bw, cr) ==
    LET fast    == cr > 0 /\ 4 * sf * bw > 30000 * cr * 2^sf
        target  == (IF fast THEN 6 ELSE 24) * bw
        symbols == (target + 1000 * 2^sf - 1) \div (1000 * 2^sf)
    IN  IF symbols < 18 THEN 18 ELSE symbols

Preamble(c) ==
    IF c.asked # Default THEN c.asked
    ELSE IF c.framing THEN RnodePreamble(c.sf, c.bandwidth, c.cr) ELSE 8

\* The switch rnode_framing is on, off or neither.  The coding rate is not looked
\* at, but with framing on its preamble is computed, asked for or not.
ChooseFraming ==
    /\ stage = "framing"
    /\ \/ \E sf \in SpreadingFactors, cr \in CodingRates, on \in BOOLEAN, p \in PreambleSettings :
             /\ on => cr # 0
             /\ conf' = [conf EXCEPT !.sf = sf, !.cr = cr, !.framing = on, !.asked = p]
             /\ Go("log")
             /\ UNCHANGED <<board, bus, chip>>
       \/ Refuse

\* "rf_log = yes" without a path, a relative path, or a file that cannot be opened.
OpenRfLog ==
    /\ stage = "log"
    /\ (Go("bus") /\ UNCHANGED <<board, conf, bus, chip>>) \/ Refuse

-----------------------------------------------------------------------------
(* SpiBus.__init__                                                         *)

\* The controller's cs-gpios property: empty (spi0-0cs), the two of the
\* supported boot configuration, others, a fragment of an entry; or unreadable,
\* and then either of the first two.
ControllerCs == {"empty", "ce0ce1", "others", "fragment", "hidden-empty", "hidden-ce0ce1"}
KernelCs == <<8, 7>>
PinsRead(cs) == IF cs \in {"ce0ce1", "others"} THEN cs ELSE "none"

\* Setting SPI_NO_CS sticks, is ignored, is rejected as unsupported, or fails.
NoCsOutcomes == {"set", "ignored", "unsupported", "error"}

ClaimProvesUnchecked(cs, noCs) == noCs \in {"set", "ignored", "unsupported"}
\* _enforce_no_kernel_cs(): the mode bit, or a property that is there and empty.
ClaimProves(cs, noCs) == noCs = "set" \/ (noCs \in {"ignored", "unsupported"} /\ cs = "empty")

\* _open_lock() and spidev's open() may raise; so may the claim of the line, and
\* does when the kernel owns it.
OpenBus ==
    /\ stage = "bus"
    /\ \E cs \in ControllerCs, noCs \in NoCsOutcomes :
          \/ /\ PinsRead(cs) = "ce0ce1" /\ \E i \in DOMAIN KernelCs : KernelCs[i] = profile.cs
             /\ bus' = [mode |-> "kernel-cs", cs |-> cs, noCs |-> noCs,
                        device |-> (CHOOSE i \in DOMAIN KernelCs : KernelCs[i] = profile.cs) - 1]
             /\ Go("lines") /\ UNCHANGED <<board, conf, chip>>
          \/ /\ PinsRead(cs) = "none" /\ ClaimProves(cs, noCs)
             /\ cs = "hidden-ce0ce1" => profile.cs \notin {8, 7}
             /\ bus' = [mode |-> "soft", cs |-> cs, noCs |-> noCs, device |-> 0]
             /\ Go("lines") /\ UNCHANGED <<board, conf, chip>>
          \/ Refuse

\* Radio.__init__: each request of a line may fail.  The crystal is the board's.
ClaimLines ==
    /\ stage = "lines"
    /\ \/ /\ \E x \in IF profile.tcxo THEN {"tcxo", "crystal", "dead"} ELSE {"crystal"} :
                chip' = [chip EXCEPT !.crystal = x]
          /\ Go(IF profile.family = "sx127x" THEN "reset127" ELSE "reset126")
          /\ UNCHANGED <<board, conf, bus>>
       \/ Refuse

-----------------------------------------------------------------------------
(* configure(): SX127x                                                     *)

\* SF6 is refused; then the reset, where it is wired, and sleep and standby.
Reset127 ==
    /\ stage = "reset127"
    /\ \/ /\ conf.sf >= 7
          /\ chip' = [chip EXCEPT !.mode = "standby", !.clock = "running"]
          /\ Go("probe")
          /\ UNCHANGED <<board, conf, bus>>
       \/ Refuse

(* configure(): SX1262                                                     *)

Reset126 ==
    /\ stage = "reset126"
    /\ \/ /\ chip' = [chip EXCEPT !.mode = "standby", !.clock = "stopped"]
          /\ Go(IF profile.tcxo THEN "tcxo" ELSE "probe")
          /\ UNCHANGED <<board, conf, bus>>
       \/ Refuse

\* _setup_tcxo(): the calibration starts the oscillator, or reports
\* XOSC_START_ERR, as it may of a TCXO that is fitted too.
SetupTcxo ==
    /\ stage = "tcxo"
    /\ \/ /\ chip.crystal = "tcxo"
          /\ chip' = [chip EXCEPT !.clock = "running"]
          /\ Go("probe")
          /\ UNCHANGED <<board, conf, bus>>
       \/ /\ chip' = [chip EXCEPT !.clock = "failed"]
          /\ Go("fallback")
          /\ UNCHANGED <<board, conf, bus>>
       \/ Refuse

FallbackUnreset ==
    /\ stage = "fallback"
    /\ (Go("probe") /\ UNCHANGED <<board, conf, bus, chip>>) \/ Refuse

\* The second initialisation, without the TCXO; its outcome is not read back.
Fallback ==
    /\ stage = "fallback"
    /\ \/ /\ chip' = [chip EXCEPT !.clock = IF chip.crystal = "crystal" THEN "running" ELSE "failed"]
          /\ Go("probe")
          /\ UNCHANGED <<board, conf, bus>>
       \/ Refuse

\* probe(): the version, or the sync word, is read back or the radio refused.
Probe ==
    /\ stage = "probe"
    /\ (Go("registers") /\ UNCHANGED <<board, conf, bus, chip>>) \/ Refuse

-----------------------------------------------------------------------------
(* configure(): the registers of both families                             *)

BwTable127 == [c \in 0..9 |-> <<7800, 10400, 15600, 20800, 31250, 41700, 62500, 125000, 250000,
                               500000>>[c + 1]]
BwTable126 == [c \in {0, 1, 2, 3, 4, 5, 6, 8, 9, 10} |->
                 CASE c = 0 -> 7810  [] c = 8 -> 10420  [] c = 1 -> 15630 [] c = 9 -> 20830
                   [] c = 2 -> 31250 [] c = 10 -> 41670 [] c = 3 -> 62500 [] c = 4 -> 125000
                   [] c = 5 -> 250000 [] c = 6 -> 500000]
BwTable == IF profile.family = "sx127x" THEN BwTable127 ELSE BwTable126
BwCodes == {c \in DOMAIN BwTable : BwTable[c] = conf.bandwidth}

\* Bitwise or of two 4-bit numbers.
Or4(a, b) ==
    LET bit(p) == IF (a \div p) % 2 = 1 \/ (b \div p) % 2 = 1 THEN p ELSE 0
    IN  bit(1) + bit(2) + bit(4) + bit(8)

\* The bandwidth's bits of ((cr - 4) << 1) & 0xFF: none of them for 4..11, all
\* of them for 3, one of them for 12.
RateBits(cr) == ((2 * (cr - 4)) % 256) \div 16

\* The code that reaches the chip: on the SX127x (bw << 4) | ((cr - 4) << 1)
\* shares one register, and nothing keeps the coding rate to its own bits.
BwWritten(code) ==
    IF profile.family = "sx127x" THEN Or4(code, RateBits(conf.cr)) ELSE code

\* round(frequency / FSTEP), FSTEP = 15625/256 Hz or 15625/16384 Hz, and the
\* frequency (in Hz, rounded down) the chip makes of it.
StepsPer == IF profile.family = "sx127x" THEN 256 ELSE 16384
Frf(f) == (f \div 15625) * StepsPer + ((f % 15625) * StepsPer + 7812) \div 15625
Synthesised(frf) == (frf \div StepsPer) * 15625 + ((frf % StepsPer) * 15625) \div StepsPer

Clamp(lo, hi, x) == IF x < lo THEN lo ELSE IF x > hi THEN hi ELSE x
TxPower == IF profile.family = "sx127x" THEN Clamp(2, 17, conf.txpower) ELSE Clamp(-9, 22, conf.txpower)

\* Two bytes of it reach the chip.
PreambleWritten == Preamble(conf) % 65536

\* Frequency, modem, preamble, sync word, power, interrupts; an
\* unsupported bandwidth is refused after the frequency was written.
WriteRegisters ==
    /\ stage = "registers"
    /\ \/ \E code \in BwCodes :
             /\ chip' = [chip EXCEPT !.frf = Frf(conf.frequency), !.bw = BwWritten(code),
                                     !.dbm = TxPower, !.preamble = PreambleWritten]
             /\ Go("start_rx")
             /\ UNCHANGED <<board, conf, bus>>
       \/ Refuse

StartRx ==
    /\ stage = "start_rx"
    /\ \/ /\ chip' = [chip EXCEPT !.mode = "rx"]
          /\ Go("online")
          /\ UNCHANGED <<board, conf, bus>>
       \/ Refuse

\* The bit rate is computed (a coding rate of zero ends here, at the latest);
\* online is set and the two worker threads start.
StartWorkers ==
    /\ stage = "online"
    /\ \/ conf.cr # 0 /\ Go("running") /\ UNCHANGED <<board, conf, bus, chip>>
       \/ conf.cr = 0 /\ Refuse

Next ==
    \/ ResolveProfile \/ CheckIfac \/ CheckPolicy \/ ChooseFraming \/ OpenRfLog \/ OpenBus
    \/ ClaimLines \/ Reset127 \/ Reset126 \/ SetupTcxo \/ Fallback \/ Probe \/ WriteRegisters
    \/ StartRx \/ StartWorkers

Spec == Init /\ [][Next]_vars

-----------------------------------------------------------------------------
(* Properties                                                              *)

Running == stage = "running"

\* Half a step of the SX127x synthesiser, in Hz, rounded up.
SynthesiserStep == 31

\* __init__ and configure(): what the registers of a running interface say is
\* permitted.  The channel as programmed lies (but for a synthesiser step) in
\* no reserved range, its duty limit is that of every segment it touches, and
\* its power is the band's: whatever the configuration asks for.
OnAirLegal ==
    Running => /\ chip.bw \in DOMAIN BwTable
               /\ Legal(profile.band, Synthesised(chip.frf), BwTable[chip.bw], chip.dbm,
                        conf.long, SynthesiserStep)

\* SpiBus.__init__: on a bus we use, no chip select of another board can follow
\* our transfers: either the kernel drives exactly our board's line, or the
\* controller cannot drive any.
BusProven ==
    bus.mode # "none" =>
        IF bus.mode = "kernel-cs" THEN bus.cs = "ce0ce1" /\ KernelCs[bus.device + 1] = profile.cs
        ELSE bus.noCs = "set" \/ bus.cs = "empty"

\* configure() with its fallback, and rnode_preamble(): a running interface
\* listens with a running oscillator, and hears an RNode: with framing on and no
\* preamble of the operator's, its preamble lasts at least the firmware's target
\* time and 18 symbols, and not a symbol more than that.  The one way to run with
\* no clock is a board without a crystal whose TCXO failed to start: nothing reads
\* back how the fallback ended.
ReceiverReady ==
    Running =>
        /\ chip.mode = "rx"
        /\ chip.clock = "running" \/ (chip.clock = "failed" /\ chip.crystal # "crystal")
        /\ conf.framing /\ conf.asked = Default =>
              LET duration(n) == n * 2^conf.sf * 1000
                  fast   == conf.cr > 0 /\ conf.sf * 4 * conf.bandwidth > 30000 * conf.cr * 2^conf.sf
                  target == (IF fast THEN 6 ELSE 24) * conf.bandwidth
              IN  /\ duration(chip.preamble) >= target /\ chip.preamble >= 18
                  /\ chip.preamble > 18 => duration(chip.preamble - 1) < target
===============================================================================
