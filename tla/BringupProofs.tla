----------------------------- MODULE BringupProofs ----------------------------
(***************************************************************************)
(* The bring-up of loraham_rns/interface.py: what is on the air is what    *)
(* the policy permits, for every frequency, bandwidth, power and duty of   *)
(* the configuration, whenever the coding rate keeps to its own bits.      *)
(***************************************************************************)
EXTENDS Bringup, TLAPS

(* The policy: what __init__ accepts is legal                              *)

LEMMA Segments433 ==
    /\ DOMAIN PermittedSegments("433") = {1}
    /\ PermittedSegments("433")[1] = [lo |-> 433050000, hi |-> 434790000, duty |-> 100]
BY DEF PermittedSegments

LEMMA Segments868 ==
    /\ DOMAIN PermittedSegments("868") = {1, 2, 3, 4, 5}
    /\ PermittedSegments("868")[1] = [lo |-> 863000000, hi |-> 865000000, duty |-> 1]
    /\ PermittedSegments("868")[2] = [lo |-> 865000000, hi |-> 868600000, duty |-> 10]
    /\ PermittedSegments("868")[3] = [lo |-> 868700000, hi |-> 869200000, duty |-> 1]
    /\ PermittedSegments("868")[4] = [lo |-> 869400000, hi |-> 869650000, duty |-> 100]
    /\ PermittedSegments("868")[5] = [lo |-> 869700000, hi |-> 870000000, duty |-> 10]
BY DEF PermittedSegments

\* duty_ceiling() answers with the duty of a segment the channel lies in.
LEMMA CeilingOfSegment ==
    ASSUME NEW band \in Bands, NEW f, NEW w, DutyCeiling(band, f, w) # NoCeiling
    PROVE  \E i \in DOMAIN PermittedSegments(band) :
              /\ Inside(PermittedSegments(band)[i], f, w)
              /\ DutyCeiling(band, f, w) = PermittedSegments(band)[i].duty
<1> DEFINE segments == PermittedSegments(band)
           fits == {i \in DOMAIN segments : Inside(segments[i], f, w)}
           first == CHOOSE i \in fits : \A j \in fits : i <= j
<1>1. DutyCeiling(band, f, w) = IF fits = {} THEN NoCeiling ELSE segments[first].duty
  BY DEF DutyCeiling
<1>2. fits # {} BY <1>1
<1>3. fits \subseteq {1, 2, 3, 4, 5}
  BY Segments433, Segments868 DEF Bands
<1>4. \E i \in fits : \A j \in fits : i <= j
  BY <1>2, <1>3
<1>5. first \in fits BY <1>4
<1> QED BY <1>1, <1>2, <1>5

\* Two ranges of frequencies share no more than an edge.
Apart(a, b) == a.hi <= b.lo \/ b.hi <= a.lo

LEMMA SegmentsApart ==
    ASSUME NEW band \in Bands, NEW i \in DOMAIN PermittedSegments(band)
    PROVE  /\ PermittedSegments(band)[i].lo \in Int /\ PermittedSegments(band)[i].hi \in Int
           /\ \A j \in DOMAIN PermittedSegments(band) :
                 i # j => Apart(PermittedSegments(band)[i], PermittedSegments(band)[j])
           /\ \A r \in Reserved(band) :
                 r.lo \in Int /\ r.hi \in Int /\ Apart(PermittedSegments(band)[i], r)
<1>1. CASE band = "433"
  BY <1>1, Segments433 DEF Apart, Reserved, BandPolicy
<1>2. CASE band = "868"
  BY <1>2, Segments868 DEF Apart, Reserved, BandPolicy
<1> QED BY <1>1, <1>2 DEF Bands

\* A channel that lies in a segment has nothing to do with what is apart from it,
\* nor has the same channel a synthesiser step away.
LEMMA InsideApart ==
    ASSUME NEW s, NEW r, s.lo \in Int, s.hi \in Int, r.lo \in Int, r.hi \in Int, Apart(s, r),
           NEW f \in Int, NEW w \in Int, NEW g \in Int, f - 31 <= g, g <= f + 31,
           Inside(s, f, w)
    PROVE  ~Overlaps(r, g, w, SynthesiserStep)
BY DEF Apart, Inside, Overlaps, SynthesiserStep

\* What the tests of __init__ accept is legal on the air.
LEMMA AcceptedIsLegal ==
    ASSUME NEW band \in Bands, NEW c, c.frequency \in Int, c.bandwidth \in Int,
           Accepted(band, c),
           NEW g \in Int, c.frequency - 31 <= g, g <= c.frequency + 31,
           NEW dbm, dbm <= BandPolicy(band).dbm
    PROVE  Legal(band, g, c.bandwidth, dbm, c.long, SynthesiserStep)
<1>1. DutyCeiling(band, c.frequency, c.bandwidth) # NoCeiling
      /\ c.long <= DutyCeiling(band, c.frequency, c.bandwidth)
  BY DEF Accepted
<1>2. PICK i \in DOMAIN PermittedSegments(band) :
            /\ Inside(PermittedSegments(band)[i], c.frequency, c.bandwidth)
            /\ DutyCeiling(band, c.frequency, c.bandwidth) = PermittedSegments(band)[i].duty
  BY <1>1, CeilingOfSegment
<1>3. \A r \in Reserved(band) : ~Overlaps(r, g, c.bandwidth, SynthesiserStep)
  BY <1>2, SegmentsApart, InsideApart
<1>4. ASSUME NEW j \in DOMAIN PermittedSegments(band),
             Overlaps(PermittedSegments(band)[j], g, c.bandwidth, SynthesiserStep)
      PROVE  c.long <= PermittedSegments(band)[j].duty
  <2>1. CASE j = i BY <2>1, <1>1, <1>2
  <2>2. CASE j # i
    <3>1. Apart(PermittedSegments(band)[i], PermittedSegments(band)[j]) BY <2>2, SegmentsApart
    <3>2. /\ PermittedSegments(band)[i].lo \in Int /\ PermittedSegments(band)[i].hi \in Int
          /\ PermittedSegments(band)[j].lo \in Int /\ PermittedSegments(band)[j].hi \in Int
      BY SegmentsApart
    <3> QED BY <1>2, <1>4, <3>1, <3>2, InsideApart
  <2> QED BY <2>1, <2>2
<1> QED BY <1>3, <1>4 DEF Legal

-----------------------------------------------------------------------------
(* The synthesiser: configure() programs the nearest step                  *)

\* Half a step of 15625/256 Hz, or of 15625/16384 Hz, and the rounding down.
LEMMA NearestStep ==
    ASSUME NEW f \in Nat, StepsPer \in {256, 16384}
    PROVE  /\ Synthesised(Frf(f)) \in Int
           /\ f - 31 <= Synthesised(Frf(f)) /\ Synthesised(Frf(f)) <= f + 31
<1> DEFINE q == f \div 15625
           r == f % 15625
           n == (r * StepsPer + 7812) \div 15625
<1>1. q \in Nat /\ r \in 0..15624 /\ f = 15625 * q + r OBVIOUS
<1>2. CASE StepsPer = 256
  <2> DEFINE x == Frf(f)
  <2>1. n \in 0..256 /\ 15625 * n <= r * 256 + 7812 /\ r * 256 + 7812 < 15625 * n + 15625
    BY <1>1, <1>2
  <2>2. x = q * 256 + n BY <1>2 DEF Frf
  <2>3. Synthesised(x) = (x \div 256) * 15625 + ((x % 256) * 15625) \div 256
    BY <1>2 DEF Synthesised
  <2> HIDE DEF q, r, n, x
  <2>4. x \in Nat BY <1>1, <2>1, <2>2
  <2>5. CASE n = 256
    <3>1. x \div 256 = q + 1 BY <1>1, <2>2, <2>4, <2>5
    <3>2. x % 256 = 0 BY <1>1, <2>2, <2>4, <2>5
    <3>3. Synthesised(x) = (q + 1) * 15625 + (0 * 15625) \div 256 BY <2>3, <3>1, <3>2
    <3> QED BY <1>1, <2>1, <2>5, <3>3 DEF x
  <2>6. CASE n < 256
    <3>1. x \div 256 = q BY <1>1, <2>1, <2>2, <2>4, <2>6
    <3>2. x % 256 = n BY <1>1, <2>1, <2>2, <2>4, <2>6
    <3>3. Synthesised(x) = q * 15625 + (n * 15625) \div 256 BY <2>3, <3>1, <3>2
    <3> DEFINE k == (n * 15625) \div 256
    <3>4. k \in Int /\ 256 * k <= 15625 * n /\ 15625 * n < 256 * k + 256 BY <2>1
    <3> HIDE DEF k
    <3>5. Synthesised(x) = q * 15625 + k BY <3>3 DEF k
    <3>6. r - 31 <= k BY <1>1, <2>1, <3>4
    <3>7. k <= r + 31 BY <1>1, <2>1, <3>4
    <3> QED BY <1>1, <3>4, <3>5, <3>6, <3>7 DEF x
  <2>7. n = 256 \/ n < 256 BY <2>1
  <2> QED BY <2>5, <2>6, <2>7
<1>3. CASE StepsPer = 16384
  <2> DEFINE x == Frf(f)
  <2>1. n \in 0..16384 /\ 15625 * n <= r * 16384 + 7812 /\ r * 16384 + 7812 < 15625 * n + 15625
    BY <1>1, <1>3
  <2>2. x = q * 16384 + n BY <1>3 DEF Frf
  <2>3. Synthesised(x) = (x \div 16384) * 15625 + ((x % 16384) * 15625) \div 16384
    BY <1>3 DEF Synthesised
  <2> HIDE DEF q, r, n, x
  <2>4. x \in Nat BY <1>1, <2>1, <2>2
  <2>5. CASE n = 16384
    <3>1. x \div 16384 = q + 1 BY <1>1, <2>2, <2>4, <2>5
    <3>2. x % 16384 = 0 BY <1>1, <2>2, <2>4, <2>5
    <3>3. Synthesised(x) = (q + 1) * 15625 + (0 * 15625) \div 16384 BY <2>3, <3>1, <3>2
    <3> QED BY <1>1, <2>1, <2>5, <3>3 DEF x
  <2>6. CASE n < 16384
    <3>1. x \div 16384 = q BY <1>1, <2>1, <2>2, <2>4, <2>6
    <3>2. x % 16384 = n
      <4>1. x = 16384 * (x \div 16384) + (x % 16384) BY <2>4
      <4> QED BY <1>1, <2>1, <2>2, <2>4, <3>1, <4>1
    <3>3. Synthesised(x) = q * 15625 + (n * 15625) \div 16384 BY <2>3, <3>1, <3>2
    <3> DEFINE k == (n * 15625) \div 16384
    <3>4. k \in Int /\ 16384 * k <= 15625 * n /\ 15625 * n < 16384 * k + 16384 BY <2>1
    <3> HIDE DEF k
    <3>5. Synthesised(x) = q * 15625 + k BY <3>3 DEF k
    <3>6. r - 31 <= k BY <1>1, <2>1, <3>4
    <3>7. k <= r + 31 BY <1>1, <2>1, <3>4
    <3> QED BY <1>1, <3>4, <3>5, <3>6, <3>7 DEF x
  <2>7. n = 16384 \/ n < 16384 BY <2>1
  <2> QED BY <2>5, <2>6, <2>7
<1> QED BY <1>2, <1>3

-----------------------------------------------------------------------------
(* The registers: what the other conversions of configure() keep           *)

LEMMA Boards ==
    /\ \A b \in DOMAIN Presets : Presets[b].band \in Bands /\ Presets[b].family \in {"sx127x", "sx1262"}
    /\ \A setup, band : Resolve(setup, band) \subseteq DOMAIN Presets
    /\ "loraham433" \in DOMAIN Presets
<1>1. DOMAIN Presets = {"loraham433", "loraham868", "ce0", "ce1", "hat433", "hat868"}
  BY DEF Presets
<1>2. \A b \in DOMAIN Presets : Presets[b].band \in Bands /\ Presets[b].family \in {"sx127x", "sx1262"}
  BY <1>1 DEF Presets, Bands
<1>3. \A setup \in DOMAIN Setups : Setups[setup] \subseteq DOMAIN Presets
  BY <1>1 DEF Setups
<1> QED BY <1>1, <1>2, <1>3 DEF Resolve

\* The bandwidth's four bits, where the coding rate leaves them alone.
LEMMA OrNothing == ASSUME NEW a \in 0..9 PROVE Or4(a, 0) = a
<1>1. a \in {0, 1, 2, 3, 4, 5, 6, 7, 8, 9} OBVIOUS
<1> QED BY <1>1 DEF Or4

\* The coding rate of the configuration reaches none of the bandwidth's bits: on
\* the SX1262, where they are apart, always; on the SX127x, for 4..11 and what
\* equals one of these modulo 128.
RateFits == profile.family = "sx127x" => RateBits(conf.cr) = 0

LEMMA CodeWritten ==
    ASSUME RateFits, NEW code \in BwCodes
    PROVE  /\ BwWritten(code) \in DOMAIN BwTable
           /\ BwTable[BwWritten(code)] = conf.bandwidth
<1>1. code \in DOMAIN BwTable /\ BwTable[code] = conf.bandwidth BY DEF BwCodes
<1>3. CASE profile.family = "sx127x"
  <2>1. DOMAIN BwTable = 0..9 BY <1>3 DEF BwTable, BwTable127
  <2>2. RateBits(conf.cr) = 0 BY <1>3 DEF RateFits
  <2> QED BY <1>1, <1>3, <2>1, <2>2, OrNothing DEF BwWritten
<1>4. CASE profile.family # "sx127x" BY <1>1, <1>4 DEF BwWritten
<1> QED BY <1>3, <1>4

LEMMA PowerKept ==
    ASSUME board \in DOMAIN Presets, conf.txpower \in Int,
           conf.txpower <= BandPolicy(profile.band).dbm
    PROVE  TxPower <= BandPolicy(profile.band).dbm
BY Boards DEF TxPower, Clamp, BandPolicy, profile, Bands

-----------------------------------------------------------------------------
(* The invariant of __init__                                               *)

ConfTyped ==
    /\ DOMAIN conf = {"frequency", "bandwidth", "txpower", "short", "long", "sf", "cr", "framing", "asked"}
    /\ conf.frequency \in Nat /\ conf.bandwidth \in Nat /\ conf.txpower \in Int

BeforePolicy == {"profile", "ifac", "policy", "refused"}
BeforeBus == {"profile", "ifac", "policy", "framing", "log", "bus"}
Programmed == {"start_rx", "online", "running"}

\* Accepted once, the settings stay so; the registers are made from them.
RegistersOfConf ==
    /\ RateFits => chip.bw \in DOMAIN BwTable /\ BwTable[chip.bw] = conf.bandwidth
    /\ chip.frf = Frf(conf.frequency) /\ chip.dbm = TxPower

AirInv ==
    /\ board \in DOMAIN Presets
    /\ ConfTyped
    /\ DOMAIN chip = {"crystal", "clock", "mode", "frf", "bw", "dbm", "preamble"}
    /\ stage \notin BeforePolicy => Accepted(profile.band, conf)
    /\ stage \in Programmed => RegistersOfConf

LEMMA AirInit == Init => AirInv
BY Boards DEF Init, AirInv, ConfTyped, NoConf, NoChip, BeforePolicy, Programmed

\* A step that leaves settings and programmed registers alone.
LEMMA AirKept ==
    ASSUME AirInv, UNCHANGED <<board, conf>>,
           DOMAIN chip' = DOMAIN chip, chip'.bw = chip.bw, chip'.frf = chip.frf, chip'.dbm = chip.dbm,
           stage' \notin BeforePolicy => stage \notin BeforePolicy,
           stage' \in Programmed => stage \in Programmed
    PROVE  AirInv'
<1>1. profile' = profile BY DEF profile
<1>2. ConfTyped' BY DEF AirInv, ConfTyped
<1>3. RegistersOfConf => RegistersOfConf'
  <2>1. BwTable' = BwTable /\ TxPower' = TxPower /\ Frf(conf.frequency)' = Frf(conf.frequency)
    BY <1>1 DEF BwTable, BwTable127, BwTable126, TxPower, Clamp, Frf, StepsPer
  <2>2. RateFits' = RateFits BY <1>1 DEF RateFits
  <2> QED BY <2>1, <2>2 DEF RegistersOfConf
<1>4. Accepted(profile.band, conf) => Accepted(profile.band, conf)' BY <1>1
<1> QED BY <1>2, <1>3, <1>4 DEF AirInv

LEMMA AirStep == ASSUME AirInv, [Next]_vars PROVE AirInv'
<1> USE DEF Go
<1>1. CASE Refuse
  BY <1>1, AirKept DEF Refuse, BeforePolicy, Programmed
<1>2. CASE ResolveProfile
  <2>1. CASE Refuse BY <2>1, <1>1
  <2>2. CASE ~Refuse
    <3>1. board' \in DOMAIN Presets /\ stage' = "ifac" /\ UNCHANGED <<conf, chip>>
      BY <1>2, <2>2, Boards DEF ResolveProfile
    <3>2. ConfTyped' BY <3>1 DEF AirInv, ConfTyped
    <3> QED BY <3>1, <3>2 DEF AirInv, BeforePolicy, Programmed
  <2> QED BY <2>1, <2>2
<1>3. CASE CheckIfac
  BY <1>1, <1>3, AirKept DEF CheckIfac, BeforePolicy, Programmed
<1>4. CASE CheckPolicy
  <2>1. CASE Refuse BY <2>1, <1>1
  <2>2. CASE ~Refuse
    <3>0. PICK f \in Frequencies, w \in Bandwidths, p \in Powers, s \in Shorts, l \in Longs :
             LET c == [conf EXCEPT !.frequency = f, !.bandwidth = w, !.txpower = p,
                                   !.short = s, !.long = l]
             IN  IF Accepted(profile.band, c)
                 THEN conf' = c /\ Go("framing") /\ UNCHANGED <<board, bus, chip>>
                 ELSE Refuse
      BY <1>4, Zenon DEF CheckPolicy
    <3>1.    /\ conf' = [conf EXCEPT !.frequency = f, !.bandwidth = w, !.txpower = p,
                                     !.short = s, !.long = l]
             /\ Accepted(profile.band, conf')
             /\ stage' = "framing" /\ UNCHANGED <<board, chip>>
      BY <2>2, <3>0
    <3>2. ConfTyped' BY <3>1, BringupAssumption DEF AirInv, ConfTyped
    <3>3. Accepted(profile.band, conf)' BY <3>1 DEF profile
    <3> QED BY <3>1, <3>2, <3>3 DEF AirInv, Programmed
  <2> QED BY <2>1, <2>2
<1>5. CASE ChooseFraming
  <2>1. CASE Refuse BY <2>1, <1>1
  <2>2. CASE ~Refuse
    <3>1. PICK sf \in SpreadingFactors, cr \in CodingRates, on \in BOOLEAN, a \in PreambleSettings :
             /\ conf' = [conf EXCEPT !.sf = sf, !.cr = cr, !.framing = on, !.asked = a]
             /\ stage = "framing" /\ stage' = "log" /\ UNCHANGED <<board, chip>>
      BY <1>5, <2>2 DEF ChooseFraming
    <3>2. ConfTyped' BY <3>1 DEF AirInv, ConfTyped
    <3>3. /\ conf'.frequency = conf.frequency /\ conf'.bandwidth = conf.bandwidth
          /\ conf'.txpower = conf.txpower /\ conf'.short = conf.short /\ conf'.long = conf.long
      BY <3>1 DEF AirInv, ConfTyped
    <3>4. Accepted(profile.band, conf) BY <3>1 DEF AirInv, BeforePolicy
    <3>5. Accepted(profile.band, conf)' BY <3>1, <3>3, <3>4 DEF Accepted, profile
    <3> QED BY <3>1, <3>2, <3>5 DEF AirInv, Programmed
  <2> QED BY <2>1, <2>2
<1>6. CASE OpenRfLog
  BY <1>1, <1>6, AirKept DEF OpenRfLog, BeforePolicy, Programmed
<1>7. CASE OpenBus
  BY <1>1, <1>7, AirKept DEF OpenBus, BeforePolicy, Programmed
<1>8. CASE ClaimLines
  BY <1>1, <1>8, AirKept DEF ClaimLines, BeforePolicy, Programmed, AirInv
<1>9. CASE Reset127 \/ Reset126 \/ SetupTcxo \/ Fallback \/ Probe
  BY <1>1, <1>9, AirKept
  DEF Reset127, Reset126, SetupTcxo, Fallback, Probe, BeforePolicy, Programmed, AirInv
<1>10. CASE WriteRegisters
  <2>1. CASE Refuse BY <2>1, <1>1
  <2>2. CASE ~Refuse
    <3>1. PICK code \in BwCodes :
             /\ chip' = [chip EXCEPT !.frf = Frf(conf.frequency), !.bw = BwWritten(code),
                                     !.dbm = TxPower, !.preamble = PreambleWritten]
             /\ stage = "registers" /\ stage' = "start_rx" /\ UNCHANGED <<board, conf>>
      BY <1>10, <2>2, Zenon DEF WriteRegisters
    <3>2. RateFits => BwWritten(code) \in DOMAIN BwTable /\ BwTable[BwWritten(code)] = conf.bandwidth
      BY CodeWritten
    <3>3. /\ DOMAIN chip' = DOMAIN chip
          /\ chip'.bw = BwWritten(code) /\ chip'.frf = Frf(conf.frequency) /\ chip'.dbm = TxPower
      BY <3>1 DEF AirInv
    <3>4. profile' = profile BY <3>1 DEF profile
    <3>5. BwTable' = BwTable /\ TxPower' = TxPower /\ Frf(conf.frequency)' = Frf(conf.frequency)
      BY <3>1, <3>4 DEF BwTable, BwTable127, BwTable126, TxPower, Clamp, Frf, StepsPer
    <3>9. RateFits' = RateFits BY <3>1, <3>4 DEF RateFits
    <3>6. RegistersOfConf' BY <3>1, <3>2, <3>3, <3>5, <3>9 DEF RegistersOfConf
    <3>7. ConfTyped' BY <3>1 DEF AirInv, ConfTyped
    <3>8. Accepted(profile.band, conf)' BY <3>1, <3>4 DEF AirInv, BeforePolicy
    <3> QED BY <3>1, <3>3, <3>6, <3>7, <3>8 DEF AirInv
  <2> QED BY <2>1, <2>2
<1>11. CASE StartRx \/ StartWorkers
  BY <1>1, <1>11, AirKept DEF StartRx, StartWorkers, BeforePolicy, Programmed, AirInv
<1>12. CASE UNCHANGED vars
  BY <1>12, AirKept DEF vars
<1> QED
  BY <1>2, <1>3, <1>4, <1>5, <1>6, <1>7, <1>8, <1>9, <1>10, <1>11, <1>12 DEF Next

LEMMA AirLegal == AirInv => (RateFits => OnAirLegal)
<1> SUFFICES ASSUME AirInv, RateFits, Running
             PROVE  /\ chip.bw \in DOMAIN BwTable
                    /\ Legal(profile.band, Synthesised(chip.frf), BwTable[chip.bw], chip.dbm,
                             conf.long, SynthesiserStep)
  BY DEF OnAirLegal
<1>1. RegistersOfConf /\ Accepted(profile.band, conf) /\ ConfTyped
  BY DEF AirInv, Running, Programmed, BeforePolicy
<1>2. profile.band \in Bands BY Boards DEF AirInv, profile
<1>3. StepsPer \in {256, 16384} BY DEF StepsPer
<1>4. /\ Synthesised(chip.frf) \in Int
      /\ conf.frequency - 31 <= Synthesised(chip.frf)
      /\ Synthesised(chip.frf) <= conf.frequency + 31
  BY <1>1, <1>3, NearestStep DEF RegistersOfConf, ConfTyped
<1>5. conf.txpower <= BandPolicy(profile.band).dbm BY <1>1 DEF Accepted
<1>6. chip.dbm <= BandPolicy(profile.band).dbm
  BY <1>1, <1>5, PowerKept DEF RegistersOfConf, ConfTyped, AirInv
<1> QED BY <1>1, <1>2, <1>4, <1>6, AcceptedIsLegal DEF RegistersOfConf, ConfTyped

\* __init__ and configure(): for every frequency, bandwidth, power, duty limit and
\* coding rate of the configuration, on every board, an interface that runs is
\* programmed to a channel that touches nothing reserved, within the duty of every
\* segment it touches and the power of the band, unless its chip is an SX127x and
\* the coding rate spills into the bandwidth's bits of the register they share.
THEOREM OnAir == Spec => [](RateFits => OnAirLegal)
<1>1. Init => AirInv BY AirInit
<1>2. AirInv /\ [Next]_vars => AirInv' BY AirStep
<1>3. AirInv => (RateFits => OnAirLegal) BY AirLegal
<1> QED BY <1>1, <1>2, <1>3, PTL DEF Spec

-----------------------------------------------------------------------------
(* The bus                                                                 *)

BusInv == BusProven /\ (stage \in BeforeBus => bus.mode = "none")

LEMMA BusStep == ASSUME BusInv, [Next]_vars PROVE BusInv'
<1> USE DEF Go, BusInv, BeforeBus
<1>1. ASSUME UNCHANGED <<board, bus>>, stage' \in BeforeBus => stage \in BeforeBus PROVE BusInv'
  BY <1>1 DEF BusProven, profile, KernelCs
<1>2. CASE Refuse BY <1>1, <1>2 DEF Refuse
<1>3. CASE ResolveProfile
  BY <1>1, <1>2, <1>3 DEF ResolveProfile, BusProven
<1>4. CASE OpenBus
  BY <1>1, <1>2, <1>4 DEF OpenBus, BusProven, PinsRead, ClaimProves, KernelCs, profile
<1>5. CASE CheckIfac \/ CheckPolicy \/ ChooseFraming \/ OpenRfLog \/ ClaimLines
  BY <1>1, <1>2, <1>5 DEF CheckIfac, CheckPolicy, ChooseFraming, OpenRfLog, ClaimLines
<1>6. CASE Reset127 \/ Reset126 \/ SetupTcxo \/ Fallback \/ Probe
  BY <1>1, <1>2, <1>6 DEF Reset127, Reset126, SetupTcxo, Fallback, Probe
<1>7. CASE WriteRegisters
  <2>1. Refuse \/ (stage' = "start_rx" /\ UNCHANGED <<board, bus>>) BY <1>7, Zenon DEF WriteRegisters
  <2> QED BY <1>1, <1>2, <2>1
<1>9. CASE StartRx \/ StartWorkers
  BY <1>1, <1>2, <1>9 DEF StartRx, StartWorkers
<1>8. CASE UNCHANGED vars BY <1>1, <1>8 DEF vars
<1> QED BY <1>3, <1>4, <1>5, <1>6, <1>7, <1>8, <1>9 DEF Next

\* SpiBus.__init__: whatever the controller's property and its answer to the
\* no-chip-select mode, a bus in use selects no other board.
THEOREM BusIsProven == Spec => []BusProven
<1>1. Init => BusInv BY DEF Init, NoBus, BusInv, BusProven
<1>2. BusInv /\ [Next]_vars => BusInv' BY BusStep
<1>3. BusInv => BusProven BY DEF BusInv
<1> QED BY <1>1, <1>2, <1>3, PTL DEF Spec

-----------------------------------------------------------------------------
(* The receiver                                                            *)

LEMMA SymbolLengths == ASSUME NEW sf \in 5..12 PROVE 2^sf \in Nat /\ 2^sf >= 32
<1>1. CASE sf = 5 BY <1>1
<1>2. CASE sf = 6 BY <1>2
<1>3. CASE sf = 7 BY <1>3
<1>4. CASE sf = 8 BY <1>4
<1>5. CASE sf = 9 BY <1>5
<1>6. CASE sf = 10 BY <1>6
<1>7. CASE sf = 11 BY <1>7
<1>8. CASE sf = 12 BY <1>8
<1>9. sf = 5 \/ sf = 6 \/ sf = 7 \/ sf = 8 \/ sf = 9 \/ sf = 10 \/ sf = 11 \/ sf = 12 OBVIOUS
<1> QED BY <1>1, <1>2, <1>3, <1>4, <1>5, <1>6, <1>7, <1>8, <1>9

Modest(sf, bw, cr) ==
    sf \in 5..12 /\ 2^sf \in Nat /\ 2^sf >= 32 /\ bw \in Nat /\ bw <= 500000 /\ cr \in Int

\* n symbols last for the target of rnode_preamble() and for no longer than they have to.
PreambleOK(n, sf, bw, cr) ==
    LET fast   == cr > 0 /\ sf * 4 * bw > 30000 * cr * 2^sf
        target == (IF fast THEN 6 ELSE 24) * bw
    IN  /\ n \in Nat /\ n >= 18 /\ n < 65536
        /\ n * 2^sf * 1000 >= target
        /\ n > 18 => (n - 1) * 2^sf * 1000 < target

LEMMA PreambleFits ==
    ASSUME NEW sf, NEW bw, NEW cr, Modest(sf, bw, cr)
    PROVE  PreambleOK(RnodePreamble(sf, bw, cr), sf, bw, cr)
<1> SUFFICES ASSUME NEW n, n = RnodePreamble(sf, bw, cr), sf \in 5..12, 2^sf \in Nat, 2^sf >= 32,
                    bw \in Nat, bw <= 500000, cr \in Int
             PROVE  LET fast   == cr > 0 /\ sf * 4 * bw > 30000 * cr * 2^sf
                        target == (IF fast THEN 6 ELSE 24) * bw
                    IN  /\ n \in Nat /\ n >= 18 /\ n < 65536
                        /\ n * 2^sf * 1000 >= target
                        /\ n > 18 => (n - 1) * 2^sf * 1000 < target
  BY SMT DEF Modest, PreambleOK
<1> DEFINE p == 2^sf
           fast == cr > 0 /\ sf * 4 * bw > 30000 * cr * p
           t == (IF fast THEN 6 ELSE 24) * bw
           d == 1000 * p
           m == (t + 1000 * p - 1) \div (1000 * p)
<1>1. p \in Nat /\ p >= 32 BY SMT
<1>2. sf * 4 * bw = 4 * sf * bw BY SMT
<1>3. n = IF m < 18 THEN 18 ELSE m BY <1>2, SMT DEF RnodePreamble
<1>4. t \in Nat /\ t <= 12000000 BY SMT
<1> HIDE DEF t, p
<1>5. d \in Nat \ {0} /\ d >= 32000 BY <1>1, SMT
<1>6. \A k \in Int : k * d = k * p * 1000 BY <1>1, SMT
<1>7. m = (t + d - 1) \div d BY SMT
<1> HIDE DEF m, d
<1>8. m \in Nat /\ m * d >= t /\ (m - 1) * d < t
  <2>1. t \in Nat /\ d \in Nat \ {0} BY <1>4, <1>5, SMT
  <2> QED BY <1>7, <2>1, SMT
<1>9. m < 65536
  <2>1. (m - 1) * 32000 <= (m - 1) * d \/ m = 0 BY <1>5, <1>8, SMT
  <2> QED BY <1>4, <1>5, <1>8, <2>1, SMT
<1>10. CASE m >= 18
  <2>1. n = m BY <1>3, <1>8, <1>10, SMT
  <2>2. n * p * 1000 >= t /\ (n - 1) * p * 1000 < t BY <1>8, <1>6, <2>1, SMT
  <2> QED BY <1>8, <1>9, <1>10, <2>1, <2>2, SMT DEF t, p
<1>11. CASE m < 18
  <2>1. n = 18 BY <1>3, <1>11, SMT
  <2>2. 18 * d >= m * d BY <1>5, <1>8, <1>11, SMT
  <2>3. 18 * d >= t BY <1>4, <1>5, <1>8, <2>2, SMT
  <2>4. 18 * p * 1000 >= t BY <1>6, <2>3, SMT
  <2> QED BY <2>1, <2>4, SMT DEF t, p
<1> QED BY <1>8, <1>10, <1>11, SMT

Clocked == {"probe", "registers", "start_rx", "online", "running"}

\* The oscillator runs from the reset (SX127x), its calibration or the fallback
\* (SX1262) on, and the preamble in the chip is the one of the settings.
ClockInv ==
    /\ board \in DOMAIN Presets /\ (profile.family # "sx127x" => profile.tcxo)
    /\ chip.crystal \in {"none", "tcxo", "crystal", "dead"}
    /\ stage = "reset126" => profile.family # "sx127x"
    /\ stage \in {"tcxo", "fallback"} \cup Clocked => chip.crystal # "none"
    /\ stage \in {"reset126", "reset127"} => chip.crystal # "none"
    /\ stage \in Clocked =>
          chip.clock = "running" \/ (chip.clock = "failed" /\ chip.crystal # "crystal")
    /\ stage \in {"online", "running"} => chip.mode = "rx"

SettingsInv ==
    /\ DOMAIN conf = {"frequency", "bandwidth", "txpower", "short", "long", "sf", "cr", "framing", "asked"}
    /\ DOMAIN chip = {"crystal", "clock", "mode", "frf", "bw", "dbm", "preamble"}
    /\ conf.bandwidth \in Nat /\ conf.sf \in 5..12 /\ conf.cr \in Int
    /\ stage \in Programmed => conf.bandwidth <= 500000 /\ chip.preamble = PreambleWritten

LEMMA TcxoBoards == \A b \in DOMAIN Presets : Presets[b].family # "sx127x" => Presets[b].tcxo
<1>1. DOMAIN Presets = {"loraham433", "loraham868", "ce0", "ce1", "hat433", "hat868"}
  BY DEF Presets
<1> QED BY <1>1 DEF Presets

\* No chip is programmed to more than 500 kHz.
LEMMA WidestBandwidth == ASSUME NEW code \in BwCodes PROVE conf.bandwidth <= 500000
<1>1. code \in DOMAIN BwTable /\ BwTable[code] = conf.bandwidth BY DEF BwCodes
<1>2. \A c \in DOMAIN BwTable127 : BwTable127[c] <= 500000
  <2>1. \A c \in DOMAIN BwTable127 : c \in {0, 1, 2, 3, 4, 5, 6, 7, 8, 9} BY SMT DEF BwTable127
  <2> QED BY <2>1, SMT DEF BwTable127
<1>3. \A c \in DOMAIN BwTable126 : BwTable126[c] <= 500000 BY SMT DEF BwTable126
<1> QED BY <1>1, <1>2, <1>3, SMT DEF BwTable

LEMMA ClockStep == ASSUME ClockInv, SettingsInv, [Next]_vars PROVE ClockInv'
<1> USE DEF Go, Clocked
<1>0. DOMAIN chip = {"crystal", "clock", "mode", "frf", "bw", "dbm", "preamble"} BY DEF SettingsInv
<1>1. CASE Refuse BY <1>1 DEF Refuse, ClockInv, profile
<1>2. CASE ResolveProfile
  <2>1. CASE Refuse BY <2>1, <1>1
  <2>2. CASE ~Refuse
    <3>1. board' \in DOMAIN Presets /\ stage' = "ifac" /\ UNCHANGED chip
      BY <1>2, <2>2, Boards DEF ResolveProfile
    <3> QED BY <3>1, TcxoBoards DEF ClockInv, profile
  <2> QED BY <2>1, <2>2
<1>3. ASSUME stage' \in {"policy", "framing", "log", "bus", "lines"}, UNCHANGED <<board, chip>>
      PROVE  ClockInv'
  BY <1>3 DEF ClockInv, profile
<1>4. CASE CheckIfac BY <1>1, <1>3, <1>4 DEF CheckIfac
<1>5. CASE CheckPolicy BY <1>1, <1>3, <1>5 DEF CheckPolicy
<1>6. CASE ChooseFraming BY <1>1, <1>3, <1>6 DEF ChooseFraming
<1>7. CASE OpenRfLog \/ OpenBus BY <1>1, <1>3, <1>7 DEF OpenRfLog, OpenBus
<1>8. CASE ClaimLines
  <2>1. CASE Refuse BY <2>1, <1>1
  <2>2. CASE ~Refuse
    <3>1. PICK x \in {"tcxo", "crystal", "dead"} :
             /\ chip' = [chip EXCEPT !.crystal = x] /\ UNCHANGED board
             /\ stage' = IF profile.family = "sx127x" THEN "reset127" ELSE "reset126"
      BY <1>8, <2>2 DEF ClaimLines
    <3>2. chip'.crystal = x BY <1>0, <3>1
    <3> QED BY <3>1, <3>2 DEF ClockInv, profile
  <2> QED BY <2>1, <2>2
<1>9. CASE Reset127
  <2>1. CASE Refuse BY <2>1, <1>1
  <2>2. CASE ~Refuse
    <3>1. /\ chip' = [chip EXCEPT !.mode = "standby", !.clock = "running"]
          /\ stage = "reset127" /\ stage' = "probe" /\ UNCHANGED board
      BY <1>9, <2>2 DEF Reset127
    <3>2. chip'.crystal = chip.crystal /\ chip'.clock = "running" BY <1>0, <3>1
    <3> QED BY <3>1, <3>2 DEF ClockInv, profile
  <2> QED BY <2>1, <2>2
<1>10. CASE Reset126
  <2>1. CASE Refuse BY <2>1, <1>1
  <2>2. CASE ~Refuse
    <3>1. /\ chip' = [chip EXCEPT !.mode = "standby", !.clock = "stopped"]
          /\ stage = "reset126" /\ stage' = (IF profile.tcxo THEN "tcxo" ELSE "probe") /\ UNCHANGED board
      BY <1>10, <2>2 DEF Reset126
    <3>2. profile.tcxo BY <3>1 DEF ClockInv
    <3>3. stage' = "tcxo" /\ chip'.crystal = chip.crystal BY <1>0, <3>1, <3>2
    <3> QED BY <3>1, <3>3 DEF ClockInv, profile
  <2> QED BY <2>1, <2>2
<1>11. CASE SetupTcxo
  <2>1. CASE Refuse BY <2>1, <1>1
  <2>2. CASE ~Refuse
    <3>1. PICK clock \in {"running", "failed"} :
             /\ chip' = [chip EXCEPT !.clock = clock]
             /\ stage = "tcxo" /\ stage' = (IF clock = "running" THEN "probe" ELSE "fallback")
             /\ UNCHANGED board
      BY <1>11, <2>2 DEF SetupTcxo
    <3>2. chip'.crystal = chip.crystal /\ chip'.clock = clock
      BY <1>0, <3>1
    <3> QED BY <3>1, <3>2 DEF ClockInv, profile
  <2> QED BY <2>1, <2>2
<1>12. CASE Fallback
  <2>1. CASE Refuse BY <2>1, <1>1
  <2>2. CASE ~Refuse
    <3>1. /\ chip' = [chip EXCEPT !.clock = IF chip.crystal = "crystal" THEN "running" ELSE "failed"]
          /\ stage = "fallback" /\ stage' = "probe" /\ UNCHANGED board
      BY <1>12, <2>2 DEF Fallback
    <3>2. /\ chip'.crystal = chip.crystal
          /\ chip'.clock = IF chip.crystal = "crystal" THEN "running" ELSE "failed"
      BY <1>0, <3>1
    <3> QED BY <3>1, <3>2 DEF ClockInv, profile
  <2> QED BY <2>1, <2>2
<1>13. CASE Probe BY <1>1, <1>13 DEF Probe, ClockInv, profile
<1>14. CASE WriteRegisters
  <2>1. CASE Refuse BY <2>1, <1>1
  <2>2. CASE ~Refuse
    <3>1. PICK code \in BwCodes :
             /\ chip' = [chip EXCEPT !.frf = Frf(conf.frequency), !.bw = BwWritten(code),
                                     !.dbm = TxPower, !.preamble = PreambleWritten]
             /\ stage = "registers" /\ stage' = "start_rx" /\ UNCHANGED board
      BY <1>14, <2>2, Zenon DEF WriteRegisters
    <3>2. chip'.crystal = chip.crystal /\ chip'.clock = chip.clock BY <1>0, <3>1
    <3> QED BY <3>1, <3>2 DEF ClockInv, profile
  <2> QED BY <2>1, <2>2
<1>15. CASE StartRx
  <2>1. CASE Refuse BY <2>1, <1>1
  <2>2. CASE ~Refuse
    <3>1. /\ chip' = [chip EXCEPT !.mode = "rx"]
          /\ stage = "start_rx" /\ stage' = "online" /\ UNCHANGED board
      BY <1>15, <2>2 DEF StartRx
    <3>2. chip'.crystal = chip.crystal /\ chip'.clock = chip.clock /\ chip'.mode = "rx" BY <1>0, <3>1
    <3> QED BY <3>1, <3>2 DEF ClockInv, profile
  <2> QED BY <2>1, <2>2
<1>16. CASE StartWorkers BY <1>1, <1>16 DEF StartWorkers, ClockInv, profile
<1>17. CASE UNCHANGED vars BY <1>17 DEF vars, ClockInv, profile
<1> QED
  BY <1>2, <1>4, <1>5, <1>6, <1>7, <1>8, <1>9, <1>10, <1>11, <1>12, <1>13, <1>14, <1>15, <1>16, <1>17
  DEF Next

LEMMA SettingsStep == ASSUME SettingsInv, [Next]_vars PROVE SettingsInv'
<1> USE DEF Go, Programmed
<1>0. DOMAIN chip = {"crystal", "clock", "mode", "frf", "bw", "dbm", "preamble"} BY DEF SettingsInv
<1>1. ASSUME conf' = conf, DOMAIN chip' = DOMAIN chip, chip'.preamble = chip.preamble,
             stage' \in Programmed => stage \in Programmed
      PROVE  SettingsInv'
  <2>1. PreambleWritten' = PreambleWritten BY <1>1 DEF PreambleWritten
  <2> QED BY <1>1, <2>1, SMT DEF SettingsInv
<1>2. CASE Refuse BY <1>1, <1>2 DEF Refuse
<1>3. CASE ResolveProfile \/ CheckIfac \/ OpenRfLog \/ OpenBus \/ Probe
  BY <1>1, <1>2, <1>3 DEF ResolveProfile, CheckIfac, OpenRfLog, OpenBus, Probe
<1>4. CASE CheckPolicy
  <2>1. CASE Refuse BY <2>1, <1>2
  <2>2. CASE ~Refuse
    <3>0. PICK f \in Frequencies, w \in Bandwidths, p \in Powers, s \in Shorts, l \in Longs :
             LET c == [conf EXCEPT !.frequency = f, !.bandwidth = w, !.txpower = p,
                                   !.short = s, !.long = l]
             IN  IF Accepted(profile.band, c)
                 THEN conf' = c /\ Go("framing") /\ UNCHANGED <<board, bus, chip>>
                 ELSE Refuse
      BY <1>4, Zenon DEF CheckPolicy
    <3>1. /\ conf' = [conf EXCEPT !.frequency = f, !.bandwidth = w, !.txpower = p,
                                  !.short = s, !.long = l]
          /\ stage' = "framing" /\ UNCHANGED chip
      BY <2>2, <3>0
    <3>2. w \in Nat BY BringupAssumption
    <3>3. DOMAIN conf' = DOMAIN conf BY <3>1
    <3>4. conf'.bandwidth = w /\ conf'.sf = conf.sf /\ conf'.cr = conf.cr BY <3>1 DEF SettingsInv
    <3> QED BY <3>1, <3>2, <3>3, <3>4, SMT DEF SettingsInv
  <2> QED BY <2>1, <2>2
<1>5. CASE ChooseFraming
  <2>1. CASE Refuse BY <2>1, <1>2
  <2>2. CASE ~Refuse
    <3>1. PICK sf \in SpreadingFactors, cr \in CodingRates, on \in BOOLEAN, a \in PreambleSettings :
             /\ conf' = [conf EXCEPT !.sf = sf, !.cr = cr, !.framing = on, !.asked = a]
             /\ stage' = "log" /\ UNCHANGED chip
      BY <1>5, <2>2 DEF ChooseFraming
    <3>2. sf \in 5..12 /\ cr \in Int BY BringupAssumption
    <3>3. DOMAIN conf' = DOMAIN conf BY <3>1
    <3>4. conf'.bandwidth = conf.bandwidth /\ conf'.sf = sf /\ conf'.cr = cr BY <3>1 DEF SettingsInv
    <3> QED BY <3>1, <3>2, <3>3, <3>4, SMT DEF SettingsInv
  <2> QED BY <2>1, <2>2
<1>6. CASE ClaimLines
  <2>1. CASE Refuse BY <2>1, <1>2
  <2>2. CASE ~Refuse
    <3>1. PICK x \in {"tcxo", "crystal", "dead"} :
             /\ chip' = [chip EXCEPT !.crystal = x] /\ conf' = conf
             /\ stage' = IF profile.family = "sx127x" THEN "reset127" ELSE "reset126"
      BY <1>6, <2>2 DEF ClaimLines
    <3>2. DOMAIN chip' = DOMAIN chip /\ chip'.preamble = chip.preamble BY <1>0, <3>1
    <3> QED BY <1>1, <3>1, <3>2
  <2> QED BY <2>1, <2>2
<1>7. CASE Reset127
  BY <1>0, <1>1, <1>2, <1>7 DEF Reset127
<1>8. CASE Reset126
  BY <1>0, <1>1, <1>2, <1>8 DEF Reset126
<1>9. CASE SetupTcxo
  BY <1>0, <1>1, <1>2, <1>9 DEF SetupTcxo
<1>10. CASE Fallback
  BY <1>0, <1>1, <1>2, <1>10 DEF Fallback
<1>11. CASE StartRx
  BY <1>0, <1>1, <1>2, <1>11 DEF StartRx
<1>12. CASE WriteRegisters
  <2>1. CASE Refuse BY <2>1, <1>2
  <2>2. CASE ~Refuse
    <3>1. PICK code \in BwCodes :
             /\ chip' = [chip EXCEPT !.frf = Frf(conf.frequency), !.bw = BwWritten(code),
                                     !.dbm = TxPower, !.preamble = PreambleWritten]
             /\ stage' = "start_rx" /\ UNCHANGED conf
      BY <1>12, <2>2, Zenon DEF WriteRegisters
    <3>2. DOMAIN chip' = DOMAIN chip /\ chip'.preamble = PreambleWritten BY <3>1 DEF SettingsInv
    <3>3. conf.bandwidth <= 500000 BY WidestBandwidth, SMT
    <3>4. PreambleWritten' = PreambleWritten BY <3>1 DEF PreambleWritten
    <3> QED BY <3>1, <3>2, <3>3, <3>4, SMT DEF SettingsInv
  <2> QED BY <2>1, <2>2
<1>13. CASE StartWorkers BY <1>1, <1>2, <1>13 DEF StartWorkers
<1>14. CASE UNCHANGED vars BY <1>1, <1>14 DEF vars
<1> QED BY <1>3, <1>4, <1>5, <1>6, <1>12, <1>13, <1>14, <1>7, <1>8, <1>9, <1>10, <1>11 DEF Next

LEMMA ReadyWhenRunning == ClockInv /\ SettingsInv => ReceiverReady
<1> SUFFICES ASSUME ClockInv, SettingsInv, Running
             PROVE  /\ chip.mode = "rx"
                    /\ chip.clock = "running" \/ (chip.clock = "failed" /\ chip.crystal # "crystal")
                    /\ conf.framing /\ conf.asked = Default =>
                          LET duration(n) == n * 2^conf.sf * 1000
                              fast   == conf.cr > 0 /\ conf.sf * 4 * conf.bandwidth > 30000 * conf.cr * 2^conf.sf
                              target == (IF fast THEN 6 ELSE 24) * conf.bandwidth
                          IN  /\ duration(chip.preamble) >= target /\ chip.preamble >= 18
                              /\ chip.preamble > 18 => duration(chip.preamble - 1) < target
  BY DEF ReceiverReady
<1>1. /\ chip.mode = "rx"
      /\ chip.clock = "running" \/ (chip.clock = "failed" /\ chip.crystal # "crystal")
  BY DEF ClockInv, Running, Clocked
<1>2. ASSUME conf.framing, conf.asked = Default
      PROVE  LET fast   == conf.cr > 0 /\ conf.sf * 4 * conf.bandwidth > 30000 * conf.cr * 2^conf.sf
                 target == (IF fast THEN 6 ELSE 24) * conf.bandwidth
             IN  /\ chip.preamble * 2^conf.sf * 1000 >= target /\ chip.preamble >= 18
                 /\ chip.preamble > 18 => (chip.preamble - 1) * 2^conf.sf * 1000 < target
  <2>1. PICK sf, bw, cr, n : sf = conf.sf /\ bw = conf.bandwidth /\ cr = conf.cr /\ n = RnodePreamble(sf, bw, cr)
    OBVIOUS
  <2>2. sf \in 5..12 /\ bw \in Nat /\ cr \in Int BY <2>1, SMT DEF SettingsInv
  <2>3. bw <= 500000 BY <2>1, SMT DEF SettingsInv, Running, Programmed
  <2>4. 2^sf \in Nat /\ 2^sf >= 32 BY <2>2, SymbolLengths
  <2>5. Modest(sf, bw, cr) BY <2>2, <2>3, <2>4, SMT DEF Modest
  <2>6. PreambleOK(n, sf, bw, cr) BY <2>1, <2>5, PreambleFits
  <2>7. Preamble(conf) = n BY <1>2, <2>1 DEF Preamble
  <2>8. chip.preamble = n % 65536 BY <2>7, SMT DEF SettingsInv, Running, Programmed, PreambleWritten
  <2>9. chip.preamble = n BY <2>6, <2>8, SMT DEF PreambleOK
  <2> QED BY <2>1, <2>6, <2>9, SMT DEF PreambleOK
<1> QED BY <1>1, <1>2

\* configure() with its fallback, and rnode_preamble(): for every setting, an
\* interface that runs listens with a preamble an RNode needs, and no longer than
\* that, and with a running oscillator, or on a board without a crystal whose TCXO
\* did not start.
THEOREM ReceiverIsReady == Spec => []ReceiverReady
<1>1. Init => ClockInv /\ SettingsInv
  <2> SUFFICES ASSUME Init PROVE ClockInv /\ SettingsInv OBVIOUS
  <2>1. ClockInv BY Boards, TcxoBoards DEF Init, ClockInv, NoChip, Clocked, profile
  <2>2. SettingsInv BY SMT DEF Init, SettingsInv, NoChip, NoConf, Programmed
  <2> QED BY <2>1, <2>2
<1>2. ClockInv /\ SettingsInv /\ [Next]_vars => (ClockInv /\ SettingsInv)'
  BY ClockStep, SettingsStep
<1>3. ClockInv /\ SettingsInv => ReceiverReady BY ReadyWhenRunning
<1> QED BY <1>1, <1>2, <1>3, PTL DEF Spec
===============================================================================
