-------------------------------- MODULE Policy --------------------------------
(***************************************************************************)
(* The operating policy of loraham_rns/interface.py: which channels a band *)
(* permits, at which duty and power, and the board table of profiles.py.   *)
(* Frequencies in Hz (doubled where a half bandwidth is added), duty in    *)
(* tenths of a percent.                                                    *)
(***************************************************************************)
EXTENDS Integers, Sequences

Bands == {"433", "868"}

BandPolicy(band) ==
    IF band = "433" THEN [lo |-> 433050000, hi |-> 434790000, dbm |-> 10]
                    ELSE [lo |-> 863000000, hi |-> 870000000, dbm |-> 14]

PermittedSegments(band) ==
    IF band = "433"
    THEN << [lo |-> 433050000, hi |-> 434790000, duty |-> 100] >>
    ELSE << [lo |-> 863000000, hi |-> 865000000, duty |-> 1],
            [lo |-> 865000000, hi |-> 868600000, duty |-> 10],
            [lo |-> 868700000, hi |-> 869200000, duty |-> 1],
            [lo |-> 869400000, hi |-> 869650000, duty |-> 100],
            [lo |-> 869700000, hi |-> 870000000, duty |-> 10] >>

NoCeiling == 0

InsideByCentre(s, frequency, bandwidth) == s.lo <= frequency /\ frequency <= s.hi
Inside(s, frequency, bandwidth) ==
    2 * s.lo <= 2 * frequency - bandwidth /\ 2 * frequency + bandwidth <= 2 * s.hi

\* duty_ceiling(): the first segment the whole channel fits in.
DutyCeiling(band, frequency, bandwidth) ==
    LET segments == PermittedSegments(band)
        fits == {i \in DOMAIN segments : Inside(segments[i], frequency, bandwidth)}
    IN  IF fits = {} THEN NoCeiling
        ELSE segments[CHOOSE i \in fits : \A j \in fits : i <= j].duty

\* The tests of __init__ on channel, power and limits.
Accepted(band, c) ==
    LET ceiling == DutyCeiling(band, c.frequency, c.bandwidth)
    IN  /\ ceiling # NoCeiling
        /\ c.txpower <= BandPolicy(band).dbm
        /\ 0 < c.short /\ c.short <= 1000
        /\ 0 < c.long /\ c.long <= ceiling

-----------------------------------------------------------------------------
(* profiles.py                                                             *)

Presets ==
    [loraham433 |-> [band |-> "433", family |-> "sx127x", cs |-> 8, reset |-> TRUE, tcxo |-> FALSE],
     loraham868 |-> [band |-> "868", family |-> "sx127x", cs |-> 7, reset |-> TRUE, tcxo |-> FALSE],
     ce0        |-> [band |-> "433", family |-> "sx127x", cs |-> 8, reset |-> FALSE, tcxo |-> FALSE],
     ce1        |-> [band |-> "868", family |-> "sx127x", cs |-> 7, reset |-> FALSE, tcxo |-> FALSE],
     hat433     |-> [band |-> "433", family |-> "sx1262", cs |-> 21, reset |-> TRUE, tcxo |-> TRUE],
     hat868     |-> [band |-> "868", family |-> "sx1262", cs |-> 21, reset |-> TRUE, tcxo |-> TRUE]]

Setups ==
    [loraham       |-> {"loraham433", "loraham868"},
     uputronics    |-> {"ce0", "ce1"},
     uputronics433 |-> {"ce0"},
     uputronics868 |-> {"ce1"},
     waveshare433  |-> {"hat433"},
     waveshare868  |-> {"hat868"}]

\* resolve(): the presets of a setup that serve the band; none is an error.
Resolve(setup, band) ==
    IF setup \in DOMAIN Setups THEN {p \in Setups[setup] : Presets[p].band = band} ELSE {}

-----------------------------------------------------------------------------
(* What the policy means, said of points on the air instead of segments    *)

\* Frequencies of the band's surroundings that carry no generic allocation: what
\* is outside of the band, and the gaps kept for alarm systems.
Reserved(band) ==
    {[lo |-> 0, hi |-> BandPolicy(band).lo], [lo |-> BandPolicy(band).hi, hi |-> 1000000000]} \cup
    IF band = "433" THEN {}
    ELSE {[lo |-> 868600000, hi |-> 868700000], [lo |-> 869200000, hi |-> 869400000],
          [lo |-> 869650000, hi |-> 869700000]}

\* The channel and a range of frequencies share more than an edge, or more than
\* `slack` Hz of it.
Overlaps(range, frequency, bandwidth, slack) ==
    /\ 2 * frequency - bandwidth + 2 * slack < 2 * range.hi
    /\ 2 * range.lo < 2 * frequency + bandwidth - 2 * slack

\* A channel at this power and duty is permitted: nothing of it is reserved, and
\* every segment it touches allows the duty.
Legal(band, frequency, bandwidth, dbm, long, slack) ==
    /\ \A r \in Reserved(band) : ~Overlaps(r, frequency, bandwidth, slack)
    /\ \A i \in DOMAIN PermittedSegments(band) :
          Overlaps(PermittedSegments(band)[i], frequency, bandwidth, slack)
              => long <= PermittedSegments(band)[i].duty
    /\ dbm <= BandPolicy(band).dbm
===============================================================================
