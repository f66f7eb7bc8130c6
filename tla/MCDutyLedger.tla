---------------------------- MODULE MCDutyLedger ----------------------------
(* Model-checking instances of DutyLedger.                                 *)
EXTENDS DutyLedger

\* An RTC-less machine's clock: right, or off by more than the skew.
MCOffsets == {0, 2}
=============================================================================
