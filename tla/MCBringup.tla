------------------------------ MODULE MCBringup -------------------------------
(* Model-checking instances of Bringup.                                    *)
EXTENDS Bringup

MCSetupNames == DOMAIN Setups \cup {"unknown"}

\* Segment edges, channels that just fit and just do not, and the centre of the
\* narrow 10 % segment.
MCFrequencies ==
    {433050000, 433112500, 434500000, 434790000, 863062500, 865000000, 868537500, 868600000,
     868950000, 869525000, 869850000, 869937500}

\* The values comments of framing.py and interface.py give for rnode_preamble().
ASSUME DocumentedPreambles ==
    /\ RnodePreamble(8, 125000, 5) = 18
    /\ RnodePreamble(7, 125000, 5) = 24
    /\ RnodePreamble(7, 500000, 5) = 94
===============================================================================
