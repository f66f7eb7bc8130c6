SPECIFICATION Spec
CONSTANTS
    SetupNames <- MCSetupNames
    Frequencies <- MCFrequencies
    Bandwidths = {7800, 62500, 125000, 250000, 500000}
    SpreadingFactors = {6, 7, 8, 12}
    CodingRates = {3, 5, 12}
    Powers = {0, 10, 14, 15}
    Shorts = {0, 50}
    Longs = {0, 1, 10, 100, 101}
    PreambleSettings = {0, 8}
INVARIANT OnAirLegal
CHECK_DEADLOCK FALSE
