SPECIFICATION FairSpec
CONSTANTS
    Procs = {p1, p2}
    NoOne = NoOne
    Airtimes = {1, 2}
    ShortWindow = 1
    ShortBudget = 2
    LongWindow = 2
    LongBudget = 3
    Skew = 1
    Offsets = {0}
    StepInside = FALSE
    MaxReal = 1
    MaxGrants = 2
    MaxBoots = 1
INVARIANTS FirstUseCompletes
PROPERTIES Refines ReserveReturns
