SPECIFICATION Spec
CONSTANTS
    Procs = {p1}
    NoOne = NoOne
    Airtimes = {1, 2}
    ShortWindow = 2
    ShortBudget = 2
    LongWindow = 3
    LongBudget = 3
    Skew = 1
    Offsets <- MCOffsets
    StepInside = FALSE
    MaxReal = 4
    MaxGrants = 2
    MaxBoots = 1
INVARIANTS RealBudget BurstGuard Charged LedgerNotOlder StampsPlausible
PROPERTIES AgesExactly
