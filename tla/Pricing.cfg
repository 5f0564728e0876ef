SPECIFICATION Spec
CONSTANTS
    MaxUnits = 5
    AnyTiers = 2
    MaxTiers = 3
    MaxBound = 3
    MaxPrice = 2
    MaxGrants = 2
    MaxGrant = 3
    Half = 8
INVARIANTS
    TierSumIsUnitSum
    CreditsCoverWhatTheyCan
    OldestGrantFirst
    LinesAddUp
CHECK_DEADLOCK FALSE
