CONSTANTS
    FeePrecisionMax = 10
    Bps = {0, 1, 2, 3, 4, 5, 6, 7, 8, 9, 10}
    Amounts = {0, 1, 2, 3, 5, 7, 9, 11, 13}
    Durations = {0, 1}
    GracePeriods = {0, 1, 2}
    PenaltySlots = {0, 1, 2, 3}
    MaxSlot = 8
SPECIFICATION Spec
INVARIANTS
    PenaltyWithinDeposit
    FullPenaltyAfterPenaltyPeriod
PROPERTIES
    PenaltyNonDecreasing
