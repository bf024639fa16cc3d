CONSTANTS
    e1 = e1
    e2 = e2
    e3 = e3
    Events <- MCEvents
    Info <- MCInfo
    MaxDeliveries = 2
    FILL = FILL
    REVERT = REVERT
SPECIFICATION Spec
INVARIANT AtMostOneSubmission
