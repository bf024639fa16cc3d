CONSTANTS
    e1 = e1
    e2 = e2
    e3 = e3
    Events <- MCEvents
    Info <- MCInfo
    MaxDeliveries = 2
SPECIFICATION Spec
INVARIANT AtMostOneSubmission
