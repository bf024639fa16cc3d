CONSTANTS
    P0 = P0
    P1 = P1
    P2 = P2
    None = None
    B1 = B1
    B2 = B2
    I = I
    X = X
    F1 = F1
    F2 = F2
    FeeRecipients <- MCOneFeeRecipient
    Bidders <- MCBidders
    Initial = I
    Executor = X
    Params <- MCParams
    InitialParams = P0
    AdminParams = {}
    Target = P2
    MaxProposals = 2
    AdvanceOnPropose = FALSE
SPECIFICATION Spec
PROPERTY ScriptEnactsTarget
