SPECIFICATION FairSpec
CONSTANTS
    g1 = g1
    g2 = g2
    None = None
    Jobs = {g1, g2}
    Limit = 2
    MaxFence = 1
    MaxRuns = 2
    Faults <- Replies
    MaxFaults = 2
PROPERTY Reconciled
