SPECIFICATION Spec
CONSTANTS
    g1 = g1
    g2 = g2
    None = None
    Jobs = {g1, g2}
    Limit = 1
    MaxFence = 2
    MaxRuns = 2
    Faults <- Outages
    MaxFaults = 2
SYMMETRY Symmetry
INVARIANT GenerationTypeOK
PROPERTY CacheKept
PROPERTY OneDecision
