SPECIFICATION FairSpec
CONSTANTS
    j1 = j1
    j2 = j2
    None = None
    Jobs = {j1, j2}
    Bad <- OneBad
    MaxFence = 1
    MaxRuns = 2
    MaxFaults = 2
INVARIANT SilentDecision
INVARIANT RemoteInv
PROPERTY NoSecondDecision
PROPERTY ReplayKept
PROPERTY ClaimEnds
CHECK_DEADLOCK FALSE
