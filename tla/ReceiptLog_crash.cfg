SPECIFICATION Spec
CONSTANTS
    p1 = p1
    p2 = p2
    None = None
    Procs = {p1, p2}
    Docs <- TwoJobs
    Faults <- Kills
    MaxFaults = 1
INVARIANT CrashSafe
