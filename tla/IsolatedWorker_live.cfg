SPECIFICATION RetriedSpec
CONSTANTS
    w1 = w1
    w2 = w2
    op1 = op1
    None = None
    Procs = {w1, op1}
    Workers = {w1}
    Docs <- TwoJobs
    Invocations <- TwoCalls
    Faults <- AllButPower
    Fragile <- FirstJob
    MaxFaults = 1
PROPERTY RetryCompletes
