SPECIFICATION Spec
CONSTANTS
    Nothing = Nothing
    Ids = {1, 2, 3, 4}
    Bodies <- MCBodies
    Seeds = {"even", "flat", "late"}
    SplitOf <- MCSplitOf
    Exports <- MCExports
    MaxOutput = 4
    MaxArtifacts = 9
    Jobs <- MCJobs
    Benchmarks <- MCBenchmarks
    Payloads <- MCPayloads
    Declarations <- MCDeclarations
    Weights = {"size", "heft"}
    WeightMax = 100
    Scale = 100
    Discount <- MCDiscount
    CutOff <- MCCutOff
INVARIANT ExperimentTypeOK
INVARIANT FrozenAccepted
INVARIANT OnlyFrozenAccepted
INVARIANT NoHiddenDrift
INVARIANT SealedUnread
INVARIANT KeepEarned
INVARIANT MetricLaws
CHECK_DEADLOCK FALSE
