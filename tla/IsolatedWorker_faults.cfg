SPECIFICATION WorkerSpec
CONSTANTS
    w1 = w1
    w2 = w2
    op1 = op1
    None = None
    Procs = {w1, w2, op1}
    Workers = {w1, w2}
    Docs <- Attempts
    Invocations <- SharedUri
    Faults <- AllButPower
    Fragile = {}
    MaxFaults = 1
SYMMETRY Symmetry
INVARIANT WorkerInv
INVARIANT CommitNeverStale
PROPERTY ResultImmutable
PROPERTY NoContradiction
PROPERTY ExpiryIsFinal
