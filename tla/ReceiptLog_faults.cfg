SPECIFICATION Spec
CONSTANTS
    p1 = p1
    p2 = p2
    None = None
    Procs = {p1, p2}
    Docs <- Reruns
    Faults <- FaultKinds
    MaxFaults = 2
SYMMETRY Symmetry
INVARIANT TypeOK
INVARIANT LogIntact
INVARIANT AckedIsDurable
PROPERTY DurableAppendOnly
