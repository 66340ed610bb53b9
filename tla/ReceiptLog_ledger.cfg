SPECIFICATION Spec
CONSTANTS
    p1 = p1
    p2 = p2
    None = None
    Procs = {p1, p2}
    Docs <- MCDocs
    Faults <- Processes
    MaxFaults = 1
INVARIANT HeadTrails
INVARIANT NoTornRead
PROPERTY ImplementsLedger
SYMMETRY Symmetry
