SPECIFICATION FairSpec
CONSTANTS
    None = None
    Chunks = {"a", "b"}
    Documents <- MCDocuments
    Parsable <- MCParsable
    References <- MCReferences
    Expectations <- MCExpectations
    Files = 2
    MaxOutside = 2
INVARIANT FileReadsInv
PROPERTY ReadIsWhole
PROPERTY ReadEnds
