SPECIFICATION FairSpec
CONSTANTS
    NumFrames = 9
    InferLen = 4
    Overlap = 1
    ScanChunk = 5
    Dim = 1
    Requests <- MCRequests
INVARIANTS InputsSound WrittenAsPlanned
PROPERTY RequestEnds
