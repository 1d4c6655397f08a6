CONSTANTS
    OpSigs <- MCOpSigs
    InitialFiles <- MCInitialFiles
    DefaultFeatures <- MCDefaultFeatures
    BadBytes = {1, 64, 128}
    MaxTools = 3
    MaxMemoryPages = 3
    MaxTableElems = 1000
    MaxLocals = 5
    MaxDataSegments = 3
    MaxLabels = 10
    BytesPerLine = 2
    BytesPerPage = 2
    Width32 = 10
    Width64 = 16
SPECIFICATION Spec
INVARIANTS
    
    AcceptedIsValid
    DisassemblyIsStable
    
CHECK_DEADLOCK FALSE
