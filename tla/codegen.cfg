SPECIFICATION CodegenSpec
CONSTANTS
    WordSize <- MCWordSize
    IRModule <- MCIRModule
    Callees <- MCCallees
    Elements <- MCElements
    MemoryData <- MCMemoryData
    Fuel <- MCFuel
    OpSigs <- MCOpSigs
    Programs <- MCPrograms
    Inputs <- MCInputs
    InitialGlobals <- MCInitialGlobals
INVARIANTS
    
    
    OperatorsAreExact
