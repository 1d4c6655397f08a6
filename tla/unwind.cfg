SPECIFICATION Spec
CONSTANTS
    Archs <- AllArchs
    MaxSets <- OneSet
    WordBits = 12
    StaticFDEs <- Program
    JITImages <- Images
    Callable <- Called
    InitialCalls <- Threads
    RaiseFunction <- RaiseFn
    ResumeFunction <- ResumeFn
    InitialCapacity = 2
    StackWords = 50
    MaxDepth = 3
    MaxThrows = 1
    Frames <- AllFrames
    Sections <- CompactSections
    Offsets = {10, 13, 14, 15, 17, 19, 20, 22, 24, 29}
    Prologues <- CheckedPrologues
    Depth = 4
    Terms <- AllTerms
    TermRegs <- TermRegisters
    TermMemory <- TermWords
INVARIANTS RegistersSurvive UnwindRecoversCaller  EveryUnwinderAgrees
CHECK_DEADLOCK FALSE
