SPECIFICATION Spec
CONSTANTS
    NBlocks = 3
    PagesPerBlock = 2
    PtnStart = 0
    PtnBlocks = 2
    ImagePages = 3
    Faults = {"blank"}
    PartialMarks = {}
INVARIANTS FlashedIsDownloaded
CHECK_DEADLOCK FALSE
