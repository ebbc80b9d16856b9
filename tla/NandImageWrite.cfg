SPECIFICATION FairSpec
CONSTANTS
    NBlocks = 4
    PagesPerBlock = 2
    PtnStart = 1
    PtnBlocks = 2
    ImagePages = 3
    Faults = {"program", "erase", "blank", "uncor", "power"}
    PartialMarks = {2}
INVARIANTS TypeOK IInv ReaderFindsImage SpillOnlyWhenFull OldHeaderMeansOldImage
PROPERTIES BadBlocksUntouched WriteTerminates
CHECK_DEADLOCK FALSE
