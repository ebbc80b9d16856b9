SPECIFICATION Spec
CONSTANTS
    NBlocks = 5
    PagesPerBlock = 2
    XbootBlock = 1
    ImageOffset = 1
    LoadPages = 3
    CodePages = 1
    LogoOffset = 3
    NSteps = 2
    NLevels = 3
    RetryCount = 3
    StartLevels <- MCLevels
    Kinds <- MCKinds
    MaxBad = 2
    MaxWeak = 2
INVARIANTS
    TypeOK
    GivenUpOnlyIfUnreadable
    XbootTriesAll
    OnlyBlockHeadsMisread
    GetImageFinds
PROPERTY
    LoadEnds
