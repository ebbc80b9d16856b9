SPECIFICATION Spec
CONSTANTS
    NSectors = 9
    SectorBytes = 2
    ChunkSectors = 2
    Ptns <- MCPtns
    Start <- MCStart
    Len <- MCLen
    FlashNames = {"boot", "recovery", "unnamed"}
    EraseNames = {"boot"}
    ImgA = ImgA
    ImgD = ImgD
    ImgR = ImgR
    Images = {ImgA, ImgD, ImgR}
    BootImages = {ImgA, ImgD}
    Bytes <- MCBytes
    MaxFaults = 1
    MaxCuts = 1
INVARIANTS
    TypeOK
    HeldOnDisk
    BootsFlashed
PROPERTIES
    Contained
