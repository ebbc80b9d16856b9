SPECIFICATION Spec
CONSTANTS
    NSectors = 9
    SectorBytes = 2
    ChunkSectors = 2
    Ptns <- MCPtns
    Start <- MCStart
    Len <- MCLen
    FlashNames = {"boot", "recovery"}
    EraseNames = {"boot"}
    ImgA = ImgA
    ImgD = ImgD
    ImgR = ImgR
    Images = {ImgA}
    BootImages = {ImgA}
    Bytes <- MCBytes
    MaxFaults = 0
    MaxCuts = 0
PROPERTIES
    EraseStaysInside
