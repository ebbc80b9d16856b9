SPECIFICATION Spec
CONSTANTS
    NBlocks = 5
    Named <- MCNamed
    Offset <- MCOffset
    Length <- MCLength
    ImgA = ImgA
    ImgB = ImgB
    Images = {ImgA, ImgB}
    Size <- MCSize
    BootImages = {ImgA}
    NoImage = NoImage
    FlashNames = {"boot", "system", "cache", "battery"}
    EraseNames = {"boot", "battery", "misc"}
    MaxBad = 1
INVARIANTS
    TypeOK
    XbootKept
    BootsFirstFlash
    NoJunkInside
