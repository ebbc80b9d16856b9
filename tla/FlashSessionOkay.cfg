SPECIFICATION Spec
CONSTANTS
    NBlocks = 5
    Named <- MCNamed
    Offset <- MCOffset
    Length <- MCLength
    ImgA = ImgA
    ImgB = ImgB
    Images = {ImgA, ImgB}
    Size <- MCSmall
    BootImages = {ImgA, ImgB}
    NoImage = NoImage
    FlashNames = {"boot"}
    EraseNames = {"boot"}
    MaxBad = 0
INVARIANTS
    FlashedImageBoots
