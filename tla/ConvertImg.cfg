SPECIFICATION Spec
CONSTANTS
    PagesPerBlock = 2
    SectorsPerPage = 4
    SectorBytes = 2
    Chunk = 3
    MetaMax = 2
    Lengths = {1, 2, 3, 8, 16, 17, 26, 40}
    Flashes = 3
INVARIANTS
    TypeOK
    FirstImageInOrder
    OnlyLastBlockLost
