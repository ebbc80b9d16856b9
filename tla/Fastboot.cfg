SPECIFICATION FairSpec
CONSTANTS
    Commands = {"getvar", "download", "flash", "erase", "erase-other", "reboot-bootloader", "reboot", "continue", "boot", "unknown"}
    Sizes = {0, 2, 5}
    MaxPkt = 2
    FifoMax = 2
    Requests = {"desc", "nodata"}
    MaxBroken = 2
INVARIANTS
    TypeOK
    RepliesMatch
    PacketsSorted
PROPERTIES
    OkayMeansStored
    EveryCommandAnswered
