SPECIFICATION FairStartSpec
CONSTANTS
    Keys = {"fast", "recovery"}
    Bounce = TRUE
    Damaged = {"boot"}
    NDetect = 2
    LongPress = 2
    ShowTime = 2
    NSamples = 3
    Adc <- MCAdc
    Slop = 1
    Cut = 0
    Scale = 1
    Limit = 40
    DcUsbFilter = 15
    UsbFilter = 5
    DcFilter = 20
    Word = 4096
INVARIANTS
    StartTypeOK
    GoodBatteryStarts
PROPERTIES
    RecoveryComesFirst
    NoUnaskedRecovery
    ChargesUntilPressed
    LowBatteryStops
    UnplugEndsCharge
    SelectEnds
