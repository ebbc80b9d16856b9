SPECIFICATION Spec
CONSTANTS
    Keys = {"recovery"}
    Bounce = FALSE
    Damaged = {}
PROPERTIES
    RecoveryHonoured
