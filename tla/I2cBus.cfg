SPECIFICATION Spec
CONSTANTS
    Width = 3
    Device = 2
    NRegs = 4
    PageSize = 2
    Timeout = 1
    Calls <- MCCalls
    Contents <- MCContents
    MaxResets = 1
PROPERTIES
    Implements
    ReadResyncs
    CallEnds
