CONSTANTS
    Items = {i1, i2, long}
    Oversize = {long}
    None = None
SPECIFICATION Spec
INVARIANTS
    MessagesInSpokenOrder
    NothingLostSilently
    ReasonFitsTheEnd
    NoFalseTransfer
PROPERTIES
    EveryCallEnds
    KeepsCallRecord
CHECK_DEADLOCK FALSE
