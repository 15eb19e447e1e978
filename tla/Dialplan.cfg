CONSTANTS
    Companies = {A, B}
    Numbers = {n1, n2}
    EnableRecording = TRUE
    None = None
SPECIFICATION Spec
INVARIANTS
    UploadedOnce
    StaysInCompany
    StaysGenerated
PROPERTIES
    EveryChannelEnds
CHECK_DEADLOCK FALSE
