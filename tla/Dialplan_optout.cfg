CONSTANTS
    Companies = {A}
    Numbers = {n1}
    EnableRecording = TRUE
    None = None
SPECIFICATION Spec
INVARIANTS
    OptOutIsSent
CHECK_DEADLOCK FALSE
