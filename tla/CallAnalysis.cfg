CONSTANTS
    Limit = 1000
    Lengths = {40, 1000, 1001}
    None = None
SPECIFICATION Spec
INVARIANTS
    InputFits
    SummaryIsUsable
    DataIsComplete
CHECK_DEADLOCK FALSE
