CONSTANTS
    Items = {i1, i2}
    Oversize = {}
    None = None
SPECIFICATION Spec
PROPERTIES
    CreatedCallIsCompleted
CHECK_DEADLOCK FALSE
