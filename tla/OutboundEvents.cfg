CONSTANTS
    Attempts = {a1, a2}
    None = None
    MaxFaults = 2
SPECIFICATION Spec
INVARIANTS
    CorrelatedIsAnswered
    RefusedIsForgotten
PROPERTIES
    AcceptedIsReported
    ReportsLifecycle
    SilentOnceRefused
CHECK_DEADLOCK FALSE
