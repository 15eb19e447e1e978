CONSTANTS
    Messages = {m1}
    Others = {"transfer"}
    MaxRetries = 1
SPECIFICATION Spec
PROPERTIES
    ImplementsOnceOnly
    CompletedLast
    EveryRequestReturns
CHECK_DEADLOCK FALSE
