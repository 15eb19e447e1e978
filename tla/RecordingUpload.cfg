CONSTANTS
    Recordings = {good, refused}
    CronRuns = {cron1, cron2}
    Refused = {refused}
    SilentCalls = FALSE
    MaxLength = 1
    MaxFaults = 2
    None = None
SPECIFICATION Spec
INVARIANTS
    NothingLost
PROPERTIES
    EveryRecordingArrives
CHECK_DEADLOCK FALSE
