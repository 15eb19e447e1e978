CONSTANTS
    MaxSecrets = 3
    MaxRoutes = 2
    NoSecrets = NoSecrets
SPECIFICATION OfficeSpec
INVARIANTS
    SecretsMatchData
    RoutesAreServed
    FinishedRunAgrees
PROPERTIES
    OneOfEach
CHECK_DEADLOCK FALSE
