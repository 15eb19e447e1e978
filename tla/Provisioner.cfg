CONSTANTS
    Clients = {c1, c2}
    ConnIds = {conn}
    ExtIds = {ext}
    Specs = {s1}
    Absent = Absent
    RegistrationSpecs = {s1}
    DisabledSpecs = {s1}
    MaxFaults = 2
SPECIFICATION Spec
INVARIANTS
    IndInv
    Converged
    NoLostUpdate
PROPERTIES
    EveryRequestEnds
    ComesBack
    SavedIsRunning
    ImplementsMap
