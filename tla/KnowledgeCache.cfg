CONSTANTS
    Calls = {c1, c2}
    Agents = {a1, a2, a3}
    MaxVersion = 2
    MaxEntries = 2
SPECIFICATION Spec
INVARIANTS
    TypeOK
    NeverOlder
    OneVersionPerAgent
    InflightIsAwaited
PROPERTIES
    NewestIsKept
    WaitingEnds
