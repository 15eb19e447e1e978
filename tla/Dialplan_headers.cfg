CONSTANTS
    Companies = {A}
    Numbers = {n1}
    EnableRecording = TRUE
    None = None
SPECIFICATION Spec
INVARIANTS
    CampaignHeadersAreSent
CHECK_DEADLOCK FALSE
