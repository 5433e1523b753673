SPECIFICATION Spec
CONSTANTS
    Clients = {c1}
    MaxCalls = 2
    MaxShutdowns = 0
    MaxDups = 1
    MaxGiveUps = 1
INVARIANT OwnAnswer
