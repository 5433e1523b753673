SPECIFICATION FairSpec
CONSTANTS
    Clients = {c1, c2}
    MaxCalls = 2
    MaxShutdowns = 1
    MaxDups = 1
    MaxGiveUps = 1
INVARIANTS TypeOK OneOutstanding SurplusFromFaults
PROPERTIES CallReturns LibraryKeepsCalls
