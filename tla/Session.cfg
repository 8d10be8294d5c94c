SPECIFICATION FairSpec
CONSTANTS
    Jobs <- Feeder
    maxStrips = 3
    maxStripBytes = 320
    maxPageBytes = 400
    maxTotalBytes = 600
    maxPages = 3
    MaxBusy = 2
    Patience = 2
    MaxFaults = 2
    Faults = {"stall", "drop", "cancel", "off"}
INVARIANTS TypeOK PagesFaithful InStep LimitsExact
PROPERTIES TakesPages OnlyFaultsFail Ends
