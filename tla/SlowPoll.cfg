SPECIFICATION Spec
CONSTANTS
    Jobs <- Feeder
    maxStrips = 3
    maxStripBytes = 320
    maxPageBytes = 400
    maxTotalBytes = 600
    maxPages = 3
    MaxBusy = 0
    Patience = 2
    MaxFaults = 1
    Faults = {"slow"}
INVARIANTS PagesFaithful
