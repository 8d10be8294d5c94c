SPECIFICATION Spec
CONSTANTS
    Jobs <- Feeder
    maxStrips = 3
    maxStripBytes = 320
    maxPageBytes = 400
    maxTotalBytes = 600
    maxPages = 3
    MaxBusy = 2
    Patience = 2
    MaxFaults = 0
    Faults = {}
INVARIANTS WaitsForPrinter
