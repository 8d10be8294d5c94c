SPECIFICATION Spec
CONSTANTS
    NoUser = NoUser
    Users = {Alice, Bob}
    Threshold = 3
    Guarded = FALSE
    Formats = {"PDF", "JPEG"}
    MaxPages = 1
    MaxFaults = 1
    Faults = {"switch"}
INVARIANTS OwnScan
