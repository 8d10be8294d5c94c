SPECIFICATION FairSpec
CONSTANTS
    NoUser = NoUser
    Users = {Alice}
    Threshold = 3
    Guarded = FALSE
    Formats = {"PDF", "JPEG"}
    MaxPages = 1
    MaxFaults = 1
    Faults = {"link"}
PROPERTIES Recovers
