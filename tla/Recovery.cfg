SPECIFICATION FairSpec
CONSTANTS
    NoUser = NoUser
    Users = {Alice, Bob}
    Threshold = 2
    Guarded = FALSE
    Formats = {"PDF"}
    MaxPages = 1
    MaxFaults = 2
    Faults = {"switch", "power", "idreset", "loss", "kill", "term", "cleanup"}
INVARIANTS NoOrphanEntry
PROPERTIES Recovers
