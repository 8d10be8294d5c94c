SPECIFICATION FairSpec
CONSTANTS
    NoUser = NoUser
    Users = {Alice}
    Threshold = 2
    Guarded = FALSE
    Formats = {"PDF", "JPEG"}
    MaxPages = 2
    MaxFaults = 3
    Faults = {"power", "idreset", "loss", "scan", "kill", "term", "cleanup"}
INVARIANTS SelectionFresh
PROPERTIES ReadyIsServed Announced
