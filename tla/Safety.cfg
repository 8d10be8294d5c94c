SPECIFICATION Spec
CONSTANTS
    NoUser = NoUser
    Users = {Alice, Bob}
    Threshold = 3
    Guarded = TRUE
    Formats = {"PDF", "JPEG"}
    MaxPages = 1
    MaxFaults = 2
    Faults = {"switch", "power", "link", "late", "loss", "scan", "kill", "term",
              "cleanup"}
SYMMETRY AnyUser
INVARIANTS TypeOK AtMostOneServing FailureCountConsistent
PROPERTIES OneDestination
