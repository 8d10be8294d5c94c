SPECIFICATION Spec
CONSTANTS
    Strips <- JPEGs
    Paddings <- Padding16
    maxStrips = 2
    maxStripBytes = 7
INVARIANTS StripsWhole StripsFound StripLimit
