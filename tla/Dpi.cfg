SPECIFICATION Spec
CONSTANTS
    maxCanvasHeight = 100000
    maxCanvasPixels = 100000000
INVARIANTS EveryResolutionFits
