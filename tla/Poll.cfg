SPECIFICATION Spec
CONSTANTS
    InstanceIDs = {1, 2, 4, 48, 127, 128, 130, 255, 256, 16383, 16384}
INVARIANTS RequestNamesEntry PollExact
