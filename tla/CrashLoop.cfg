CONSTANTS
    Patches = {1, 2, 3}
    Broken = {2, 3}
    MaxBootAttempts = 3
    MaxInstalled = 2
    MaxEvents = 1
SPECIFICATION LoopSpec
PROPERTIES
    CrashLoopEnds
    GoodPatchComesBack
