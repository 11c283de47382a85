CONSTANTS
    Patches = {1, 2, 3}
    MaxBootAttempts = 3
    MaxInstalled = 2
    MaxEvents = 1
SPECIFICATION OrderlySpec
INVARIANT LastKnownGoodHasFiles
