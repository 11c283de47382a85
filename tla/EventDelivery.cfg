CONSTANTS
  MaxLog = 2
  Retries = 4
  MaxEvents = 3
SPECIFICATION FairSpec
INVARIANTS TypeOK ClearIsCovered
PROPERTIES KeepsPromise LogDrains
