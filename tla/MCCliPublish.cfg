CONSTANTS
  Sources = {"a", "b", "c"}
  Pin <- MCPin
  Plugins <- MCPlugins
  Manifest <- MCManifest
  Native <- MCNative
  Inventory <- MCInventory
  Entry <- MCEntry
  Calls <- MCCalls
  Ids = {i1, i2}
  Names = {"app"}
  KeyFiles = {k1, k2}
  MaxNumber = 1
  MaxCommands = 3
  Retries = 1
SYMMETRY Symmetry
SPECIFICATION Spec
INVARIANTS TypeOK CreatedMeansPublished PatchReproducesSource AppKeyOnDisk InstalledUnderPin
CHECK_DEADLOCK FALSE
