CONSTANTS
  Latest = 3
  Seeders = {s1, s2}
  MaxRows = 2
  NoStage = NoStage
  MaxFaults = 1
SPECIFICATION FairSpec
INVARIANTS TypeOK ServesOnlyAtHead MigratesWhatItRead SeededOnce WholeCatalog NeverStuck
PROPERTIES ComesUp SeedEnds
CHECK_DEADLOCK FALSE
