CONSTANTS
  Walkers <- Formats
  Levels <- MCLevels
  Tables <- MCTables
  Root <- TRoot
  LevelOf <- MCLevelOf
  Addrs <- MCAddrs
  Frames <- MCFrames
  StartMem <- MCStartMem
  MaxWrites = 3
SPECIFICATION Spec
INVARIANTS TypeOK ReadsOnlyTables Linearizable
PROPERTY Terminates
