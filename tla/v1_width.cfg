CONSTANTS
  Walkers <- MCAmd
  Levels <- MCLevels
  Tables <- MCTables
  Root <- TRoot
  LevelOf <- MCLevelOf
  Addrs <- MCAddrs
  Frames <- MCFrames
  StartMem <- MCStartMem
  MaxWrites = 0
SPECIFICATION Spec
INVARIANT WideAddressesRefused
