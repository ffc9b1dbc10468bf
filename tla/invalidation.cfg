CONSTANTS
  None = None
  Hardware <- MCHardware
  Sids <- MCSids
  Dids <- MCDids
  PageAddrs <- MCPageAddrs
  Ranges <- MCRanges
  Frames = {f1, f2}
  Drivers <- MCDrivers
  Semaphore <- MCSemaphore
  Tickets <- MCTickets
SPECIFICATION FairSpec
INVARIANTS TypeOK FreedFramesUnreachable CompletedChangesVisible
PROPERTIES WordsFit ChangesComplete
