CONSTANT Buffers <- MCBuffers
SPECIFICATION MCSpec
INVARIANTS
  TypeOK
  UnitsTileTable
  EntriesTileUnit
  ReportsWhatWasWritten
PROPERTIES
  Terminates
