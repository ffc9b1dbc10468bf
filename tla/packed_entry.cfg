CONSTANTS
  Kinds <- EntryKinds
  Layout <- EntryLayout
  Blank <- EntryBlank
  Overlaps <- EntryOverlaps
  Narrow <- EntryNarrow
  Values <- MCValues
  MaxCalls = 3
SPECIFICATION Spec
INVARIANTS TypeOK FreshReadsBack OrderIrrelevant
CHECK_DEADLOCK FALSE
