CONSTANTS
  Kinds <- MCDte
  Layout <- EntryLayout
  Blank <- EntryBlank
  Overlaps <- EntryOverlaps
  Narrow <- EntryNarrow
  Values <- MCValues
  MaxCalls = 2
SPECIFICATION Spec
PROPERTY RootKeepsFieldsAbove
CHECK_DEADLOCK FALSE
