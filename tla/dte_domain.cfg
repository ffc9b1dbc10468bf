CONSTANTS
  Kinds <- MCDte
  Layout <- EntryLayout
  Blank <- EntryBlank
  Overlaps <- EntryOverlaps
  Narrow <- EntryNarrow
  Values <- MCValues
  MaxCalls = 2
SPECIFICATION Spec
PROPERTY DomainIdKeepsInterruptFields
CHECK_DEADLOCK FALSE
