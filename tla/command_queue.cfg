CONSTANTS
  Kinds <- MCKinds
  Commands <- MCCommands
  Size <- MCSize
  Stride <- MCStride
  Encode <- CrateEncode
  SlotCount <- CrateSlotCount
  Decode <- CrateDecode
  Meaning <- CrateMeaning
  None <- NoCommand
SPECIFICATION Spec
INVARIANTS TypeOK CodecFits
PROPERTY DeliversCommands
