CONSTANTS
  Kinds <- MCWideOnly
  Commands <- MCWideGlobal
  Size <- MCSize
  Stride <- MCStride
  Encode <- CrateEncode
  SlotCount <- CrateSlotCount
  Decode <- CrateDecode
  Meaning <- CrateMeaning
  None <- NoCommand
SPECIFICATION Spec
PROPERTY DeliversCommands
