CONSTANTS
  Kinds <- MCAmdOnly
  Commands <- MCInterruptTable
  Size <- MCSize
  Stride <- MCStride
  Encode <- CrateEncode
  SlotCount <- CrateSlotCount
  Decode <- CrateDecode
  Meaning <- CrateMeaning
  None <- NoCommand
SPECIFICATION Spec
PROPERTY DeliversCommands
