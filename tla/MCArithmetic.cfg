SPECIFICATION Spec
CONSTANTS
  Width = 8
  ByteBits = 4
  WordMod = 256
  NibbleMod = 4
  ByteMod = 16
  Granule = 4
INVARIANTS
  CheckedAddExact
  AlignUpIsCeiling
  FlagsOfWholeWords
  NarrowIsUnsigned
  DecIsSubOfOne
  LogicAlFlags
