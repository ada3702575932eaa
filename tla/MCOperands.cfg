SPECIFICATION Spec
CONSTANTS
  Width = 16
  ByteBits = 2
  WordMod = 65536
  NibbleMod = 2
  ByteMod = 4
  Size = 48
  Instructions <- MCInstructions
  Files <- MCFiles
  Images <- MCImages
  Residues <- MCResidues
  Builds = {FALSE, TRUE}
INVARIANTS
  GarbageOnlyWithoutIndexAndBase
PROPERTIES
  AgreesWithArchitecture
  OnlyDestinationChanges
  NarrowStoreSpills
  FailedLoadChangesNothing
  SignedOsizeSkipsMov
CHECK_DEADLOCK FALSE
