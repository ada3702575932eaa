SPECIFICATION Spec
CONSTANTS
  AddrMod = 32
  Size = 8
  DIRTY_BLOCK_SIZE = 2
  WordBits = 3
  IntBits = 2
  Granule = 2
  AllocBase = 4
  Values = {0, 1}
  Zero = 0
  Writes <- MCWrites
  Reads <- MCReads
  Grants <- MCGrants
  AllocSizes = {1, 4}
INVARIANTS
  TypeOK
  BitmapFollowsList
  DirtyWithinReserve
  RawReadableIffWritten
  AllocationsDisjoint
PROPERTY OnlyWritableChanges
