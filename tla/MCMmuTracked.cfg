SPECIFICATION Spec
CONSTANTS
  AddrMod = 24
  Size = 6
  DIRTY_BLOCK_SIZE = 2
  WordBits = 3
  IntBits = 2
  Granule = 2
  AllocBase = 2
  Values = {0, 1}
  Zero = 0
  Writes <- MCWrites
  Reads <- MCReads
  Grants <- MCGrants
  AllocSizes = {1, 3}
INVARIANTS
  EveryChangeTracked
  PermissionChangesTracked
PROPERTIES
  ResetBringsBack
  ImplementsForkableMemory
