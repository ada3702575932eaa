SPECIFICATION Spec
CONSTANTS
  CopyGuarded = TRUE
  OsizeSigned = TRUE
  AddrMod = 128
  ByteMod = 8
  SlotBytes = 8
  MemSize = 88
  Readable <- MCReadable
  Writable <- MCWritable
  CodeAddr <- MCCodeAddr
  Programs <- ZeroPrograms
  Countdowns = {}
  SkipSizes = {7}
  Entry = 0
  StackTop = 88
  Argv = 48
PROPERTY DecSetsZeroFlag
CHECK_DEADLOCK FALSE
