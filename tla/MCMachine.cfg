SPECIFICATION FairSpec
CONSTANTS
  CopyGuarded = FALSE
  OsizeSigned = FALSE
  AddrMod = 128
  ByteMod = 8
  SlotBytes = 8
  MemSize = 88
  Readable <- MCReadable
  Writable <- MCWritable
  CodeAddr <- MCCodeAddr
  Programs <- MachinePrograms
  Countdowns <- CountdownPrograms
  SkipSizes = {7}
  Entry = 0
  StackTop = 88
  Argv = 48
INVARIANTS
  TypeOK
  StackHoldsPushed
  ExitIsRequested
PROPERTIES
  RetFollowsPush
  TerminateEndsMain
  CountdownsHalt
CHECK_DEADLOCK FALSE
