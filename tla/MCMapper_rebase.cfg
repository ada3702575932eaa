SPECIFICATION Spec
CONSTANTS
  AddrMod = 64
  Size = 40
  Granule = 4
  AllocBase = 12
  ThunkSize = 2
  Exe = "exe"
  DllNames = {"a", "b"}
  Exes <- PlainExes
  Dlls <- PlainDlls
  LongNames = {"long"}
  Garbage = {0}
INVARIANT ImportsAreRebased
CHECK_DEADLOCK FALSE
