SPECIFICATION Spec
CONSTANTS
  AddrMod = 64
  Size = 40
  Granule = 4
  AllocBase = 12
  ThunkSize = 2
  Exe = "exe"
  DllNames = {"a", "b"}
  Exes <- MCExes
  Dlls <- MCDlls
  LongNames = {"long"}
  Garbage = {0, 9}
INVARIANTS
  DllsDisjoint
  AllocatorPastSections
  SectionsHoldTheirData
  PermissionsOfSections
  SlotsHoldLastExport
CHECK_DEADLOCK FALSE
