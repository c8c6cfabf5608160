SPECIFICATION FairSpec
CONSTANTS
  NULL = NULL
  MaxInsts = 4
  PcMod = 4
  MaxExtFuncs = 2
  Funcs = {f1}
  Programs <- ApiPrograms
  AddrMod = 16
  Addrs = {2, 5, 6, 8, 9, 11, 15}
  AccessSizes = {1, 4}
  Mem = 2
  MemLen = 4
  Stack = 8
  StackSize = 4
  Readable = {0, 1, 2, 3, 4, 5, 8, 9, 10, 11, 12, 15}
  Writable = {2, 3, 4, 5, 8, 9, 10, 11, 12, 13, 15}
  Vital = {12}
INVARIANTS
  CrashesAreExplained
  JitIsCurrent
  AccessInBounds
PROPERTIES
  VmKeepsContract
  LoadTerminates
  ForwardCodeTerminates
