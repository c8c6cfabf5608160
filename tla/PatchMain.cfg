SPECIFICATION RuntimeSpec
CONSTANTS
  NULL = NULL
  MaxInsts = 8
  PcMod = 8
  MaxExtFuncs = 4
  Funcs = {"new_sqrt", "strcmp_ext", "unwind"}
  Programs <- MCPrograms
  AddrMod = 4
  Addrs = {0, 2, 3}
  AccessSizes = {1}
  Mem = 0
  MemLen = 0
  Stack = 0
  StackSize = 2
  Readable = {0, 1, 2}
  Writable = {0, 1, 2}
  Vital = {2}
  Patch <- Patches
  Results <- PatchResults
INVARIANTS
  RuntimeTypeOK
  OwnPatchRuns
  FixedIsEarned
PROPERTIES
  VmKeepsContract
  MainEnds
