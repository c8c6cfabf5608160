SPECIFICATION Spec
CONSTANTS
  NULL = NULL
  MaxInsts = 4
  PcMod = 4
  MaxExtFuncs = 1
  Funcs = {f1}
  Programs <- ValidatorPrograms
  AddrMod = 4
  Addrs = {0}
  AccessSizes = {1}
  Mem = 0
  MemLen = 0
  Stack = 0
  StackSize = 2
  Readable = {0, 1}
  Writable = {0, 1}
  Vital = {}
CONSTRAINT ValidatorOnly
INVARIANTS
  TypeOK
  AcceptedIsSafe
  NoWildFetch
PROPERTIES
  RejectedIsUnsafe
