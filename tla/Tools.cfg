SPECIFICATION MCSpec
CONSTANTS
  NULL = NULL
  MaxInsts = 4
  PcMod = 4
  MaxExtFuncs = 3
  Funcs = {"memfrob", "unwind"}
  Programs = {}
  AddrMod = 64
  Addrs = {0, 4, 8}
  AccessSizes = {1}
  Mem = 0
  MemLen = 2
  Stack = 4
  StackSize = 2
  Readable = {0, 1, 4, 5}
  Writable = {0, 1, 4, 5}
  Vital = {}
  EhdrSize = 1
  ShdrSize = 1
  RelSize = 2
  SymSize = 1
  MaxSections = 8
  Files <- MCFiles
  Helpers <- MCHelpers
  ByteMod = 4
  WordSize = 8
  VulFunc = 20
  Handlers = {0, 10, 25, 28, 40, 41, 100}
  FuncSize = 12
  Starts = {0, 2, 5, 8, 10}
  Procs = {p1, p2}
  NoFile = NoFile
  Elfs = {"plain", "structs", "unions", "untyped"}
  Srcs = {"one", "two"}
  Btf <- MCBtf
INVARIANTS
  RunsTheLinkedFile
  LoaderStaysInside
  HookSparesTarget
  ToolsUseTheirOwn
  LeftoversExplained
