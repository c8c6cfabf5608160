SPECIFICATION Spec
CONSTANTS
  ByteBits = 2
  Unwind <- MCUnwind
  CallResults <- MCCallResults
  Junk = 43690
  MaxInsts = 8
  MaxExtFuncs = 3
  StackSize = 16
  Imm12 = 100
  Imm9 = 6
  StackTop <- MCStackTop
  StringLen = 5
  Arity <- MCArity
  Cases <- MCCases
  Values <- MCValues
INVARIANTS
  JitAgrees
  StaysInCode
  KeepsHostAbi
  AcceptedIsComplete
PROPERTIES
  NativeEnds
CHECK_DEADLOCK FALSE
