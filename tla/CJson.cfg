CONSTANTS
  NULL = NULL
  Nodes <- MCNodes
  Keys <- MCKeys
  Fold <- MCFold
  Texts <- MCTexts
  NestingLimit = 2
  MaxCount = 2
  MaxEdits = 3
  Width <- MCWidth
  INT_MAX = 30
  Prebuffers = {7}

SPECIFICATION Spec
CHECK_DEADLOCK FALSE

INVARIANTS
  TypeOK
  HeldOnce
  ListsAreSound
  StringsAccounted
  CopyIsFaithful
  ParsesTheGrammar
  CompareIsEquality
  PrintsText
  PreallocatedSuffices
PROPERTIES
  KeepsTree
  JobsEnd
