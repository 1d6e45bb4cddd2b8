SPECIFICATION Spec
CONSTANTS
  NoType = NoType
  NoId = NoId
  BuiltinMethods = {"toString", "valueOf"}
  MaxTypeDepth = 6
  MaxProperties = 2
  MaxMappingDepth = 2
  Capitalized = {"A", "Sharp", "Kernel"}
  Private = {"_hidden"}
  Libraries <- MCCollisions
  SkipLists <- MCSkipLists
INVARIANT MethodIsKept
