SPECIFICATION FairSpec
CONSTANTS
  Apis <- MCApis
  Builtin <- MCBuiltin
  Free <- MCFree
  Types <- MCTypes
  Sig <- MCSig
  Makes <- MCMakes
  ConstAble <- MCConstAble
  Samples <- MCSamples
  MaxSeqLen = 2
  Ids = {1, 2, 3, 4, 5, 6, 7, 8, 9, 10, 11, 12}
  MaxKept = 3
  MaxCorpus = 3
INVARIANTS ValidInputs PanicFree ArgumentsFit WorklistCovers
PROPERTIES GrowthIsForced CompletionEnds
