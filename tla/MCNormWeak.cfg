CONSTANTS
  Parts = {"normalise"}
  NameOrder <- MCNames
  RepeatCap = 2
  MaxDepth = 12
  Jobs <- WeakJobs
  WordsOf <- MCWordsOf
  RewriteWordsOf <- RewriteWords
  Roots <- MCRoots
  FlagSets <- MCFlagSets
  RwCap = 12
  Specs <- MCSpecs
  Overrides <- MCOverrides
  MaxIndex = 2
  SourceNodes = {1, 2}
  Words <- MCWords
  BoundIn <- IntAtTop
  NodeIn <- NodeAtTop
  NoValue <- Fail
  WitnessAps = 8
  WitnessNodes = 128
  WitnessLength = 3
  Analysed <- MCAnalysed
  AnalysisWordsOf <- AnalysisWords
SPECIFICATION PartSpec
INVARIANTS SectionEquivalent
CHECK_DEADLOCK FALSE
