CONSTANTS
  Parts = {"normalise", "rewrite", "expand", "analyse"}
  NameOrder <- MCNames
  RepeatCap = 2
  MaxDepth = 12
  Jobs <- MCJobs
  WordsOf <- MCWordsOf
  RewriteWordsOf <- RewriteWords
  Roots <- MCRoots
  FlagSets <- MCFlagSets
  RwCap = 12
  Specs <- MCSpecs
  Overrides <- MCOverrides
  MaxIndex = 2
  SourceNodes = {1, 2}
  Words <- MCWords
  BoundIn <- IntAtTop
  NodeIn <- NodeAtTop
  NoValue <- Fail
  WitnessAps = 8
  WitnessNodes = 128
  WitnessLength = 3
  Analysed <- MCAnalysed
  AnalysisWordsOf <- AnalysisWords
SPECIFICATION PartSpec
INVARIANTS SectionEquivalent RewriteEquivalent ExpansionExact StagedUntilPublished
INVARIANTS AnalysisTruthful VerdictRight SplitFaithful
CHECK_DEADLOCK FALSE
