CONSTANTS
  Program <- MCProgram
  Def <- MCDef
  AnyOrder = 4
SPECIFICATION FairFlowSpec
INVARIANT CfStateSound ReachingSound
PROPERTY AnalysisEnds
CHECK_DEADLOCK FALSE
