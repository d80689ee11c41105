CONSTANTS
  Fun = {1, 2, 3}
  Module <- MCModule
  Program <- MCProgram
  Lookup = FALSE
SPECIFICATION InferenceSpec
INVARIANT SafeBodiesDoNotRaise UncheckedCallsDoNotRaise NothingLost
CHECK_DEADLOCK FALSE
