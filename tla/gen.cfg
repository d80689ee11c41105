CONSTANTS
  Gen = {c1, c2, g1}
  Coroutine = {c1, c2}
  Thread = {t1, t2}
  NoGen = NoGen
  Thrown <- ExitOrStop
  Uncaught <- ExitOrStop
  UseAmSend = TRUE
  GeneratorStop = TRUE
  Gil = FALSE
SPECIFICATION Spec
SYMMETRY Symmetry
INVARIANT RunningExact DelegateStable ExcStackMatchesCalls
PROPERTY StopIterationOnlyFromExhausted DelegationEndsWithValue
