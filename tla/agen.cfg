CONSTANTS
    Awaitable = {a1, a2, a3}
    Reused = {"anext", "asend", "aclose"}
SPECIFICATION AGSpec
SYMMETRY Symmetry
INVARIANT OneAtATime FlagReleased AcloseMeansDone
PROPERTY AnsweredOnce
