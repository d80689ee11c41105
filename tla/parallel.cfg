CONSTANTS
    Thread = {t0, t1, t2}
    Caller = t0
    MaxShare = 2
    MaxSteps = 3
    Nobody = Nobody
SPECIFICATION Spec
CHECK_DEADLOCK FALSE
INVARIANTS OwnedOnce OutcomeMatches OneLateBody
PROPERTY RegionEnds
