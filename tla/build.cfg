SPECIFICATION BuildSpec
CONSTANTS
    p1 = p1
    p2 = p2
    a = a
    b = b
    x = x
    y = y
    broken = broken
    Proc = {p1, p2}
    Source = {a, b}
    Header = {}
    DepsOf <- SomeDeps
    FactsFrom <- SomeFacts
    Mode <- Modes
    Bad = {broken}
    Missing = Missing
    Dead = Dead
    Empty = Empty
    Torn = Torn
    Nothing = Nothing
SYMMETRY Symmetric
INVARIANTS SuccessIsCurrent CacheFaithful OnlyFailuresDropped
