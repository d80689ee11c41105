CONSTANTS
    Kind = {"m", "p"}
    Managed = {"m"}
    Plain = "p"
    Nodes = {"for", "except", "clause", "finally"}
    MaxTemps = 2
    MaxScratch = 1
    MaxDepth = 2
SPECIFICATION CodeSpec
CHECK_DEADLOCK FALSE
CONSTRAINT NotOverridden
INVARIANTS TempsHaveOneOwner HoldsWhatIsExpected NothingLeaks
