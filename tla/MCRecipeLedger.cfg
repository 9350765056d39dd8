SPECIFICATION FairSpec
CONSTANTS
    DatasetRecipes = 2
    FlightRecipes = 2
    DoPut = 2
    Depth = 1
    MaxRuns = 2
    MaxTests = 3
INVARIANTS
    PassMeansRecorded
    OutputsAreOwn
    DumpsAreKept
PROPERTIES
    UnreadableStays
    RunEnds
CHECK_DEADLOCK FALSE
