SPECIFICATION FairSpec
CONSTANTS
    Clients = {c1}
    max_retry = 1
    MaxCalls = 2
    MaxBreaks = 1
INVARIANTS
    AnswersAreOwn
    DoneEndsEcho
    RepeatedOnlyAfterBreak
PROPERTIES
    AskedMeansQuit
CHECK_DEADLOCK FALSE
