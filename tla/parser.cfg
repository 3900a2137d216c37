SPECIFICATION FairSpec
CONSTANTS
    Caller = {c1, c2}
    MaySave = {c2}
    Name = {n1}
    Document <- Pages
    CSS <- Prices
    Odd = {"1"}
    Cap = 2
    MaxCalls = 3
    MaxCrashes = 1
INVARIANTS
    TypeOK
    FileWhole
    SavedIsCurrent
PROPERTIES
    HealsTheAlike
    AllReturn
CHECK_DEADLOCK FALSE
