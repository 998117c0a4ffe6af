SPECIFICATION FairSpec
CONSTANTS
    Ids = {1, 2, 3}
    Starts <- FeedStarts
    Texts = {"", "p", "f", "none", "v", "w"}
    Empty = ""
    Files = {"p", "f"}
    Pictures = {"p"}
    NoField = NoField
    NoMessage = NoMessage
    PageSize = 2
    MaxIO = 2
    Tries = 2
    QueriesFail = TRUE
INVARIANTS TypeOK NoRowTwice NoRowSkipped PairsKept MessagesDecode SamplesAccounted
PROPERTY EveryRowSettles
CHECK_DEADLOCK FALSE
