SPECIFICATION FairSpec
CONSTANTS
    Size = 1
    None = None
    Urls = {"t", "d"}
    Applies = {a}
    Attaches = {}
    Exits = {x}
    Others = {}
    Reports = {r}
    TrainUrl <- OneTrain
    DataUrl <- OneData
    MaxNow = 0
PROPERTIES ExitIsAnswered
CHECK_DEADLOCK FALSE
