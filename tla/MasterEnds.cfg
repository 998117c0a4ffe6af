SPECIFICATION FairSpec
CONSTANTS
    Size = 2
    None = None
    Urls = {"t", "d"}
    Applies = {a}
    Attaches = {h}
    Exits = {x}
    Others = {o}
    Reports = {r}
    TrainUrl <- OneTrain
    DataUrl <- OneData
    MaxNow = 0
INVARIANTS SavedOnExit OnlyExitStops
PROPERTIES ReportAnswered LastTaskStopsMaster
CHECK_DEADLOCK FALSE
