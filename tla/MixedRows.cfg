SPECIFICATION FairSpec
CONSTANTS
    Regs = {"p", "q"}
    Ids = {"x", "y"}
    None = None
    IdOf <- TwoIds
    Total <- Ones
    Samples <- OneRow
    CancelCalls = {}
    CancelId <- CancelX
    PageSize = 1
    Room = 0
    Capacity = 1
    Announcements = 1
    MostErrors = 1
    ReadsFail = FALSE
PROPERTY DataNamesItsTask
CHECK_DEADLOCK FALSE
