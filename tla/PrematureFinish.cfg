SPECIFICATION Spec
CONSTANTS
    Regs = {"p"}
    Ids = {"x"}
    None = None
    IdOf <- OneId
    Total <- Twos
    Samples <- TwoRows
    CancelCalls = {}
    CancelId <- CancelX
    PageSize = 1
    Room = 0
    Capacity = 1
    Announcements = 1
    MostErrors = 1
    ReadsFail = FALSE
INVARIANT FinishAfterAllRows
CHECK_DEADLOCK FALSE
