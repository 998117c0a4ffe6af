SPECIFICATION Spec
CONSTANTS
    Regs = {p, q}
    Ids = {"x"}
    None = None
    IdOf <- OneId
    Total <- Threes
    Samples <- OneRow
    CancelCalls = {c, d}
    CancelId <- CancelX
    PageSize = 1
    Room = 0
    Capacity = 1
    Announcements = 1
    MostErrors = 1
    ReadsFail = TRUE
INVARIANTS TypeOK NoOrphanRecord RunningTaskCounted ThresholdExact
SYMMETRY Alike
CHECK_DEADLOCK FALSE
