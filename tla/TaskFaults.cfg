SPECIFICATION Spec
CONSTANTS
    Tasks = {"a"}
    Ids = {"x"}
    NoTask = NoTask
    IdOf <- DistinctIds
    TimeLimited = {"a"}
    SendCalls = {"sx1"}
    BadCalls = {}
    FinishCalls = {}
    ErrorCalls = {"ex"}
    CancelCalls = {"k"}
    CallId <- CallIds
    Epochs = 1
    DataDeadline = TRUE
    MayClose = FALSE
INVARIANTS TypeOK NoSilentDeparture OneVerdictPerCause FinalStatusOnLeaving

PROPERTY QueuedCancelNeverTrains
