SPECIFICATION Spec
CONSTANTS
    Tasks = {"a", "b"}
    Ids = {"x", "y"}
    NoTask = NoTask
    IdOf <- DistinctIds
    TimeLimited = {}
    SendCalls = {"sx1", "sx2", "sy1"}
    BadCalls = {"sx2"}
    FinishCalls = {"fx", "fy"}
    ErrorCalls = {}
    CancelCalls = {}
    CallId <- CallIds
    Epochs = 1
    DataDeadline = FALSE
    MayClose = TRUE
INVARIANTS TrainsOnCompleteData WaitingTaskReachable
PROPERTIES AcknowledgedDataTrained FileReadAlone ImplementsTaskLine
CONSTRAINT RareAlone
