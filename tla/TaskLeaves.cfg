SPECIFICATION FairSpec
CONSTANTS
    Tasks = {"a", "b"}
    Ids = {"x"}
    NoTask = NoTask
    IdOf <- OneId
    TimeLimited = {"a", "b"}
    SendCalls = {"sx1"}
    BadCalls = {}
    FinishCalls = {"fx"}
    ErrorCalls = {}
    CancelCalls = {}
    CallId <- CallIds
    Epochs = 1
    DataDeadline = FALSE
    MayClose = FALSE
PROPERTY EveryTaskLeaves
CONSTRAINT RepeatedLater
