SPECIFICATION Spec
CONSTANTS
    Size = 1
    None = None
    Urls = {"t", "d"}
    Applies = {a, b}
    Attaches = {}
    Exits = {x}
    Others = {}
    Reports = {r, s}
    TrainUrl <- OneTrain
    DataUrl <- OneData
    MaxNow = 1
INVARIANTS TypeOK ApplyKeepsItsEntry AcceptedStaysListed IdsTellTasksApart
PROPERTY ImplementsTaskTable
CHECK_DEADLOCK FALSE
SYMMETRY Symmetric
