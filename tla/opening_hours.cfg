SPECIFICATION Spec
CONSTANTS
    DayLength = 6
    None = None
    b1 = b1
    Windows <- AnnasWindows
    BranchOf <- OneBranch
    Shapes <- SomeShapes
    TimeBlocks <- RoomBlock
    Holidays <- FirstDay
    Requests <- SomeRequests
    Engines = {"postgres", "sqlite"}
    MaxExceptions = 3
INVARIANTS
    IInv
    AnswersTheCalendar
    GreatestNumberDecides
PROPERTIES
    OnlyWhatConcernsIt
