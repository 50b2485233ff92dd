SPECIFICATION FairSpec
CONSTANTS
    WeekdaySets <- SomeWeekdays
    StartDates = {0, 2, 6, 8}
    Intervals = {1, 2, 3}
    Untils = {None, 8, 9, 15, 23, 40}
    Counts = {None, 1, 2, 3, 5}
    CycleLimit = 3
    None = None
INVARIANTS
    IInv
    FirstOnesInOrder
    NothingMissing
    RefusedOnlyWhenLong
PROPERTIES
    Ends
CHECK_DEADLOCK FALSE
