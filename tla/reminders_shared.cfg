SPECIFICATION FairSpec
CONSTANTS
    Procs = {w1, w2}
    Visits = {v1}
    Starts = {2, 3}
    LeadTimes <- OneAndTwo
    Backend = "sql"
    Faults = {"crash", "send", "mark"}
    Mobile = TRUE
    LastInstant = 3
    None = None
    w1 = w1
    w2 = w2
    v1 = v1
INVARIANTS
    RecordedWasDelivered
    TwiceOnlyForAReason
PROPERTIES
    ReportsStay
    Reminded
