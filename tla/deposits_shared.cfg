SPECIFICATION Spec
CONSTANTS
    Procs = {p1, p2}
    DepositIds = {d1, d2}
    Visits = {v1, v2}
    Methods = {cash}
    Backend = "sql"
    Faults = {"crash", "port"}
    Serialised = FALSE
    MaxRefunds = 2
    None = None
    p1 = p1
    p2 = p2
    d1 = d1
    d2 = d2
    v1 = v1
    v2 = v2
    cash = cash
SYMMETRY Symmetries
INVARIANTS
    OneDepositPerAppointment
    ChargedAtMostOnce
    RefundedWasAskedFor
    IInv
