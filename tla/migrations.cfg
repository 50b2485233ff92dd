SPECIFICATION Spec
CONSTANTS
    Procs = {p1, p2}
    Databases = {d1, d2}
    Chain <- Repository
    Needs <- AllNeeds
    Goals = {0, 8, 9}
    Found <- SomeFound
    Engines = {"postgres", "sqlite"}
    Environments = {d1, None}
    IniUrl = d2
    Faults = {"crash", "stamp", "boot"}
    MaxCalls = 3
    None = None
    p1 = p1
    p2 = p2
    d1 = d1
    d2 = d2
CHECK_DEADLOCK FALSE
SYMMETRY ProcSymmetry
INVARIANTS
    AllOrNothing
    SchemaTellsTheVersion
PROPERTIES
    FailsOnlyForAReason
    OnlyWholeMoves
    OkMeansMigrated
