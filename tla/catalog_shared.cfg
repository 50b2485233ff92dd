SPECIFICATION Spec
CONSTANTS
    Callers = {c1, c2}
    Ids <- SmallIds
    Asked <- SmallRows
    Engines = {"postgres", "sqlite", "sqlite_from_url"}
    None = None
    b1 = b1
    r1 = r1
    s1 = s1
    a1 = a1
    c1 = c1
    c2 = c2
SYMMETRY CallerSymmetry
INVARIANTS
    TypeOK
    NoOrphans
    UnreadableOnlyIfTorn
PROPERTIES
    NumbersNameOneRow
