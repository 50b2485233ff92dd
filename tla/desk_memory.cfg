SPECIFICATION Spec
CONSTANTS
    DayLength = 8
    None = None
    Procs = {p1, p2}
    AppointmentIds = {a1, a2, a3}
    Bookings <- DeskBookings
    Starts <- DeskStarts
    Offsets <- UTC
    Calendar <- OpenCalendar
    Policies <- AnnaPolicies
    Verbs = {"create", "reschedule", "confirm", "start", "cancel", "complete"}
    Backend = "memory"
    Faults = {}
    Serialised = TRUE
    MaxLog = 3
SYMMETRY DeskSymmetry
INVARIANTS TypeOK NoUnsanctionedOverlap OverbookingCap HistoryTellsTheStatus
PROPERTIES ClosedIsFinal
