SPECIFICATION Spec
CONSTANTS
    DayLength = 8
    None = None
    Procs = {p1, p2}
    AppointmentIds = {a1, a2, a3}
    Bookings <- WestBookings
    Starts <- WestStarts
    Offsets <- West
    Calendar <- OpenCalendar
    Policies <- AnnaPolicies
    Verbs = {"create"}
    Backend = "sqlite"
    Faults = {}
    Serialised = TRUE
    MaxLog = 3
INVARIANTS OverbookingCap
