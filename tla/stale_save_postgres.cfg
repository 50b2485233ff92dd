SPECIFICATION Spec
CONSTANTS
    DayLength = 8
    None = None
    Procs = {p1, p2}
    AppointmentIds = {a1, a2, a3}
    Bookings <- RoomBookings
    Starts <- RoomStarts
    Offsets <- UTC
    Calendar <- OpenCalendar
    Policies <- AnnaPolicies
    Verbs = {"create", "reschedule", "confirm"}
    Backend = "postgres"
    Faults = {}
    Serialised = FALSE
    MaxLog = 3
INVARIANTS NoUnsanctionedOverlap
