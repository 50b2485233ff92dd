SPECIFICATION FairSpec
CONSTANTS
    DayLength = 8
    None = None
    Procs = {p1, p2}
    AppointmentIds = {a1, a2, a3}
    Bookings <- RoomBookings
    Starts <- RoomStarts
    Offsets <- UTC
    Calendar <- OpenCalendar
    Policies <- AnnaPolicies
    Verbs = {"create", "reschedule"}
    Backend = "postgres"
    Faults = {}
    Serialised = FALSE
    MaxLog = 2
INVARIANTS Exclusive AgendaInv
PROPERTIES Implements Returns
