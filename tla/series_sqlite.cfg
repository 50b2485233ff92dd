SPECIFICATION Spec
CONSTANTS
    DayLength = 8
    None = None
    Procs = {p1, p2}
    AppointmentIds = {a1, a2, a3}
    Bookings <- SeriesBookings
    Starts <- SeriesStarts
    Offsets <- UTC
    Calendar <- OpenCalendar
    Policies <- AnnaPolicies
    Verbs = {"create", "confirm", "cancel", "cancel_series"}
    Backend = "sqlite"
    Faults = {"crash", "busy"}
    Serialised = TRUE
    MaxLog = 2
SYMMETRY CallerSymmetry
INVARIANTS HistoryNeverAhead
PROPERTIES Implements
