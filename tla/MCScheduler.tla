----------------------------- MODULE MCScheduler ------------------------------
(***************************************************************************)
(* Small agendas for TLC.  A day has 8 instants, every professional works  *)
(* days 0 and 1 from instant 0 to instant 6, an appointment takes 2.       *)
(***************************************************************************)
EXTENDS SchedulerInvariant, TLC

CONSTANT AppointmentIds  \* interchangeable appointments

Appointment(id, resource, secondary, series, start) ==
    [ id |-> id, resource |-> resource, secondary |-> secondary, duration |-> 2,
      status |-> "pending", branch |-> None, series |-> series,
      start |-> start, offset |-> 0, overbooked |-> FALSE ]

Window(resource, weekday) ==
    [ resource |-> resource, weekday |-> weekday, from |-> 0, to |-> 6,
      validFrom |-> None, validTo |-> None ]

OpenCalendar ==
    [ windows |-> { Window(r, d) : r \in {"anna", "bert"}, d \in 0 .. 1 },
      exceptions |-> <<>>, holidays |-> {}, blocks |-> {},
      branchOf |-> [r \in {} |-> None] ]

\* anna keeps one instant between appointments and takes one overbooking a day.
AnnaPolicies == [r \in {"anna"} |-> [gap |-> 1, cap |-> 1]]

UTC == {0}

-------------------------------------------------------------------------------
\* One desk: every appointment is with anna, is booked at the opening and may be
\* moved.  2 is too close to 0, 3 is not.
DeskStarts == {0, 2, 3}
DeskBookings == { Appointment(id, "anna", {}, None, 0) : id \in AppointmentIds }

DeskSymmetry == Permutations(AppointmentIds) \cup Permutations(Procs)

-------------------------------------------------------------------------------
\* A shared room: x and y are with different professionals and compete for it.
\* y is also asked for with resources that share nothing with the first y.
RoomStarts == {0, 2}
RoomBookings ==
    { Appointment("x", "anna", {"room"}, None, 0),
      Appointment("y", "bert", {"room"}, None, 0),
      Appointment("y", "anna", {}, None, 2) }

CallerSymmetry == Permutations(Procs)

-------------------------------------------------------------------------------
\* A series of two, and an appointment that competes with its first.
SeriesStarts == {0, 3}
SeriesBookings ==
    { Appointment("x", "anna", {}, "weekly", 0),
      Appointment("y", "anna", {}, "weekly", 3),
      Appointment("z", "anna", {}, None, 0) }

-------------------------------------------------------------------------------
\* A desk four instants west of Greenwich: instant 8 is day 1 in UTC and still
\* day 0, time 4, at the desk.
West == {-4}
WestStarts == {8}
WestBookings ==
    { [Appointment(id, "anna", {}, None, 8) EXCEPT !.offset = -4] : id \in AppointmentIds }

===============================================================================
