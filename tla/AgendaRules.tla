----------------------------- MODULE AgendaRules ------------------------------
(***************************************************************************)
(* What one scheduler is configured with (its opening hours, its policies) *)
(* and the inputs its callers may hand it, together with the decision that *)
(* InMemoryScheduler._validate_slot takes from them.                       *)
(***************************************************************************)
EXTENDS Scheduling

CONSTANTS
    Bookings,  \* the appointments callers may ask create() to book
    Starts,    \* the instants callers may ask for
    Offsets,   \* the UTC offsets callers write their datetimes with
    Calendar,  \* windows, exceptions, holidays, blocks and branches
    Policies   \* resource |-> [gap, cap], for the resources that have one

Ids == { b.id : b \in Bookings }

Resources == UNION { Occupied(b) : b \in Bookings }

\* Values an appointment may take: id, resources, duration, series and branch
\* are those of a booking, the rest changes in its life.
Appointments ==
    [ id         : Ids,
      resource   : Resources,
      secondary  : SUBSET Resources,
      duration   : Nat \ {0},
      status     : Statuses,
      branch     : { b.branch : b \in Bookings },
      series     : { b.series : b \in Bookings },
      start      : Starts,
      offset     : Offsets \cup {0},
      overbooked : BOOLEAN ]

ASSUME BookingsAssumption ==
    /\ Bookings \subseteq Appointments
    /\ Starts \subseteq Int
    /\ Offsets \subseteq Int

ASSUME NoneAssumption == None \notin Appointments \cup Statuses

ASSUME PoliciesAssumption ==
    \A r \in DOMAIN Policies : Policies[r] \in [gap : Nat, cap : Nat]

\* The appointments stored in a table.
Stored(table) == { table[i] : i \in Ids } \ {None}

\* repository.list() without the appointment that is being moved.
OthersThan(a, table) == { other \in Stored(table) : other.id # a.id }

Gap(a) == PolicyFor(a.resource, Policies).gap

Cap(a) == PolicyFor(a.resource, Policies).cap

ConflictsIn(a, table) == FindConflicts(a, OthersThan(a, table), Gap(a))

\* Variant to check the properties against, not the code: the cap is one too high.
UnderCap_OffByOne(a, table) ==
    Cardinality(Overbookings(a, OthersThan(a, table))) <= Cap(a)

UnderCap(a, table) == Cardinality(Overbookings(a, OthersThan(a, table))) < Cap(a)

\* _validate_slot raises nothing.
MayLand(a, table, allowOverbooking) ==
    /\ CheckResourceBranch(a, Calendar)
    /\ IsAppointmentAvailable(a, Calendar)
    /\ ConflictsIn(a, table) # {} => allowOverbooking /\ UnderCap(a, table)

\* Variant to check the properties against, not the code: the validator falls
\* off its end instead of returning False.
Landed_NoVerdict(a, table) ==
    [a EXCEPT !.overbooked = IF ConflictsIn(a, table) # {} THEN TRUE ELSE None]

\* Variant to check the properties against, not the code: an overbooking is
\* stored as an ordinary appointment.
Landed_Unmarked(a, table) == [a EXCEPT !.overbooked = FALSE]

\* The appointment the validator hands back to the repository.
Landed(a, table) == [a EXCEPT !.overbooked = (ConflictsIn(a, table) # {})]

===============================================================================
