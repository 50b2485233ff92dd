------------------------------ MODULE Scheduling ------------------------------
(***************************************************************************)
(* The pure rules of the agenda: libragenda/scheduling.py, the value       *)
(* objects of libragenda/domain.py they read, and the two checks that      *)
(* libragenda/application.py adds to them (the overbooking cap and the     *)
(* table of status transitions).                                           *)
(*                                                                         *)
(* An aware datetime is an instant and the UTC offset it is written with:  *)
(* instants are what Python compares, the offset decides what .date() and  *)
(* .time() return.  An appointment is a record                             *)
(*    [id, resource, secondary, duration, status, branch, series,          *)
(*     start, offset, overbooked]                                          *)
(* service, client and reason are left out: no rule reads them.            *)
(***************************************************************************)
EXTENDS Integers, FiniteSets, Sequences

CONSTANTS
    DayLength,  \* instants in a day
    None        \* Python's None

ASSUME DayLengthAssumption == DayLength \in Nat \ {0}

Statuses ==
    {"pending", "confirmed", "in_progress", "completed", "cancelled", "no_show"}

\* Variant to check the properties against, not the code: a cancelled
\* appointment may be confirmed again.
Allowed_Reopening ==
    { <<"pending", "confirmed">>,     <<"pending", "cancelled">>,
      <<"confirmed", "in_progress">>, <<"confirmed", "completed">>,
      <<"confirmed", "cancelled">>,   <<"in_progress", "completed">>,
      <<"cancelled", "confirmed">> }

Allowed ==
    { <<"pending", "confirmed">>,     <<"pending", "cancelled">>,
      <<"confirmed", "in_progress">>, <<"confirmed", "completed">>,
      <<"confirmed", "cancelled">>,   <<"confirmed", "no_show">>,
      <<"in_progress", "completed">> }

\* The two statuses whose appointments no longer take up their slot.
Inactive == {"cancelled", "no_show"}

Active(a) == a.status \notin Inactive

Occupied(a) == {a.resource} \cup a.secondary

EndsAt(a) == a.start + a.duration

\* .date(), .time() and .weekday() of an instant written with an offset.
Date(at, offset) == (at + offset) \div DayLength

TimeOfDay(at, offset) == (at + offset) % DayLength

Weekday(day) == day % 7

StartDay(a) == Date(a.start, a.offset)

IntervalsOverlap(firstStart, firstEnd, secondStart, secondEnd) ==
    firstStart < secondEnd /\ secondStart < firstEnd

\* Variant to check the properties against, not the code: the gap
\* widens the candidate on one side only.
FindConflicts_GapBefore(a, existing, gap) ==
    { other \in existing :
        /\ other.id # a.id
        /\ Occupied(a) \cap Occupied(other) # {}
        /\ Active(other)
        /\ IntervalsOverlap(a.start - gap, EndsAt(a), other.start, EndsAt(other)) }

\* The active appointments that share a resource with a and overlap it once a
\* is widened by gap on both sides.
FindConflicts(a, existing, gap) ==
    { other \in existing :
        /\ other.id # a.id
        /\ Occupied(a) \cap Occupied(other) # {}
        /\ Active(other)
        /\ IntervalsOverlap(a.start - gap, EndsAt(a) + gap,
                            other.start, EndsAt(other)) }

-------------------------------------------------------------------------------
(* Opening hours.  cal is a record [windows, exceptions, holidays, blocks,  *)
(* branchOf]; exceptions is a sequence, branchOf maps the known resources   *)
(* to their branch or None.                                                 *)

AppliesOn(window, day) ==
    /\ window.validFrom # None => day >= window.validFrom
    /\ window.validTo # None => day <= window.validTo

Contains(window, a) ==
    /\ Weekday(StartDay(a)) = window.weekday
    /\ TimeOfDay(a.start, a.offset) >= window.from
    /\ TimeOfDay(EndsAt(a), a.offset) <= window.to
    /\ StartDay(a) = Date(EndsAt(a), a.offset)
    /\ AppliesOn(window, StartDay(a))

\* Positions of the exceptions that speak about a: the day the appointment
\* ends on is not looked at.
MatchingExceptions(a, exceptions) ==
    { i \in DOMAIN exceptions :
        /\ exceptions[i].resource = a.resource
        /\ exceptions[i].day = StartDay(a)
        /\ TimeOfDay(a.start, a.offset) >= exceptions[i].from
        /\ TimeOfDay(EndsAt(a), a.offset) <= exceptions[i].to }

IsBranchHoliday(a, cal) ==
    /\ a.resource \in DOMAIN cal.branchOf
    /\ cal.branchOf[a.resource] # None
    /\ [branch |-> cal.branchOf[a.resource], day |-> StartDay(a)] \in cal.holidays

\* Variant to check the properties against, not the code: the first matching
\* exception decides.
IsOpen_First(a, cal) ==
    LET matching == MatchingExceptions(a, cal.exceptions)
        first == CHOOSE i \in matching : \A j \in matching : i <= j
    IN  IF matching # {}
        THEN cal.exceptions[first].available
        ELSE /\ ~IsBranchHoliday(a, cal)
             /\ \E window \in cal.windows :
                    window.resource = a.resource /\ Contains(window, a)

\* The last matching exception decides; without one, a holiday closes the day
\* and otherwise some weekly window has to contain the appointment.
IsOpen(a, cal) ==
    LET matching == MatchingExceptions(a, cal.exceptions)
        last == CHOOSE i \in matching : \A j \in matching : j <= i
    IN  IF matching # {}
        THEN cal.exceptions[last].available
        ELSE /\ ~IsBranchHoliday(a, cal)
             /\ \E window \in cal.windows :
                    window.resource = a.resource /\ Contains(window, a)

\* Variant to check the properties against, not the code: a block closes every
\* resource.
IsAppointmentAvailable_AnyBlock(a, cal) ==
    /\ IsOpen(a, cal)
    /\ ~ \E block \in cal.blocks :
            IntervalsOverlap(a.start, EndsAt(a), block.start, block.end)

\* Open, and no block on any resource that the appointment occupies.
IsAppointmentAvailable(a, cal) ==
    /\ IsOpen(a, cal)
    /\ ~ \E block \in cal.blocks :
            /\ block.resource \in Occupied(a)
            /\ IntervalsOverlap(a.start, EndsAt(a), block.start, block.end)

\* Every occupied resource the scheduler knows belongs to the branch the
\* appointment names, if it names one.
CheckResourceBranch(a, cal) ==
    \A r \in Occupied(a) \cap DOMAIN cal.branchOf :
        a.branch # None => cal.branchOf[r] = a.branch

-------------------------------------------------------------------------------
(* Policies: a function from the resources that opted in to [gap, cap].     *)

PolicyFor(resource, policies) ==
    IF resource \in DOMAIN policies THEN policies[resource] ELSE [gap |-> 0, cap |-> 0]

\* The overbookings that count against the cap of a's resource on a's day.
Overbookings(a, existing) ==
    { other \in existing :
        /\ other.overbooked
        /\ other.resource = a.resource
        /\ StartDay(other) = StartDay(a)
        /\ Active(other) }

===============================================================================
