-------------------------------- MODULE Agenda --------------------------------
(***************************************************************************)
(* What the scheduler promises, seen from outside: one table of            *)
(* appointments that changes one appointment at a time.                    *)
(*                                                                         *)
(*  - an appointment is booked or moved only where the agenda is open and  *)
(*    where it either competes with nothing or is an overbooking within    *)
(*    the cap of its resource, all of it judged against the table it       *)
(*    enters at that very instant;                                         *)
(*  - a status changes only along the table of transitions, and nothing    *)
(*    else of the appointment changes with it;                             *)
(*  - nothing is ever removed.                                             *)
(*                                                                         *)
(* How calls interleave, what they lock and when they write is the         *)
(* business of module Scheduler, which implements this one.                *)
(***************************************************************************)
EXTENDS AgendaRules

VARIABLE book  \* appointment id |-> the appointment, or None

\* a may stand in the table next to the others.
Admissible(a, table) ==
    /\ CheckResourceBranch(a, Calendar)
    /\ IsAppointmentAvailable(a, Calendar)
    /\ IF a.overbooked THEN UnderCap(a, table) ELSE ConflictsIn(a, table) = {}

Init == book = [i \in Ids |-> None]

Enter(a) == book' = [book EXCEPT ![a.id] = a]

\* The caller's datetime, as written or converted to UTC by the store: the
\* rules are applied to the former, the latter is what is kept.
KeptAs(asked) == { asked, [asked EXCEPT !.offset = 0] }

Book ==
    \E b \in Bookings, flag \in BOOLEAN :
        LET asked == [b EXCEPT !.overbooked = flag]
        IN  /\ book[b.id] = None
            /\ Admissible(asked, book)
            /\ \E kept \in KeptAs(asked) : Enter(kept)

Move(i) ==
    \E start \in Starts, offset \in Offsets, flag \in BOOLEAN :
        LET asked == [book[i] EXCEPT !.start = start, !.offset = offset, !.overbooked = flag]
        IN  /\ book[i] # None
            /\ book[i].status \in {"pending", "confirmed"}
            /\ Admissible(asked, book)
            /\ \E kept \in KeptAs(asked) : Enter(kept)

Advance(i) ==
    \E target \in Statuses :
        /\ book[i] # None
        /\ <<book[i].status, target>> \in Allowed
        /\ Enter([book[i] EXCEPT !.status = target])

Next == Book \/ \E i \in Ids : Move(i) \/ Advance(i)

Spec == Init /\ [][Next]_book

===============================================================================
