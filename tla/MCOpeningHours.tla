---------------------------- MODULE MCOpeningHours -----------------------------
(***************************************************************************)
(* A day has 6 instants.  Anna works on day 0 from 1 to 3 and from 3 to 4, *)
(* with a room; bert never does, and nobody knows carl.                    *)
(***************************************************************************)
EXTENDS OpeningHoursProperties

CONSTANT b1

Window(from, to) ==
    [ resource |-> "anna", weekday |-> 0, from |-> from, to |-> to,
      validFrom |-> None, validTo |-> None ]

AnnasWindows == { Window(1, 3), Window(3, 4) }

OneBranch == [r \in {"anna", "bert"} |-> b1]

Exception(resource, from, to, available) ==
    [resource |-> resource, day |-> 0, from |-> from, to |-> to, available |-> available]

\* Late hours, the whole day closed, a closed lunch, and bert's day.
SomeShapes ==
    { Exception("anna", 3, 5, TRUE), Exception("anna", 0, 5, FALSE),
      Exception("anna", 2, 3, FALSE), Exception("bert", 1, 4, TRUE) }

RoomBlock == { [resource |-> "room", start |-> 1, end |-> 2] }

FirstDay == { [branch |-> b1, day |-> 0] }

Request(resource, secondary, start, duration) ==
    [ id |-> "a", resource |-> resource, secondary |-> secondary, duration |-> duration,
      status |-> "pending", branch |-> None, series |-> None, start |-> start,
      offset |-> 0, overbooked |-> FALSE ]

SomeRequests ==
    { Request("anna", s, start, duration) :
        s \in {{}, {"room"}}, start \in {0, 1, 2, 3, 5}, duration \in 1..3 }
      \cup { Request("bert", {}, start, 2) : start \in 0..2 }
      \cup { Request("carl", {}, 1, 2) }
===============================================================================
