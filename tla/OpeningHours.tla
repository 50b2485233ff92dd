----------------------------- MODULE OpeningHours ------------------------------
(***************************************************************************)
(* The calendar in the database and the question the scheduler asks of it: *)
(* the exceptions, blocks and holidays that                                *)
(* SqlAlchemyAvailabilityRepository and SqlAlchemyCatalogRepository keep,  *)
(* listed and handed to is_appointment_available() (module Scheduling).    *)
(*                                                                         *)
(* list_exceptions() has no ORDER BY and is_appointment_available() lets   *)
(* the last exception decide, so the order in which the database gives its *)
(* rows matters.  SQLite gives them by number.  PostgreSQL gives them as   *)
(* they lie, and puts a new row, or the new version of an updated one,     *)
(* wherever there is room.                                                 *)
(***************************************************************************)
EXTENDS Scheduling, FiniteSetsExt

Seqs == INSTANCE SequencesExt

CONSTANTS
    Windows,        \* the weekly windows
    BranchOf,       \* resource |-> its branch, or None
    Shapes,         \* the exceptions that may be recorded
    TimeBlocks,     \* the blocks that may be recorded
    Holidays,       \* the holidays that may be declared
    Engines,        \* a subset of {"postgres", "sqlite"}
    MaxExceptions   \* a bound: the numbers of the exceptions

Exceptions ==
    [ resource : DOMAIN BranchOf, day : Int, from : 0..(DayLength - 1),
      to : 0..(DayLength - 1), available : BOOLEAN ]

Numbers == 1..MaxExceptions

\* What the value objects accept: times of a day in their order, blocks that do
\* not end before they begin, holidays of a branch.
ASSUME CalendarAssumption ==
    /\ Engines \subseteq {"postgres", "sqlite"}
    /\ Shapes \subseteq Exceptions
    /\ \A x \in Shapes : x.from < x.to
    /\ \A window \in Windows : {window.from, window.to} \subseteq 0..(DayLength - 1)
    /\ \A block \in TimeBlocks :
          block.start \in Int /\ block.end \in Int /\ block.start < block.end
    /\ Holidays \subseteq [branch : { h.branch : h \in Holidays } \ {None}, day : Int]
    /\ MaxExceptions \in Nat

VARIABLES
    engine,    \* the engine of this deployment
    rows,      \* the rows of availability_exceptions as the database gives them
    blocks,    \* the blocks on record
    holidays   \* the holidays on record

vars == <<engine, rows, blocks, holidays>>

Init ==
    /\ engine \in Engines
    /\ rows = <<>>
    /\ blocks = {}
    /\ holidays = {}

NumbersInUse == { rows[i].id : i \in DOMAIN rows }

\* Variant to check the properties against, not the code: the row added last is
\* given first.
Places_Front(id) == {1}

\* Where a new row, or a new version of one, may lie.
Places(id) ==
    IF engine = "postgres"
    THEN 1..(Len(rows) + 1)
    ELSE { 1 + Cardinality({ n \in NumbersInUse : n < id }) }

\* Variant to check the properties against, not the code: rows are counted.
NewNumber_Count == 1 + Cardinality(NumbersInUse)

\* SQLite gives a row the greatest number in use plus one; a sequence never
\* gives a number twice, which is not told apart here.
NewNumber ==
    IF engine = "postgres"
    THEN CHOOSE n \in Numbers : n \notin NumbersInUse
    ELSE 1 + Max(NumbersInUse \cup {0})

AddException ==
    /\ Len(rows) < MaxExceptions
    /\ NewNumber \in Numbers
    /\ \E x \in Shapes, place \in Places(NewNumber) :
        rows' = Seqs!InsertAt(rows, place, [id |-> NewNumber, exception |-> x])
    /\ UNCHANGED <<engine, blocks, holidays>>

\* Nothing is sent when no column changes.
UpdateException ==
    /\ \E i \in DOMAIN rows, x \in Shapes :
        /\ x # rows[i].exception
        /\ IF engine = "postgres"
           THEN \E place \in DOMAIN rows :
                  rows' = Seqs!InsertAt(Seqs!RemoveAt(rows, i), place,
                                        [rows[i] EXCEPT !.exception = x])
           ELSE rows' = [rows EXCEPT ![i].exception = x]
    /\ UNCHANGED <<engine, blocks, holidays>>

DeleteException ==
    /\ \E i \in DOMAIN rows : rows' = Seqs!RemoveAt(rows, i)
    /\ UNCHANGED <<engine, blocks, holidays>>

AddBlock ==
    /\ \E block \in TimeBlocks \ blocks : blocks' = blocks \cup {block}
    /\ UNCHANGED <<engine, rows, holidays>>

DeleteBlock ==
    /\ \E block \in blocks : blocks' = blocks \ {block}
    /\ UNCHANGED <<engine, rows, holidays>>

\* The catalog has no call to take a holiday back.
AddHoliday ==
    /\ \E holiday \in Holidays \ holidays : holidays' = holidays \cup {holiday}
    /\ UNCHANGED <<engine, rows, blocks>>

Next ==
    \/ AddException \/ UpdateException \/ DeleteException
    \/ AddBlock \/ DeleteBlock \/ AddHoliday

Spec == Init /\ [][Next]_vars

\* The arguments that the application builds from what it lists.
Listed ==
    [ windows |-> Windows,
      exceptions |-> [i \in DOMAIN rows |-> rows[i].exception],
      holidays |-> holidays, blocks |-> blocks, branchOf |-> BranchOf ]

Answer(a) == IsAppointmentAvailable(a, Listed)

===============================================================================
