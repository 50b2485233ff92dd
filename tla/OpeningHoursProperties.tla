------------------------ MODULE OpeningHoursProperties -------------------------
(***************************************************************************)
(* The answers to Requests against the calendar, instant by instant.       *)
(***************************************************************************)
EXTENDS OpeningHours

CONSTANT Requests  \* the appointments that are asked for

ASSUME RequestsAssumption ==
    \A a \in Requests :
        a.start \in Int /\ a.offset \in Int /\ a.duration \in Nat \ {0}

TypeOK ==
    /\ engine \in Engines
    /\ rows \in Seq([id : Numbers, exception : Shapes])
    /\ blocks \subseteq TimeBlocks
    /\ holidays \subseteq Holidays

\* The inductive invariant: no number is that of two rows, however they are added,
\* moved and deleted, and SQLite gives them in the order of their numbers
\* (availability_repository.py:193-221, 227).
IInv ==
    /\ TypeOK
    /\ \A i, j \in DOMAIN rows :
          i < j => IF engine = "sqlite"
                   THEN rows[i].id < rows[j].id
                   ELSE rows[i].id # rows[j].id

-------------------------------------------------------------------------------
(* The calendar at one instant, in the offset the request is written with.  *)

CoversInstant(x, a, t) ==
    /\ x.resource = a.resource
    /\ x.day = Date(t, a.offset)
    /\ x.from <= TimeOfDay(t, a.offset)
    /\ TimeOfDay(t, a.offset) < x.to

WindowCovers(window, a, t) ==
    /\ window.resource = a.resource
    /\ window.weekday = Weekday(Date(t, a.offset))
    /\ AppliesOn(window, Date(t, a.offset))
    /\ window.from <= TimeOfDay(t, a.offset)
    /\ TimeOfDay(t, a.offset) < window.to

OfBranch(holiday, a) ==
    a.resource \in DOMAIN BranchOf /\ holiday.branch = BranchOf[a.resource]

HolidayAt(a, t) ==
    \E holiday \in holidays : OfBranch(holiday, a) /\ holiday.day = Date(t, a.offset)

OpenAt(a, t) ==
    LET covering == { i \in DOMAIN rows : CoversInstant(rows[i].exception, a, t) }
    IN  IF covering # {}
        THEN rows[Max(covering)].exception.available
        ELSE ~HolidayAt(a, t) /\ \E window \in Windows : WindowCovers(window, a, t)

FreeAt(a, t) ==
    \A block \in blocks :
        block.resource \in Occupied(a) => ~(block.start <= t /\ t < block.end)

Instants(a) == a.start..(EndsAt(a) - 1)

CrossesMidnight(a) == Date(EndsAt(a), a.offset) # StartDay(a)

\* An exception speaks about some of the appointment and not about the rest.
Straddles(a) ==
    \E i \in DOMAIN rows :
        /\ \E t \in Instants(a) : CoversInstant(rows[i].exception, a, t)
        /\ \E t \in Instants(a) : ~CoversInstant(rows[i].exception, a, t)

\* The appointment outlasts a window, and another one goes on.
HandsOver(a) ==
    \E t \in Instants(a), window, next \in Windows :
        /\ t + 1 \in Instants(a)
        /\ WindowCovers(window, a, t) /\ ~WindowCovers(window, a, t + 1)
        /\ WindowCovers(next, a, t + 1)

-------------------------------------------------------------------------------

\* is_appointment_available() says yes only when the calendar is open and
\* free at every instant of the appointment, and then it does say yes unless it
\* would take two windows to hold it.  It may be wrong when an exception
\* covers a part of the appointment, because it only looks at those that contain
\* it, and past midnight, where it compares times of two different days
\* (scheduling.py:135-162).
AnswersTheCalendar ==
    \A a \in Requests :
        LET held == \A t \in Instants(a) : OpenAt(a, t) /\ FreeAt(a, t)
        IN  ~Straddles(a) /\ ~CrossesMidnight(a) =>
                /\ Answer(a) => held
                /\ held /\ ~HandsOver(a) => Answer(a)

\* On SQLite the exception that decides is the one with the greatest number,
\* whatever was updated or deleted in between.
GreatestNumberDecides ==
    engine = "sqlite" =>
        \A a \in Requests :
            LET matching == MatchingExceptions(a, Listed.exceptions)
            IN  matching # {} =>
                    /\ IsOpen(a, Listed) = rows[Max(matching)].exception.available
                    /\ \A i \in matching : rows[i].id <= rows[Max(matching)].id

\* An answer changes only with what the step wrote: an exception that contains
\* the appointment, a block on something it occupies or a holiday of its branch.
\* In particular the order in which PostgreSQL gives the other rows is nothing
\* to it.
OnlyWhatConcernsIt ==
    [][ \A a \in Requests :
          Answer(a)' # Answer(a) =>
            \/ \E i \in MatchingExceptions(a, Listed.exceptions) :
                 rows[i] \notin Seqs!ToSet(rows')
            \/ \E i \in MatchingExceptions(a, Listed'.exceptions) :
                 rows'[i] \notin Seqs!ToSet(rows)
            \/ \E block \in (blocks \ blocks') \cup (blocks' \ blocks) :
                 block.resource \in Occupied(a)
            \/ \E holiday \in holidays' \ holidays :
                 OfBranch(holiday, a) /\ holiday.day = StartDay(a) ]_vars

===============================================================================
