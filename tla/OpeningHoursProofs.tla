-------------------------- MODULE OpeningHoursProofs ---------------------------
(***************************************************************************)
(* What is_appointment_available() answers, for any windows, exceptions,   *)
(* blocks and holidays that come, change and go, any requests and any      *)
(* length of a day.                                                        *)
(***************************************************************************)
EXTENDS OpeningHoursProperties, FiniteSetTheorems, SequenceTheorems, TLAPS

-------------------------------------------------------------------------------
(* Days and times.                                                          *)

LEMMA DayAndTime ==
    ASSUME NEW at \in Int, NEW offset \in Int
    PROVE  /\ Date(at, offset) \in Int
           /\ TimeOfDay(at, offset) \in 0..(DayLength - 1)
           /\ at + offset = DayLength * Date(at, offset) + TimeOfDay(at, offset)
  <1> DEFINE x == at + offset
  <1>1. x \div DayLength \in Int /\ x % DayLength \in 0..(DayLength - 1)
    BY DayLengthAssumption
  <1>2. x = DayLength * (x \div DayLength) + (x % DayLength)
    BY DayLengthAssumption
  <1> QED
    BY <1>1, <1>2 DEF Date, TimeOfDay

LEMMA DatesAscend ==
    ASSUME NEW first \in Int, NEW second \in Int, NEW offset \in Int, first <= second
    PROVE  Date(first, offset) <= Date(second, offset)
  <1> DEFINE x == first + offset
             y == second + offset
  <1>1. x \in Int /\ y \in Int /\ x <= y
    OBVIOUS
  <1> HIDE DEF x, y
  <1>2. x \div DayLength <= y \div DayLength
    BY <1>1, DayLengthAssumption
  <1> QED
    BY <1>2 DEF x, y, Date

LEMMA RequestTypes ==
    ASSUME NEW a \in Requests
    PROVE  /\ a.start \in Int /\ a.offset \in Int /\ a.duration \in Nat \ {0}
           /\ EndsAt(a) \in Int /\ a.start < EndsAt(a) /\ StartDay(a) \in Int
           /\ Instants(a) \subseteq Int
           /\ \A t \in Instants(a) : a.start <= t /\ t < EndsAt(a)
           /\ a.start \in Instants(a)
           /\ EndsAt(a) - 1 \in Instants(a)
  <1>1. a.start \in Int /\ a.offset \in Int /\ a.duration \in Nat \ {0}
    BY RequestsAssumption
  <1>2. StartDay(a) \in Int
    BY <1>1, DayAndTime DEF StartDay
  <1> QED
    BY <1>1, <1>2 DEF EndsAt, Instants

\* Within one day the times of day go with the instants.
LEMMA WithinADay ==
    ASSUME NEW a \in Requests, ~CrossesMidnight(a), NEW t \in a.start..EndsAt(a)
    PROVE  /\ Date(t, a.offset) = StartDay(a)
           /\ TimeOfDay(t, a.offset) = TimeOfDay(a.start, a.offset) + (t - a.start)
           /\ TimeOfDay(t, a.offset) \in Int /\ TimeOfDay(a.start, a.offset) \in Int
  <1>1. /\ a.start \in Int /\ a.offset \in Int /\ EndsAt(a) \in Int /\ t \in Int
        /\ a.start <= t /\ t <= EndsAt(a)
    BY RequestTypes
  <1>2. Date(t, a.offset) = StartDay(a)
    <2>1. Date(EndsAt(a), a.offset) = StartDay(a)
      BY DEF CrossesMidnight
    <2>2. StartDay(a) <= Date(t, a.offset) /\ Date(t, a.offset) <= Date(EndsAt(a), a.offset)
      BY <1>1, DatesAscend DEF StartDay
    <2>3. Date(t, a.offset) \in Int /\ StartDay(a) \in Int
      BY <1>1, DayAndTime DEF StartDay
    <2> QED
      BY <2>1, <2>2, <2>3
  <1> DEFINE whole == DayLength * StartDay(a)
  <1>3. /\ t + a.offset = whole + TimeOfDay(t, a.offset)
        /\ a.start + a.offset = whole + TimeOfDay(a.start, a.offset)
    BY <1>1, <1>2, DayAndTime DEF StartDay
  <1>4. TimeOfDay(t, a.offset) \in Int /\ TimeOfDay(a.start, a.offset) \in Int
    <2>1. \A x \in 0..(DayLength - 1) : x \in Int
      BY DayLengthAssumption
    <2> QED
      BY <1>1, <2>1, DayAndTime
  <1>5. whole \in Int
    BY RequestTypes, DayLengthAssumption
  <1> HIDE DEF whole
  <1> QED
    BY <1>1, <1>2, <1>3, <1>4, <1>5

-------------------------------------------------------------------------------
(* The exception that decides.                                              *)

\* Exception x contains appointment a.
Speaks(x, a) ==
    /\ x.resource = a.resource
    /\ x.day = StartDay(a)
    /\ TimeOfDay(a.start, a.offset) >= x.from
    /\ TimeOfDay(EndsAt(a), a.offset) <= x.to

\* The rows of a table whose exceptions contain a, and the last of them.
Speaking(table, a) == { i \in DOMAIN table : Speaks(table[i].exception, a) }

Decides(table, a) == table[Max(Speaking(table, a))]

\* What the exceptions leave to the branch and the week.
Weekly(a) ==
    /\ ~IsBranchHoliday(a, Listed)
    /\ \E window \in Windows : window.resource = a.resource /\ Contains(window, a)

LEMMA MatchingAreSpeaking ==
    ASSUME NEW a
    PROVE  MatchingExceptions(a, Listed.exceptions) = Speaking(rows, a)
  BY DEF MatchingExceptions, Listed, Speaking, Speaks

LEMMA Least ==
    ASSUME NEW S \in SUBSET Nat, S # {}
    PROVE  \E x \in S : \A y \in S : x <= y
  <1> DEFINE before == OpToRel(<, Nat)
  <1>1. \E x \in S : \A y \in S : <<y, x>> \notin before
    BY NatLessThanWellFounded, WFMin
  <1>2. \A x, y \in Nat : y < x => <<y, x>> \in before
    BY DEF OpToRel
  <1>3. PICK x \in S : \A y \in S : <<y, x>> \notin before
    BY <1>1
  <1>4. ASSUME NEW y \in S PROVE x <= y
    <2>1. ~(y < x)
      BY <1>2, <1>3
    <2> QED
      BY <2>1
  <1> QED
    BY <1>4

LEMMA Greatest ==
    ASSUME NEW n \in Nat, NEW S \in SUBSET (0..n), S # {}
    PROVE  /\ Max(S) \in S /\ \A y \in S : y <= Max(S)
           /\ \A x \in S : (\A y \in S : y <= x) => x = Max(S)
  <1> DEFINE R == { n - x : x \in S }
  <1>0. \A x \in S : x \in Nat /\ x <= n
    OBVIOUS
  <1>1. R \subseteq Nat /\ R # {}
    <2>1. \A x \in S : n - x \in Nat
      BY <1>0
    <2> QED
      BY <2>1
  <1>2. PICK z \in R : \A y \in R : z <= y
    BY <1>1, Least
  <1>3. PICK x \in S : z = n - x
    OBVIOUS
  <1>4. \A y \in S : x >= y
    <2> TAKE y \in S
    <2>1. n - y \in R
      OBVIOUS
    <2>2. z <= n - y
      BY <1>2, <2>1
    <2> QED
      BY <1>0, <1>3, <2>2
  <1>5. Max(S) \in S /\ \A y \in S : Max(S) >= y
    BY <1>4 DEF Max
  <1>6. \A y \in S : y <= Max(S)
    BY <1>0, <1>5
  <1>7. ASSUME NEW w \in S, \A y \in S : y <= w PROVE w = Max(S)
    <2>1. Max(S) <= w /\ w <= Max(S)
      BY <1>5, <1>6, <1>7
    <2>2. Max(S) \in Nat /\ w \in Nat
      BY <1>0, <1>5
    <2> QED
      BY <2>1, <2>2
  <1> QED
    BY <1>5, <1>6, <1>7

LEMMA SpeakingPlaces ==
    ASSUME NEW table \in Seq([id : Numbers, exception : Shapes]), NEW a
    PROVE  /\ Speaking(table, a) \in SUBSET (0..Len(table))
           /\ Speaking(table, a) # {} =>
                /\ Max(Speaking(table, a)) \in Speaking(table, a)
                /\ \A i \in Speaking(table, a) : i <= Max(Speaking(table, a))
                /\ \A i \in Speaking(table, a) :
                      (\A j \in Speaking(table, a) : j <= i) => i = Max(Speaking(table, a))
  <1>1. Speaking(table, a) \in SUBSET (0..Len(table))
    BY DEF Speaking
  <1>2. Len(table) \in Nat
    OBVIOUS
  <1> HIDE DEF Speaking
  <1> QED
    BY <1>1, <1>2, Greatest

LEMMA OpenTells ==
    ASSUME TypeOK, NEW a
    PROVE  /\ Speaking(rows, a) # {} => IsOpen(a, Listed) = Decides(rows, a).exception.available
           /\ Speaking(rows, a) = {} => IsOpen(a, Listed) = Weekly(a)
  <1> DEFINE S == Speaking(rows, a)
             last == CHOOSE i \in S : \A j \in S : j <= i
  <1>1. MatchingExceptions(a, Listed.exceptions) = S
    BY MatchingAreSpeaking
  <1>2. CASE S # {}
    <2>1. /\ Max(S) \in S /\ \A j \in S : j <= Max(S)
          /\ \A i \in S : (\A j \in S : j <= i) => i = Max(S)
      BY <1>2, SpeakingPlaces DEF TypeOK
    <2>2. last \in S /\ \A j \in S : j <= last
      BY <2>1
    <2>3. last = Max(S)
      BY <2>1, <2>2
    <2>4. Listed.exceptions[last] = rows[last].exception
      BY <2>2 DEF Listed, Speaking
    <2>5. IsOpen(a, Listed) = Listed.exceptions[last].available
      BY <1>1, <1>2 DEF IsOpen
    <2> QED
      BY <1>2, <2>3, <2>4, <2>5 DEF Decides
  <1>3. CASE S = {}
    <2>1. IsOpen(a, Listed) =
            /\ ~IsBranchHoliday(a, Listed)
            /\ \E window \in Listed.windows :
                   window.resource = a.resource /\ Contains(window, a)
      BY <1>1, <1>3 DEF IsOpen
    <2> QED
      BY <1>3, <2>1 DEF Weekly, Listed
  <1> QED
    BY <1>2, <1>3

-------------------------------------------------------------------------------
(* The answer, instant by instant.                                          *)

LEMMA RowTypes ==
    ASSUME NEW table \in Seq([id : Numbers, exception : Shapes]), NEW i \in DOMAIN table
    PROVE  table[i].id \in Nat /\ table[i].exception \in Shapes /\ i \in Nat
  <1>1. table[i] \in [id : Numbers, exception : Shapes]
    BY LenProperties, ElementOfSeq
  <1>2. i \in Nat
    BY LenProperties
  <1> QED
    BY <1>1, <1>2, CalendarAssumption DEF Numbers

LEMMA ShapeTypes ==
    ASSUME NEW x \in Shapes
    PROVE  x.from \in Int /\ x.to \in Int
  BY CalendarAssumption, DayLengthAssumption DEF Exceptions

\* An exception contains an appointment within a day when it covers every instant
\* of it.
LEMMA ContainsAllInstants ==
    ASSUME NEW a \in Requests, ~CrossesMidnight(a), NEW x \in Shapes
    PROVE  Speaks(x, a) <=> \A t \in Instants(a) : CoversInstant(x, a, t)
  <1> DEFINE begin == TimeOfDay(a.start, a.offset)
             end   == TimeOfDay(EndsAt(a), a.offset)
  <1>1. x.from \in Int /\ x.to \in Int
    BY ShapeTypes
  <1>2. /\ a.start \in Instants(a) /\ EndsAt(a) - 1 \in Instants(a)
        /\ a.start \in Int /\ EndsAt(a) \in Int /\ a.start < EndsAt(a)
        /\ \A t \in Instants(a) : t \in Int /\ a.start <= t /\ t < EndsAt(a)
    BY RequestTypes
  <1>3. begin \in Int /\ end = begin + (EndsAt(a) - a.start)
    BY <1>2, WithinADay
  <1>4. \A t \in Instants(a) :
           /\ Date(t, a.offset) = StartDay(a)
           /\ TimeOfDay(t, a.offset) = begin + (t - a.start)
    BY <1>2, WithinADay
  <1> HIDE DEF begin, end
  <1>5. \A t \in Instants(a) :
           CoversInstant(x, a, t) <=>
             /\ x.resource = a.resource /\ x.day = StartDay(a)
             /\ x.from <= begin + (t - a.start) /\ begin + (t - a.start) < x.to
    BY <1>4 DEF CoversInstant
  <1>6. Speaks(x, a) <=>
             /\ x.resource = a.resource /\ x.day = StartDay(a)
             /\ x.from <= begin /\ end <= x.to
    BY <1>1, <1>3 DEF Speaks, begin, end
  <1>7. ASSUME Speaks(x, a), NEW t \in Instants(a) PROVE CoversInstant(x, a, t)
    BY <1>1, <1>2, <1>3, <1>5, <1>6, <1>7
  <1>8. ASSUME \A t \in Instants(a) : CoversInstant(x, a, t) PROVE Speaks(x, a)
    <2>1. x.from <= begin + (a.start - a.start) /\ begin + ((EndsAt(a) - 1) - a.start) < x.to
      BY <1>2, <1>5, <1>8
    <2> QED
      BY <1>1, <1>2, <1>3, <1>5, <1>6, <1>8, <2>1
  <1> QED
    BY <1>7, <1>8

\* The same of a weekly window.
LEMMA WindowHoldsAllInstants ==
    ASSUME NEW a \in Requests, ~CrossesMidnight(a), NEW window \in Windows
    PROVE  window.resource = a.resource /\ Contains(window, a)
             <=> \A t \in Instants(a) : WindowCovers(window, a, t)
  <1> DEFINE begin == TimeOfDay(a.start, a.offset)
             end   == TimeOfDay(EndsAt(a), a.offset)
             today == /\ window.resource = a.resource
                      /\ window.weekday = Weekday(StartDay(a))
                      /\ AppliesOn(window, StartDay(a))
  <1>1. window.from \in Int /\ window.to \in Int
    BY CalendarAssumption, DayLengthAssumption
  <1>2. /\ a.start \in Instants(a) /\ EndsAt(a) - 1 \in Instants(a)
        /\ a.start \in Int /\ EndsAt(a) \in Int /\ a.start < EndsAt(a)
        /\ \A t \in Instants(a) : t \in Int /\ a.start <= t /\ t < EndsAt(a)
    BY RequestTypes
  <1>3. begin \in Int /\ end = begin + (EndsAt(a) - a.start)
    BY <1>2, WithinADay
  <1>4. \A t \in Instants(a) :
           /\ Date(t, a.offset) = StartDay(a)
           /\ TimeOfDay(t, a.offset) = begin + (t - a.start)
    BY <1>2, WithinADay
  <1>5. StartDay(a) = Date(EndsAt(a), a.offset)
    BY DEF CrossesMidnight
  <1>6. window.resource = a.resource /\ Contains(window, a)
          <=> today /\ window.from <= begin /\ end <= window.to
    BY <1>1, <1>3, <1>5 DEF Contains
  <1> HIDE DEF begin, end
  <1>7. \A t \in Instants(a) :
           WindowCovers(window, a, t) <=>
             today /\ window.from <= begin + (t - a.start) /\ begin + (t - a.start) < window.to
    BY <1>4 DEF WindowCovers
  <1> HIDE DEF today
  <1>8. ASSUME window.resource = a.resource /\ Contains(window, a), NEW t \in Instants(a)
        PROVE  WindowCovers(window, a, t)
    BY <1>1, <1>2, <1>3, <1>6, <1>7, <1>8
  <1>9. ASSUME \A t \in Instants(a) : WindowCovers(window, a, t)
        PROVE  window.resource = a.resource /\ Contains(window, a)
    <2>1. /\ window.from <= begin + (a.start - a.start)
          /\ begin + ((EndsAt(a) - 1) - a.start) < window.to
          /\ today
      BY <1>2, <1>7, <1>9
    <2> QED
      BY <1>1, <1>2, <1>3, <1>6, <2>1
  <1> QED
    BY <1>8, <1>9

\* An appointment that one window does not hold, although each of its instants has
\* one, is handed over.
LEMMA OneWindowHolds ==
    ASSUME NEW a \in Requests, ~CrossesMidnight(a), ~HandsOver(a),
           \A t \in Instants(a) : \E window \in Windows : WindowCovers(window, a, t)
    PROVE  \E window \in Windows : \A t \in Instants(a) : WindowCovers(window, a, t)
  <1> DEFINE begin == TimeOfDay(a.start, a.offset)
  <1>1. /\ a.start \in Instants(a) /\ a.start \in Int /\ EndsAt(a) \in Int
        /\ \A t \in Instants(a) : t \in Int /\ a.start <= t /\ t < EndsAt(a)
        /\ Instants(a) = a.start..(EndsAt(a) - 1)
    BY RequestTypes DEF Instants
  <1>2. begin \in Int
    BY <1>1, WithinADay
  <1>3. \A t \in Instants(a) :
           /\ Date(t, a.offset) = StartDay(a)
           /\ TimeOfDay(t, a.offset) = begin + (t - a.start)
    BY <1>1, WithinADay
  <1> HIDE DEF begin
  <1>4. PICK window \in Windows : WindowCovers(window, a, a.start)
    BY <1>1
  <1>5. window.from \in Int /\ window.to \in Int
    BY CalendarAssumption, DayLengthAssumption
  <1> DEFINE today == /\ window.resource = a.resource
                      /\ window.weekday = Weekday(StartDay(a))
                      /\ AppliesOn(window, StartDay(a))
  <1>6. \A t \in Instants(a) :
           WindowCovers(window, a, t) <=>
             today /\ window.from <= begin + (t - a.start) /\ begin + (t - a.start) < window.to
    BY <1>3 DEF WindowCovers
  <1> HIDE DEF today
  <1>7. today /\ window.from <= begin /\ begin < window.to
    <2>1. /\ today
          /\ window.from <= begin + (a.start - a.start)
          /\ begin + (a.start - a.start) < window.to
      BY <1>1, <1>4, <1>6
    <2> QED
      BY <1>1, <1>2, <1>5, <2>1
  <1>8. ASSUME NEW t \in Instants(a), ~WindowCovers(window, a, t)
        PROVE  FALSE
    <2> DEFINE last == a.start + ((window.to - 1) - begin)
    <2>1. window.to <= begin + (t - a.start)
      BY <1>1, <1>2, <1>5, <1>6, <1>7, <1>8
    <2>2. last \in Int /\ a.start <= last /\ last + 1 <= t
      BY <1>1, <1>2, <1>5, <1>7, <2>1
    <2>3. last \in Instants(a) /\ last + 1 \in Instants(a)
      BY <1>1, <2>2
    <2>4. WindowCovers(window, a, last)
      <3>1. begin + (last - a.start) = window.to - 1
        BY <1>1, <1>2, <1>5
      <3> HIDE DEF last
      <3> QED
        BY <1>2, <1>5, <1>6, <1>7, <2>3, <3>1
    <2>5. ~WindowCovers(window, a, last + 1)
      <3>1. begin + ((last + 1) - a.start) = window.to
        BY <1>1, <1>2, <1>5
      <3> HIDE DEF last
      <3> QED
        BY <1>2, <1>5, <1>6, <2>3, <3>1
    <2> HIDE DEF last
    <2>6. PICK next \in Windows : WindowCovers(next, a, last + 1)
      BY <2>3
    <2> QED
      BY <2>3, <2>4, <2>5, <2>6 DEF HandsOver
  <1> QED
    BY <1>8

\* No block on what is occupied overlaps the appointment.
Unblocked(a) ==
    ~ \E block \in blocks :
        /\ block.resource \in Occupied(a)
        /\ IntervalsOverlap(a.start, EndsAt(a), block.start, block.end)

LEMMA AnswerIsOpenAndFree ==
    ASSUME NEW a
    PROVE  Answer(a) <=> IsOpen(a, Listed) /\ Unblocked(a)
  BY DEF Answer, IsAppointmentAvailable, Unblocked, Listed

LEMMA FreeAllAlong ==
    ASSUME TypeOK, NEW a \in Requests
    PROVE  Unblocked(a) <=> \A t \in Instants(a) : FreeAt(a, t)
  <1>1. \A block \in blocks : block.start \in Int /\ block.end \in Int /\ block.start < block.end
    BY CalendarAssumption DEF TypeOK
  <1>2. /\ a.start \in Int /\ EndsAt(a) \in Int /\ a.start < EndsAt(a)
        /\ Instants(a) = a.start..(EndsAt(a) - 1)
    BY RequestTypes DEF Instants
  <1>3. ASSUME Unblocked(a), NEW t \in Instants(a) PROVE FreeAt(a, t)
    BY <1>1, <1>2, <1>3 DEF Unblocked, FreeAt, IntervalsOverlap
  <1>4. ASSUME \A t \in Instants(a) : FreeAt(a, t), NEW block \in blocks,
               block.resource \in Occupied(a),
               IntervalsOverlap(a.start, EndsAt(a), block.start, block.end)
        PROVE  FALSE
    <2> DEFINE t == IF a.start <= block.start THEN block.start ELSE a.start
    <2>1. t \in Instants(a) /\ block.start <= t /\ t < block.end
      BY <1>1, <1>2, <1>4 DEF IntervalsOverlap
    <2> HIDE DEF t
    <2> QED
      BY <1>4, <2>1 DEF FreeAt
  <1> QED
    BY <1>3, <1>4 DEF Unblocked

\* The holiday that the code looks up is the one of every instant.
LEMMA HolidayAllAlong ==
    ASSUME TypeOK, NEW a \in Requests, ~CrossesMidnight(a), NEW t \in Instants(a)
    PROVE  IsBranchHoliday(a, Listed) <=> HolidayAt(a, t)
  <1>1. Date(t, a.offset) = StartDay(a)
    BY RequestTypes, WithinADay
  <1>2. \A h \in holidays : h = [branch |-> h.branch, day |-> h.day] /\ h.branch # None
    BY CalendarAssumption DEF TypeOK
  <1> QED
    BY <1>1, <1>2 DEF IsBranchHoliday, HolidayAt, OfBranch, Listed

\* Open at the instant, as the code decides it, where no exception straddles.
LEMMA OpenAllAlong ==
    ASSUME TypeOK, NEW a \in Requests, ~CrossesMidnight(a), ~Straddles(a), NEW t \in Instants(a)
    PROVE  OpenAt(a, t) <=>
             IF Speaking(rows, a) # {}
             THEN Decides(rows, a).exception.available
             ELSE /\ ~IsBranchHoliday(a, Listed)
                  /\ \E window \in Windows : WindowCovers(window, a, t)
  <1>1. \A i \in DOMAIN rows : rows[i].exception \in Shapes
    BY RowTypes DEF TypeOK
  <1>2. { i \in DOMAIN rows : CoversInstant(rows[i].exception, a, t) } = Speaking(rows, a)
    <2>1. ASSUME NEW i \in DOMAIN rows
          PROVE  CoversInstant(rows[i].exception, a, t) <=> Speaks(rows[i].exception, a)
      <3>1. Speaks(rows[i].exception, a) <=>
               \A u \in Instants(a) : CoversInstant(rows[i].exception, a, u)
        BY <1>1, ContainsAllInstants
      <3> QED
        BY <3>1 DEF Straddles
    <2> QED
      BY <2>1 DEF Speaking
  <1>3. IsBranchHoliday(a, Listed) <=> HolidayAt(a, t)
    BY HolidayAllAlong
  <1> QED
    BY <1>2, <1>3 DEF OpenAt, Decides

LEMMA CalendarAnswered == TypeOK => AnswersTheCalendar
  <1> SUFFICES ASSUME TypeOK, NEW a \in Requests, ~Straddles(a), ~CrossesMidnight(a)
               PROVE  LET held == \A t \in Instants(a) : OpenAt(a, t) /\ FreeAt(a, t)
                      IN  /\ Answer(a) => held
                          /\ held /\ ~HandsOver(a) => Answer(a)
    BY DEF AnswersTheCalendar
  <1>1. Answer(a) <=> IsOpen(a, Listed) /\ \A t \in Instants(a) : FreeAt(a, t)
    BY AnswerIsOpenAndFree, FreeAllAlong
  <1>2. a.start \in Instants(a)
    BY RequestTypes
  <1>3. CASE Speaking(rows, a) # {}
    BY <1>1, <1>2, <1>3, OpenTells, OpenAllAlong
  <1>4. CASE Speaking(rows, a) = {}
    <2>1. IsOpen(a, Listed) <=>
             /\ ~IsBranchHoliday(a, Listed)
             /\ \E window \in Windows : \A t \in Instants(a) : WindowCovers(window, a, t)
      BY <1>4, OpenTells, WindowHoldsAllInstants DEF Weekly
    <2>2. \A t \in Instants(a) :
             OpenAt(a, t) <=> /\ ~IsBranchHoliday(a, Listed)
                              /\ \E window \in Windows : WindowCovers(window, a, t)
      BY <1>4, OpenAllAlong
    <2> QED
      BY <1>1, <1>2, <2>1, <2>2, OneWindowHolds
  <1> QED
    BY <1>3, <1>4

-------------------------------------------------------------------------------
(* Rows that come, move and go.                                             *)

Rows == [id : Numbers, exception : Shapes]

\* shorter is table without its row i.
Without(table, i, shorter) ==
    /\ table \in Seq(Rows) /\ shorter \in Seq(Rows)
    /\ i \in 1..Len(table)
    /\ Len(table) = Len(shorter) + 1
    /\ \A k \in 1..Len(shorter) : shorter[k] = table[IF k < i THEN k ELSE k + 1]

LEMMA RemoveLeaves ==
    ASSUME NEW table \in Seq(Rows), NEW i \in 1..Len(table)
    PROVE  Without(table, i, Seqs!RemoveAt(table, i))
  <1> DEFINE before == SubSeq(table, 1, i - 1)
             after  == SubSeq(table, i + 1, Len(table))
  <1>1. Len(table) \in Nat /\ \A k \in 1..Len(table) : table[k] \in Rows
    BY LenProperties, ElementOfSeq
  <1>2. /\ before \in Seq(Rows) /\ Len(before) = i - 1
        /\ \A k \in 1..(i - 1) : before[k] = table[k]
    <2>1. \A k \in 1..(i - 1) : table[k] \in Rows
      BY <1>1
    <2> QED
      BY <1>1, <2>1, SubSeqProperties
  <1>3. /\ after \in Seq(Rows) /\ Len(after) = Len(table) - i
        /\ \A k \in 1..(Len(table) - i) : after[k] = table[k + i]
    <2>1. \A k \in (i + 1)..Len(table) : table[k] \in Rows
      BY <1>1
    <2>2. /\ after \in Seq(Rows)
          /\ Len(after) = IF i + 1 <= Len(table) THEN Len(table) - (i + 1) + 1 ELSE 0
          /\ \A k \in 1..(Len(table) - (i + 1) + 1) : after[k] = table[(i + 1) + k - 1]
      BY <1>1, <2>1, SubSeqProperties
    <2>3. \A k \in 1..(Len(table) - i) :
             k \in 1..(Len(table) - (i + 1) + 1) /\ (i + 1) + k - 1 = k + i
      BY <1>1
    <2> HIDE DEF after
    <2> QED
      BY <1>1, <2>2, <2>3
  <1>4. Seqs!RemoveAt(table, i) = before \o after
    BY DEF Seqs!RemoveAt
  <1> HIDE DEF before, after
  <1>5. /\ before \o after \in Seq(Rows) /\ Len(before \o after) = Len(table) - 1
        /\ \A k \in 1..(Len(table) - 1) :
              (before \o after)[k] = IF k <= i - 1 THEN before[k] ELSE after[k - (i - 1)]
    <2>1. /\ before \o after \in Seq(Rows) /\ Len(before \o after) = Len(before) + Len(after)
          /\ \A k \in 1..(Len(before) + Len(after)) :
                (before \o after)[k] = IF k <= Len(before) THEN before[k] ELSE after[k - Len(before)]
      BY <1>2, <1>3, ConcatProperties
    <2>2. Len(before) + Len(after) = Len(table) - 1
      BY <1>1, <1>2, <1>3
    <2> QED
      BY <1>2, <2>1, <2>2
  <1> DEFINE both == before \o after
  <1>6. \A k \in 1..(Len(table) - 1) : both[k] = table[IF k < i THEN k ELSE k + 1]
    <2> HIDE DEF both
    <2> TAKE k \in 1..(Len(table) - 1)
    <2>1. CASE k < i
      BY <1>1, <1>2, <1>5, <2>1 DEF both
    <2>2. CASE ~(k < i)
      <3>1. both[k] = after[k - (i - 1)] /\ k - (i - 1) \in 1..(Len(table) - i)
        BY <1>1, <1>5, <2>2 DEF both
      <3>2. after[k - (i - 1)] = table[(k - (i - 1)) + i] /\ (k - (i - 1)) + i = k + 1
        BY <1>3, <3>1
      <3> QED
        BY <2>2, <3>1, <3>2
    <2> QED
      BY <2>1, <2>2
  <1> HIDE DEF both
  <1> QED
    BY <1>1, <1>4, <1>5, <1>6 DEF Without, both

LEMMA InsertAdds ==
    ASSUME NEW table \in Seq(Rows), NEW i \in 1..(Len(table) + 1), NEW row \in Rows
    PROVE  /\ Without(Seqs!InsertAt(table, i, row), i, table)
           /\ Seqs!InsertAt(table, i, row)[i] = row
  <1> DEFINE before == SubSeq(table, 1, i - 1)
             after  == SubSeq(table, i, Len(table))
             head   == before \o <<row>>
             whole  == head \o after
  <1>1. Len(table) \in Nat /\ \A k \in 1..Len(table) : table[k] \in Rows
    BY LenProperties, ElementOfSeq
  <1>2. /\ before \in Seq(Rows) /\ Len(before) = i - 1
        /\ \A k \in 1..(i - 1) : before[k] = table[k]
    <2>1. \A k \in 1..(i - 1) : table[k] \in Rows
      BY <1>1
    <2> QED
      BY <1>1, <2>1, SubSeqProperties
  <1>3. /\ after \in Seq(Rows) /\ Len(after) = Len(table) - i + 1
        /\ \A k \in 1..(Len(table) - i + 1) : after[k] = table[i + k - 1]
    <2>1. \A k \in i..Len(table) : table[k] \in Rows
      BY <1>1
    <2> QED
      BY <1>1, <2>1, SubSeqProperties
  <1>4. <<row>> \in Seq(Rows) /\ Len(<<row>>) = 1 /\ <<row>>[1] = row
    OBVIOUS
  <1>5. Seqs!InsertAt(table, i, row) = whole
    BY DEF Seqs!InsertAt
  <1> HIDE DEF before, after
  <1>6. /\ head \in Seq(Rows) /\ Len(head) = i
        /\ \A k \in 1..i : head[k] = IF k <= i - 1 THEN before[k] ELSE <<row>>[k - (i - 1)]
    BY <1>1, <1>2, <1>4, ConcatProperties
  <1> HIDE DEF head
  <1>7. /\ whole \in Seq(Rows) /\ Len(whole) = Len(table) + 1
        /\ \A k \in 1..(Len(table) + 1) :
              whole[k] = IF k <= i THEN head[k] ELSE after[k - i]
    BY <1>1, <1>3, <1>6, ConcatProperties
  <1> HIDE DEF whole
  <1>8. head[i] = row
    <2>1. i \in 1..i /\ ~(i <= i - 1) /\ i - (i - 1) = 1
      BY <1>1
    <2> QED
      BY <1>4, <1>6, <2>1
  <1>9. whole[i] = row
    BY <1>1, <1>7, <1>8
  <1>10. \A k \in 1..Len(table) : table[k] = whole[IF k < i THEN k ELSE k + 1]
    <2> TAKE k \in 1..Len(table)
    <2>1. CASE k < i
      <3>1. whole[k] = head[k] /\ head[k] = before[k] /\ before[k] = table[k]
        BY <1>1, <1>2, <1>6, <1>7, <2>1
      <3> QED
        BY <2>1, <3>1
    <2>2. CASE ~(k < i)
      <3>1. k + 1 \in 1..(Len(table) + 1) /\ ~(k + 1 <= i)
            /\ (k + 1) - i \in 1..(Len(table) - i + 1) /\ i + ((k + 1) - i) - 1 = k
        BY <1>1, <2>2
      <3>2. whole[k + 1] = after[(k + 1) - i]
        BY <1>7, <3>1
      <3>3. after[(k + 1) - i] = table[k]
        BY <1>3, <3>1
      <3> QED
        BY <2>2, <3>2, <3>3
    <2> QED
      BY <2>1, <2>2
  <1> QED
    BY <1>1, <1>5, <1>7, <1>9, <1>10 DEF Without

\* The rest of a table, whatever its order, is its other rows.
LEMMA RestOfTable ==
    ASSUME NEW table, NEW i, NEW shorter, Without(table, i, shorter)
    PROVE  /\ \A k \in 1..Len(table) :
                 k # i => IF k < i
                          THEN k \in 1..Len(shorter) /\ shorter[k] = table[k]
                          ELSE k - 1 \in 1..Len(shorter) /\ shorter[k - 1] = table[k]
           /\ \A k \in 1..Len(shorter) :
                 IF k < i
                 THEN k \in 1..Len(table) /\ k # i /\ shorter[k] = table[k]
                 ELSE k + 1 \in 1..Len(table) /\ k + 1 # i /\ shorter[k] = table[k + 1]
  BY DEF Without

\* A row that says nothing about the appointment may be left out.
LEMMA SilentRow ==
    ASSUME NEW a, NEW table, NEW i, NEW shorter, Without(table, i, shorter),
           ~Speaks(table[i].exception, a)
    PROVE  /\ Speaking(table, a) = {} <=> Speaking(shorter, a) = {}
           /\ Speaking(table, a) # {} => Decides(table, a) = Decides(shorter, a)
  <1> DEFINE S == Speaking(table, a)
             T == Speaking(shorter, a)
             Back(k) == IF k < i THEN k ELSE k + 1
             Forth(k) == IF k < i THEN k ELSE k - 1
  <1>1. /\ DOMAIN table = 1..Len(table) /\ DOMAIN shorter = 1..Len(shorter)
        /\ Len(table) \in Nat /\ Len(shorter) \in Nat /\ i \in Nat
    BY DEF Without
  <1>2. S \subseteq Nat /\ T \subseteq Nat /\ i \notin S
    BY <1>1 DEF Speaking
  <1>3. \A k \in S : Forth(k) \in T /\ shorter[Forth(k)] = table[k] /\ Forth(k) \in Nat
    BY <1>1, <1>2, RestOfTable DEF Speaking
  <1>4. \A k \in T : Back(k) \in S /\ shorter[k] = table[Back(k)] /\ Back(k) \in Nat
    BY <1>1, RestOfTable DEF Speaking
  <1>5. S = {} <=> T = {}
    BY <1>3, <1>4
  <1>6. ASSUME S # {} PROVE Decides(table, a) = Decides(shorter, a)
    <2>1. Max(S) \in S /\ \A k \in S : k <= Max(S)
      BY <1>6, SpeakingPlaces DEF Without, Rows
    <2>2. \A k \in T : (\A j \in T : j <= k) => k = Max(T)
      BY <1>5, <1>6, SpeakingPlaces DEF Without, Rows
    <2>3. \A j \in T : j <= Forth(Max(S))
      <3> TAKE j \in T
      <3>1. Back(j) \in S /\ Back(j) <= Max(S)
        BY <1>4, <2>1
      <3>2. Max(S) \in Nat /\ j \in Nat /\ Max(S) # i
        BY <1>2, <2>1
      <3> HIDE DEF S, T
      <3> QED
        BY <1>1, <3>1, <3>2
    <2>4. Forth(Max(S)) = Max(T)
      BY <1>3, <2>1, <2>2, <2>3
    <2> QED
      BY <1>3, <2>1, <2>4 DEF Decides
  <1> QED
    BY <1>5, <1>6

\* Numbers without repetition, in their order on SQLite.
Ordered(table) ==
    \A i, j \in DOMAIN table :
        i < j => IF engine = "sqlite"
                 THEN table[i].id < table[j].id
                 ELSE table[i].id # table[j].id

LEMMA RestIsOrdered ==
    ASSUME NEW table, NEW i, NEW shorter, Without(table, i, shorter), Ordered(table)
    PROVE  Ordered(shorter)
  <1> DEFINE Back(k) == IF k < i THEN k ELSE k + 1
  <1>1. /\ DOMAIN table = 1..Len(table) /\ DOMAIN shorter = 1..Len(shorter)
        /\ Len(table) \in Nat /\ Len(shorter) \in Nat /\ i \in Nat
    BY DEF Without
  <1> SUFFICES ASSUME NEW k \in DOMAIN shorter, NEW j \in DOMAIN shorter, k < j
               PROVE  IF engine = "sqlite"
                      THEN shorter[k].id < shorter[j].id
                      ELSE shorter[k].id # shorter[j].id
    BY DEF Ordered
  <1>2. /\ Back(k) \in DOMAIN table /\ shorter[k] = table[Back(k)]
        /\ Back(j) \in DOMAIN table /\ shorter[j] = table[Back(j)]
    BY <1>1, RestOfTable, SMTT(30)
  <1>3. Back(k) < Back(j)
    BY <1>1
  <1> QED
    BY <1>2, <1>3 DEF Ordered

\* A row whose number no other row has may lie anywhere on PostgreSQL.
LEMMA NewRowIsOrdered ==
    ASSUME NEW table, NEW i, NEW shorter, Without(table, i, shorter), Ordered(shorter),
           engine # "sqlite",
           \A k \in DOMAIN shorter : shorter[k].id # table[i].id
    PROVE  Ordered(table)
  <1> DEFINE Forth(k) == IF k < i THEN k ELSE k - 1
  <1>1. /\ DOMAIN table = 1..Len(table) /\ DOMAIN shorter = 1..Len(shorter)
        /\ Len(table) \in Nat /\ Len(shorter) \in Nat /\ i \in Nat
    BY DEF Without
  <1> SUFFICES ASSUME NEW k \in DOMAIN table, NEW j \in DOMAIN table, k < j
               PROVE  table[k].id # table[j].id
    BY DEF Ordered
  <1>2. k # i => Forth(k) \in DOMAIN shorter /\ shorter[Forth(k)] = table[k]
    BY <1>1, RestOfTable
  <1>3. j # i => Forth(j) \in DOMAIN shorter /\ shorter[Forth(j)] = table[j]
    BY <1>1, RestOfTable
  <1>4. k # i /\ j # i => Forth(k) < Forth(j)
    BY <1>1
  <1>5. CASE k # i /\ j # i
    <2> DEFINE x == Forth(k)
               y == Forth(j)
    <2>1. x \in DOMAIN shorter /\ y \in DOMAIN shorter /\ x < y
      BY <1>2, <1>3, <1>4, <1>5
    <2>2. shorter[x].id # shorter[y].id
      BY <2>1 DEF Ordered
    <2> QED
      BY <1>2, <1>3, <1>5, <2>2
  <1>6. CASE k = i
    <2>1. j # i
      BY <1>1, <1>6
    <2> QED
      BY <1>3, <1>6, <2>1
  <1>7. CASE j = i
    <2>1. k # i
      BY <1>1, <1>7
    <2> QED
      BY <1>2, <1>7, <2>1
  <1> QED
    BY <1>5, <1>6, <1>7

-------------------------------------------------------------------------------
(* The numbers that the database chooses.                                   *)

LEMMA NumberTypes ==
    ASSUME TypeOK
    PROVE  /\ NumbersInUse \subseteq Numbers /\ Numbers = 1..MaxExceptions /\ MaxExceptions \in Nat
           /\ NumbersInUse \subseteq Nat
           /\ IsFiniteSet(NumbersInUse) /\ Cardinality(NumbersInUse) \in Nat
           /\ Cardinality(NumbersInUse) <= Len(rows)
  <1>1. Numbers = 1..MaxExceptions /\ MaxExceptions \in Nat
    BY CalendarAssumption DEF Numbers
  <1>2. /\ Len(rows) \in Nat /\ DOMAIN rows = 1..Len(rows)
        /\ \A i \in DOMAIN rows : rows[i].id \in Numbers
    <2>1. \A i \in 1..Len(rows) : rows[i] \in [id : Numbers, exception : Shapes]
      BY ElementOfSeq DEF TypeOK
    <2> QED
      BY <2>1, LenProperties DEF TypeOK
  <1> DEFINE named == [i \in 1..Len(rows) |-> rows[i].id]
  <1>3. named \in Surjection(1..Len(rows), NumbersInUse)
    BY <1>2 DEF Surjection, NumbersInUse
  <1>4. IsFiniteSet(1..Len(rows)) /\ Cardinality(1..Len(rows)) = Len(rows)
    BY <1>2, FS_Interval
  <1>5. /\ IsFiniteSet(NumbersInUse) /\ Cardinality(NumbersInUse) <= Cardinality(1..Len(rows))
    BY <1>3, <1>4, FS_Surjection
  <1> QED
    BY <1>1, <1>2, <1>4, <1>5, FS_CardinalityType DEF NumbersInUse

\* A new row gets a number that is not in use, the greatest one on SQLite, whose
\* place is the last.
LEMMA NewNumberIsNew ==
    ASSUME IInv, Len(rows) < MaxExceptions, NewNumber \in Numbers
    PROVE  /\ \A k \in DOMAIN rows : rows[k].id # NewNumber
           /\ engine # "postgres" =>
                /\ \A k \in DOMAIN rows : rows[k].id < NewNumber
                /\ Places(NewNumber) = {Len(rows) + 1}
           /\ Places(NewNumber) \subseteq 1..(Len(rows) + 1)
  <1>1. /\ NumbersInUse \subseteq Numbers /\ Numbers = 1..MaxExceptions /\ MaxExceptions \in Nat
        /\ NumbersInUse \subseteq Nat
        /\ IsFiniteSet(NumbersInUse) /\ Cardinality(NumbersInUse) \in Nat
        /\ Cardinality(NumbersInUse) <= Len(rows)
    BY NumberTypes DEF IInv
  <1>2. Len(rows) \in Nat /\ DOMAIN rows = 1..Len(rows)
    BY LenProperties DEF IInv, TypeOK
  <1>3. CASE engine = "postgres"
    <2>1. \E n \in Numbers : n \notin NumbersInUse
      <3>1. SUFFICES ASSUME NumbersInUse = Numbers PROVE FALSE
        BY <1>1
      <3>2. Cardinality(1..MaxExceptions) = MaxExceptions
        BY <1>1, FS_Interval
      <3> QED
        BY <1>1, <1>2, <3>1, <3>2
    <2>2. NewNumber \notin NumbersInUse
      BY <1>3, <2>1 DEF NewNumber
    <2>3. Places(NewNumber) = 1..(Len(rows) + 1)
      BY <1>3 DEF Places
    <2> QED
      BY <1>3, <2>2, <2>3 DEF NumbersInUse
  <1>4. CASE engine # "postgres"
    <2> DEFINE used == NumbersInUse \cup {0}
    <2>1. engine = "sqlite"
      BY <1>4, CalendarAssumption DEF IInv, TypeOK
    <2>2. used \in SUBSET (0..MaxExceptions) /\ used # {} /\ used \subseteq Nat
      BY <1>1
    <2>3. Max(used) \in used /\ \A n \in used : n <= Max(used)
      BY <1>1, <2>2, Greatest
    <2>4. NewNumber = 1 + Max(used)
      BY <1>4 DEF NewNumber
    <2> HIDE DEF used
    <2>5. \A n \in NumbersInUse : n < NewNumber
      <3> TAKE n \in NumbersInUse
      <3>1. n \in used /\ n <= Max(used)
        BY <2>3 DEF used
      <3>2. n \in Nat /\ Max(used) \in Nat
        BY <2>2, <2>3, <3>1
      <3> QED
        BY <2>4, <3>1, <3>2
    <2>6. \A k \in DOMAIN rows : rows[k].id < NewNumber
      BY <2>5 DEF NumbersInUse
    <2>7. Cardinality(NumbersInUse) = Len(rows)
      <3> DEFINE named == [i \in 1..Len(rows) |-> rows[i].id]
      <3>1. \A i, j \in 1..Len(rows) : i < j => rows[i].id < rows[j].id
        BY <1>2, <2>1 DEF IInv
      <3>2. \A i \in 1..Len(rows) : rows[i].id \in NumbersInUse /\ rows[i].id \in Nat
        <4>1. \A i \in 1..Len(rows) : rows[i].id \in NumbersInUse
          BY <1>2 DEF NumbersInUse
        <4> QED
          BY <1>1, <4>1
      <3>3. \A i, j \in 1..Len(rows) : rows[i].id = rows[j].id => i = j
        <4> TAKE i, j \in 1..Len(rows)
        <4>1. i \in Nat /\ j \in Nat /\ rows[i].id \in Nat /\ rows[j].id \in Nat
          BY <3>2
        <4>2. i < j => rows[i].id < rows[j].id
          BY <3>1
        <4>3. j < i => rows[j].id < rows[i].id
          BY <3>1
        <4> QED
          BY <4>1, <4>2, <4>3
      <3>4. named \in Injection(1..Len(rows), NumbersInUse)
        BY <3>2, <3>3 DEF Injection, IsInjective
      <3>5. Cardinality(1..Len(rows)) <= Cardinality(NumbersInUse)
        BY <1>1, <3>4, FS_Injection
      <3>6. Cardinality(1..Len(rows)) = Len(rows)
        <4>1. Cardinality(1..Len(rows)) = IF 1 > Len(rows) THEN 0 ELSE Len(rows) - 1 + 1
          BY <1>2, FS_Interval
        <4> QED
          BY <1>2, <4>1
      <3> QED
        BY <1>1, <1>2, <3>5, <3>6
    <2>8. { n \in NumbersInUse : n < NewNumber } = NumbersInUse
      BY <2>5
    <2>9. Places(NewNumber) = {Len(rows) + 1}
      <3>1. Places(NewNumber) = {1 + Cardinality(NumbersInUse)}
        BY <1>4, <2>8 DEF Places
      <3> QED
        BY <1>2, <2>7, <3>1
    <2>10. \A k \in DOMAIN rows : rows[k].id # NewNumber
      <3> TAKE k \in DOMAIN rows
      <3>1. rows[k].id \in NumbersInUse /\ rows[k].id < NewNumber
        BY <2>6 DEF NumbersInUse
      <3>2. rows[k].id \in Nat /\ NewNumber \in Nat
        <4>1. NewNumber \in 1..MaxExceptions
          BY <1>1
        <4>2. \A n \in 1..MaxExceptions : n \in Nat
          BY <1>1
        <4>3. rows[k].id \in Nat
          BY <1>1, <3>1
        <4> QED
          BY <4>1, <4>2, <4>3
      <3> QED
        BY <3>1, <3>2
    <2> QED
      BY <1>2, <2>6, <2>9, <2>10
  <1> QED
    BY <1>3, <1>4

-------------------------------------------------------------------------------
(* What the writes do to the rows.                                          *)

\* A step that takes the row at one place out, or puts one in, or both.
Removes(i) == /\ i \in 1..Len(rows) /\ Without(rows, i, rows') /\ Ordered(rows')

Adds(place) ==
    /\ place \in 1..(Len(rows) + 1) /\ Without(rows', place, rows) /\ Ordered(rows')
    /\ \A k \in DOMAIN rows : rows[k].id # rows'[place].id

\* The row at place is a new version of the one that was at i.
Replaces(i, place, rest) ==
    /\ i \in 1..Len(rows) /\ place \in 1..Len(rows')
    /\ Without(rows, i, rest) /\ Without(rows', place, rest) /\ Ordered(rows')
    /\ rows'[place].id = rows[i].id /\ rows'[place].exception # rows[i].exception

LEMMA AddWrites ==
    ASSUME IInv, AddException
    PROVE  /\ \E place \in 1..(Len(rows) + 1) : Adds(place)
           /\ engine' = engine /\ blocks' = blocks /\ holidays' = holidays
  <1> DEFINE row(x) == [id |-> NewNumber, exception |-> x]
  <1>1. PICK x \in Shapes, place \in Places(NewNumber) :
           rows' = Seqs!InsertAt(rows, place, row(x))
    BY DEF AddException
  <1>2. /\ Len(rows) < MaxExceptions /\ NewNumber \in Numbers
        /\ engine' = engine /\ blocks' = blocks /\ holidays' = holidays
    BY DEF AddException
  <1>3. /\ \A k \in DOMAIN rows : rows[k].id # NewNumber
        /\ engine # "postgres" =>
             /\ \A k \in DOMAIN rows : rows[k].id < NewNumber
             /\ Places(NewNumber) = {Len(rows) + 1}
        /\ place \in 1..(Len(rows) + 1)
    BY <1>2, NewNumberIsNew
  <1>4. rows \in Seq(Rows) /\ row(x) \in Rows
    BY <1>2 DEF IInv, TypeOK, Rows
  <1>5. Without(rows', place, rows) /\ rows'[place] = row(x)
    BY <1>1, <1>3, <1>4, InsertAdds
  <1>6. rows'[place].id = NewNumber
    BY <1>5
  <1>7. Ordered(rows)
    BY DEF IInv, Ordered
  <1>8. Ordered(rows')
    <2>1. CASE engine # "sqlite"
      BY <1>3, <1>5, <1>6, <1>7, <2>1, NewRowIsOrdered
    <2>2. CASE engine = "sqlite"
      <3>1. /\ place = Len(rows) + 1 /\ Len(rows) \in Nat
            /\ DOMAIN rows = 1..Len(rows) /\ DOMAIN rows' = 1..(Len(rows) + 1)
            /\ \A k \in 1..Len(rows) : rows[k] = rows'[k]
        <4>1. place = Len(rows) + 1
          BY <1>3, <2>2
        <4>2. /\ Len(rows) \in Nat /\ DOMAIN rows = 1..Len(rows)
              /\ Len(rows') \in Nat /\ DOMAIN rows' = 1..Len(rows')
              /\ Len(rows') = Len(rows) + 1
          BY <1>5, LenProperties DEF Without
        <4>3. \A k \in 1..Len(rows) : rows[k] = rows'[IF k < place THEN k ELSE k + 1]
          BY <1>5 DEF Without
        <4> QED
          BY <4>1, <4>2, <4>3
      <3>2. \A i, j \in DOMAIN rows : i < j => rows[i].id < rows[j].id
        BY <1>7, <2>2 DEF Ordered
      <3>3. \A k \in DOMAIN rows : rows[k].id < rows'[place].id
        BY <1>3, <1>6, <2>2
      <3>4. ASSUME NEW i \in DOMAIN rows', NEW j \in DOMAIN rows', i < j
            PROVE  rows'[i].id < rows'[j].id
        <4>1. i \in DOMAIN rows /\ rows'[i] = rows[i]
          BY <3>1, <3>4
        <4>2. CASE j = place
          BY <3>3, <4>1, <4>2
        <4>3. CASE j # place
          <5>1. j \in DOMAIN rows /\ rows'[j] = rows[j]
            BY <3>1, <4>3
          <5> QED
            BY <3>2, <3>4, <4>1, <5>1
        <4> QED
          BY <4>2, <4>3
      <3> QED
        BY <2>2, <3>4 DEF Ordered
    <2> QED
      BY <2>1, <2>2
  <1> QED
    BY <1>2, <1>3, <1>5, <1>6, <1>8 DEF Adds

LEMMA DeleteWrites ==
    ASSUME IInv, DeleteException
    PROVE  /\ \E i \in 1..Len(rows) : Removes(i)
           /\ engine' = engine /\ blocks' = blocks /\ holidays' = holidays
  <1>1. rows \in Seq(Rows) /\ DOMAIN rows = 1..Len(rows)
    BY LenProperties DEF IInv, TypeOK, Rows
  <1>2. PICK i \in 1..Len(rows) : rows' = Seqs!RemoveAt(rows, i)
    BY <1>1 DEF DeleteException
  <1>3. Without(rows, i, rows')
    BY <1>1, <1>2, RemoveLeaves
  <1>4. engine' = engine /\ blocks' = blocks /\ holidays' = holidays
    BY DEF DeleteException
  <1>5. Ordered(rows')
    BY <1>3, RestIsOrdered DEF IInv, Ordered
  <1> QED
    BY <1>3, <1>4, <1>5 DEF Removes

LEMMA UpdateWrites ==
    ASSUME IInv, UpdateException
    PROVE  /\ \E i \in 1..Len(rows), place \in 1..Len(rows'), rest \in Seq(Rows) :
                 Replaces(i, place, rest)
           /\ engine' = engine /\ blocks' = blocks /\ holidays' = holidays
  <1>1. /\ rows \in Seq(Rows) /\ DOMAIN rows = 1..Len(rows) /\ Len(rows) \in Nat
        /\ \A i \in 1..Len(rows) : rows[i] \in Rows
    BY LenProperties, ElementOfSeq DEF IInv, TypeOK, Rows
  <1>2. engine' = engine /\ blocks' = blocks /\ holidays' = holidays
    BY DEF UpdateException
  <1>3. PICK i \in 1..Len(rows), x \in Shapes :
           /\ x # rows[i].exception
           /\ IF engine = "postgres"
              THEN \E place \in DOMAIN rows :
                     rows' = Seqs!InsertAt(Seqs!RemoveAt(rows, i), place,
                                           [rows[i] EXCEPT !.exception = x])
              ELSE rows' = [rows EXCEPT ![i].exception = x]
    BY <1>1 DEF UpdateException
  <1> DEFINE row  == [rows[i] EXCEPT !.exception = x]
             rest == Seqs!RemoveAt(rows, i)
  <1>4. row \in Rows /\ row.id = rows[i].id /\ row.exception = x
    BY <1>1 DEF Rows
  <1>5. Without(rows, i, rest)
    BY <1>1, RemoveLeaves
  <1>6. Ordered(rows)
    BY DEF IInv, Ordered
  <1>7. Ordered(rest)
    BY <1>5, <1>6, RestIsOrdered
  <1>8. \A k, j \in 1..Len(rows) : k # j => rows[k].id # rows[j].id
    <2> TAKE k, j \in 1..Len(rows)
    <2>1. rows[k].id \in Nat /\ rows[j].id \in Nat
      BY <1>1, RowTypes DEF Rows
    <2>2. k < j \/ j < k \/ j = k
      OBVIOUS
    <2> QED
      BY <1>1, <1>6, <2>1, <2>2 DEF Ordered
  <1>9. \A k \in DOMAIN rest : rest[k].id # rows[i].id
    <2> TAKE k \in DOMAIN rest
    <2>1. k \in 1..Len(rest)
      BY <1>5, LenProperties DEF Without
    <2>2. \E j \in 1..Len(rows) : j # i /\ rest[k] = rows[j]
      BY <1>5, <2>1, RestOfTable
    <2> QED
      BY <1>8, <2>2
  <1>10. CASE engine = "postgres"
    <2>1. PICK place \in 1..Len(rows) : rows' = Seqs!InsertAt(rest, place, row)
      BY <1>1, <1>3, <1>10
    <2>2. rest \in Seq(Rows) /\ Len(rest) + 1 = Len(rows) /\ Len(rest) \in Nat
      BY <1>5, LenProperties DEF Without
    <2> HIDE DEF rest, row
    <2>3. Without(rows', place, rest) /\ rows'[place] = row
      BY <1>4, <2>1, <2>2, InsertAdds
    <2>4. place \in 1..Len(rows')
      BY <2>3 DEF Without
    <2>5. Ordered(rows')
      BY <1>4, <1>7, <1>9, <1>10, <2>3, NewRowIsOrdered
    <2>6. Replaces(i, place, rest)
      BY <1>3, <1>4, <1>5, <2>3, <2>4, <2>5 DEF Replaces
    <2> QED
      BY <1>2, <2>2, <2>4, <2>6
  <1>11. CASE engine # "postgres"
    <2>1. rows' = [rows EXCEPT ![i] = row]
      BY <1>3, <1>11
    <2> HIDE DEF row
    <2>2. /\ rows' \in Seq(Rows) /\ Len(rows') = Len(rows)
          /\ \A k \in 1..Len(rows) : rows'[k] = IF k = i THEN row ELSE rows[k]
      BY <1>1, <1>4, <2>1, ExceptSeq
    <2>3. Without(rows', i, rest)
      <3>1. \A k \in 1..Len(rest) : rest[k] = rows'[IF k < i THEN k ELSE k + 1]
        <4> TAKE k \in 1..Len(rest)
        <4> DEFINE j == IF k < i THEN k ELSE k + 1
        <4>1. rest[k] = rows[j] /\ j \in 1..Len(rows) /\ j # i
          BY <1>1, <1>5 DEF Without
        <4> QED
          BY <2>2, <4>1
      <3> QED
        BY <1>5, <2>2, <3>1 DEF Without
    <2>4. Ordered(rows')
      <3>1. DOMAIN rows' = DOMAIN rows /\ \A k \in DOMAIN rows : rows'[k].id = rows[k].id
        BY <1>1, <1>4, <2>2, LenProperties
      <3> QED
        BY <1>6, <3>1 DEF Ordered
    <2> HIDE DEF rest
    <2>5. i \in 1..Len(rows') /\ rows'[i] = row
      BY <2>2
    <2>6. Replaces(i, i, rest)
      BY <1>3, <1>4, <1>5, <2>3, <2>4, <2>5 DEF Replaces
    <2>7. rest \in Seq(Rows)
      BY <1>5 DEF Without
    <2> QED
      BY <1>2, <2>5, <2>6, <2>7
  <1> QED
    BY <1>10, <1>11

-------------------------------------------------------------------------------
(* The invariant and the theorems.                                          *)

LEMMA InitIInv == Init => IInv
  BY EmptySeq DEF Init, IInv, TypeOK

LEMMA NextKeeps == IInv /\ [Next]_vars => IInv'
  <1> SUFFICES ASSUME IInv, [Next]_vars PROVE IInv'
    OBVIOUS
  <1>1. ASSUME rows' \in Seq(Rows), engine' = engine, blocks' = blocks, holidays' = holidays,
               Ordered(rows')
        PROVE  IInv'
    BY <1>1 DEF IInv, TypeOK, Rows, Ordered
  <1>2. CASE AddException
    BY <1>1, <1>2, AddWrites DEF Adds, Without
  <1>3. CASE UpdateException
    BY <1>1, <1>3, UpdateWrites DEF Replaces, Without
  <1>4. CASE DeleteException
    BY <1>1, <1>4, DeleteWrites DEF Removes, Without
  <1>5. CASE AddBlock
    BY <1>5 DEF AddBlock, IInv, TypeOK
  <1>6. CASE DeleteBlock
    BY <1>6 DEF DeleteBlock, IInv, TypeOK
  <1>7. CASE AddHoliday
    BY <1>7 DEF AddHoliday, IInv, TypeOK
  <1>8. CASE UNCHANGED vars
    BY <1>8 DEF vars, IInv, TypeOK
  <1> QED
    BY <1>2, <1>3, <1>4, <1>5, <1>6, <1>7, <1>8 DEF Next

\* The exceptions on record keep their types and their numbers, whichever come,
\* move and go (availability_repository.py:193-250).
THEOREM CalendarInvariant == Spec => []IInv
  <1>1. Init => IInv
    BY InitIInv
  <1>2. IInv /\ [Next]_vars => IInv'
    BY NextKeeps
  <1> QED
    BY <1>1, <1>2, PTL DEF Spec

\* is_appointment_available() agrees with the calendar at every instant of an
\* appointment within a day that no exception straddles and no window hands over,
\* and never says yes where the calendar says no (scheduling.py:108-162).
THEOREM CalendarIsAnswered == Spec => []AnswersTheCalendar
  <1>1. IInv => AnswersTheCalendar
    BY CalendarAnswered DEF IInv
  <1> QED
    BY <1>1, CalendarInvariant, PTL

\* On SQLite the exception that was added last decides
\* (availability_repository.py:227, scheduling.py:142-143).
THEOREM LastAddedDecides == Spec => []GreatestNumberDecides
  <1>1. IInv => GreatestNumberDecides
    <2> SUFFICES ASSUME IInv, engine = "sqlite", NEW a \in Requests, Speaking(rows, a) # {}
                 PROVE  /\ IsOpen(a, Listed) = Decides(rows, a).exception.available
                        /\ \A i \in Speaking(rows, a) : rows[i].id <= Decides(rows, a).id
      BY MatchingAreSpeaking DEF GreatestNumberDecides, Decides
    <2> DEFINE last == Max(Speaking(rows, a))
    <2>1. IsOpen(a, Listed) = Decides(rows, a).exception.available
      BY OpenTells DEF IInv
    <2>2. last \in Speaking(rows, a) /\ \A i \in Speaking(rows, a) : i <= last
      BY SpeakingPlaces DEF IInv, TypeOK
    <2>3. ASSUME NEW i \in Speaking(rows, a) PROVE rows[i].id <= rows[last].id
      <3>1. i \in DOMAIN rows /\ last \in DOMAIN rows
        BY <2>2 DEF Speaking
      <3>2. rows[i].id \in Nat /\ rows[last].id \in Nat /\ i \in Nat /\ last \in Nat
        <4>1. \A k \in DOMAIN rows : rows[k].id \in Nat /\ k \in Nat
          BY RowTypes DEF IInv, TypeOK
        <4> HIDE DEF last
        <4> QED
          BY <3>1, <4>1
      <3>3. i < last \/ i = last
        BY <2>2, <3>2
      <3> HIDE DEF last
      <3> QED
        BY <3>1, <3>2, <3>3 DEF IInv
    <2> QED
      BY <2>1, <2>3 DEF Decides
  <1> QED
    BY <1>1, CalendarInvariant, PTL

-------------------------------------------------------------------------------
(* Only what concerns an appointment changes its answer.                    *)

\* The same exceptions speak, or none, and the one that decides says the same.
SameSpeaking(a) ==
    /\ Speaking(rows, a) = {} <=> Speaking(rows', a) = {}
    /\ Speaking(rows, a) # {} => Decides(rows, a) = Decides(rows', a)

\* A row that speaks about a is gone, or new.
RowConcerns(a) ==
    \/ \E i \in Speaking(rows, a) : rows[i] \notin Seqs!ToSet(rows')
    \/ \E i \in Speaking(rows', a) : rows'[i] \notin Seqs!ToSet(rows)

LEMMA InTable ==
    ASSUME NEW table, NEW row
    PROVE  row \in Seqs!ToSet(table) <=> \E k \in DOMAIN table : table[k] = row
  BY DEF Seqs!ToSet

LEMMA OneOfANumber ==
    ASSUME NEW table \in Seq(Rows), Ordered(table),
           NEW i \in DOMAIN table, NEW j \in DOMAIN table, table[i].id = table[j].id
    PROVE  i = j
  <1>1. table[i].id \in Nat /\ table[j].id \in Nat /\ i \in Nat /\ j \in Nat
    BY RowTypes DEF Rows
  <1>2. i < j \/ j < i \/ i = j
    BY <1>1
  <1> QED
    BY <1>1, <1>2 DEF Ordered

LEMMA SilentAddition ==
    ASSUME IInv, NEW a, NEW place \in 1..(Len(rows) + 1), Adds(place), ~RowConcerns(a)
    PROVE  SameSpeaking(a)
  <1>1. Without(rows', place, rows) /\ \A k \in DOMAIN rows : rows[k].id # rows'[place].id
    BY DEF Adds
  <1>2. rows'[place] \notin Seqs!ToSet(rows)
    BY <1>1, InTable
  <1>3. place \in DOMAIN rows'
    BY <1>1, LenProperties DEF Without
  <1>4. ~Speaks(rows'[place].exception, a)
    BY <1>2, <1>3 DEF RowConcerns, Speaking
  <1> QED
    BY <1>1, <1>4, SilentRow DEF SameSpeaking

LEMMA SilentRemoval ==
    ASSUME IInv, NEW a, NEW i \in 1..Len(rows), Removes(i), ~RowConcerns(a)
    PROVE  SameSpeaking(a)
  <1>1. /\ Without(rows, i, rows') /\ rows \in Seq(Rows) /\ Ordered(rows)
        /\ DOMAIN rows = 1..Len(rows) /\ DOMAIN rows' = 1..Len(rows')
    BY LenProperties DEF Removes, Without, IInv, Ordered
  <1>2. ASSUME NEW k \in DOMAIN rows', rows'[k] = rows[i] PROVE FALSE
    <2>1. \E j \in DOMAIN rows : j # i /\ rows'[k] = rows[j]
      <3>1. k \in 1..Len(rows')
        BY <1>1
      <3>2. IF k < i
            THEN k \in 1..Len(rows) /\ k # i /\ rows'[k] = rows[k]
            ELSE k + 1 \in 1..Len(rows) /\ k + 1 # i /\ rows'[k] = rows[k + 1]
        BY <1>1, <3>1, RestOfTable
      <3> QED
        BY <1>1, <3>2
    <2> QED
      BY <1>1, <1>2, <2>1, OneOfANumber
  <1>3. rows[i] \notin Seqs!ToSet(rows')
    BY <1>2, InTable
  <1>4. ~Speaks(rows[i].exception, a)
    BY <1>1, <1>3 DEF RowConcerns, Speaking
  <1> QED
    BY <1>1, <1>4, SilentRow DEF SameSpeaking

LEMMA SilentReplacement ==
    ASSUME IInv, NEW a, NEW i \in 1..Len(rows), NEW place \in 1..Len(rows'), NEW rest,
           Replaces(i, place, rest), ~RowConcerns(a)
    PROVE  SameSpeaking(a)
  <1>1. /\ Without(rows, i, rest) /\ Without(rows', place, rest)
        /\ rows \in Seq(Rows) /\ Ordered(rows) /\ rows' \in Seq(Rows) /\ Ordered(rows')
        /\ DOMAIN rows = 1..Len(rows) /\ DOMAIN rows' = 1..Len(rows')
        /\ rows'[place].id = rows[i].id /\ rows'[place].exception # rows[i].exception
    BY LenProperties DEF Replaces, Without, IInv, Ordered
  <1>2. rows[i] \notin Seqs!ToSet(rows')
    <2>1. ASSUME NEW k \in DOMAIN rows', rows'[k] = rows[i] PROVE FALSE
      <3>1. ~(\A n \in {place} : k = n)
        BY <1>1, <2>1
      <3> QED
        BY <1>1, <2>1, <3>1, OneOfANumber
    <2> QED
      BY <2>1, InTable
  <1>3. rows'[place] \notin Seqs!ToSet(rows)
    <2>1. ASSUME NEW k \in DOMAIN rows, rows[k] = rows'[place] PROVE FALSE
      <3>1. k # i
        BY <1>1, <2>1
      <3> QED
        BY <1>1, <2>1, <3>1, OneOfANumber
    <2> QED
      BY <2>1, InTable
  <1>4. ~Speaks(rows[i].exception, a) /\ ~Speaks(rows'[place].exception, a)
    BY <1>1, <1>2, <1>3 DEF RowConcerns, Speaking
  <1>5. /\ Speaking(rows, a) = {} <=> Speaking(rest, a) = {}
        /\ Speaking(rows, a) # {} => Decides(rows, a) = Decides(rest, a)
    BY <1>1, <1>4, SilentRow
  <1>6. /\ Speaking(rows', a) = {} <=> Speaking(rest, a) = {}
        /\ Speaking(rows', a) # {} => Decides(rows', a) = Decides(rest, a)
    BY <1>1, <1>4, SilentRow
  <1> QED
    BY <1>5, <1>6 DEF SameSpeaking

\* The steps that write rows, and the ones that do not.
LEMMA SilentStep ==
    ASSUME IInv, [Next]_vars, NEW a, ~RowConcerns(a)
    PROVE  SameSpeaking(a)
  <1>1. CASE AddException
    BY <1>1, AddWrites, SilentAddition
  <1>2. CASE UpdateException
    BY <1>2, UpdateWrites, SilentReplacement
  <1>3. CASE DeleteException
    BY <1>3, DeleteWrites, SilentRemoval
  <1>4. ASSUME rows' = rows PROVE SameSpeaking(a)
    BY <1>4 DEF SameSpeaking
  <1> QED
    BY <1>1, <1>2, <1>3, <1>4 DEF Next, AddBlock, DeleteBlock, AddHoliday, vars

LEMMA BlocksConcern ==
    ASSUME NEW a,
           \A block \in (blocks \ blocks') \cup (blocks' \ blocks) :
              block.resource \notin Occupied(a)
    PROVE  Unblocked(a)' <=> Unblocked(a)
  BY DEF Unblocked

LEMMA HolidaysConcern ==
    ASSUME TypeOK, [Next]_vars, NEW a,
           \A holiday \in holidays' \ holidays :
              ~(OfBranch(holiday, a) /\ holiday.day = StartDay(a))
    PROVE  IsBranchHoliday(a, Listed)' <=> IsBranchHoliday(a, Listed)
  <1>1. holidays \subseteq holidays'
    BY DEF Next, vars, AddException, UpdateException, DeleteException,
           AddBlock, DeleteBlock, AddHoliday
  <1> DEFINE h == [branch |-> BranchOf[a.resource], day |-> StartDay(a)]
  <1>2. a.resource \in DOMAIN BranchOf => (h \in holidays' => h \in holidays)
    BY DEF OfBranch
  <1> QED
    BY <1>1, <1>2 DEF IsBranchHoliday, Listed

\* The answer to a question changes only with a row, a block or a holiday that
\* concerns it, whatever order the database gives the other rows in
\* (scheduling.py:135-162, availability_repository.py:227).
THEOREM OnlyConcernsChangeAnswers == Spec => OnlyWhatConcernsIt
  <1> DEFINE Concerned(a) ==
                \/ \E i \in MatchingExceptions(a, Listed.exceptions) :
                     rows[i] \notin Seqs!ToSet(rows')
                \/ \E i \in MatchingExceptions(a, Listed'.exceptions) :
                     rows'[i] \notin Seqs!ToSet(rows)
                \/ \E block \in (blocks \ blocks') \cup (blocks' \ blocks) :
                     block.resource \in Occupied(a)
                \/ \E holiday \in holidays' \ holidays :
                     OfBranch(holiday, a) /\ holiday.day = StartDay(a)
             Step == \A a \in Requests : Answer(a)' # Answer(a) => Concerned(a)
  <1>1. IInv /\ IInv' /\ [Next]_vars => Step
    <2> SUFFICES ASSUME IInv, IInv', [Next]_vars, NEW a \in Requests, ~Concerned(a)
                 PROVE  Answer(a)' = Answer(a)
      OBVIOUS
    <2>1. ~RowConcerns(a)
      <3>1. MatchingExceptions(a, Listed'.exceptions) = Speaking(rows', a)
        BY DEF MatchingExceptions, Listed, Speaking, Speaks
      <3> QED
        BY <3>1, MatchingAreSpeaking DEF RowConcerns
    <2>2. SameSpeaking(a)
      BY <2>1, SilentStep
    <2>3. Weekly(a)' <=> Weekly(a)
      BY HolidaysConcern DEF Weekly, IInv
    <2>4. Unblocked(a)' <=> Unblocked(a)
      BY BlocksConcern
    <2>5. /\ Speaking(rows, a) # {} => IsOpen(a, Listed) = Decides(rows, a).exception.available
          /\ Speaking(rows, a) = {} => IsOpen(a, Listed) = Weekly(a)
      BY OpenTells DEF IInv
    <2>6. /\ Speaking(rows', a) # {} => IsOpen(a, Listed)' = Decides(rows', a).exception.available
          /\ Speaking(rows', a) = {} => IsOpen(a, Listed)' = Weekly(a)'
      <3>1. TypeOK' /\ (TypeOK =>
              /\ Speaking(rows, a) # {} => IsOpen(a, Listed) = Decides(rows, a).exception.available
              /\ Speaking(rows, a) = {} => IsOpen(a, Listed) = Weekly(a))'
        BY OpenTells, PTL DEF IInv
      <3> QED
        BY <3>1
    <2>7. IsOpen(a, Listed)' <=> IsOpen(a, Listed)
      BY <2>2, <2>3, <2>5, <2>6 DEF SameSpeaking
    <2>8. Answer(a)' <=> Answer(a)
      <3>1. (Answer(a) <=> IsOpen(a, Listed) /\ Unblocked(a))'
        BY AnswerIsOpenAndFree, PTL
      <3> QED
        BY <2>4, <2>7, <3>1, AnswerIsOpenAndFree
    <2>9. Answer(a) \in BOOLEAN /\ Answer(a)' \in BOOLEAN
      BY DEF Answer, IsAppointmentAvailable
    <2> QED
      BY <2>8, <2>9
  <1> QED
    BY <1>1, CalendarInvariant, PTL DEF Spec, OnlyWhatConcernsIt
===============================================================================
