----------------------------- MODULE AgendaProofs -----------------------------
(***************************************************************************)
(* Proofs that the scheduler keeps the promises of module Agenda, and that *)
(* an agenda so kept leaves closed appointments alone and stays within the *)
(* cap of each day; and what the history tells of an appointment.          *)
(*                                                                         *)
(* The callers are Disciplined, and for the cap, as a Cardinality, there   *)
(* are finitely many appointment ids.                                      *)
(***************************************************************************)
EXTENDS SchedulerProofs, FiniteSetTheorems

-------------------------------------------------------------------------------
(* Lemmas about the rules.                                                  *)

\* Whether the agenda is open depends on the booking, its start and its offset.
LEMMA SamePlace ==
    ASSUME NEW a, NEW b, SameBooking(a, b), a.start = b.start, a.offset = b.offset
    PROVE  /\ CheckResourceBranch(a, Calendar) = CheckResourceBranch(b, Calendar)
           /\ IsAppointmentAvailable(a, Calendar) = IsAppointmentAvailable(b, Calendar)
  <1>1. /\ Occupied(a) = Occupied(b) /\ EndsAt(a) = EndsAt(b) /\ StartDay(a) = StartDay(b)
        /\ a.resource = b.resource /\ a.branch = b.branch
    BY DEF SameBooking, Occupied, EndsAt, StartDay
  <1>2. MatchingExceptions(a, Calendar.exceptions) = MatchingExceptions(b, Calendar.exceptions)
    BY <1>1 DEF MatchingExceptions
  <1>3. IsBranchHoliday(a, Calendar) = IsBranchHoliday(b, Calendar)
    BY <1>1 DEF IsBranchHoliday
  <1>4. \A window : Contains(window, a) = Contains(window, b)
    BY <1>1 DEF Contains
  <1>5. IsOpen(a, Calendar) = IsOpen(b, Calendar)
    <2> DEFINE Weekly(x) == /\ ~IsBranchHoliday(x, Calendar)
                            /\ \E window \in Calendar.windows :
                                   window.resource = x.resource /\ Contains(window, x)
               Verdict(matching, weekly) ==
                    IF matching # {}
                    THEN Calendar.exceptions[CHOOSE i \in matching :
                                                \A j \in matching : j <= i].available
                    ELSE weekly
    <2>1. /\ IsOpen(a, Calendar) =
                Verdict(MatchingExceptions(a, Calendar.exceptions), Weekly(a))
          /\ IsOpen(b, Calendar) =
                Verdict(MatchingExceptions(b, Calendar.exceptions), Weekly(b))
      BY Zenon DEF IsOpen
    <2>2. Weekly(a) = Weekly(b)
      BY <1>1, <1>3, <1>4
    <2> HIDE DEF Weekly, Verdict
    <2> QED
      BY <1>2, <2>1, <2>2
  <1>6. CheckResourceBranch(a, Calendar) = CheckResourceBranch(b, Calendar)
    BY <1>1 DEF CheckResourceBranch
  <1> QED
    BY <1>1, <1>5, <1>6 DEF IsAppointmentAvailable

\* Which overbookings count against a candidate depends on its resource and day.
LEMMA SameOverbookings ==
    ASSUME NEW a, NEW b, a.resource = b.resource, StartDay(a) = StartDay(b), NEW existing
    PROVE  Overbookings(a, existing) = Overbookings(b, existing)
  BY DEF Overbookings

LEMMA FiniteTables ==
    ASSUME IsFiniteSet(Ids), NEW table \in [Ids -> Appointments \cup {None}],
           NEW existing \in SUBSET Stored(table), NEW a
    PROVE  IsFiniteSet(existing) /\ IsFiniteSet(Overbookings(a, existing))
  <1> DEFINE values == { table[i] : i \in Ids }
  <1>1. table \in Surjection(Ids, values)
    BY DEF Surjection
  <1>2. IsFiniteSet(values)
    BY <1>1, FS_Surjection
  <1>3. existing \subseteq values /\ Overbookings(a, existing) \subseteq values
    BY DEF Stored, Overbookings
  <1> QED
    BY <1>2, <1>3, FS_Subset

LEMMA CapsAreNumbers ==
    ASSUME NEW a
    PROVE  Cap(a) \in Nat
  BY PoliciesAssumption DEF Cap, PolicyFor

\* A write of a row with another resource, or one that changes nothing of an
\* active row but its status, takes no room from an overbooking.
LEMMA RoomRemains ==
    ASSUME Base, IsFiniteSet(Ids), NEW i \in Ids, NEW a \in Appointments, a.id = i,
           rows' = [rows EXCEPT ![i] = a],
           NEW cand, UnderCap(cand, rows),
           \/ a.resource # cand.resource
           \/ /\ rows[i] \in Appointments /\ Active(rows[i])
              /\ SameBooking(a, rows[i]) /\ StartDay(a) = StartDay(rows[i])
              /\ a.overbooked = rows[i].overbooked
    PROVE  UnderCap(cand, rows')
  <1> DEFINE before == Overbookings(cand, OthersThan(cand, rows))
             after  == Overbookings(cand, OthersThan(cand, rows'))
  <1>1. /\ OthersThan(cand, rows) \subseteq Stored(rows)
        /\ rows \in [Ids -> Appointments \cup {None}]
    BY DEF OthersThan, Base, TypeOK
  <1>2. IsFiniteSet(before) /\ Cardinality(before) \in Nat
    BY <1>1, FiniteTables, FS_CardinalityType
  <1>3. Cap(cand) \in Nat /\ Cardinality(before) < Cap(cand)
    BY CapsAreNumbers DEF UnderCap
  <1>4. after \subseteq before \cup {a}
    BY DEF Overbookings, OthersThan, Stored, Base, TypeOK
  <1>5. CASE a \notin after
    <2>1. after \in SUBSET before
      BY <1>4, <1>5
    <2>2. Cardinality(after) <= Cardinality(before) /\ Cardinality(after) \in Nat
      BY <1>2, <2>1, FS_Subset, FS_CardinalityType
    <2> HIDE DEF before, after
    <2>3. Cardinality(after) < Cap(cand)
      BY <1>2, <1>3, <2>2
    <2> QED
      BY <2>3 DEF UnderCap, after
  <1>6. CASE a \in after
    <2> DEFINE row == rows[i]
               rest == before \ {row}
    <2>1. /\ a.id # cand.id /\ a.overbooked /\ a.resource = cand.resource
          /\ StartDay(a) = StartDay(cand)
      BY <1>6 DEF Overbookings, OthersThan
    <2>2. /\ row \in Appointments /\ Active(row) /\ row.id = i
          /\ SameBooking(a, row) /\ StartDay(a) = StartDay(row)
          /\ a.overbooked = row.overbooked
      BY <2>1, NoneAssumption DEF Base, RowsKeepTheirIds
    <2>3. row \in before
      BY <2>1, <2>2, NoneAssumption DEF Overbookings, OthersThan, Stored, SameBooking
    <2>4. after \in SUBSET (rest \cup {a})
      <3> SUFFICES ASSUME NEW x \in after, x # a
                   PROVE  x \in rest
        OBVIOUS
      <3>1. x \in before
        BY <1>4
      <3>2. x # row
        BY <2>2 DEF Overbookings, OthersThan, Stored, Base, TypeOK, RowsKeepTheirIds
      <3> QED
        BY <3>1, <3>2
    <2> HIDE DEF before, after
    <2>5. IsFiniteSet(rest) /\ Cardinality(rest) = Cardinality(before) - 1
      BY <1>2, <2>3, FS_RemoveElement
    <2>6. /\ IsFiniteSet(rest \cup {a})
          /\ Cardinality(rest \cup {a}) <= Cardinality(before)
      <3>1. /\ IsFiniteSet(rest \cup {a})
            /\ Cardinality(rest \cup {a}) =
                 IF a \in rest THEN Cardinality(rest) ELSE Cardinality(rest) + 1
        BY <2>5, FS_AddElement
      <3> QED
        BY <1>2, <2>5, <3>1
    <2>7. /\ Cardinality(after) <= Cardinality(rest \cup {a}) /\ Cardinality(after) \in Nat
          /\ Cardinality(rest \cup {a}) \in Nat
      BY <2>4, <2>6, FS_Subset, FS_CardinalityType
    <2>8. Cardinality(after) < Cap(cand)
      BY <1>2, <1>3, <2>6, <2>7
    <2> QED
      BY <2>8 DEF UnderCap, after
  <1> QED
    BY <1>5, <1>6

-------------------------------------------------------------------------------
(* The steps that write no row.                                             *)

\* A call that is not at a lock or past it has nothing to stand by.
LEMMA NothingStanding ==
    ASSUME NEW p \in Procs, pc'[p] \notin {"lock"} \cup Reserving
    PROVE  Standing(p)'
  BY DEF Standing, AskedFor, PlaceStands, CapStands, Reserving

LEMMA CreateStands ==
    ASSUME Base, NEW p \in Procs, Create(p)
    PROVE  Standing(p)'
  <1>1. PICK b \in Bookings, allow \in BOOLEAN :
          Begin(p, "lock", [ verb |-> "create", allow |-> allow, cand |-> b,
                             from |-> None, loaded |-> None, todo |-> {} ])
    BY DEF Create
  <1>2. pc'[p] = "lock" /\ call'[p].verb = "create" /\ call'[p].cand = b
    BY <1>1 DEF Begin, Base, TypeOK
  <1>3. b = [b EXCEPT !.overbooked = b.overbooked]
    BY BookingsAssumption DEF Appointments
  <1> QED
    BY <1>2, <1>3 DEF Standing, AskedFor, PlaceStands, CapStands

LEMMA RescheduleStands ==
    ASSUME Base, NEW p \in Procs, Reschedule(p)
    PROVE  Standing(p)'
  <1>1. PICK i \in Ids, start \in Starts, offset \in Offsets, allow \in BOOLEAN :
          /\ rows[i] # None
          /\ rows[i].status \in {"pending", "confirmed"}
          /\ Begin(p, "lock",
                   [ verb |-> "reschedule", allow |-> allow,
                     cand |-> [rows[i] EXCEPT !.start = start, !.offset = offset],
                     from |-> rows[i].status, loaded |-> None, todo |-> {} ])
    BY DEF Reschedule
  <1> DEFINE cand == [rows[i] EXCEPT !.start = start, !.offset = offset]
  <1>2. rows[i] \in Appointments
    BY <1>1 DEF Base, TypeOK
  <1>3. cand.offset = offset /\ cand.status = rows[i].status
    BY <1>2 DEF Appointments
  <1>4. pc'[p] = "lock" /\ call'[p].verb = "reschedule" /\ call'[p].cand = cand
    BY <1>1 DEF Begin, Base, TypeOK
  <1> HIDE DEF cand
  <1> QED
    BY <1>1, <1>3, <1>4 DEF Standing, AskedFor, PlaceStands, CapStands

LEMMA AcquireStands ==
    ASSUME Base, NEW p \in Procs, Standing(p), Acquire(p)
    PROVE  Standing(p)'
  <1>1. pc[p] = "lock" /\ pc'[p] \in {"lock", "load"} /\ call' = call
    BY DEF Acquire, Goto, Base, TypeOK
  <1> QED
    BY <1>1 DEF Standing, AskedFor, PlaceStands, CapStands, Reserving

LEMMA LoadStands ==
    ASSUME Base, NEW p \in Procs, Standing(p), Load(p), ~Fail(p)
    PROVE  Standing(p)'
  <1>1. /\ pc[p] = "load" /\ pc'[p] = "validate"
        /\ call' = [call EXCEPT ![p].loaded = rows[call[p].cand.id]]
    BY DEF Load, Goto, Base, TypeOK
  <1>2. call'[p].cand = call[p].cand /\ call'[p].verb = call[p].verb
    BY <1>1, LoadingKeepsTheRest
  <1> QED
    BY <1>1, <1>2 DEF Standing, AskedFor, PlaceStands, CapStands, Reserving

\* The verdict of the validator, as it is passed.
LEMMA ValidateStands ==
    ASSUME Base, NEW p \in Procs, Standing(p), Validate(p), ~Fail(p)
    PROVE  Standing(p)'
  <1> DEFINE asked == call[p].cand
             cand  == Landed(asked, rows)
  <1>1. /\ pc[p] = "validate" /\ rows' = rows
        /\ MayLand(asked, rows, call[p].allow)
        /\ call' = [call EXCEPT ![p].cand = cand]
        /\ pc' = [pc EXCEPT ![p] = "commit"]
    BY DEF Validate, Goto
  <1>2. call[p] \in Calls /\ asked \in Appointments
    BY <1>1, CallTypes
  <1>3. /\ cand \in Appointments /\ SameBooking(cand, asked)
        /\ cand.status = asked.status /\ cand.start = asked.start
        /\ cand.overbooked = (ConflictsIn(asked, rows) # {})
    BY <1>2, LandedIsAppointment
  <1>4. cand.offset = asked.offset
    BY <1>2 DEF Landed, Appointments
  <1>5. /\ pc'[p] = "commit" /\ call'[p].cand = cand /\ call'[p].verb = call[p].verb
    BY <1>1, <1>2, <1>3 DEF Base, TypeOK, Calls
  <1>6. call[p].verb = "create" =>
          \E b \in Bookings : cand = [b EXCEPT !.overbooked = cand.overbooked]
    <2> SUFFICES ASSUME call[p].verb = "create"
                 PROVE  \E b \in Bookings : cand = [b EXCEPT !.overbooked = cand.overbooked]
      OBVIOUS
    <2>1. PICK b \in Bookings : asked = [b EXCEPT !.overbooked = asked.overbooked]
      BY <1>1 DEF Standing, AskedFor, Reserving
    <2>2. cand = [asked EXCEPT !.overbooked = cand.overbooked]
      BY <1>3 DEF Landed
    <2>3. b \in Appointments
      BY BookingsAssumption
    <2> HIDE DEF asked, cand
    <2>4. cand = [b EXCEPT !.overbooked = cand.overbooked]
      BY <2>1, <2>2, <2>3 DEF Appointments
    <2> QED
      BY <2>4
  <1>7. /\ CheckResourceBranch(cand, Calendar)
        /\ IsAppointmentAvailable(cand, Calendar)
    BY <1>1, <1>3, <1>4, SamePlace DEF MayLand
  <1>8. cand.overbooked => UnderCap(cand, rows)
    <2>1. /\ cand.id = asked.id /\ cand.resource = asked.resource
          /\ StartDay(cand) = StartDay(asked)
      BY <1>3, <1>4 DEF SameBooking, StartDay
    <2>2. OthersThan(cand, rows) = OthersThan(asked, rows) /\ Cap(cand) = Cap(asked)
      BY <2>1 DEF OthersThan, Cap
    <2>3. Overbookings(cand, OthersThan(cand, rows))
            = Overbookings(asked, OthersThan(asked, rows))
      BY <2>1, <2>2, SameOverbookings
    <2> QED
      BY <1>1, <1>3, <2>2, <2>3 DEF MayLand, UnderCap
  <1> HIDE DEF cand
  <1>9. AskedFor(p)'
    BY <1>1, <1>3, <1>4, <1>5, <1>6 DEF Standing, AskedFor, Reserving
  <1>10. CapStands(p)'
    BY <1>1, <1>5, <1>8 DEF CapStands, UnderCap, OthersThan, Stored
  <1> QED
    BY <1>5, <1>7, <1>9, <1>10 DEF Standing, PlaceStands

-------------------------------------------------------------------------------
(* The steps that write one.                                                *)

\* The rules the agenda is stated with are those the scheduler applies.
LEMMA SameRules ==
    ASSUME NEW a, NEW table
    PROVE  /\ Promised!CheckResourceBranch(a, Calendar) = CheckResourceBranch(a, Calendar)
           /\ Promised!IsAppointmentAvailable(a, Calendar) = IsAppointmentAvailable(a, Calendar)
           /\ Promised!UnderCap(a, table) = UnderCap(a, table)
           /\ Promised!ConflictsIn(a, table) = ConflictsIn(a, table)
           /\ Promised!Allowed = Allowed /\ Promised!Statuses = Statuses
           /\ Promised!Ids = Ids
  <1>1. Promised!Ids = Ids /\ Promised!Allowed = Allowed /\ Promised!Statuses = Statuses
    BY DEF Promised!Ids, Ids, Promised!Allowed, Allowed, Promised!Statuses, Statuses
  <1>2. \A x : /\ Promised!Occupied(x) = Occupied(x) /\ Promised!EndsAt(x) = EndsAt(x)
               /\ Promised!StartDay(x) = StartDay(x) /\ Promised!Active(x) = Active(x)
               /\ Promised!Gap(x) = Gap(x) /\ Promised!Cap(x) = Cap(x)
    BY DEF Promised!Occupied, Occupied, Promised!EndsAt, EndsAt, Promised!StartDay, StartDay,
           Promised!Date, Date, Promised!Active, Active, Promised!Inactive, Inactive,
           Promised!Gap, Gap, Promised!Cap, Cap, Promised!PolicyFor, PolicyFor
  <1>3. Promised!OthersThan(a, table) = OthersThan(a, table)
    BY <1>1 DEF Promised!OthersThan, OthersThan, Promised!Stored, Stored
  <1>4. Promised!ConflictsIn(a, table) = ConflictsIn(a, table)
    BY <1>2, <1>3 DEF Promised!ConflictsIn, ConflictsIn, Promised!FindConflicts, FindConflicts,
                      Promised!IntervalsOverlap, IntervalsOverlap
  <1>5. Promised!UnderCap(a, table) = UnderCap(a, table)
    <2>1. Promised!Overbookings(a, OthersThan(a, table)) = Overbookings(a, OthersThan(a, table))
      BY <1>2 DEF Promised!Overbookings, Overbookings
    <2>2. \A S : Promised!Cardinality(S) = Cardinality(S)
      BY Zenon DEF Promised!Cardinality, Cardinality
    <2> QED
      BY <1>2, <1>3, <2>1, <2>2 DEF Promised!UnderCap, UnderCap
  <1>6. Promised!CheckResourceBranch(a, Calendar) = CheckResourceBranch(a, Calendar)
    BY <1>2 DEF Promised!CheckResourceBranch, CheckResourceBranch
  <1>7. Promised!IsOpen(a, Calendar) = IsOpen(a, Calendar)
    BY Zenon DEF Promised!IsOpen, IsOpen, Promised!MatchingExceptions, MatchingExceptions,
           Promised!IsBranchHoliday, IsBranchHoliday, Promised!Contains, Contains,
           Promised!StartDay, StartDay, Promised!Date, Date, Promised!EndsAt, EndsAt,
           Promised!TimeOfDay, TimeOfDay, Promised!Weekday, Weekday,
           Promised!AppliesOn, AppliesOn
  <1>8. Promised!IsAppointmentAvailable(a, Calendar) = IsAppointmentAvailable(a, Calendar)
    BY <1>2, <1>7 DEF Promised!IsAppointmentAvailable, IsAppointmentAvailable,
                      Promised!IntervalsOverlap, IntervalsOverlap
  <1> QED
    BY <1>1, <1>4, <1>5, <1>6, <1>8

\* What a call that was about to write an appointment may rely on.
LEMMA CommitIsAdmissible ==
    ASSUME AgendaInv, NEW p \in Procs, pc[p] = "commit"
    PROVE  Promised!Admissible(call[p].cand, rows)
  <1>1. /\ CheckResourceBranch(call[p].cand, Calendar)
        /\ IsAppointmentAvailable(call[p].cand, Calendar)
        /\ call[p].cand.overbooked => UnderCap(call[p].cand, rows)
    BY DEF AgendaInv, Standing, PlaceStands, CapStands
  <1>2. ~call[p].cand.overbooked => ConflictsIn(call[p].cand, rows) = {}
    BY DEF AgendaInv, IInv, VerdictStands
  <1> QED
    BY <1>1, <1>2, SameRules DEF Promised!Admissible

\* What a database or the dictionary keeps of the candidate, in the first case
\* with its instants in UTC.
LEMMA CommitWrites ==
    ASSUME AgendaInv, NEW p \in Procs, Commit(p), ~Fail(p)
    PROVE  LET cand == call[p].cand
           IN  /\ pc[p] = "commit" /\ cand \in Appointments /\ cand.id \in Ids
               /\ pc' = [pc EXCEPT ![p] = "record"] /\ call' = call
               /\ call[p].verb \in {"create", "reschedule"}
               /\ call[p].verb = "create" => rows[cand.id] = None
               /\ call[p].verb = "reschedule" =>
                    /\ rows[cand.id] \in Appointments /\ SameBooking(cand, rows[cand.id])
                    /\ cand.status = rows[cand.id].status
               /\ \E kept \in {cand, [cand EXCEPT !.offset = 0]} :
                    /\ rows' = [rows EXCEPT ![cand.id] = kept]
                    /\ Backend # "memory" => kept.offset = 0
  <1> DEFINE c == call[p]
             cand == c.cand
             row == rows[cand.id]
             kept == IF c.verb = "create" THEN Persisted(cand) ELSE Written(c)
  <1>1. /\ pc[p] = "commit"
        /\ c.verb = "create" => row = None
        /\ rows' = [rows EXCEPT ![cand.id] = kept]
        /\ pc' = [pc EXCEPT ![p] = "record"]
        /\ call' = call
    BY DEF Commit, Goto
  <1>2. c \in Calls /\ cand \in Appointments /\ cand.id \in Ids
    BY <1>1, CallTypes DEF AgendaInv, IInv, Appointments
  <1>3. c.verb \in {"create", "reschedule"}
    BY <1>1 DEF AgendaInv, IInv, Base, CallShape, Reserving
  <1>4. [cand EXCEPT !.offset = 0].offset = 0
    BY <1>2 DEF Appointments
  <1>5. CASE c.verb = "create"
    <2>1. kept = IF Backend = "memory" THEN cand ELSE [cand EXCEPT !.offset = 0]
      BY <1>5 DEF Persisted
    <2> QED
      BY <1>1, <1>2, <1>3, <1>4, <1>5, <2>1
  <1>6. CASE c.verb = "reschedule"
    <2>1. row # None /\ SameBooking(cand, row)
      BY <1>1, <1>6 DEF AgendaInv, IInv, Base, CallShape, Changing, Reserving
    <2>2. row \in Appointments /\ (Backend # "memory" => row.offset = 0)
      BY <1>2, <2>1 DEF AgendaInv, StoredInUtc, IInv, Base, TypeOK
    <2>3. c.loaded = row /\ cand.status = row.status
      BY <1>1, <1>6 DEF AgendaInv, IInv, MoveIsFresh, Reserving
    <2>4. kept = IF Backend = "memory" THEN cand ELSE [cand EXCEPT !.offset = 0]
      <3>1. CASE Backend = "memory"
        BY <1>6, <3>1 DEF Written
      <3>2. CASE Backend # "memory"
        <4>1. kept = [row EXCEPT !.start = cand.start, !.status = cand.status,
                                 !.overbooked = cand.overbooked]
          BY <1>6, <2>3, <3>2 DEF Written, Merged
        <4> HIDE DEF kept, cand, row
        <4> QED
          BY <1>2, <2>1, <2>2, <3>2, <4>1 DEF Appointments, SameBooking
      <3> QED
        BY <3>1, <3>2
    <2> QED
      BY <1>1, <1>2, <1>3, <1>4, <1>6, <2>1, <2>2, <2>3, <2>4
  <1> QED
    BY <1>3, <1>5, <1>6

LEMMA CommitIsPromised ==
    ASSUME AgendaInv, NEW p \in Procs, Commit(p), ~Fail(p)
    PROVE  Promised!Next
  <1> DEFINE cand == call[p].cand
             row == rows[cand.id]
  <1>1. /\ pc[p] = "commit" /\ cand \in Appointments /\ cand.id \in Ids
        /\ call[p].verb \in {"create", "reschedule"}
        /\ call[p].verb = "create" => row = None
        /\ call[p].verb = "reschedule" =>
             row \in Appointments /\ SameBooking(cand, row) /\ cand.status = row.status
    BY CommitWrites
  <1>2. PICK kept \in Promised!KeptAs(cand) : rows' = [rows EXCEPT ![cand.id] = kept]
    BY CommitWrites DEF Promised!KeptAs
  <1>3. kept.id = cand.id
    BY <1>1, <1>2 DEF Promised!KeptAs, Appointments
  <1>4. Promised!Enter(kept)
    BY <1>2, <1>3 DEF Promised!Enter
  <1>5. Promised!Admissible(cand, rows) /\ AskedFor(p)
    BY <1>1, CommitIsAdmissible DEF AgendaInv, Standing
  <1>6. cand.overbooked \in BOOLEAN /\ cand.start \in Starts
    BY <1>1 DEF Appointments
  <1>7. CASE call[p].verb = "create"
    <2>1. PICK b \in Bookings : cand = [b EXCEPT !.overbooked = cand.overbooked]
      BY <1>1, <1>5, <1>7 DEF AskedFor, Reserving
    <2>2. b.id = cand.id
      BY <2>1, BookingsAssumption DEF Appointments
    <2> HIDE DEF cand
    <2>3. Promised!Book
      BY <1>1, <1>2, <1>4, <1>5, <1>6, <1>7, <2>1, <2>2 DEF Promised!Book
    <2> QED
      BY <2>3 DEF Promised!Next
  <1>8. CASE call[p].verb = "reschedule"
    <2>1. cand.offset \in Offsets /\ row.status \in {"pending", "confirmed"} /\ row # None
      BY <1>1, <1>5, <1>8, NoneAssumption DEF AskedFor, Reserving
    <2> HIDE DEF cand
    <2>2. cand = [row EXCEPT !.start = cand.start, !.offset = cand.offset,
                             !.overbooked = cand.overbooked]
      BY <1>1, <1>8 DEF Appointments, SameBooking
    <2>3. Promised!Move(cand.id)
      BY <1>2, <1>4, <1>5, <1>6, <2>1, <2>2 DEF Promised!Move
    <2> QED
      BY <1>1, <2>3, SameRules DEF Promised!Next
  <1> QED
    BY <1>1, <1>7, <1>8

LEMMA FlushWrites ==
    ASSUME AgendaInv, NEW p \in Procs, Flush(p)
    PROVE  LET cand == call[p].cand
               row == rows[cand.id]
           IN  /\ pc[p] = "flush" /\ cand \in Appointments /\ cand.id \in Ids
               /\ pc' = [pc EXCEPT ![p] = "record"] /\ call' = call
               /\ row \in Appointments /\ row.id = cand.id
               /\ cand = [row EXCEPT !.status = cand.status]
               /\ <<row.status, cand.status>> \in Allowed
               /\ rows' = [rows EXCEPT ![cand.id] = cand]
  <1> DEFINE c == call[p]
             cand == c.cand
             row == rows[cand.id]
  <1>1. /\ pc[p] = "flush"
        /\ rows' = [rows EXCEPT ![cand.id] = Written(c)]
        /\ pc' = [pc EXCEPT ![p] = "record"]
        /\ call' = call
    BY DEF Flush, Goto
  <1>2. c \in Calls /\ cand \in Appointments /\ cand.id \in Ids
    BY <1>1, CallTypes DEF AgendaInv, IInv, Appointments
  <1>3. row \in Appointments /\ row.id = cand.id
    BY <1>1, <1>2 DEF AgendaInv, IInv, Base, TypeOK, RowsKeepTheirIds, CallShape, Changing
  <1>4. /\ c.loaded = row
        /\ cand = [row EXCEPT !.status = cand.status]
        /\ <<row.status, cand.status>> \in Allowed
    BY <1>1 DEF AgendaInv, IInv, AdvanceIsFresh
  <1>5. Written(c) = cand
    <2>1. CASE Backend = "memory"
      BY <2>1 DEF Written
    <2>2. CASE Backend # "memory"
      <3>1. Written(c) = [row EXCEPT !.start = cand.start, !.status = cand.status,
                                     !.overbooked = cand.overbooked]
        BY <1>4, <2>2 DEF Written, Merged
      <3> HIDE DEF c, cand, row
      <3> QED
        BY <1>2, <1>3, <1>4, <3>1 DEF Appointments
    <2> QED
      BY <2>1, <2>2
  <1> QED
    BY <1>1, <1>2, <1>3, <1>4, <1>5

LEMMA FlushIsPromised ==
    ASSUME AgendaInv, NEW p \in Procs, Flush(p)
    PROVE  Promised!Next
  <1> DEFINE cand == call[p].cand
             row == rows[cand.id]
  <1>1. /\ cand \in Appointments /\ cand.id \in Ids
        /\ row \in Appointments /\ row # None
        /\ cand = [row EXCEPT !.status = cand.status]
        /\ <<row.status, cand.status>> \in Allowed
        /\ rows' = [rows EXCEPT ![cand.id] = cand]
    BY FlushWrites, NoneAssumption
  <1>2. cand.status \in Statuses
    BY <1>1 DEF Appointments
  <1> HIDE DEF cand
  <1>3. Promised!Advance(cand.id)
    BY <1>1, <1>2, SameRules DEF Promised!Advance, Promised!Enter
  <1> QED
    BY <1>1, <1>3, SameRules DEF Promised!Next

-------------------------------------------------------------------------------
(* The invariant, and the refinement it carries.                            *)

LEMMA QuietStepKeepsStanding ==
    ASSUME AgendaInv, NEW p \in Procs, rows' = rows, StepOf(p), Standing(p)'
    PROVE  StoredInUtc' /\ \A q \in Procs : Standing(q)'
  <1>1. StoredInUtc'
    BY DEF AgendaInv, StoredInUtc
  <1>2. ASSUME NEW q \in Procs \ {p}
        PROVE  Standing(q)'
    <2>1. Standing(q) /\ pc'[q] = pc[q] /\ call'[q] = call[q]
      BY DEF AgendaInv, StepOf
    <2> QED
      BY <2>1 DEF Standing, AskedFor, PlaceStands, CapStands, UnderCap, OthersThan, Stored
  <1> QED
    BY <1>1, <1>2

\* A write leaves the others what they stand by.
LEMMA WriteLeavesStanding ==
    ASSUME AgendaInv, IsFiniteSet(Ids), NEW p \in Procs,
           NEW i \in Ids, NEW a \in Appointments, a.id = i,
           rows' = [rows EXCEPT ![i] = a],
           pc' = [pc EXCEPT ![p] = "record"], call' = call,
           Backend # "memory" => a.offset = 0,
           \/ pc[p] = "commit" /\ a.resource = call[p].cand.resource
           \/ /\ rows[i] \in Appointments /\ Active(rows[i])
              /\ SameBooking(a, rows[i]) /\ StartDay(a) = StartDay(rows[i])
              /\ a.overbooked = rows[i].overbooked
    PROVE  StoredInUtc' /\ \A q \in Procs : Standing(q)'
  <1> USE DEF AgendaInv
  <1>1. StoredInUtc'
    BY DEF StoredInUtc, IInv, Base, TypeOK
  <1>2. Standing(p)'
    BY NothingStanding DEF IInv, Base, TypeOK, Reserving
  <1>3. ASSUME NEW q \in Procs \ {p}
        PROVE  Standing(q)'
    <2>1. Standing(q) /\ pc'[q] = pc[q]
      BY DEF IInv, Base, TypeOK
    <2>2. ASSUME pc[q] = "commit", call[q].cand.overbooked
          PROVE  UnderCap(call[q].cand, rows')
      <3>1. UnderCap(call[q].cand, rows)
        BY <2>1, <2>2 DEF Standing, CapStands
      <3>2. CASE pc[p] = "commit" /\ a.resource = call[p].cand.resource
        <4>1. Occupied(call[p].cand) \cap Occupied(call[q].cand) = {}
          BY <2>2, <3>2, BaseIsExclusive DEF IInv, Exclusive, Reserving
        <4>2. a.resource # call[q].cand.resource
          BY <3>2, <4>1 DEF Occupied
        <4> QED
          BY <3>1, <4>2, RoomRemains DEF IInv
      <3>3. CASE ~(pc[p] = "commit" /\ a.resource = call[p].cand.resource)
        BY <3>1, <3>3, RoomRemains DEF IInv
      <3> QED
        BY <3>2, <3>3
    <2> QED
      BY <2>1, <2>2 DEF Standing, AskedFor, PlaceStands, CapStands, UnderCap, OthersThan, Stored
  <1> QED
    BY <1>1, <1>2, <1>3

LEMMA CommitKeepsStanding ==
    ASSUME AgendaInv, IsFiniteSet(Ids), NEW p \in Procs, Commit(p), ~Fail(p)
    PROVE  StoredInUtc' /\ \A q \in Procs : Standing(q)'
  <1> DEFINE cand == call[p].cand
  <1>1. /\ pc[p] = "commit" /\ cand \in Appointments /\ cand.id \in Ids
        /\ pc' = [pc EXCEPT ![p] = "record"] /\ call' = call
    BY CommitWrites
  <1>2. PICK kept \in {cand, [cand EXCEPT !.offset = 0]} :
          rows' = [rows EXCEPT ![cand.id] = kept] /\ (Backend # "memory" => kept.offset = 0)
    BY CommitWrites
  <1>3. kept \in Appointments /\ kept.id = cand.id /\ kept.resource = cand.resource
    <2> HIDE DEF cand
    <2> QED
      BY <1>1, <1>2 DEF Appointments
  <1> QED
    BY <1>1, <1>2, <1>3, WriteLeavesStanding

LEMMA FlushKeepsStanding ==
    ASSUME AgendaInv, IsFiniteSet(Ids), NEW p \in Procs, Flush(p)
    PROVE  StoredInUtc' /\ \A q \in Procs : Standing(q)'
  <1> DEFINE cand == call[p].cand
             row == rows[cand.id]
  <1>1. /\ pc[p] = "flush" /\ cand \in Appointments /\ cand.id \in Ids
        /\ pc' = [pc EXCEPT ![p] = "record"] /\ call' = call
        /\ row \in Appointments /\ row.id = cand.id
        /\ cand = [row EXCEPT !.status = cand.status]
        /\ <<row.status, cand.status>> \in Allowed
        /\ rows' = [rows EXCEPT ![cand.id] = cand]
    BY FlushWrites
  <1>2. Active(row)
    BY <1>1, AdvancingDeactivates DEF Active
  <1>3. Backend # "memory" => row.offset = 0
    BY <1>1, NoneAssumption DEF AgendaInv, StoredInUtc
  <1> HIDE DEF cand, row
  <1>4. /\ SameBooking(cand, row) /\ StartDay(cand) = StartDay(row)
        /\ cand.overbooked = row.overbooked /\ cand.offset = row.offset
    BY <1>1 DEF Appointments, SameBooking, StartDay
  <1> QED
    BY <1>1, <1>2, <1>3, <1>4, WriteLeavesStanding DEF row, cand

LEMMA NextKeepsAgendaInv ==
    ASSUME AgendaInv, Disciplined, IsFiniteSet(Ids), [Next]_vars
    PROVE  AgendaInv'
  <1>1. IInv'
    BY NextKeepsIInv DEF AgendaInv
  <1>2. CASE UNCHANGED vars
    <2>1. StoredInUtc'
      BY <1>2 DEF AgendaInv, vars, StoredInUtc
    <2>2. ASSUME NEW q \in Procs PROVE Standing(q)'
      <3>1. Standing(q) /\ pc'[q] = pc[q] /\ call'[q] = call[q] /\ rows' = rows
        BY <1>2 DEF AgendaInv, vars
      <3> QED
        BY <3>1 DEF Standing, AskedFor, PlaceStands, CapStands, UnderCap, OthersThan, Stored
    <2> QED
      BY <1>1, <2>1, <2>2 DEF AgendaInv
  <1>3. CASE Next
    <2>1. PICK p \in Procs : BeginCall(p) \/ Acquire(p) \/ Proceed(p) \/ Crash(p)
      BY <1>3 DEF Next
    <2>2. Base /\ Knows(p) /\ Standing(p)
      BY DEF AgendaInv, IInv, Knows
    <2>3. CASE Fail(p)
      <3>1. rows' = rows /\ StepOf(p) /\ pc'[p] = "idle"
        BY <2>2, <2>3, FailKnows DEF Fail, Goto, Base, TypeOK
      <3> QED
        BY <1>1, <3>1, NothingStanding, QuietStepKeepsStanding DEF AgendaInv, Reserving
    <2>4. CASE Create(p) \/ Reschedule(p) \/ Acquire(p) \/ (Load(p) /\ ~Fail(p))
                 \/ (Validate(p) /\ ~Fail(p))
      <3>1. rows' = rows /\ StepOf(p)
        BY <2>2, <2>4, CreateKnows, RescheduleKnows, AcquireKnows, LoadKnows, ValidateKnows
      <3>2. Standing(p)'
        BY <2>2, <2>4, CreateStands, RescheduleStands, AcquireStands, LoadStands,
           ValidateStands
      <3> QED
        BY <1>1, <3>1, <3>2, QuietStepKeepsStanding DEF AgendaInv
    <2>5. CASE Transition(p) \/ CancelSeries(p) \/ Fetch(p) \/ Record(p)
                 \/ (NextOccurrence(p) /\ ~Fail(p))
      <3>1. rows' = rows /\ StepOf(p)
        BY <2>2, <2>5, TransitionKnows, CancelSeriesKnows, FetchKnows, RecordKnows,
           NextOccurrenceKnows
      <3>2. pc'[p] \in {"series", "fetch", "flush", "record", "idle"}
        BY <2>2, <2>5 DEF Transition, CancelSeries, Fetch, Record, NextOccurrence, Begin, Goto,
                          Base, TypeOK
      <3> QED
        BY <1>1, <3>1, <3>2, NothingStanding, QuietStepKeepsStanding DEF AgendaInv, Reserving
    <2>6. CASE (Commit(p) /\ ~Fail(p)) \/ Flush(p)
      BY <1>1, <2>6, CommitKeepsStanding, FlushKeepsStanding DEF AgendaInv
    <2>7. CASE DeadlockAbort(p) \/ BusyTimeout(p) \/ Crash(p)
      BY <2>3, <2>7, InterruptionIsFailure
    <2> QED
      BY <2>1, <2>3, <2>4, <2>5, <2>6, <2>7 DEF Proceed, BeginCall
  <1> QED
    BY <1>2, <1>3

\* Only two steps touch the rows, and each is a step of the agenda.
LEMMA NextIsPromised ==
    ASSUME AgendaInv, [Next]_vars
    PROVE  [Promised!Next]_rows
  <1>1. CASE UNCHANGED vars
    BY <1>1 DEF vars
  <1>2. CASE Next
    <2>1. PICK p \in Procs : BeginCall(p) \/ Acquire(p) \/ Proceed(p) \/ Crash(p)
      BY <1>2 DEF Next
    <2>2. CASE Fail(p)
      BY <2>2 DEF Fail
    <2>3. CASE (Commit(p) /\ ~Fail(p)) \/ Flush(p)
      BY <2>3, CommitIsPromised, FlushIsPromised
    <2>4. CASE Create(p) \/ Reschedule(p) \/ Transition(p) \/ CancelSeries(p)
      BY <2>4 DEF Create, Reschedule, Transition, CancelSeries, Begin
    <2>5. CASE Acquire(p) \/ Load(p) \/ Validate(p) \/ Fetch(p) \/ Record(p)
                 \/ NextOccurrence(p)
      BY <2>2, <2>5 DEF Acquire, Load, Validate, Fetch, Record, NextOccurrence, Begin
    <2>6. CASE DeadlockAbort(p) \/ BusyTimeout(p) \/ Crash(p)
      BY <2>2, <2>6, InterruptionIsFailure
    <2> QED
      BY <2>1, <2>2, <2>3, <2>4, <2>5, <2>6 DEF Proceed, BeginCall
  <1> QED
    BY <1>1, <1>2

LEMMA InitAgendaInv ==
    ASSUME Init
    PROVE  AgendaInv /\ Promised!Init
  <1>1. IInv
    BY InitIInv
  <1>2. Promised!Init
    BY SameRules DEF Init, Promised!Init
  <1> QED
    BY <1>1, <1>2 DEF Init, AgendaInv, StoredInUtc, Standing, AskedFor, PlaceStands, CapStands,
                      Reserving

\* What a call knows when it writes is enough for every rule of the agenda.
THEOREM AgendaInvariant ==
    ASSUME Disciplined, IsFiniteSet(Ids)
    PROVE  Spec => []AgendaInv
  <1>1. AgendaInv /\ [Next]_vars => AgendaInv'
    BY NextKeepsAgendaInv
  <1>2. Init => AgendaInv
    BY InitAgendaInv
  <1> QED
    BY <1>1, <1>2, PTL DEF Spec

\* The scheduler implements the agenda: however its calls interleave, fail and
\* crash, the table changes as if each booking, move and status change had been
\* judged and made in one instant (application.py:162-248,
\* sqlalchemy_repository.py:313-392).
THEOREM SchedulerImplementsAgenda ==
    ASSUME Disciplined, IsFiniteSet(Ids)
    PROVE  Spec => Implements
  <1>1. Init => Promised!Init
    BY InitAgendaInv
  <1>2. AgendaInv /\ [Next]_vars => [Promised!Next]_rows
    BY NextIsPromised
  <1> QED
    BY <1>1, <1>2, AgendaInvariant, PTL DEF Spec, Implements, Promised!Spec

-------------------------------------------------------------------------------
(* What follows from the promises.                                          *)

\* What a booking or a move enters into the agenda.
LEMMA EnteredIsAdmissible ==
    ASSUME Base, Promised!Book \/ (\E i \in Ids : Promised!Move(i))
    PROVE  \E asked \in Appointments : \E kept \in {asked, [asked EXCEPT !.offset = 0]} :
              /\ Promised!Admissible(asked, rows)
              /\ rows' = [rows EXCEPT ![asked.id] = kept]
              /\ rows[asked.id] = None \/ rows[asked.id].status \in {"pending", "confirmed"}
  <1>1. CASE Promised!Book
    <2>1. PICK b \in Bookings, flag \in BOOLEAN :
            /\ rows[b.id] = None
            /\ Promised!Admissible([b EXCEPT !.overbooked = flag], rows)
            /\ \E kept \in Promised!KeptAs([b EXCEPT !.overbooked = flag]) :
                 Promised!Enter(kept)
      BY <1>1 DEF Promised!Book
    <2> DEFINE asked == [b EXCEPT !.overbooked = flag]
    <2>2. asked \in Appointments /\ asked.id = b.id
      BY BookingsAssumption DEF Appointments
    <2>3. PICK kept \in {asked, [asked EXCEPT !.offset = 0]} :
            rows' = [rows EXCEPT ![kept.id] = kept]
      BY <2>1 DEF Promised!KeptAs, Promised!Enter
    <2>4. kept.id = asked.id
      BY <2>2, <2>3 DEF Appointments
    <2>5. Promised!Admissible(asked, rows) /\ rows[asked.id] = None
      BY <2>1, <2>2
    <2> HIDE DEF asked
    <2> QED
      BY <2>2, <2>3, <2>4, <2>5
  <1>2. ASSUME NEW i \in Ids, Promised!Move(i)
        PROVE  \E asked \in Appointments : \E kept \in {asked, [asked EXCEPT !.offset = 0]} :
                  /\ Promised!Admissible(asked, rows)
                  /\ rows' = [rows EXCEPT ![asked.id] = kept]
                  /\ rows[asked.id].status \in {"pending", "confirmed"}
    <2>1. PICK start \in Starts, offset \in Offsets, flag \in BOOLEAN :
            /\ rows[i] # None /\ rows[i].status \in {"pending", "confirmed"}
            /\ Promised!Admissible([rows[i] EXCEPT !.start = start, !.offset = offset,
                                                   !.overbooked = flag], rows)
            /\ \E kept \in Promised!KeptAs([rows[i] EXCEPT !.start = start, !.offset = offset,
                                                           !.overbooked = flag]) :
                 Promised!Enter(kept)
      BY <1>2 DEF Promised!Move
    <2> DEFINE moved == [rows[i] EXCEPT !.start = start, !.offset = offset]
               asked == [rows[i] EXCEPT !.start = start, !.offset = offset, !.overbooked = flag]
    <2>2. rows[i] \in Appointments /\ rows[i].id = i
      BY <2>1 DEF Base, TypeOK, RowsKeepTheirIds
    <2>3. moved \in Appointments /\ moved.id = i
      BY <2>2, MovedIsAppointment DEF SameBooking
    <2>4. asked = [moved EXCEPT !.overbooked = flag]
      OBVIOUS
    <2> HIDE DEF moved
    <2>5. asked \in Appointments /\ asked.id = i
      <3> HIDE DEF asked
      <3> QED
        BY <2>3, <2>4 DEF Appointments
    <2>6. PICK kept \in {asked, [asked EXCEPT !.offset = 0]} :
            rows' = [rows EXCEPT ![kept.id] = kept]
      BY <2>1 DEF Promised!KeptAs, Promised!Enter
    <2>7. Promised!Admissible(asked, rows)
      BY <2>1
    <2> HIDE DEF asked
    <2>8. kept.id = asked.id
      BY <2>5, <2>6 DEF Appointments
    <2> QED
      BY <2>1, <2>5, <2>6, <2>7, <2>8
  <1> QED
    BY <1>1, <1>2

\* What a status change enters.
LEMMA AdvancedIsEntered ==
    ASSUME Base, NEW i \in Ids, Promised!Advance(i)
    PROVE  \E target \in Statuses :
              /\ rows[i] \in Appointments /\ rows[i].id = i
              /\ <<rows[i].status, target>> \in Allowed
              /\ [rows[i] EXCEPT !.status = target] \in Appointments
              /\ rows' = [rows EXCEPT ![i] = [rows[i] EXCEPT !.status = target]]
  <1>1. PICK target \in Statuses :
          /\ rows[i] # None
          /\ <<rows[i].status, target>> \in Allowed
          /\ Promised!Enter([rows[i] EXCEPT !.status = target])
    BY SameRules DEF Promised!Advance
  <1>2. rows[i] \in Appointments /\ rows[i].id = i
    BY <1>1 DEF Base, TypeOK, RowsKeepTheirIds
  <1>3. /\ [rows[i] EXCEPT !.status = target] \in Appointments
        /\ [rows[i] EXCEPT !.status = target].id = i
    BY <1>2, AdvancedIsAppointment DEF SameBooking
  <1> QED
    BY <1>1, <1>2, <1>3 DEF Promised!Enter

LEMMA PromisedLeavesClosed ==
    ASSUME Base, [Promised!Next]_rows,
           NEW i \in Ids, rows[i] # None, rows[i].status \in Closed
    PROVE  rows'[i] = rows[i]
  <1>1. CASE rows' = rows
    BY <1>1
  <1>2. CASE Promised!Book \/ (\E j \in Ids : Promised!Move(j))
    <2>1. PICK asked \in Appointments :
            /\ \E kept : rows' = [rows EXCEPT ![asked.id] = kept]
            /\ rows[asked.id] = None \/ rows[asked.id].status \in {"pending", "confirmed"}
      BY <1>2, EnteredIsAdmissible
    <2>2. asked.id # i
      BY <2>1 DEF Closed
    <2> QED
      BY <2>1, <2>2 DEF Base, TypeOK
  <1>3. ASSUME NEW j \in Ids, Promised!Advance(j)
        PROVE  rows'[i] = rows[i]
    <2>1. PICK target \in Statuses :
            /\ <<rows[j].status, target>> \in Allowed
            /\ rows' = [rows EXCEPT ![j] = [rows[j] EXCEPT !.status = target]]
      BY <1>3, AdvancedIsEntered
    <2>2. j # i
      BY <2>1 DEF Closed, Allowed
    <2> QED
      BY <2>1, <2>2 DEF Base, TypeOK
  <1> QED
    BY <1>1, <1>2, <1>3, SameRules DEF Promised!Next

\* Nothing reopens, moves or relabels an appointment that is over, whoever
\* read it while it was still open (application.py:66-78 and 206-208).
THEOREM ClosedStaysClosed ==
    ASSUME Disciplined, IsFiniteSet(Ids)
    PROVE  Spec => ClosedIsFinal
  <1>1. AgendaInv /\ [Next]_vars =>
          [\A i \in Ids :
              rows[i] # None /\ rows[i].status \in Closed => rows'[i] = rows[i]]_vars
    BY NextIsPromised, PromisedLeavesClosed DEF AgendaInv, IInv
  <1> QED
    BY <1>1, AgendaInvariant, PTL DEF Spec, ClosedIsFinal

-------------------------------------------------------------------------------
(* The cap of a day.                                                        *)

\* An appointment that is let in below the cap takes no day above it.
LEMMA EnterKeepsCap ==
    ASSUME Base, OverbookingCap, IsFiniteSet(Ids), NEW i \in Ids,
           NEW a \in Appointments, a.id = i, rows' = [rows EXCEPT ![i] = a],
           a.overbooked /\ Active(a) => UnderCap(a, rows)
    PROVE  OverbookingCap'
  <1> SUFFICES ASSUME NEW b \in Stored(rows'), b.overbooked, Active(b)
               PROVE  Cardinality(Overbookings(b, Stored(rows'))) <= Cap(b)
    BY DEF OverbookingCap
  <1> DEFINE after == Overbookings(b, Stored(rows'))
  <1>1. /\ rows \in [Ids -> Appointments \cup {None}]
        /\ rows' \in [Ids -> Appointments \cup {None}]
    BY DEF Base, TypeOK
  <1>2. IsFiniteSet(after) /\ Cardinality(after) \in Nat /\ Cap(b) \in Nat
    BY <1>1, FiniteTables, FS_CardinalityType, CapsAreNumbers
  <1>3. CASE a \in after
    <2> DEFINE others == Overbookings(a, OthersThan(a, rows))
    <2>1. /\ a.overbooked /\ Active(a) /\ a.resource = b.resource
          /\ StartDay(a) = StartDay(b)
      BY <1>3 DEF Overbookings
    <2>2. after \in SUBSET (others \cup {a})
      BY <2>1 DEF Overbookings, OthersThan, Stored, Base, TypeOK, RowsKeepTheirIds
    <2>3. OthersThan(a, rows) \in SUBSET Stored(rows)
      BY DEF OthersThan
    <2>4. IsFiniteSet(others) /\ Cardinality(others) \in Nat
      BY <1>1, <2>3, FiniteTables, FS_CardinalityType
    <2>5. Cardinality(others) < Cap(a) /\ Cap(a) = Cap(b)
      BY <2>1 DEF UnderCap, Cap
    <2> HIDE DEF after, others
    <2>6. /\ IsFiniteSet(others \cup {a})
          /\ Cardinality(others \cup {a}) \in Nat
          /\ Cardinality(others \cup {a}) <= Cardinality(others) + 1
      <3>1. /\ IsFiniteSet(others \cup {a})
            /\ Cardinality(others \cup {a}) =
                 IF a \in others THEN Cardinality(others) ELSE Cardinality(others) + 1
        BY <2>4, FS_AddElement
      <3> QED
        BY <2>4, <3>1
    <2>7. Cardinality(after) <= Cardinality(others \cup {a})
      BY <2>2, <2>6, FS_Subset
    <2>8. Cardinality(after) <= Cap(b)
      BY <1>2, <2>4, <2>5, <2>6, <2>7
    <2> QED
      BY <2>8 DEF after
  <1>4. CASE a \notin after
    <2> DEFINE before == Overbookings(b, Stored(rows))
    <2>1. b # a
      BY <1>4 DEF Overbookings
    <2>2. b \in Stored(rows)
      BY <2>1 DEF Stored, Base, TypeOK
    <2>3. after \in SUBSET before
      BY <1>4 DEF Overbookings, Stored, Base, TypeOK
    <2>4. IsFiniteSet(before) /\ Cardinality(before) \in Nat
      BY <1>1, FiniteTables, FS_CardinalityType
    <2>5. Cardinality(before) <= Cap(b)
      BY <2>2 DEF OverbookingCap
    <2> HIDE DEF after, before
    <2>6. Cardinality(after) <= Cardinality(before)
      BY <2>3, <2>4, FS_Subset
    <2>7. Cardinality(after) <= Cap(b)
      BY <1>2, <2>4, <2>5, <2>6
    <2> QED
      BY <2>7 DEF after
  <1> QED
    BY <1>3, <1>4

\* An overbooking that is already in leaves room for itself.
LEMMA RoomForItself ==
    ASSUME Base, OverbookingCap, IsFiniteSet(Ids), NEW row \in Stored(rows),
           row.overbooked, Active(row)
    PROVE  UnderCap(row, rows)
  <1> DEFINE all == Overbookings(row, Stored(rows))
             others == Overbookings(row, OthersThan(row, rows))
  <1>1. rows \in [Ids -> Appointments \cup {None}]
    BY DEF Base, TypeOK
  <1>2. IsFiniteSet(all) /\ Cardinality(all) \in Nat /\ Cap(row) \in Nat
    BY <1>1, FiniteTables, FS_CardinalityType, CapsAreNumbers
  <1>3. others \in SUBSET (all \ {row}) /\ row \in all
    BY DEF Overbookings, OthersThan
  <1>4. Cardinality(all) <= Cap(row)
    BY DEF OverbookingCap
  <1> HIDE DEF all, others
  <1>5. IsFiniteSet(all \ {row}) /\ Cardinality(all \ {row}) = Cardinality(all) - 1
    BY <1>2, <1>3, FS_RemoveElement
  <1>6. /\ Cardinality(others) <= Cardinality(all \ {row})
        /\ Cardinality(others) \in Nat /\ Cardinality(all \ {row}) \in Nat
    BY <1>3, <1>5, FS_Subset, FS_CardinalityType
  <1>7. Cardinality(others) < Cap(row)
    BY <1>2, <1>4, <1>5, <1>6
  <1> QED
    BY <1>7 DEF UnderCap, others

\* Whether there is room for an appointment depends on its resource, its day
\* and which appointment it is.
LEMMA SameRoom ==
    ASSUME NEW a, NEW b, a.id = b.id, a.resource = b.resource, StartDay(a) = StartDay(b)
    PROVE  UnderCap(a, rows) <=> UnderCap(b, rows)
  <1>1. OthersThan(a, rows) = OthersThan(b, rows) /\ Cap(a) = Cap(b)
    BY DEF OthersThan, Cap
  <1>2. Overbookings(a, OthersThan(a, rows)) = Overbookings(b, OthersThan(b, rows))
    BY <1>1, SameOverbookings
  <1> QED
    BY <1>1, <1>2 DEF UnderCap

LEMMA PromisedKeepsCap ==
    ASSUME Base, OverbookingCap, IsFiniteSet(Ids), Offsets \subseteq {0}, [Promised!Next]_rows
    PROVE  OverbookingCap'
  <1>1. CASE rows' = rows
    BY <1>1 DEF OverbookingCap, Stored
  <1>2. CASE Promised!Book \/ (\E j \in Ids : Promised!Move(j))
    <2>1. PICK asked \in Appointments : \E kept \in {asked, [asked EXCEPT !.offset = 0]} :
            /\ Promised!Admissible(asked, rows)
            /\ rows' = [rows EXCEPT ![asked.id] = kept]
      BY <1>2, EnteredIsAdmissible
    <2>2. asked.offset = 0 /\ asked.id \in Ids
      BY DEF Appointments
    <2>3. [asked EXCEPT !.offset = 0] = asked
      BY <2>2 DEF Appointments
    <2>4. rows' = [rows EXCEPT ![asked.id] = asked]
      BY <2>1, <2>3
    <2>5. asked.overbooked => UnderCap(asked, rows)
      BY <2>1, SameRules DEF Promised!Admissible
    <2> QED
      BY <2>2, <2>4, <2>5, EnterKeepsCap
  <1>3. ASSUME NEW j \in Ids, Promised!Advance(j)
        PROVE  OverbookingCap'
    <2> DEFINE row == rows[j]
    <2>1. PICK target \in Statuses :
            /\ row \in Appointments /\ row.id = j
            /\ <<row.status, target>> \in Allowed
            /\ [row EXCEPT !.status = target] \in Appointments
            /\ rows' = [rows EXCEPT ![j] = [row EXCEPT !.status = target]]
      BY <1>3, AdvancedIsEntered
    <2> DEFINE a == [row EXCEPT !.status = target]
    <2>2. Active(row) /\ row \in Stored(rows)
      BY <2>1, AdvancingDeactivates, NoneAssumption DEF Active, Stored
    <2>3. /\ a.id = row.id /\ a.resource = row.resource /\ a.overbooked = row.overbooked
          /\ StartDay(a) = StartDay(row)
      BY <2>1 DEF Appointments, StartDay
    <2>4. a.overbooked => UnderCap(a, rows)
      BY <2>2, <2>3, RoomForItself, SameRoom
    <2> QED
      BY <2>1, <2>3, <2>4, EnterKeepsCap
  <1> QED
    BY <1>1, <1>2, <1>3, SameRules DEF Promised!Next

\* When callers write their datetimes in UTC, no day of an agenda ever holds more
\* active overbookings than its policy accepts: the count and the write are one
\* locked transaction (application.py:304-320).  With other offsets the store
\* and the rule disagree about the day, as the run west_cap shows.
THEOREM CapIsKept ==
    ASSUME Disciplined, IsFiniteSet(Ids), Offsets \subseteq {0}
    PROVE  Spec => []OverbookingCap
  <1>1. Init => OverbookingCap
    BY DEF Init, OverbookingCap, Stored
  <1>2. AgendaInv /\ OverbookingCap /\ [Next]_vars => OverbookingCap'
    BY NextIsPromised, PromisedKeepsCap DEF AgendaInv, IInv
  <1> QED
    BY <1>1, <1>2, AgendaInvariant, PTL DEF Spec

-------------------------------------------------------------------------------
(* The history of an appointment never runs ahead of the appointment, and   *)
(* where nothing interrupts a call between its write and its record it      *)
(* tells the appointment's whole life.                                      *)

(* The steps, as far as the history is concerned.                           *)

\* A step of p that writes neither a row nor an entry.  It leaves an entry owed
\* only where something may go wrong.
Quiet(p) ==
    /\ rows' = rows /\ log' = log
    /\ StepOf(p)
    /\ pc'[p] # "record"
    /\ pc[p] = "record" => Faults # {}
    /\ FromIsFresh(p) => FromIsFresh(p)'

\* A step of p that writes row i.
Writes(p, i) ==
    LET cand == call[p].cand
    IN  /\ pc[p] \in {"commit", "flush"} /\ pc'[p] = "record"
        /\ cand.id = i
        /\ \A q \in Procs \ {p} : pc'[q] = pc[q]
        /\ call' = call /\ log' = log
        /\ \A j \in Ids \ {i} : rows'[j] = rows[j]
        /\ rows'[i] # None /\ rows'[i].status = cand.status
        /\ call[p].verb = "create" => rows[i] = None
        /\ call[p].verb # "create" =>
             /\ rows[i] # None /\ rows[i].status \in Statuses
             /\ \/ rows[i].status = cand.status
                \/ pc[p] = "flush" /\ <<rows[i].status, cand.status>> \in Allowed

LEMMA CommitWritesARow ==
    ASSUME IInv, NEW p \in Procs, Commit(p), ~Fail(p)
    PROVE  call[p].cand.id \in Ids /\ Writes(p, call[p].cand.id)
  <1> DEFINE c == call[p]
             row == rows[c.cand.id]
             a == IF c.verb = "create" THEN Persisted(c.cand) ELSE Written(c)
  <1>1. /\ pc[p] = "commit"
        /\ c.verb = "create" => row = None
        /\ rows' = [rows EXCEPT ![c.cand.id] = a]
        /\ pc' = [pc EXCEPT ![p] = "record"]
        /\ call' = call /\ log' = log
    BY DEF Commit, Goto
  <1>2. c \in Calls /\ c.cand \in Appointments /\ c.cand.id \in Ids
    BY <1>1, CallTypes DEF IInv, Appointments
  <1>3. /\ a \in Appointments /\ a.status = c.cand.status
        /\ c.verb # "create" =>
             row # None /\ row.status \in Statuses /\ row.status = c.cand.status
    <2>1. CASE c.verb = "create"
      BY <1>2, <2>1, PersistedIsAppointment DEF Persisted, Appointments
    <2>2. CASE c.verb # "create"
      <3>1. c.verb = "reschedule" /\ row # None /\ SameBooking(c.cand, row)
        BY <1>1, <2>2 DEF IInv, Base, CallShape, Changing, Reserving
      <3>2. row \in Appointments /\ c.cand # None
        BY <1>2, <3>1, NoneAssumption DEF IInv, Base, TypeOK
      <3>3. c.loaded = row /\ c.cand.status = row.status
        BY <1>1, <3>1 DEF IInv, MoveIsFresh, Reserving
      <3>4. Written(c) \in Appointments /\ Written(c).status = c.cand.status
        BY <1>2, <3>1, <3>2, <3>3, WrittenIsAppointment, WrittenWhenFresh
      <3> QED
        BY <2>2, <3>1, <3>2, <3>3, <3>4 DEF Appointments
    <2> QED
      BY <2>1, <2>2
  <1> HIDE DEF a
  <1>4. rows'[c.cand.id] = a /\ a # None /\ \A j \in Ids \ {c.cand.id} : rows'[j] = rows[j]
    BY <1>1, <1>2, <1>3, NoneAssumption DEF IInv, Base, TypeOK
  <1>5. pc'[p] = "record" /\ \A q \in Procs \ {p} : pc'[q] = pc[q]
    BY <1>1 DEF IInv, Base, TypeOK
  <1> QED
    BY <1>1, <1>2, <1>3, <1>4, <1>5 DEF Writes

LEMMA FlushWritesARow ==
    ASSUME IInv, NEW p \in Procs, Flush(p)
    PROVE  call[p].cand.id \in Ids /\ Writes(p, call[p].cand.id)
  <1> DEFINE c == call[p]
             row == rows[c.cand.id]
             a == Written(c)
  <1>1. /\ pc[p] = "flush"
        /\ rows' = [rows EXCEPT ![c.cand.id] = a]
        /\ pc' = [pc EXCEPT ![p] = "record"]
        /\ call' = call /\ log' = log
    BY DEF Flush, Goto
  <1>2. c \in Calls /\ c.cand \in Appointments /\ c.cand.id \in Ids
    BY <1>1, CallTypes DEF IInv, Appointments
  <1>3. row # None /\ SameBooking(c.cand, row) /\ c.verb # "create"
    BY <1>1 DEF IInv, Base, CallShape, Changing
  <1>4. row \in Appointments /\ c.cand # None
    BY <1>2, <1>3, NoneAssumption DEF IInv, Base, TypeOK
  <1>5. c.loaded = row /\ <<row.status, c.cand.status>> \in Allowed
    BY <1>1 DEF IInv, AdvanceIsFresh
  <1>6. a \in Appointments /\ a.status = c.cand.status
    BY <1>2, <1>3, <1>4, <1>5, WrittenIsAppointment, WrittenWhenFresh
  <1> HIDE DEF a
  <1>7. rows'[c.cand.id] = a /\ a # None /\ \A j \in Ids \ {c.cand.id} : rows'[j] = rows[j]
    BY <1>1, <1>2, <1>6, NoneAssumption DEF IInv, Base, TypeOK
  <1>8. pc'[p] = "record" /\ \A q \in Procs \ {p} : pc'[q] = pc[q]
    BY <1>1 DEF IInv, Base, TypeOK
  <1> QED
    BY <1>1, <1>2, <1>3, <1>4, <1>5, <1>6, <1>7, <1>8 DEF Writes, Appointments

LEMMA FailIsQuiet ==
    ASSUME IInv, NEW p \in Procs, Fail(p), pc[p] # "record" \/ Faults # {}
    PROVE  Quiet(p)
  <1>1. rows' = rows /\ StepOf(p) /\ log' = log /\ pc'[p] = "idle"
    BY FailKnows DEF Fail, Goto, IInv, Base, TypeOK
  <1> QED
    BY <1>1 DEF Quiet, FromIsFresh, Reserving

\* A call that begins remembers the status it has just read.
LEMMA BeginRemembers ==
    ASSUME IInv, NEW p \in Procs, BeginCall(p) \/ NextOccurrence(p), ~Fail(p)
    PROVE  pc'[p] \in {"lock", "series", "fetch"} /\ rows' = rows /\ log' = log
           /\ FromIsFresh(p)'
  <1> USE DEF IInv
  <1>1. ASSUME NEW i \in Ids, rows[i] # None, NEW target, NEW verb, verb # "create", NEW todo,
               Begin(p, "fetch", Advancing(i, target, verb, todo))
        PROVE  /\ pc'[p] = "fetch" /\ rows' = rows /\ log' = log
               /\ FromIsFresh(p)'
    <2>1. rows[i] \in Appointments /\ rows[i].id = i
      BY <1>1 DEF Base, TypeOK, RowsKeepTheirIds
    <2>2. /\ Advancing(i, target, verb, todo).cand.id = i
          /\ Advancing(i, target, verb, todo).from = rows[i].status
          /\ Advancing(i, target, verb, todo).verb = verb
      BY <2>1 DEF Advancing, Appointments
    <2> QED
      BY <1>1, <2>2 DEF Begin, FromIsFresh, Base, TypeOK
  <1>2. CASE Create(p)
    BY <1>2 DEF Create, Begin, FromIsFresh, Base, TypeOK
  <1>3. CASE Reschedule(p)
    <2>1. PICK i \in Ids, start \in Starts, offset \in Offsets, allow \in BOOLEAN :
            /\ rows[i] # None
            /\ Begin(p, "lock",
                     [ verb |-> "reschedule", allow |-> allow,
                       cand |-> [rows[i] EXCEPT !.start = start, !.offset = offset],
                       from |-> rows[i].status, loaded |-> None, todo |-> {} ])
      BY <1>3 DEF Reschedule
    <2> DEFINE cand == [rows[i] EXCEPT !.start = start, !.offset = offset]
    <2>2. rows[i] \in Appointments /\ rows[i].id = i
      BY <2>1 DEF Base, TypeOK, RowsKeepTheirIds
    <2>3. cand.id = i
      BY <2>2 DEF Appointments
    <2>4. /\ pc'[p] = "lock" /\ call'[p].cand = cand /\ call'[p].verb = "reschedule"
          /\ call'[p].from = rows[i].status /\ rows' = rows /\ log' = log
      BY <2>1 DEF Begin, Base, TypeOK
    <2> HIDE DEF cand
    <2> QED
      BY <2>3, <2>4 DEF FromIsFresh
  <1>4. CASE Transition(p)
    <2>1. PICK verb \in TransitionVerbs \cap Verbs, i \in Ids :
            rows[i] # None /\ Begin(p, "fetch", Advancing(i, Target[verb], verb, {}))
      BY <1>4 DEF Transition
    <2> QED
      BY <1>1, <2>1 DEF TransitionVerbs
  <1>5. CASE CancelSeries(p)
    BY <1>5 DEF CancelSeries, Begin, FromIsFresh, Reserving, Base, TypeOK
  <1>6. CASE NextOccurrence(p)
    <2>1. PICK a \in call[p].todo :
            Begin(p, "fetch", Advancing(a.id, "cancelled", "cancel_series",
                                        call[p].todo \ {a}))
      BY <1>6 DEF NextOccurrence
    <2>2. a.id \in Ids /\ rows[a.id] # None
      BY <1>6, CallTypes DEF NextOccurrence, Base, CallShape, Calls, Appointments
    <2> QED
      BY <1>1, <2>1, <2>2
  <1> QED
    BY <1>2, <1>3, <1>4, <1>5, <1>6 DEF BeginCall

\* The steps before the write do not touch what the call remembers.
LEMMA ReadingRemembers ==
    ASSUME IInv, NEW p \in Procs, ~Fail(p),
           Acquire(p) \/ Load(p) \/ Validate(p) \/ Fetch(p)
    PROVE  /\ pc[p] # "record" /\ pc'[p] # "record" /\ rows' = rows /\ log' = log
           /\ FromIsFresh(p) => FromIsFresh(p)'
  <1> USE DEF IInv
  <1>1. CASE Acquire(p)
    <2>1. /\ pc[p] = "lock" /\ pc'[p] \in {"lock", "load"}
          /\ call' = call /\ rows' = rows /\ log' = log
      BY <1>1 DEF Acquire, Goto, Base, TypeOK
    <2> QED
      BY <2>1 DEF FromIsFresh
  <1>2. CASE Load(p) \/ Fetch(p)
    <2>1. /\ pc[p] \in {"load", "fetch"} /\ pc'[p] \in {"validate", "flush"}
          /\ call' = [call EXCEPT ![p].loaded = rows[call[p].cand.id]]
          /\ rows' = rows /\ log' = log
      BY <1>2 DEF Load, Fetch, Goto, Base, TypeOK
    <2>2. call'[p].cand = call[p].cand /\ call'[p].verb = call[p].verb
      BY <2>1, LoadingKeepsTheRest
    <2>3. call'[p].from = call[p].from
      BY <2>1, CallTypes DEF Base, TypeOK, Calls
    <2> QED
      BY <2>1, <2>2, <2>3 DEF FromIsFresh, Reserving
  <1>3. CASE Validate(p)
    <2> DEFINE cand == Landed(call[p].cand, rows)
    <2>1. /\ pc[p] = "validate" /\ pc'[p] = "commit"
          /\ call' = [call EXCEPT ![p].cand = cand] /\ rows' = rows /\ log' = log
      BY <1>3 DEF Validate, Goto, Base, TypeOK
    <2>2. cand.id = call[p].cand.id
      BY <2>1, CallTypes, LandedIsAppointment DEF SameBooking
    <2> HIDE DEF cand
    <2>3. /\ call'[p].cand = cand /\ call'[p].verb = call[p].verb
          /\ call'[p].from = call[p].from
      BY <2>1, CallTypes DEF Base, TypeOK, Calls
    <2> QED
      BY <2>1, <2>2, <2>3 DEF FromIsFresh, Reserving
  <1> QED
    BY <1>1, <1>2, <1>3

\* Every step is quiet, writes a row or records an entry.
LEMMA StepsOfTheHistory ==
    ASSUME IInv, Next
    PROVE  \E p \in Procs :
              \/ Quiet(p)
              \/ Record(p)
              \/ call[p].cand.id \in Ids /\ Writes(p, call[p].cand.id)
  <1>1. PICK p \in Procs : BeginCall(p) \/ Acquire(p) \/ Proceed(p) \/ Crash(p)
    BY DEF Next
  <1>2. Base /\ Knows(p)
    BY DEF IInv, Knows
  <1>3. CASE Fail(p) /\ (BeginCall(p) \/ Acquire(p) \/ Load(p) \/ Validate(p) \/ Commit(p)
                          \/ Fetch(p) \/ NextOccurrence(p))
    <2>1. pc[p] # "record"
      BY <1>3 DEF BeginCall, Create, Reschedule, Transition, CancelSeries, Free, Acquire,
                  Load, Validate, Commit, Fetch, NextOccurrence
    <2> QED
      BY <1>3, <2>1, FailIsQuiet
  <1>4. CASE DeadlockAbort(p) \/ BusyTimeout(p) \/ Crash(p)
    <2>1. pc[p] # "record" \/ Faults # {}
      BY <1>4 DEF DeadlockAbort, BusyTimeout, Crash
    <2> QED
      BY <1>4, <2>1, InterruptionIsFailure, FailIsQuiet
  <1>5. CASE ~Fail(p) /\ (BeginCall(p) \/ NextOccurrence(p))
    <2>1. pc[p] # "record"
      BY <1>5 DEF BeginCall, Create, Reschedule, Transition, CancelSeries, Free, NextOccurrence
    <2>2. StepOf(p)
      BY <1>2, <1>5, CreateKnows, RescheduleKnows, TransitionKnows, CancelSeriesKnows,
         NextOccurrenceKnows DEF BeginCall
    <2> QED
      BY <1>5, <2>1, <2>2, BeginRemembers DEF Quiet
  <1>6. CASE ~Fail(p) /\ (Acquire(p) \/ Load(p) \/ Validate(p) \/ Fetch(p))
    <2>1. StepOf(p)
      BY <1>2, <1>6, AcquireKnows, LoadKnows, ValidateKnows, FetchKnows
    <2> QED
      BY <1>6, <2>1, ReadingRemembers DEF Quiet
  <1>7. CASE (Commit(p) /\ ~Fail(p)) \/ Flush(p)
    BY <1>7, CommitWritesARow, FlushWritesARow
  <1> QED
    BY <1>1, <1>3, <1>4, <1>5, <1>6, <1>7 DEF Proceed

\* What recording does.
LEMMA RecordAppends ==
    ASSUME IInv, NEW p \in Procs, Record(p)
    PROVE  LET cand == call[p].cand
           IN  /\ pc[p] = "record" /\ call[p].from \in Statuses \cup {None}
               /\ cand.id \in Ids /\ cand.status \in Statuses
               /\ rows' = rows
               /\ log' = [log EXCEPT ![cand.id] =
                            Append(log[cand.id], [from |-> call[p].from, to |-> cand.status])]
               /\ StepOf(p) /\ pc'[p] \in {"idle", "series"}
  <1>1. /\ pc[p] = "record" /\ rows' = rows
        /\ log' = [log EXCEPT ![call[p].cand.id] =
                     Append(@, [from |-> call[p].from, to |-> call[p].cand.status])]
        /\ \E step \in {"idle", "series"} : pc' = [pc EXCEPT ![p] = step]
    BY DEF Record, Goto
  <1>2. /\ call[p].cand.id \in Ids /\ call[p].cand.status \in Statuses
        /\ call[p].from \in Statuses \cup {None}
    BY <1>1, CallTypes DEF IInv, Appointments, Calls
  <1>3. StepOf(p)
    BY RecordKnows DEF IInv
  <1>4. pc'[p] \in {"idle", "series"}
    BY <1>1 DEF IInv, Base, TypeOK
  <1> QED
    BY <1>1, <1>2, <1>3, <1>4

\* Serialised callers never work on one appointment at a time.
LEMMA OthersAreElsewhere ==
    ASSUME IInv, Serialised, NEW p \in Procs, NEW q \in Procs, p # q,
           pc[p] \notin {"idle", "series"}, pc[q] \notin {"idle", "series"}
    PROVE  call[p].cand.id # call[q].cand.id
  <1>1. /\ call[p] # None /\ call[p].cand # None
        /\ call[q] # None /\ call[q].cand # None
    BY CallTypes, NoCallAssumption, NoneAssumption DEF IInv
  <1>2. /\ call[p].cand.id \in Engaged(call[p])
        /\ call[q].cand.id \in Engaged(call[q])
    BY <1>1 DEF Engaged
  <1> QED
    BY <1>2 DEF IInv, Apart

-------------------------------------------------------------------------------
(* The history only lags.                                                   *)

LEMMA StagesAreNumbers ==
    ASSUME NEW status \in Statuses
    PROVE  Stage[status] \in 0 .. 3
  BY DEF Stage, Statuses

LEMMA AllowedAdvances ==
    ASSUME NEW from \in Statuses, NEW to \in Statuses, <<from, to>> \in Allowed
    PROVE  Stage[from] <= Stage[to]
  <1> USE DEF Stage, Statuses
  <1>1. \/ from = "pending" /\ to \in {"confirmed", "cancelled"}
        \/ from = "confirmed" /\ to \in {"in_progress", "completed", "cancelled", "no_show"}
        \/ from = "in_progress" /\ to = "completed"
    BY DEF Allowed
  <1>2. /\ Stage["pending"] = 0 /\ Stage["confirmed"] = 1 /\ Stage["in_progress"] = 2
        /\ Stage["completed"] = 3 /\ Stage["cancelled"] = 3 /\ Stage["no_show"] = 3
    OBVIOUS
  <1> HIDE DEF Stage
  <1> QED
    BY <1>1, <1>2

\* Every entry of a history names a status.
LEMMA EntriesNameStatuses ==
    ASSUME IInv, NEW i \in Ids
    PROVE  /\ log[i] \in Seq(Transitions) /\ Len(log[i]) \in Nat
           /\ \A n \in 1 .. Len(log[i]) : log[i][n].to \in Statuses
           /\ rows[i] # None => rows[i].status \in Statuses
  <1>1. log[i] \in Seq(Transitions)
    BY DEF IInv, Base, TypeOK
  <1>2. \A n \in 1 .. Len(log[i]) : log[i][n] \in Transitions
    BY <1>1
  <1>3. rows[i] # None => rows[i] \in Appointments
    BY DEF IInv, Base, TypeOK
  <1> QED
    BY <1>1, <1>2, <1>3 DEF Transitions, Appointments

LEMMA QuietKeepsDebts ==
    ASSUME NEW p \in Procs, rows' = rows, StepOf(p), pc'[p] # "record",
           \A q \in Procs : DebtIsFresh(q)
    PROVE  \A q \in Procs : DebtIsFresh(q)'
  BY DEF StepOf, DebtIsFresh

\* What is owed stays true: another caller writes the row of a debtor only to
\* move it.
LEMMA WriteKeepsDebts ==
    ASSUME IInv, Disciplined, NEW p \in Procs, NEW i \in Ids, Writes(p, i),
           \A q \in Procs : DebtIsFresh(q)
    PROVE  \A q \in Procs : DebtIsFresh(q)'
  <1>1. DebtIsFresh(p)'
    BY DEF Writes, DebtIsFresh
  <1>2. ASSUME NEW q \in Procs \ {p}, pc[q] = "record"
        PROVE  /\ rows'[call[q].cand.id] # None
               /\ rows'[call[q].cand.id].status = call[q].cand.status
    <2>1. /\ rows[call[q].cand.id] # None
          /\ rows[call[q].cand.id].status = call[q].cand.status
      BY <1>2 DEF DebtIsFresh
    <2>2. call[q].cand.id \in Ids
      BY <1>2, CallTypes DEF IInv, Appointments
    <2>3. CASE call[q].cand.id # i
      BY <2>1, <2>2, <2>3 DEF Writes
    <2>4. CASE call[q].cand.id = i
      <3>1. ~Serialised
        BY <1>2, <2>4, OthersAreElsewhere DEF Writes
      <3>2. call[p] \in Calls /\ CallShape(p)
        BY CallTypes DEF IInv, Base, Writes
      <3>3. pc[p] # "flush"
        BY <3>1, <3>2 DEF Disciplined, Calls, CallShape
      <3> QED
        BY <2>1, <2>4, <3>3 DEF Writes
    <2> QED
      BY <2>3, <2>4
  <1> QED
    BY <1>1, <1>2 DEF Writes, DebtIsFresh

LEMMA WriteKeepsLag ==
    ASSUME LagInv, NEW p \in Procs, NEW i \in Ids, Writes(p, i)
    PROVE  HistoryNeverAhead'
  <1> SUFFICES ASSUME NEW j \in Ids, NEW n \in 1 .. Len(log[j])
               PROVE  /\ rows'[j] # None
                      /\ Stage[log[j][n].to] <= Stage[rows'[j].status]
                      /\ n > 1 => Stage[log[j][n-1].to] <= Stage[log[j][n].to]
    BY DEF Writes, HistoryNeverAhead
  <1>1. /\ rows[j] # None
        /\ Stage[log[j][n].to] <= Stage[rows[j].status]
        /\ n > 1 => Stage[log[j][n-1].to] <= Stage[log[j][n].to]
    BY DEF LagInv, HistoryNeverAhead
  <1>2. CASE j # i
    BY <1>1, <1>2 DEF Writes
  <1>3. CASE j = i
    <2>1. /\ rows'[i] # None
          /\ \/ rows[i].status = rows'[i].status
             \/ <<rows[i].status, rows'[i].status>> \in Allowed
      BY <1>1, <1>3 DEF Writes
    <2>2. call[p] \in Calls /\ call[p].cand \in Appointments
      BY CallTypes DEF LagInv, IInv, Writes
    <2>3. rows[i].status \in Statuses /\ rows'[i].status \in Statuses
      BY <1>1, <1>3, <2>2 DEF Writes, Appointments
    <2>4. Stage[rows[i].status] <= Stage[rows'[i].status]
      BY <2>1, <2>3, AllowedAdvances, StagesAreNumbers
    <2>5. log[j][n].to \in Statuses
      BY EntriesNameStatuses DEF LagInv
    <2>6. /\ Stage[log[j][n].to] \in Int /\ Stage[rows[i].status] \in Int
          /\ Stage[rows'[i].status] \in Int
      BY <2>3, <2>5, StagesAreNumbers
    <2> QED
      BY <1>1, <1>3, <2>1, <2>4, <2>6
  <1> QED
    BY <1>2, <1>3

LEMMA RecordKeepsLag ==
    ASSUME LagInv, NEW p \in Procs, Record(p)
    PROVE  HistoryNeverAhead'
  <1> DEFINE i == call[p].cand.id
             entry == [from |-> call[p].from, to |-> call[p].cand.status]
  <1>1. /\ pc[p] = "record" /\ i \in Ids /\ call[p].cand.status \in Statuses
        /\ rows' = rows /\ log' = [log EXCEPT ![i] = Append(log[i], entry)]
    BY RecordAppends DEF LagInv
  <1>2. rows[i] # None /\ rows[i].status = call[p].cand.status /\ entry.to = rows[i].status
    BY <1>1 DEF LagInv, DebtIsFresh
  <1> HIDE DEF i, entry
  <1> SUFFICES ASSUME NEW j \in Ids, NEW n \in 1 .. Len(log'[j])
               PROVE  /\ rows[j] # None
                      /\ Stage[log'[j][n].to] <= Stage[rows[j].status]
                      /\ n > 1 => Stage[log'[j][n-1].to] <= Stage[log'[j][n].to]
    BY <1>1 DEF HistoryNeverAhead
  <1>3. CASE j # i
    <2>1. log'[j] = log[j]
      BY <1>1, <1>3 DEF LagInv, IInv, Base, TypeOK
    <2> QED
      BY <2>1 DEF LagInv, HistoryNeverAhead
  <1>4. CASE j = i
    <2>1. /\ log[i] \in Seq(Transitions) /\ Len(log[i]) \in Nat
          /\ \A m \in 1 .. Len(log[i]) : log[i][m].to \in Statuses
          /\ rows[i].status \in Statuses
      BY <1>1, <1>2, EntriesNameStatuses DEF LagInv
    <2>2. log'[i] = Append(log[i], entry)
      BY <1>1 DEF LagInv, IInv, Base, TypeOK
    <2>3. \A m \in 1 .. Len(log[i]) :
            /\ log'[i][m] = log[i][m]
            /\ Stage[log[i][m].to] <= Stage[rows[i].status]
            /\ m > 1 => Stage[log[i][m-1].to] <= Stage[log[i][m].to]
      <3>1. \A m \in 1 .. Len(log[i]) : log'[i][m] = log[i][m]
        BY <2>1, <2>2
      <3> QED
        BY <1>1, <3>1 DEF LagInv, HistoryNeverAhead
    <2>4. /\ Len(log'[i]) = Len(log[i]) + 1
          /\ log'[i][Len(log[i]) + 1] = entry
      BY <2>1, <2>2
    <2>5. CASE n \in 1 .. Len(log[i])
      <3>1. n > 1 => n - 1 \in 1 .. Len(log[i])
        BY <2>1, <2>5
      <3> QED
        BY <1>2, <1>4, <2>3, <2>5, <3>1
    <2>6. CASE n = Len(log[i]) + 1
      <3>1. n > 1 => n - 1 \in 1 .. Len(log[i]) /\ n - 1 = Len(log[i])
        BY <2>1, <2>6
      <3>2. Stage[rows[i].status] <= Stage[rows[i].status]
        BY <2>1, StagesAreNumbers
      <3> QED
        BY <1>2, <1>4, <2>3, <2>4, <2>6, <3>1, <3>2
    <2> QED
      BY <1>4, <2>1, <2>4, <2>5, <2>6
  <1> QED
    BY <1>3, <1>4

LEMMA NextKeepsLag ==
    ASSUME LagInv, Disciplined, [Next]_vars
    PROVE  LagInv'
  <1>1. IInv'
    BY NextKeepsIInv DEF LagInv
  <1>2. CASE UNCHANGED vars
    BY <1>1, <1>2 DEF LagInv, vars, HistoryNeverAhead, DebtIsFresh
  <1>3. CASE Next
    <2>1. PICK p \in Procs :
            \/ Quiet(p)
            \/ Record(p)
            \/ call[p].cand.id \in Ids /\ Writes(p, call[p].cand.id)
      BY <1>3, StepsOfTheHistory DEF LagInv
    <2>2. CASE Quiet(p)
      <3>1. HistoryNeverAhead'
        BY <2>2 DEF LagInv, Quiet, HistoryNeverAhead
      <3> QED
        BY <1>1, <2>2, <3>1, QuietKeepsDebts DEF LagInv, Quiet
    <2>3. CASE Record(p)
      <3>1. rows' = rows /\ StepOf(p) /\ pc'[p] # "record"
        BY <2>3, RecordAppends DEF LagInv
      <3> QED
        BY <1>1, <2>3, <3>1, RecordKeepsLag, QuietKeepsDebts DEF LagInv
    <2>4. CASE call[p].cand.id \in Ids /\ Writes(p, call[p].cand.id)
      BY <1>1, <2>4, WriteKeepsLag, WriteKeepsDebts DEF LagInv
    <2> QED
      BY <2>1, <2>2, <2>3, <2>4
  <1> QED
    BY <1>2, <1>3

\* Wherever a caller dies or is told that the database is busy, the history is a
\* part of the appointment's life, in order, and none of it is still to come
\* (application.py:246-247: save, then _record).
THEOREM HistoryLags ==
    ASSUME Disciplined
    PROVE  Spec => []HistoryNeverAhead
  <1>1. Init => LagInv
    <2>1. Init => \A p \in Procs : DebtIsFresh(p)
      BY DEF Init, DebtIsFresh
    <2>2. Init => HistoryNeverAhead
      BY DEF Init, HistoryNeverAhead
    <2> QED
      BY <2>1, <2>2, InitIInv DEF LagInv
  <1>2. LagInv /\ [Next]_vars => LagInv'
    BY NextKeepsLag
  <1>3. LagInv => HistoryNeverAhead
    BY DEF LagInv
  <1> QED
    BY <1>1, <1>2, <1>3, PTL DEF Spec

-------------------------------------------------------------------------------
(* The history keeps up.                                                    *)

LEMMA AppendEnds ==
    ASSUME NEW history \in Seq(Transitions), NEW entry \in Transitions
    PROVE  /\ Append(history, entry) # <<>>
           /\ Append(history, entry)[Len(Append(history, entry))] = entry
  <1>1. /\ Len(Append(history, entry)) = Len(history) + 1 /\ Len(history) \in Nat
        /\ Append(history, entry)[Len(history) + 1] = entry
    OBVIOUS
  <1> QED
    BY <1>1

LEMMA AppendChains ==
    ASSUME NEW history \in Seq(Transitions), Chained(history),
           NEW entry \in Transitions,
           entry.from = IF history = <<>> THEN None ELSE history[Len(history)].to
    PROVE  Chained(Append(history, entry))
  <1> DEFINE longer == Append(history, entry)
  <1>1. /\ Len(history) \in Nat /\ Len(longer) = Len(history) + 1
        /\ longer[Len(history) + 1] = entry
        /\ \A m \in 1 .. Len(history) : longer[m] = history[m]
        /\ (history = <<>> <=> Len(history) = 0)
    OBVIOUS
  <1> HIDE DEF longer
  <1>2. \A n \in 1 .. Len(longer) :
            longer[n].from = IF n = 1 THEN None ELSE longer[n-1].to
    <2> SUFFICES ASSUME NEW n \in 1 .. Len(longer)
                 PROVE  longer[n].from = IF n = 1 THEN None ELSE longer[n-1].to
      OBVIOUS
    <2>1. CASE n \in 1 .. Len(history)
      <3>1. n # 1 => n - 1 \in 1 .. Len(history)
        BY <1>1, <2>1
      <3> QED
        BY <1>1, <2>1, <3>1 DEF Chained
    <2>2. CASE n = Len(history) + 1
      <3>1. n # 1 => n - 1 \in 1 .. Len(history) /\ n - 1 = Len(history) /\ history # <<>>
        BY <1>1, <2>2
      <3>2. n = 1 => history = <<>>
        BY <1>1, <2>2
      <3> QED
        BY <1>1, <2>2, <3>1, <3>2
    <2> QED
      BY <1>1, <2>1, <2>2
  <1> QED
    BY <1>2 DEF Chained, longer

LEMMA QuietKeepsUp ==
    ASSUME HistoryInv, Faults = {}, NEW p \in Procs, Quiet(p), NEW i \in Ids
    PROVE  LogKeepsUp(i)'
  <1>1. LogKeepsUp(i) /\ rows' = rows /\ log' = log
    BY DEF HistoryInv, Quiet
  <1>2. \A q \in Procs : (Owes(q, i)' <=> Owes(q, i)) /\ (Owes(q, i) => call'[q] = call[q])
    BY DEF Quiet, StepOf, Owes
  <1> QED
    BY <1>1, <1>2 DEF LogKeepsUp, LastRecorded

LEMMA WriteKeepsUp ==
    ASSUME HistoryInv, Serialised, NEW p \in Procs, NEW i \in Ids, Writes(p, i), NEW j \in Ids
    PROVE  LogKeepsUp(j)'
  <1>1. LogKeepsUp(j) /\ call' = call /\ log' = log
    BY DEF HistoryInv, Writes
  <1>2. CASE j # i
    <2>1. rows'[j] = rows[j] /\ \A q \in Procs : Owes(q, j)' <=> Owes(q, j)
      BY <1>2 DEF Writes, Owes
    <2> QED
      BY <1>1, <2>1 DEF LogKeepsUp, LastRecorded
  <1>3. CASE j = i
    <2>1. \A q \in Procs : ~Owes(q, i)
      BY OthersAreElsewhere DEF HistoryInv, Writes, Owes
    <2>2. \A q \in Procs : Owes(q, i)' <=> q = p
      BY <2>1 DEF Writes, Owes
    <2>3. call[p].from = IF rows[i] = None THEN None ELSE rows[i].status
      BY DEF HistoryInv, FromIsFresh, Writes, Reserving
    <2>4. LastRecorded(i) = call[p].from
      BY <1>1, <1>3, <2>1, <2>3 DEF LogKeepsUp
    <2> QED
      BY <1>1, <1>3, <2>2, <2>4 DEF LogKeepsUp, LastRecorded
  <1> QED
    BY <1>2, <1>3

LEMMA RecordKeepsUp ==
    ASSUME HistoryInv, Serialised, NEW p \in Procs, Record(p), NEW j \in Ids
    PROVE  LogKeepsUp(j)'
  <1> DEFINE entry == [from |-> call[p].from, to |-> call[p].cand.status]
  <1> PICK i \in Ids : i = call[p].cand.id
    BY RecordAppends DEF HistoryInv
  <1>1. /\ pc[p] = "record" /\ rows' = rows
        /\ call[p].cand.status \in Statuses /\ call[p].from \in Statuses \cup {None}
        /\ log' = [log EXCEPT ![i] = Append(log[i], entry)]
        /\ StepOf(p) /\ pc'[p] \in {"idle", "series"}
    BY RecordAppends DEF HistoryInv
  <1>2. LogKeepsUp(j) /\ LogKeepsUp(i) /\ Owes(p, i)
    BY <1>1 DEF HistoryInv, Owes
  <1>3. rows[i] # None /\ rows[i].status = entry.to
    BY <1>1 DEF HistoryInv, DebtIsFresh
  <1>4. entry \in Transitions /\ entry.from = call[p].from
    BY <1>1 DEF Transitions
  <1>5. \A q \in Procs \ {p} : ~Owes(q, i)
    BY <1>1, OthersAreElsewhere DEF HistoryInv, Owes
  <1>6. LastRecorded(i) = entry.from
    BY <1>2, <1>4 DEF LogKeepsUp
  <1> HIDE DEF entry
  <1>7. CASE j # i
    <2>1. log'[j] = log[j]
      BY <1>1, <1>7 DEF HistoryInv, IInv, Base, TypeOK
    <2>2. \A q \in Procs \ {p} : (Owes(q, j)' <=> Owes(q, j)) /\ call'[q] = call[q]
      BY <1>1 DEF StepOf, Owes
    <2>3. ~Owes(p, j)' /\ ~Owes(p, j)
      BY <1>1, <1>2, <1>7 DEF Owes
    <2> QED
      BY <1>1, <1>2, <2>1, <2>2, <2>3 DEF LogKeepsUp, LastRecorded
  <1>8. CASE j = i
    <2>1. log[i] \in Seq(Transitions) /\ log'[i] = Append(log[i], entry)
      BY <1>1 DEF HistoryInv, IInv, Base, TypeOK
    <2>2. Chained(log'[i])
      BY <1>2, <1>4, <1>6, <2>1, AppendChains DEF LogKeepsUp, LastRecorded
    <2>3. log'[i] # <<>> /\ log'[i][Len(log'[i])] = entry
      BY <1>4, <2>1, AppendEnds
    <2>4. \A q \in Procs : ~Owes(q, i)'
      BY <1>1, <1>5 DEF StepOf, Owes
    <2> QED
      BY <1>1, <1>3, <1>8, <2>2, <2>3, <2>4 DEF LogKeepsUp, LastRecorded
  <1> QED
    BY <1>7, <1>8

LEMMA WriteKeepsFrom ==
    ASSUME HistoryInv, Serialised, NEW p \in Procs, NEW i \in Ids, Writes(p, i),
           NEW q \in Procs
    PROVE  FromIsFresh(q)'
  <1>1. CASE q = p
    BY <1>1 DEF Writes, FromIsFresh, Reserving
  <1>2. CASE q # p /\ pc[q] \in {"lock", "fetch", "flush"} \cup Reserving
    <2>1. call[q].cand.id # i /\ call[q].cand.id \in Ids
      BY <1>2, OthersAreElsewhere, CallTypes
         DEF HistoryInv, IInv, Writes, Reserving, Appointments
    <2> QED
      BY <1>2, <2>1 DEF HistoryInv, Writes, FromIsFresh
  <1>3. CASE q # p /\ pc[q] \notin {"lock", "fetch", "flush"} \cup Reserving
    BY <1>3 DEF Writes, FromIsFresh
  <1> QED
    BY <1>1, <1>2, <1>3

LEMMA NextKeepsHistory ==
    ASSUME HistoryInv, Serialised, Faults = {}, [Next]_vars
    PROVE  HistoryInv'
  <1>1. IInv'
    BY NextKeepsIInv DEF HistoryInv, Disciplined
  <1>2. CASE UNCHANGED vars
    BY <1>1, <1>2 DEF HistoryInv, vars, DebtIsFresh, FromIsFresh, LogKeepsUp, LastRecorded,
                      Owes
  <1>3. CASE Next
    <2>1. PICK p \in Procs :
            \/ Quiet(p)
            \/ Record(p)
            \/ call[p].cand.id \in Ids /\ Writes(p, call[p].cand.id)
      BY <1>3, StepsOfTheHistory DEF HistoryInv
    <2>2. CASE Quiet(p)
      <3>1. \A q \in Procs : DebtIsFresh(q)'
        BY <2>2, QuietKeepsDebts DEF HistoryInv, Quiet
      <3>2. \A q \in Procs : FromIsFresh(q)'
        BY <2>2 DEF HistoryInv, Quiet, StepOf, FromIsFresh
      <3> QED
        BY <1>1, <2>2, <3>1, <3>2, QuietKeepsUp DEF HistoryInv
    <2>3. CASE Record(p)
      <3>1. rows' = rows /\ StepOf(p) /\ pc'[p] \in {"idle", "series"}
        BY <2>3, RecordAppends DEF HistoryInv
      <3>2. \A q \in Procs : DebtIsFresh(q)'
        BY <3>1, QuietKeepsDebts DEF HistoryInv
      <3>3. \A q \in Procs : FromIsFresh(q)'
        BY <3>1 DEF HistoryInv, StepOf, FromIsFresh, Reserving
      <3> QED
        BY <1>1, <2>3, <3>2, <3>3, RecordKeepsUp DEF HistoryInv
    <2>4. CASE call[p].cand.id \in Ids /\ Writes(p, call[p].cand.id)
      <3>1. \A q \in Procs : DebtIsFresh(q)'
        BY <2>4, WriteKeepsDebts DEF HistoryInv, Disciplined
      <3> QED
        BY <1>1, <2>4, <3>1, WriteKeepsUp, WriteKeepsFrom DEF HistoryInv
    <2> QED
      BY <2>1, <2>2, <2>3, <2>4
  <1> QED
    BY <1>2, <1>3

LEMMA SettledHistoryIsComplete ==
    ASSUME HistoryInv
    PROVE  HistoryTellsTheStatus
  <1> SUFFICES ASSUME NEW i \in Ids, Settled(i)
               PROVE  IF rows[i] = None
                      THEN log[i] = <<>>
                      ELSE /\ log[i] # <<>>
                           /\ Chained(log[i])
                           /\ log[i][Len(log[i])].to = rows[i].status
    BY DEF HistoryTellsTheStatus
  <1>1. \A p \in Procs : ~Owes(p, i)
    <2> SUFFICES ASSUME NEW p \in Procs, Owes(p, i)
                 PROVE  FALSE
      OBVIOUS
    <2>1. call[p] # None /\ call[p].cand # None
      BY CallTypes, NoCallAssumption, NoneAssumption DEF HistoryInv, IInv, Owes
    <2>2. i \in Engaged(call[p])
      BY <2>1 DEF Owes, Engaged
    <2> QED
      BY <2>1, <2>2 DEF Settled
  <1>2. Chained(log[i]) /\ LastRecorded(i) = IF rows[i] = None THEN None ELSE rows[i].status
    BY <1>1 DEF HistoryInv, LogKeepsUp
  <1>3. /\ log[i] \in Seq(Transitions) /\ Len(log[i]) \in Nat
        /\ \A n \in 1 .. Len(log[i]) : log[i][n].to \in Statuses
        /\ rows[i] # None => rows[i].status \in Statuses
    BY EntriesNameStatuses DEF HistoryInv
  <1>4. log[i] # <<>> => Len(log[i]) \in 1 .. Len(log[i])
    BY <1>3
  <1> QED
    BY <1>2, <1>3, <1>4, NoneAssumption DEF LastRecorded

\* Where callers take turns on an appointment and nothing interrupts them, its
\* history between calls tells its whole life: it begins with the creation,
\* every entry starts where the one before ended, and it ends at the status the
\* appointment has (application.py:146-248, domain.py:175-187).
THEOREM HistoryIsComplete ==
    ASSUME Serialised, Faults = {}
    PROVE  Spec => []HistoryTellsTheStatus
  <1>1. Init => HistoryInv
    <2>1. Init => \A p \in Procs : DebtIsFresh(p) /\ FromIsFresh(p)
      BY DEF Init, DebtIsFresh, FromIsFresh, Reserving
    <2>2. Init => \A i \in Ids : LogKeepsUp(i)
      BY DEF Init, LogKeepsUp, LastRecorded, Owes, Chained
    <2> QED
      BY <2>1, <2>2, InitIInv DEF HistoryInv
  <1>2. HistoryInv /\ [Next]_vars => HistoryInv'
    BY NextKeepsHistory
  <1> QED
    BY <1>1, <1>2, SettledHistoryIsComplete, PTL DEF Spec

===============================================================================
