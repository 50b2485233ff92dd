---------------------------- MODULE SchedulerProofs ---------------------------
(***************************************************************************)
(* Proofs that the invariants of SchedulerInvariant hold for any callers,  *)
(* appointments and configuration.                                         *)
(***************************************************************************)
EXTENDS SchedulerInvariant, TLAPS

-------------------------------------------------------------------------------
(* Lemmas about the operators of the model.                                 *)

\* What the validator, reschedule() and a status change make of an appointment
\* is an appointment of the same booking.
LEMMA MovedIsAppointment ==
    ASSUME NEW a \in Appointments, NEW start \in Starts, NEW offset \in Offsets
    PROVE  /\ [a EXCEPT !.start = start, !.offset = offset] \in Appointments
           /\ SameBooking([a EXCEPT !.start = start, !.offset = offset], a)
           /\ [a EXCEPT !.start = start, !.offset = offset].status = a.status
    BY DEF Appointments, SameBooking

LEMMA AdvancedIsAppointment ==
    ASSUME NEW a \in Appointments, NEW status \in Statuses
    PROVE  /\ [a EXCEPT !.status = status] \in Appointments
           /\ SameBooking([a EXCEPT !.status = status], a)
    BY DEF Appointments, SameBooking

LEMMA LandedIsAppointment ==
    ASSUME NEW a \in Appointments
    PROVE  /\ Landed(a, rows) \in Appointments
           /\ SameBooking(Landed(a, rows), a)
           /\ Landed(a, rows).status = a.status
           /\ Landed(a, rows).start = a.start
           /\ Landed(a, rows).overbooked = (ConflictsIn(a, rows) # {})
  <1>1. (ConflictsIn(a, rows) # {}) \in BOOLEAN
    OBVIOUS
  <1> QED
    BY <1>1 DEF Landed, Appointments, SameBooking

\* What reserve() hands to the INSERT and relocate() or save() to the UPDATE is
\* an appointment of the same booking.
LEMMA WrittenIsAppointment ==
    ASSUME NEW c \in Calls, c.cand # None,
           rows[c.cand.id] \in Appointments,
           SameBooking(c.cand, rows[c.cand.id]),
           c.loaded = None \/ c.loaded \in Appointments
    PROVE  /\ Written(c) \in Appointments
           /\ SameBooking(Written(c), rows[c.cand.id])
  <1> DEFINE current == rows[c.cand.id]
             start  == Merged(c.cand.start, c.loaded.start, current.start)
             status == Merged(c.cand.status, c.loaded.status, current.status)
             flag   == Merged(c.cand.overbooked, c.loaded.overbooked, current.overbooked)
  <1>1. c.cand \in Appointments
    BY DEF Calls
  <1>2. CASE Backend = "memory"
    BY <1>1, <1>2 DEF Written
  <1>3. CASE Backend # "memory"
    <2>1. /\ start \in Starts
          /\ status \in Statuses
          /\ flag \in BOOLEAN
      BY <1>1 DEF Merged, Appointments
    <2>2. Written(c) = [current EXCEPT !.start = start, !.status = status,
                                       !.overbooked = flag]
      BY <1>3 DEF Written
    <2> HIDE DEF start, status, flag
    <2> QED
      BY <2>1, <2>2 DEF Appointments, SameBooking
  <1> QED
    BY <1>2, <1>3

LEMMA PersistedIsAppointment ==
    ASSUME NEW a \in Appointments
    PROVE  Persisted(a) \in Appointments /\ SameBooking(Persisted(a), a)
  <1>1. SameBooking(a, a)
    BY DEF SameBooking
  <1>2. [a EXCEPT !.offset = 0] \in Appointments /\ SameBooking([a EXCEPT !.offset = 0], a)
    BY DEF Appointments, SameBooking
  <1> QED
    BY <1>1, <1>2 DEF Persisted

\* Only locks that exist are wanted, and every appointment wants one; two
\* appointments with a common resource want a common lock.
LEMMA WantedAreLocks ==
    ASSUME NEW a \in Appointments
    PROVE  /\ Wanted(a) \subseteq LockNames
           /\ Wanted(a) # {}
           /\ \A b \in Appointments :
                Occupied(a) \cap Occupied(b) # {} => Wanted(a) \cap Wanted(b) # {}
  <1>1. Occupied(a) \subseteq Resources /\ Occupied(a) # {}
    BY DEF Occupied, Appointments
  <1> QED
    BY <1>1 DEF Wanted, LockNames

-------------------------------------------------------------------------------
(* The part of the invariant that holds of any callers.                     *)

LEMMA CallTypes ==
    ASSUME Base, NEW p \in Procs, pc[p] # "idle"
    PROVE  /\ call[p] \in Calls
           /\ pc[p] # "series" => call[p].cand \in Appointments
  BY DEF Base, TypeOK, Calls, CallShape

LEMMA FailKeepsBase ==
    ASSUME Base, NEW p \in Procs, Fail(p)
    PROVE  Base'
  <1> USE DEF Base
  <1>1. /\ pc' = [pc EXCEPT ![p] = "idle"]
        /\ call' = [call EXCEPT ![p] = None]
        /\ owner' = [l \in LockNames |-> IF owner[l] = p THEN None ELSE owner[l]]
        /\ rows' = rows /\ log' = log
    BY DEF Fail, Goto, Released
  <1>2. TypeOK'
    <2>1. pc' \in [Procs -> PCs] /\ call' \in [Procs -> Calls \cup {None}]
      BY <1>1 DEF TypeOK, PCs
    <2>2. owner' \in [LockNames -> Procs \cup {None}]
      BY <1>1 DEF TypeOK
    <2>3. \A q \in Procs : call'[q] = None <=> pc'[q] = "idle"
      BY <1>1 DEF TypeOK
    <2> QED
      BY <1>1, <2>1, <2>2, <2>3 DEF TypeOK
  <1>3. RowsKeepTheirIds'
    BY <1>1 DEF RowsKeepTheirIds
  <1>4. LocksHeld'
    <2> SUFFICES ASSUME NEW q \in Procs, pc'[q] \in Reserving,
                        NEW l \in Wanted(call'[q].cand)
                 PROVE  owner'[l] = q
      BY DEF LocksHeld, Wanted
    <2>1. q # p /\ pc'[q] = pc[q] /\ call'[q] = call[q]
      BY <1>1 DEF TypeOK, Reserving
    <2>2. owner[l] = q
      BY <2>1 DEF LocksHeld
    <2>3. l \in LockNames
      BY <2>1, CallTypes, WantedAreLocks DEF Reserving
    <2> QED
      BY <1>1, <2>1, <2>2, <2>3
  <1>5. ASSUME NEW q \in Procs PROVE CallShape(q)'
    BY <1>1 DEF CallShape, Changing, TypeOK, Reserving
  <1> QED
    BY <1>2, <1>3, <1>4, <1>5

\* What Begin needs to know of the call it starts.
LEMMA BeginKeepsBase ==
    ASSUME Base, NEW p \in Procs, pc[p] \in {"idle", "series"},
           NEW step \in {"lock", "series", "fetch"}, NEW c \in Calls,
           Begin(p, step, c),
           step # "series" => c.cand # None,
           step = "lock" => c.verb \in {"create", "reschedule"},
           step = "fetch" => c.verb \notin {"create", "reschedule"},
           step = "series" \/ c.todo # {} => c.verb = "cancel_series",
           \A a \in c.todo : rows[a.id] # None,
           step = "fetch" \/ c.verb = "reschedule" =>
              rows[c.cand.id] # None /\ SameBooking(c.cand, rows[c.cand.id])
    PROVE  Base'
  <1> USE DEF Base
  <1>1. /\ pc' = [pc EXCEPT ![p] = step]
        /\ call' = [call EXCEPT ![p] = c]
        /\ rows' = rows /\ log' = log /\ owner' = owner
    BY DEF Begin
  <1>2. c # None
    BY NoCallAssumption
  <1>3. TypeOK'
    BY <1>1, <1>2 DEF TypeOK, PCs
  <1>4. RowsKeepTheirIds'
    BY <1>1 DEF RowsKeepTheirIds
  <1>5. LocksHeld'
    BY <1>1 DEF LocksHeld, Wanted, Reserving, TypeOK
  <1>6. ASSUME NEW q \in Procs PROVE CallShape(q)'
    <2>1. CASE q = p
      BY <1>1, <2>1 DEF CallShape, Changing, TypeOK, Reserving
    <2>2. CASE q # p
      BY <1>1, <2>2 DEF CallShape, Changing, TypeOK, Reserving
    <2> QED
      BY <2>1, <2>2
  <1> QED
    BY <1>3, <1>4, <1>5, <1>6

\* The calls that are begun have the form BeginKeepsBase asks for.
LEMMA CreateKeepsBase ==
    ASSUME Base, NEW p \in Procs, Create(p)
    PROVE  Base'
  <1>1. PICK b \in Bookings, allow \in BOOLEAN :
          /\ "create" \in Verbs /\ Free(p, {b.id})
          /\ Begin(p, "lock", [ verb |-> "create", allow |-> allow, cand |-> b,
                                from |-> None, loaded |-> None, todo |-> {} ])
    BY DEF Create
  <1> DEFINE c == [ verb |-> "create", allow |-> allow, cand |-> b,
                    from |-> None, loaded |-> None, todo |-> {} ]
  <1>2. b \in Appointments /\ b # None
    BY BookingsAssumption, NoneAssumption
  <1>3. c \in Calls /\ c.cand # None /\ c.verb = "create" /\ c.todo = {}
    BY <1>1, <1>2 DEF Calls
  <1>4. pc[p] = "idle" /\ Begin(p, "lock", c)
    BY <1>1 DEF Free
  <1> HIDE DEF c
  <1> QED
    BY <1>3, <1>4, BeginKeepsBase

LEMMA RescheduleKeepsBase ==
    ASSUME Base, NEW p \in Procs, Reschedule(p)
    PROVE  Base'
  <1>1. PICK i \in Ids, start \in Starts, offset \in Offsets, allow \in BOOLEAN :
          /\ "reschedule" \in Verbs
          /\ rows[i] # None
          /\ Free(p, {i})
          /\ Begin(p, "lock",
                   [ verb |-> "reschedule", allow |-> allow,
                     cand |-> [rows[i] EXCEPT !.start = start, !.offset = offset],
                     from |-> rows[i].status, loaded |-> None, todo |-> {} ])
    BY DEF Reschedule
  <1> DEFINE cand == [rows[i] EXCEPT !.start = start, !.offset = offset]
             c == [ verb |-> "reschedule", allow |-> allow, cand |-> cand,
                    from |-> rows[i].status, loaded |-> None, todo |-> {} ]
  <1>2. rows[i] \in Appointments /\ rows[i].id = i
    BY <1>1 DEF Base, TypeOK, RowsKeepTheirIds
  <1>3. cand \in Appointments /\ SameBooking(cand, rows[i])
    BY <1>2, MovedIsAppointment
  <1>4. cand # None /\ cand.id = i
    BY <1>2, <1>3, NoneAssumption DEF SameBooking
  <1>5. rows[i].status \in Statuses
    BY <1>2 DEF Appointments
  <1>6. pc[p] = "idle" /\ Begin(p, "lock", c)
    BY <1>1 DEF Free
  <1> HIDE DEF cand
  <1>7. c \in Calls /\ c.cand = cand /\ c.verb = "reschedule" /\ c.todo = {}
    BY <1>1, <1>3, <1>5 DEF Calls
  <1> HIDE DEF c
  <1> QED
    BY <1>1, <1>3, <1>4, <1>6, <1>7, BeginKeepsBase

\* The call that carries out a status change of a stored appointment.
LEMMA AdvancingIsCall ==
    ASSUME Base, NEW i \in Ids, rows[i] # None, NEW target \in Statuses,
           NEW verb \in Verbs, NEW todo \in SUBSET Appointments
    PROVE  /\ Advancing(i, target, verb, todo) \in Calls
           /\ Advancing(i, target, verb, todo).verb = verb
           /\ Advancing(i, target, verb, todo).todo = todo
           /\ Advancing(i, target, verb, todo).cand # None
           /\ Advancing(i, target, verb, todo).cand.id = i
           /\ SameBooking(Advancing(i, target, verb, todo).cand, rows[i])
  <1> DEFINE cand == [rows[i] EXCEPT !.status = target]
  <1>1. rows[i] \in Appointments /\ rows[i].id = i
    BY DEF Base, TypeOK, RowsKeepTheirIds
  <1>2. cand \in Appointments /\ SameBooking(cand, rows[i])
    BY <1>1, AdvancedIsAppointment
  <1>3. cand # None /\ cand.id = i
    BY <1>1, <1>2, NoneAssumption DEF SameBooking
  <1>4. rows[i].status \in Statuses
    BY <1>1 DEF Appointments
  <1>5. Advancing(i, target, verb, todo)
          = [ verb |-> verb, allow |-> FALSE, cand |-> cand,
              from |-> rows[i].status, loaded |-> None, todo |-> todo ]
    BY DEF Advancing
  <1> HIDE DEF cand
  <1> QED
    BY <1>2, <1>3, <1>4, <1>5 DEF Calls

LEMMA TransitionKeepsBase ==
    ASSUME Base, NEW p \in Procs, Transition(p)
    PROVE  Base'
  <1>1. PICK verb \in TransitionVerbs \cap Verbs, i \in Ids :
          /\ rows[i] # None
          /\ Free(p, {i})
          /\ Begin(p, "fetch", Advancing(i, Target[verb], verb, {}))
    BY DEF Transition
  <1>2. Target[verb] \in Statuses /\ verb \notin {"create", "reschedule"}
    BY DEF Target, Statuses, TransitionVerbs
  <1>3. pc[p] = "idle"
    BY <1>1 DEF Free
  <1> QED
    BY <1>1, <1>2, <1>3, AdvancingIsCall, BeginKeepsBase

LEMMA StoredAreRows ==
    ASSUME Base, NEW a \in Stored(rows)
    PROVE  a \in Appointments /\ a.id \in Ids /\ rows[a.id] = a /\ rows[a.id] # None
  BY DEF Base, TypeOK, RowsKeepTheirIds, Stored

LEMMA CancelSeriesKeepsBase ==
    ASSUME Base, NEW p \in Procs, CancelSeries(p)
    PROVE  Base'
  <1>1. PICK todo \in SUBSET Stored(rows) :
          /\ "cancel_series" \in Verbs
          /\ pc[p] = "idle"
          /\ Begin(p, "series", [ verb |-> "cancel_series", allow |-> FALSE,
                                  cand |-> None, from |-> None,
                                  loaded |-> None, todo |-> todo ])
    BY DEF CancelSeries, Free
  <1> DEFINE c == [ verb |-> "cancel_series", allow |-> FALSE, cand |-> None,
                    from |-> None, loaded |-> None, todo |-> todo ]
  <1>2. todo \in SUBSET Appointments /\ \A a \in todo : rows[a.id] # None
    BY <1>1, StoredAreRows
  <1>3. c \in Calls /\ c.verb = "cancel_series" /\ c.todo = todo
    BY <1>1, <1>2 DEF Calls
  <1>4. Begin(p, "series", c)
    BY <1>1
  <1> HIDE DEF c
  <1> QED
    BY <1>1, <1>2, <1>3, <1>4, BeginKeepsBase

LEMMA AcquireKeepsBase ==
    ASSUME Base, NEW p \in Procs, Acquire(p)
    PROVE  Base'
  <1> USE DEF Base
  <1>1. PICK l \in Wanted(call[p].cand) :
          owner[l] = None /\ owner' = [owner EXCEPT ![l] = p]
    BY DEF Acquire
  <1>2. /\ pc[p] = "lock" /\ rows' = rows /\ log' = log /\ call' = call
        /\ pc' = [pc EXCEPT ![p] = IF \A k \in Wanted(call[p].cand) : owner'[k] = p
                                   THEN "load" ELSE "lock"]
    BY DEF Acquire, Goto
  <1>3. call[p] \in Calls /\ l \in LockNames
    BY <1>1, <1>2, CallTypes, WantedAreLocks
  <1>4. TypeOK'
    BY <1>1, <1>2, <1>3 DEF TypeOK, PCs, Reserving
  <1>5. RowsKeepTheirIds'
    BY <1>2 DEF RowsKeepTheirIds
  <1>6. LocksHeld'
    <2> SUFFICES ASSUME NEW q \in Procs, pc'[q] \in Reserving,
                        NEW k \in Wanted(call'[q].cand)
                 PROVE  owner'[k] = q
      BY DEF LocksHeld, Wanted
    <2>1. CASE q = p
      BY <1>2, <2>1 DEF TypeOK, Reserving
    <2>2. CASE q # p
      <3>1. pc[q] \in Reserving
        BY <1>2, <2>2 DEF TypeOK
      <3>2. owner[k] = q /\ k \in LockNames
        BY <1>2, <3>1, CallTypes, WantedAreLocks DEF LocksHeld, Reserving
      <3> QED
        BY <1>1, <1>3, <3>2, NoCallAssumption DEF TypeOK
    <2> QED
      BY <2>1, <2>2
  <1>7. ASSUME NEW q \in Procs PROVE CallShape(q)'
    BY <1>2 DEF CallShape, Changing, TypeOK, Reserving
  <1> QED
    BY <1>4, <1>5, <1>6, <1>7

LEMMA LoadKeepsBase ==
    ASSUME Base, NEW p \in Procs, Load(p)
    PROVE  Base'
  <1>1. CASE Fail(p)
    BY <1>1, FailKeepsBase
  <1>2. CASE ~Fail(p)
    <2> USE DEF Base
    <2>1. /\ pc[p] = "load"
          /\ call' = [call EXCEPT ![p].loaded = rows[call[p].cand.id]]
          /\ pc' = [pc EXCEPT ![p] = "validate"]
          /\ rows' = rows /\ log' = log /\ owner' = owner
      BY <1>2 DEF Load, Goto
    <2>2. call[p] \in Calls /\ call[p].cand.id \in Ids
      BY <2>1, CallTypes DEF Appointments
    <2>3. /\ call'[p] \in Calls
          /\ call'[p].cand = call[p].cand /\ call'[p].verb = call[p].verb
          /\ call'[p].todo = call[p].todo
      BY <2>1, <2>2 DEF Calls, TypeOK
    <2>4. \A q \in Procs : q # p => call'[q] = call[q] /\ pc'[q] = pc[q]
      BY <2>1 DEF TypeOK
    <2>5. TypeOK'
      <3>1. call' \in [Procs -> Calls \cup {None}]
        BY <2>1, <2>3 DEF TypeOK
      <3>2. call'[p] # None
        BY <2>3, NoCallAssumption
      <3> QED
        BY <2>1, <2>4, <3>1, <3>2 DEF TypeOK, PCs, Reserving
    <2>6. RowsKeepTheirIds'
      BY <2>1 DEF RowsKeepTheirIds
    <2>7. LocksHeld'
      BY <2>1, <2>3, <2>4 DEF LocksHeld, Wanted, Reserving, TypeOK
    <2>8. ASSUME NEW q \in Procs PROVE CallShape(q)'
      BY <2>1, <2>3, <2>4 DEF CallShape, Changing, Reserving, TypeOK
    <2> QED
      BY <2>5, <2>6, <2>7, <2>8
  <1> QED
    BY <1>1, <1>2

LEMMA ValidateKeepsBase ==
    ASSUME Base, NEW p \in Procs, Validate(p)
    PROVE  Base'
  <1>1. CASE Fail(p)
    BY <1>1, FailKeepsBase
  <1>2. CASE ~Fail(p)
    <2> USE DEF Base
    <2>1. /\ pc[p] = "validate"
          /\ call' = [call EXCEPT ![p].cand = Landed(call[p].cand, rows)]
          /\ pc' = [pc EXCEPT ![p] = "commit"]
          /\ rows' = rows /\ log' = log /\ owner' = owner
      BY <1>2 DEF Validate, Goto
    <2>2. call[p] \in Calls /\ call[p].cand \in Appointments
      BY <2>1, CallTypes
    <2>3. /\ call'[p].cand \in Appointments
          /\ SameBooking(call'[p].cand, call[p].cand)
          /\ call'[p] \in Calls
          /\ call'[p].verb = call[p].verb /\ call'[p].todo = call[p].todo
      <3>1. call'[p] = [call[p] EXCEPT !.cand = Landed(call[p].cand, rows)]
        BY <2>1 DEF TypeOK
      <3>2. Landed(call[p].cand, rows) \in Appointments
        BY <2>2, LandedIsAppointment
      <3>3. /\ call'[p].cand = Landed(call[p].cand, rows) /\ call'[p] \in Calls
            /\ call'[p].verb = call[p].verb /\ call'[p].todo = call[p].todo
        BY <2>2, <3>1, <3>2 DEF Calls
      <3> QED
        BY <2>2, <3>3, LandedIsAppointment
    <2>4. \A q \in Procs : q # p => call'[q] = call[q] /\ pc'[q] = pc[q]
      BY <2>1 DEF TypeOK
    <2>5. TypeOK'
      <3>1. call' \in [Procs -> Calls \cup {None}]
        BY <2>1, <2>3 DEF TypeOK
      <3>2. call'[p] # None
        BY <2>3, NoCallAssumption
      <3> QED
        BY <2>1, <2>4, <3>1, <3>2 DEF TypeOK, PCs, Reserving
    <2>6. RowsKeepTheirIds'
      BY <2>1 DEF RowsKeepTheirIds
    <2>7. Wanted(call'[p].cand) = Wanted(call[p].cand)
      BY <2>3 DEF Wanted, Occupied, SameBooking
    <2>8. LocksHeld'
      BY <2>1, <2>4, <2>7 DEF LocksHeld, Wanted, Reserving, TypeOK
    <2>9. ASSUME NEW q \in Procs PROVE CallShape(q)'
      <3>1. CASE q = p
        <4>1. call'[p].cand # None
          BY <2>3, NoneAssumption
        <4> QED
          BY <2>1, <2>3, <3>1, <4>1 DEF CallShape, Changing, Reserving, TypeOK, SameBooking
      <3>2. CASE q # p
        BY <2>1, <2>4, <3>2 DEF CallShape, Changing, Reserving
      <3> QED
        BY <3>1, <3>2
    <2> QED
      BY <2>5, <2>6, <2>8, <2>9
  <1> QED
    BY <1>1, <1>2

\* A write of one row that keeps its booking, by a call that goes on to record.
LEMMA WriteKeepsBase ==
    ASSUME Base, NEW p \in Procs, pc[p] \notin {"idle", "series"},
           NEW i \in Ids, NEW a \in Appointments, a.id = i,
           rows[i] # None => SameBooking(a, rows[i]),
           rows' = [rows EXCEPT ![i] = a],
           pc' = [pc EXCEPT ![p] = "record"],
           owner' \in {owner, Released(p)},
           UNCHANGED <<log, call>>
    PROVE  Base'
  <1> USE DEF Base
  <1>1. a # None
    BY NoneAssumption
  <1>2. \A q \in Procs : q # p => pc'[q] = pc[q]
    BY DEF TypeOK
  <1>3. \A j \in Ids : rows[j] # None => rows'[j] # None /\ SameBooking(rows'[j], rows[j])
    BY <1>1 DEF TypeOK, SameBooking
  <1>4. TypeOK'
    BY DEF TypeOK, PCs, Released
  <1>5. RowsKeepTheirIds'
    BY DEF RowsKeepTheirIds, TypeOK
  <1>6. LocksHeld'
    <2> SUFFICES ASSUME NEW q \in Procs, pc'[q] \in Reserving,
                        NEW l \in Wanted(call'[q].cand)
                 PROVE  owner'[l] = q
      BY DEF LocksHeld, Wanted
    <2>1. q # p /\ pc[q] \in Reserving
      BY <1>2 DEF TypeOK, Reserving
    <2>2. owner[l] = q /\ l \in LockNames
      BY <2>1, CallTypes, WantedAreLocks DEF LocksHeld, Reserving
    <2> QED
      BY <2>1, <2>2 DEF Released
  <1>7. ASSUME NEW q \in Procs PROVE CallShape(q)'
    <2>1. CASE q = p
      <3>1. \A b \in call[p].todo : b.id \in Ids /\ rows[b.id] # None
        BY CallTypes DEF CallShape, Calls, Appointments
      <3> QED
        BY <1>3, <2>1, <3>1 DEF CallShape, Changing, Reserving, TypeOK
    <2>2. CASE q # p
      <3>1. pc[q] # "idle" => \A b \in call[q].todo : b.id \in Ids /\ rows[b.id] # None
        BY CallTypes DEF CallShape, Calls, Appointments
      <3>2. Changing(q) => call[q].cand.id \in Ids
        BY CallTypes DEF Changing, Reserving, Appointments
      <3>3. Changing(q) => SameBooking(call[q].cand, rows'[call[q].cand.id])
        BY <1>3, <3>2 DEF CallShape, SameBooking
      <3> QED
        BY <1>2, <1>3, <2>2, <3>1, <3>2, <3>3 DEF CallShape, Changing
    <2> QED
      BY <2>1, <2>2
  <1> QED
    BY <1>4, <1>5, <1>6, <1>7

LEMMA CommitKeepsBase ==
    ASSUME Base, NEW p \in Procs, Commit(p)
    PROVE  Base'
  <1>1. CASE Fail(p)
    BY <1>1, FailKeepsBase
  <1>2. CASE ~Fail(p)
    <2> DEFINE c == call[p]
               a == IF c.verb = "create" THEN Persisted(c.cand) ELSE Written(c)
    <2>1. /\ pc[p] = "commit"
          /\ ~(c.verb = "create" /\ rows[c.cand.id] # None)
          /\ rows' = [rows EXCEPT ![c.cand.id] = a]
          /\ owner' = Released(p)
          /\ pc' = [pc EXCEPT ![p] = "record"]
          /\ UNCHANGED <<log, call>>
      BY <1>2 DEF Commit, Goto
    <2>2. c \in Calls /\ c.cand \in Appointments /\ c.cand.id \in Ids
      BY <2>1, CallTypes DEF Appointments
    <2>3. CASE c.verb = "create"
      <3>1. a \in Appointments /\ a.id = c.cand.id
        BY <2>2, <2>3, PersistedIsAppointment DEF SameBooking
      <3> HIDE DEF a
      <3> QED
        BY <2>1, <2>2, <2>3, <3>1, WriteKeepsBase
    <2>4. CASE c.verb # "create"
      <3>1. rows[c.cand.id] # None /\ SameBooking(c.cand, rows[c.cand.id])
        BY <2>1, <2>4 DEF Base, CallShape, Changing, Reserving
      <3>2. rows[c.cand.id] \in Appointments /\ rows[c.cand.id].id = c.cand.id
        BY <2>2, <3>1 DEF Base, TypeOK, RowsKeepTheirIds
      <3>3. c.cand # None /\ (c.loaded = None \/ c.loaded \in Appointments)
        BY <2>2, NoneAssumption DEF Calls
      <3>4. a \in Appointments /\ SameBooking(a, rows[c.cand.id])
        BY <2>2, <2>4, <3>1, <3>2, <3>3, WrittenIsAppointment
      <3>5. a.id = c.cand.id
        BY <3>2, <3>4 DEF SameBooking
      <3> HIDE DEF a
      <3> QED
        BY <2>1, <2>2, <3>4, <3>5, WriteKeepsBase
    <2> QED
      BY <2>3, <2>4
  <1> QED
    BY <1>1, <1>2

LEMMA FlushKeepsBase ==
    ASSUME Base, NEW p \in Procs, Flush(p)
    PROVE  Base'
  <1> DEFINE c == call[p]
             a == Written(c)
  <1>1. /\ pc[p] = "flush"
        /\ rows' = [rows EXCEPT ![c.cand.id] = a]
        /\ pc' = [pc EXCEPT ![p] = "record"]
        /\ UNCHANGED <<log, owner, call>>
    BY DEF Flush, Goto
  <1>2. c \in Calls /\ c.cand \in Appointments /\ c.cand.id \in Ids
    BY <1>1, CallTypes DEF Appointments
  <1>3. rows[c.cand.id] # None /\ SameBooking(c.cand, rows[c.cand.id])
    BY <1>1 DEF Base, CallShape, Changing
  <1>4. rows[c.cand.id] \in Appointments /\ rows[c.cand.id].id = c.cand.id
    BY <1>2, <1>3 DEF Base, TypeOK, RowsKeepTheirIds
  <1>5. c.cand # None /\ (c.loaded = None \/ c.loaded \in Appointments)
    BY <1>2, NoneAssumption DEF Calls
  <1>6. a \in Appointments /\ SameBooking(a, rows[c.cand.id])
    BY <1>2, <1>3, <1>4, <1>5, WrittenIsAppointment
  <1>7. a.id = c.cand.id
    BY <1>4, <1>6 DEF SameBooking
  <1> HIDE DEF a
  <1> QED
    BY <1>1, <1>2, <1>6, <1>7, WriteKeepsBase

LEMMA FetchKeepsBase ==
    ASSUME Base, NEW p \in Procs, Fetch(p)
    PROVE  Base'
  <1> USE DEF Base
  <1>1. /\ pc[p] = "fetch"
        /\ call' = [call EXCEPT ![p].loaded = rows[call[p].cand.id]]
        /\ pc' = [pc EXCEPT ![p] = "flush"]
        /\ rows' = rows /\ log' = log /\ owner' = owner
    BY DEF Fetch, Goto
  <1>2. call[p] \in Calls /\ call[p].cand.id \in Ids
    BY <1>1, CallTypes DEF Appointments
  <1>3. /\ call'[p] \in Calls
        /\ call'[p].cand = call[p].cand /\ call'[p].verb = call[p].verb
        /\ call'[p].todo = call[p].todo
    BY <1>1, <1>2 DEF Calls, TypeOK
  <1>4. \A q \in Procs : q # p => call'[q] = call[q] /\ pc'[q] = pc[q]
    BY <1>1 DEF TypeOK
  <1>5. TypeOK'
    <2>1. call' \in [Procs -> Calls \cup {None}]
      BY <1>1, <1>3 DEF TypeOK
    <2>2. call'[p] # None
      BY <1>3, NoCallAssumption
    <2> QED
      BY <1>1, <1>4, <2>1, <2>2 DEF TypeOK, PCs
  <1>6. RowsKeepTheirIds'
    BY <1>1 DEF RowsKeepTheirIds
  <1>7. LocksHeld'
    BY <1>1, <1>4 DEF LocksHeld, Wanted, Reserving, TypeOK
  <1>8. ASSUME NEW q \in Procs PROVE CallShape(q)'
    BY <1>1, <1>3, <1>4 DEF CallShape, Changing, Reserving, TypeOK
  <1> QED
    BY <1>5, <1>6, <1>7, <1>8

LEMMA RecordKeepsBase ==
    ASSUME Base, NEW p \in Procs, Record(p)
    PROVE  Base'
  <1> USE DEF Base
  <1> DEFINE c == call[p]
             entry == [from |-> c.from, to |-> c.cand.status]
  <1>1. /\ pc[p] = "record"
        /\ log' = [log EXCEPT ![c.cand.id] = Append(@, entry)]
        /\ rows' = rows /\ owner' = owner
    BY DEF Record
  <1>2. c \in Calls /\ c.cand.id \in Ids /\ c.cand.status \in Statuses
    BY <1>1, CallTypes DEF Appointments
  <1>3. log' \in [Ids -> Seq(Transitions)]
    <2>1. entry \in Transitions
      BY <1>2 DEF Transitions, Calls
    <2>2. Append(log[c.cand.id], entry) \in Seq(Transitions)
      BY <1>2, <2>1 DEF TypeOK
    <2> QED
      BY <1>1, <1>2, <2>2 DEF TypeOK
  <1>4. RowsKeepTheirIds'
    BY <1>1 DEF RowsKeepTheirIds
  <1>5. CASE c.todo = {}
    <2>1. pc' = [pc EXCEPT ![p] = "idle"] /\ call' = [call EXCEPT ![p] = None]
      BY <1>5 DEF Record, Goto
    <2>2. TypeOK'
      BY <1>1, <1>3, <2>1 DEF TypeOK, PCs
    <2>3. LocksHeld'
      BY <1>1, <2>1 DEF LocksHeld, Wanted, Reserving, TypeOK
    <2>4. ASSUME NEW q \in Procs PROVE CallShape(q)'
      BY <1>1, <2>1 DEF CallShape, Changing, Reserving, TypeOK
    <2> QED
      BY <1>4, <2>2, <2>3, <2>4
  <1>6. CASE c.todo # {}
    <2>1. pc' = [pc EXCEPT ![p] = "series"] /\ call' = call
      BY <1>6 DEF Record, Goto
    <2>2. TypeOK'
      BY <1>1, <1>3, <2>1 DEF TypeOK, PCs
    <2>3. LocksHeld'
      BY <1>1, <2>1 DEF LocksHeld, Wanted, Reserving, TypeOK
    <2>4. ASSUME NEW q \in Procs PROVE CallShape(q)'
      BY <1>1, <1>6, <2>1 DEF CallShape, Changing, Reserving, TypeOK
    <2> QED
      BY <1>4, <2>2, <2>3, <2>4
  <1> QED
    BY <1>5, <1>6

LEMMA NextOccurrenceKeepsBase ==
    ASSUME Base, NEW p \in Procs, NextOccurrence(p)
    PROVE  Base'
  <1>1. CASE Fail(p)
    BY <1>1, FailKeepsBase
  <1>2. CASE ~Fail(p)
    <2>1. PICK a \in call[p].todo :
            Begin(p, "fetch", Advancing(a.id, "cancelled", "cancel_series",
                                        call[p].todo \ {a}))
      BY <1>2 DEF NextOccurrence
    <2>2. pc[p] = "series" /\ call[p] \in Calls /\ "cancelled" \in Statuses
      BY CallTypes DEF NextOccurrence, Statuses
    <2>3. /\ a.id \in Ids /\ rows[a.id] # None
          /\ call[p].todo \ {a} \in SUBSET Appointments
      BY <2>1, <2>2 DEF Base, CallShape, Calls, Appointments
    <2>4. \A b \in call[p].todo \ {a} : rows[b.id] # None
      BY <2>2 DEF Base, CallShape
    <2>5. "cancel_series" \in Verbs
      BY <2>2 DEF Base, CallShape, Calls
    <2> QED
      BY <2>1, <2>2, <2>3, <2>4, <2>5, AdvancingIsCall, BeginKeepsBase
  <1> QED
    BY <1>1, <1>2

\* What the environment does to a call is to make it fail.
LEMMA InterruptionIsFailure ==
    ASSUME NEW p \in Procs, DeadlockAbort(p) \/ BusyTimeout(p) \/ Crash(p)
    PROVE  Fail(p)
  BY DEF DeadlockAbort, BusyTimeout, Crash

LEMMA StutterKeepsBase ==
    ASSUME Base, UNCHANGED vars
    PROVE  Base'
  <1> USE DEF Base, vars
  <1>1. TypeOK' /\ RowsKeepTheirIds' /\ LocksHeld'
    BY DEF TypeOK, RowsKeepTheirIds, LocksHeld, Wanted
  <1>2. ASSUME NEW q \in Procs PROVE CallShape(q)'
    BY DEF CallShape, Changing
  <1> QED
    BY <1>1, <1>2

LEMMA InitBase ==
    ASSUME Init
    PROVE  Base
  <1>1. TypeOK
    BY DEF Init, TypeOK, PCs
  <1>2. RowsKeepTheirIds
    BY DEF Init, RowsKeepTheirIds
  <1>3. LocksHeld
    BY DEF Init, LocksHeld, Reserving
  <1>4. ASSUME NEW p \in Procs PROVE CallShape(p)
    BY DEF Init, CallShape, Changing, Reserving
  <1> QED
    BY <1>1, <1>2, <1>3, <1>4 DEF Base

LEMMA NextKeepsBase ==
    ASSUME Base, [Next]_vars
    PROVE  Base'
  <1>1. CASE UNCHANGED vars
    BY <1>1, StutterKeepsBase
  <1>2. ASSUME NEW p \in Procs, BeginCall(p)
        PROVE  Base'
    BY <1>2, CreateKeepsBase, RescheduleKeepsBase, TransitionKeepsBase,
       CancelSeriesKeepsBase DEF BeginCall
  <1>3. ASSUME NEW p \in Procs, Acquire(p)
        PROVE  Base'
    BY <1>3, AcquireKeepsBase
  <1>4. ASSUME NEW p \in Procs, Proceed(p)
        PROVE  Base'
    BY <1>4, LoadKeepsBase, ValidateKeepsBase, CommitKeepsBase, FetchKeepsBase,
       FlushKeepsBase, RecordKeepsBase, NextOccurrenceKeepsBase,
       InterruptionIsFailure, FailKeepsBase DEF Proceed
  <1>5. ASSUME NEW p \in Procs, Crash(p)
        PROVE  Base'
    BY <1>5, InterruptionIsFailure, FailKeepsBase
  <1> QED
    BY <1>1, <1>2, <1>3, <1>4, <1>5 DEF Next

THEOREM BaseInvariant == Spec => []Base
  <1>1. Init => Base
    BY InitBase
  <1>2. Base /\ [Next]_vars => Base'
    BY NextKeepsBase
  <1> QED
    BY <1>1, <1>2, PTL DEF Spec

\* Whatever the callers do, the variables keep their types: in particular what
\* is stored is always an appointment of one of the bookings, and a call has
\* local variables exactly while it runs.
THEOREM TypeCorrectness == Spec => []TypeOK
  <1>1. Base => TypeOK
    BY DEF Base
  <1> QED
    BY <1>1, BaseInvariant, PTL

LEMMA BaseIsExclusive ==
    ASSUME Base
    PROVE  Exclusive
  <1> SUFFICES ASSUME NEW p \in Procs, NEW q \in Procs, p # q,
                      pc[p] \in Reserving, pc[q] \in Reserving,
                      Occupied(call[p].cand) \cap Occupied(call[q].cand) # {}
               PROVE  FALSE
    BY DEF Exclusive
  <1>1. call[p].cand \in Appointments /\ call[q].cand \in Appointments
    BY CallTypes DEF Reserving
  <1>2. PICK l \in Wanted(call[p].cand) : l \in Wanted(call[q].cand)
    BY <1>1, WantedAreLocks
  <1> QED
    BY <1>2 DEF Base, LocksHeld

\* Whatever the callers do, two of them never validate and write appointments
\* with a common resource at the same time.
THEOREM MutualExclusion == Spec => []Exclusive
  BY BaseIsExclusive, BaseInvariant, PTL

-------------------------------------------------------------------------------
(* The part of the invariant that holds of disciplined callers.             *)

\* What a caller knows of the rows at the step it is in.
Knows(p) == MoveIsFresh(p) /\ AdvanceIsFresh(p) /\ VerdictStands(p)

\* A step of p leaves the calls of the others alone, and p is engaged with no
\* appointment it was not engaged with before, unless it was free.
StepOf(p) ==
    /\ \A q \in Procs \ {p} : pc'[q] = pc[q] /\ call'[q] = call[q]
    /\ \/ Engaged(call'[p]) \subseteq Engaged(call[p])
       \/ Serialised =>
            \A q \in Procs \ {p} : Engaged(call[q]) \cap Engaged(call'[p]) = {}

\* Appointments that clash conflict, whichever of them is the candidate.
LEMMA ClashIsConflict ==
    ASSUME NEW a \in Appointments, NEW b \in Appointments, Clash(a, b) \/ Clash(b, a)
    PROVE  /\ Occupied(a) \cap Occupied(b) # {}
           /\ Active(b)
           /\ IntervalsOverlap(a.start - Gap(a), EndsAt(a) + Gap(a), b.start, EndsAt(b))
  <1>1. Gap(a) \in Nat /\ Gap(b) \in Nat /\ (a.resource = b.resource => Gap(a) = Gap(b))
    BY PoliciesAssumption DEF Gap, PolicyFor
  <1>2. /\ a.start \in Int /\ EndsAt(a) \in Int
        /\ b.start \in Int /\ EndsAt(b) \in Int
    <2>1. /\ a.start \in Starts /\ a.duration \in Nat
          /\ b.start \in Starts /\ b.duration \in Nat
      BY DEF Appointments
    <2>2. a.start \in Int /\ b.start \in Int
      BY <2>1, BookingsAssumption
    <2> QED
      BY <2>1, <2>2 DEF EndsAt
  <1> QED
    BY <1>1, <1>2 DEF Clash, Distance, IntervalsOverlap

\* Of a candidate only its booking and its start decide what it conflicts with.
LEMMA SameConflicts ==
    ASSUME NEW a, NEW b, SameBooking(a, b), a.start = b.start
    PROVE  ConflictsIn(a, rows) = ConflictsIn(b, rows)
  BY DEF SameBooking, ConflictsIn, FindConflicts, OthersThan, Occupied, EndsAt, Gap

\* A status change never makes an appointment active that was not.
LEMMA AdvancingDeactivates ==
    ASSUME NEW from, NEW to, <<from, to>> \in Allowed
    PROVE  from \notin Inactive
  BY DEF Allowed, Inactive

\* An UPDATE whose session has loaded the current row writes what it was given.
LEMMA WrittenWhenFresh ==
    ASSUME NEW c \in Calls, c.cand \in Appointments,
           rows[c.cand.id] \in Appointments, c.loaded = rows[c.cand.id]
    PROVE  /\ Written(c).start = c.cand.start
           /\ Written(c).status = c.cand.status
           /\ Written(c).overbooked = c.cand.overbooked
  BY DEF Written, Merged, Appointments

LEMMA FailKnows ==
    ASSUME Base, NEW p \in Procs, Fail(p)
    PROVE  rows' = rows /\ StepOf(p) /\ Knows(p)'
  <1>1. /\ pc' = [pc EXCEPT ![p] = "idle"] /\ call' = [call EXCEPT ![p] = None]
        /\ rows' = rows
    BY DEF Fail, Goto
  <1>2. pc'[p] = "idle" /\ Engaged(call'[p]) = {}
    BY <1>1 DEF Base, TypeOK, Engaged
  <1>3. Knows(p)'
    BY <1>2 DEF Knows, MoveIsFresh, AdvanceIsFresh, VerdictStands, Reserving
  <1> QED
    BY <1>1, <1>2, <1>3 DEF StepOf, Base, TypeOK

\* Beginning a call: what it knows is what it has just read.
LEMMA BeginKnows ==
    ASSUME Base, NEW p \in Procs, NEW step \in {"lock", "series", "fetch"},
           NEW c \in Calls, Begin(p, step, c),
           Engaged(c) \subseteq Engaged(call[p])
             \/ (Serialised => \A q \in Procs \ {p} : Engaged(call[q]) \cap Engaged(c) = {}),
           step = "lock" /\ c.verb = "reschedule" =>
              c.cand.status = rows[c.cand.id].status,
           step = "fetch" =>
              /\ c.cand = [rows[c.cand.id] EXCEPT !.status = c.cand.status]
              /\ <<rows[c.cand.id].status, c.cand.status>> \in Allowed
    PROVE  rows' = rows /\ StepOf(p) /\ Knows(p)'
  <1>1. /\ pc' = [pc EXCEPT ![p] = step] /\ call' = [call EXCEPT ![p] = c]
        /\ rows' = rows
    BY DEF Begin
  <1>2. pc'[p] = step /\ call'[p] = c
    BY <1>1 DEF Base, TypeOK
  <1>3. Knows(p)'
    BY <1>1, <1>2 DEF Knows, MoveIsFresh, AdvanceIsFresh, VerdictStands, Reserving
  <1> QED
    BY <1>1, <1>2, <1>3 DEF StepOf, Base, TypeOK

LEMMA CreateKnows ==
    ASSUME Base, NEW p \in Procs, Create(p)
    PROVE  rows' = rows /\ StepOf(p) /\ Knows(p)'
  <1>1. PICK b \in Bookings, allow \in BOOLEAN :
          /\ "create" \in Verbs /\ Free(p, {b.id})
          /\ Begin(p, "lock", [ verb |-> "create", allow |-> allow, cand |-> b,
                                from |-> None, loaded |-> None, todo |-> {} ])
    BY DEF Create
  <1> DEFINE c == [ verb |-> "create", allow |-> allow, cand |-> b,
                    from |-> None, loaded |-> None, todo |-> {} ]
  <1>2. b \in Appointments /\ b # None
    BY BookingsAssumption, NoneAssumption
  <1>3. c \in Calls /\ c.verb = "create" /\ c.cand = b /\ c.todo = {}
    BY <1>1, <1>2 DEF Calls
  <1>4. Begin(p, "lock", c)
    BY <1>1
  <1> HIDE DEF c
  <1>5. Engaged(c) \subseteq {b.id}
    BY <1>3 DEF Engaged
  <1>6. Serialised => \A q \in Procs \ {p} : Engaged(call[q]) \cap Engaged(c) = {}
    BY <1>1, <1>5 DEF Free
  <1> QED
    BY <1>3, <1>4, <1>6, BeginKnows

LEMMA RescheduleKnows ==
    ASSUME Base, NEW p \in Procs, Reschedule(p)
    PROVE  rows' = rows /\ StepOf(p) /\ Knows(p)'
  <1>1. PICK i \in Ids, start \in Starts, offset \in Offsets, allow \in BOOLEAN :
          /\ "reschedule" \in Verbs
          /\ rows[i] # None
          /\ Free(p, {i})
          /\ Begin(p, "lock",
                   [ verb |-> "reschedule", allow |-> allow,
                     cand |-> [rows[i] EXCEPT !.start = start, !.offset = offset],
                     from |-> rows[i].status, loaded |-> None, todo |-> {} ])
    BY DEF Reschedule
  <1> DEFINE cand == [rows[i] EXCEPT !.start = start, !.offset = offset]
             c == [ verb |-> "reschedule", allow |-> allow, cand |-> cand,
                    from |-> rows[i].status, loaded |-> None, todo |-> {} ]
  <1>2. rows[i] \in Appointments /\ rows[i].id = i
    BY <1>1 DEF Base, TypeOK, RowsKeepTheirIds
  <1>3. cand \in Appointments /\ cand.id = i /\ cand.status = rows[i].status
    <2>1. cand \in Appointments /\ SameBooking(cand, rows[i]) /\ cand.status = rows[i].status
      BY <1>2, MovedIsAppointment
    <2> QED
      BY <1>2, <2>1 DEF SameBooking
  <1>4. rows[i].status \in Statuses
    BY <1>2 DEF Appointments
  <1>5. Begin(p, "lock", c)
    BY <1>1
  <1> HIDE DEF cand
  <1>6. c \in Calls /\ c.cand = cand /\ c.verb = "reschedule" /\ c.todo = {}
    BY <1>1, <1>3, <1>4 DEF Calls
  <1> HIDE DEF c
  <1>7. Engaged(c) \subseteq {i}
    BY <1>3, <1>6 DEF Engaged
  <1>8. Serialised => \A q \in Procs \ {p} : Engaged(call[q]) \cap Engaged(c) = {}
    BY <1>1, <1>7 DEF Free
  <1> QED
    BY <1>3, <1>5, <1>6, <1>8, BeginKnows

LEMMA AdvancingIsFresh ==
    ASSUME Base, NEW i \in Ids, rows[i] # None, NEW target \in Statuses,
           <<rows[i].status, target>> \in Allowed,
           NEW verb \in Verbs, NEW todo \in SUBSET Appointments
    PROVE  LET cand == Advancing(i, target, verb, todo).cand
           IN  /\ cand = [rows[cand.id] EXCEPT !.status = cand.status]
               /\ <<rows[cand.id].status, cand.status>> \in Allowed
  <1>1. rows[i] \in Appointments /\ rows[i].id = i
    BY DEF Base, TypeOK, RowsKeepTheirIds
  <1>2. Advancing(i, target, verb, todo).cand = [rows[i] EXCEPT !.status = target]
    BY DEF Advancing
  <1>3. /\ [rows[i] EXCEPT !.status = target].id = i
        /\ [rows[i] EXCEPT !.status = target].status = target
    BY <1>1 DEF Appointments
  <1> QED
    BY <1>2, <1>3

LEMMA TransitionKnows ==
    ASSUME Base, NEW p \in Procs, Transition(p)
    PROVE  rows' = rows /\ StepOf(p) /\ Knows(p)'
  <1>1. PICK verb \in TransitionVerbs \cap Verbs, i \in Ids :
          /\ rows[i] # None
          /\ <<rows[i].status, Target[verb]>> \in Allowed
          /\ Free(p, {i})
          /\ Begin(p, "fetch", Advancing(i, Target[verb], verb, {}))
    BY DEF Transition
  <1> DEFINE c == Advancing(i, Target[verb], verb, {})
  <1>2. Target[verb] \in Statuses /\ verb \notin {"create", "reschedule"}
    BY DEF Target, Statuses, TransitionVerbs
  <1>3. c \in Calls /\ c.cand.id = i /\ c.todo = {} /\ c.verb # "reschedule"
    BY <1>1, <1>2, AdvancingIsCall
  <1>4. /\ c.cand = [rows[c.cand.id] EXCEPT !.status = c.cand.status]
        /\ <<rows[c.cand.id].status, c.cand.status>> \in Allowed
    BY <1>1, <1>2, AdvancingIsFresh
  <1>5. Begin(p, "fetch", c)
    BY <1>1
  <1> HIDE DEF c
  <1>6. Engaged(c) \subseteq {i}
    BY <1>3 DEF Engaged
  <1>7. Serialised => \A q \in Procs \ {p} : Engaged(call[q]) \cap Engaged(c) = {}
    BY <1>1, <1>6 DEF Free
  <1> QED
    BY <1>3, <1>4, <1>5, <1>7, BeginKnows

LEMMA CancelSeriesKnows ==
    ASSUME Base, NEW p \in Procs, CancelSeries(p)
    PROVE  rows' = rows /\ StepOf(p) /\ Knows(p)'
  <1>1. PICK todo \in SUBSET Stored(rows) :
          /\ "cancel_series" \in Verbs
          /\ Free(p, { a.id : a \in todo })
          /\ Begin(p, "series", [ verb |-> "cancel_series", allow |-> FALSE,
                                  cand |-> None, from |-> None,
                                  loaded |-> None, todo |-> todo ])
    BY DEF CancelSeries
  <1> DEFINE c == [ verb |-> "cancel_series", allow |-> FALSE, cand |-> None,
                    from |-> None, loaded |-> None, todo |-> todo ]
  <1>2. todo \in SUBSET Appointments
    BY <1>1, StoredAreRows
  <1>3. c \in Calls /\ c.todo = todo /\ c.cand = None
    BY <1>1, <1>2 DEF Calls
  <1>4. Begin(p, "series", c)
    BY <1>1
  <1> HIDE DEF c
  <1>5. Engaged(c) = { a.id : a \in todo }
    BY <1>3, NoCallAssumption DEF Engaged
  <1>6. Serialised => \A q \in Procs \ {p} : Engaged(call[q]) \cap Engaged(c) = {}
    BY <1>1, <1>5 DEF Free
  <1> QED
    BY <1>3, <1>4, <1>6, BeginKnows

LEMMA NextOccurrenceKnows ==
    ASSUME Base, NEW p \in Procs, NextOccurrence(p)
    PROVE  rows' = rows /\ StepOf(p) /\ Knows(p)'
  <1>1. CASE Fail(p)
    BY <1>1, FailKnows
  <1>2. CASE ~Fail(p)
    <2>1. PICK a \in call[p].todo :
            /\ <<rows[a.id].status, "cancelled">> \in Allowed
            /\ Begin(p, "fetch", Advancing(a.id, "cancelled", "cancel_series",
                                           call[p].todo \ {a}))
      BY <1>2 DEF NextOccurrence
    <2> DEFINE c == Advancing(a.id, "cancelled", "cancel_series", call[p].todo \ {a})
    <2>2. pc[p] = "series" /\ call[p] \in Calls /\ "cancelled" \in Statuses
      BY CallTypes DEF NextOccurrence, Statuses
    <2>3. /\ a.id \in Ids /\ rows[a.id] # None
          /\ call[p].todo \ {a} \in SUBSET Appointments
      BY <2>1, <2>2 DEF Base, CallShape, Calls, Appointments
    <2>4. "cancel_series" \in Verbs
      BY <2>2 DEF Base, CallShape, Calls
    <2>5. c \in Calls /\ c.cand.id = a.id /\ c.todo = call[p].todo \ {a}
      BY <2>2, <2>3, <2>4, AdvancingIsCall
    <2>6. /\ c.cand = [rows[c.cand.id] EXCEPT !.status = c.cand.status]
          /\ <<rows[c.cand.id].status, c.cand.status>> \in Allowed
      BY <2>1, <2>2, <2>3, <2>4, AdvancingIsFresh
    <2>7. Begin(p, "fetch", c)
      BY <2>1
    <2> HIDE DEF c
    <2>8. Engaged(c) \subseteq Engaged(call[p])
      BY <2>1, <2>2, <2>5, NoCallAssumption DEF Engaged
    <2> QED
      BY <2>5, <2>6, <2>7, <2>8, BeginKnows
  <1> QED
    BY <1>1, <1>2

LEMMA AcquireKnows ==
    ASSUME Base, NEW p \in Procs, Knows(p), Acquire(p)
    PROVE  rows' = rows /\ StepOf(p) /\ Knows(p)'
  <1>1. /\ pc[p] = "lock" /\ rows' = rows /\ call' = call
        /\ \E step \in {"lock", "load"} : pc' = [pc EXCEPT ![p] = step]
    BY DEF Acquire, Goto
  <1>2. pc'[p] \in {"lock", "load"} /\ \A q \in Procs \ {p} : pc'[q] = pc[q]
    BY <1>1 DEF Base, TypeOK
  <1>3. StepOf(p)
    BY <1>1, <1>2 DEF StepOf
  <1>4. Knows(p)'
    BY <1>1, <1>2 DEF Knows, MoveIsFresh, AdvanceIsFresh, VerdictStands, Reserving
  <1> QED
    BY <1>1, <1>3, <1>4

\* Loading a row into the session changes nothing else of a call.
LEMMA LoadingKeepsTheRest ==
    ASSUME Base, NEW p \in Procs, pc[p] \in {"load", "fetch"},
           call' = [call EXCEPT ![p].loaded = rows[call[p].cand.id]]
    PROVE  /\ call'[p].loaded = rows[call[p].cand.id]
           /\ call'[p].cand = call[p].cand /\ call'[p].verb = call[p].verb
           /\ call'[p].todo = call[p].todo /\ call'[p] # None /\ call[p] # None
  <1>1. call[p] \in Calls /\ call[p].cand.id \in Ids /\ call[p] # None
    BY CallTypes, NoCallAssumption DEF Appointments
  <1>2. call'[p] = [call[p] EXCEPT !.loaded = rows[call[p].cand.id]]
    BY <1>1 DEF Base, TypeOK
  <1>3. rows[call[p].cand.id] \in Appointments \cup {None}
    BY <1>1 DEF Base, TypeOK
  <1>4. call'[p] \in Calls
    BY <1>1, <1>2, <1>3 DEF Calls
  <1> QED
    BY <1>1, <1>2, <1>4, NoCallAssumption DEF Calls

LEMMA LoadKnows ==
    ASSUME Base, NEW p \in Procs, Knows(p), Load(p)
    PROVE  rows' = rows /\ StepOf(p) /\ Knows(p)'
  <1>1. CASE Fail(p)
    BY <1>1, FailKnows
  <1>2. CASE ~Fail(p)
    <2>1. /\ pc[p] = "load" /\ rows' = rows
          /\ call' = [call EXCEPT ![p].loaded = rows[call[p].cand.id]]
          /\ pc' = [pc EXCEPT ![p] = "validate"]
      BY <1>2 DEF Load, Goto
    <2>2. pc'[p] = "validate"
      BY <2>1 DEF Base, TypeOK
    <2>3. /\ call'[p].loaded = rows[call[p].cand.id]
          /\ call'[p].cand = call[p].cand /\ call'[p].verb = call[p].verb
          /\ call'[p].todo = call[p].todo /\ call'[p] # None /\ call[p] # None
      BY <2>1, LoadingKeepsTheRest
    <2>4. StepOf(p)
      BY <2>1, <2>2, <2>3 DEF StepOf, Base, TypeOK, Engaged
    <2>5. Knows(p)'
      BY <2>1, <2>2, <2>3 DEF Knows, MoveIsFresh, AdvanceIsFresh, VerdictStands, Reserving
    <2> QED
      BY <2>1, <2>4, <2>5
  <1> QED
    BY <1>1, <1>2

LEMMA ValidateKnows ==
    ASSUME Base, NEW p \in Procs, Knows(p), Validate(p)
    PROVE  rows' = rows /\ StepOf(p) /\ Knows(p)'
  <1>1. CASE Fail(p)
    BY <1>1, FailKnows
  <1>2. CASE ~Fail(p)
    <2> DEFINE cand == Landed(call[p].cand, rows)
    <2>1. /\ pc[p] = "validate" /\ rows' = rows
          /\ call' = [call EXCEPT ![p].cand = cand]
          /\ pc' = [pc EXCEPT ![p] = "commit"]
      BY <1>2 DEF Validate, Goto
    <2>2. call[p] \in Calls /\ call[p].cand \in Appointments
      BY <2>1, CallTypes
    <2>3. /\ cand \in Appointments
          /\ SameBooking(cand, call[p].cand)
          /\ cand.status = call[p].cand.status
          /\ cand.start = call[p].cand.start
          /\ cand.overbooked = (ConflictsIn(call[p].cand, rows) # {})
      BY <2>2, LandedIsAppointment
    <2> HIDE DEF cand
    <2>4. /\ pc'[p] = "commit" /\ call'[p].cand = cand
          /\ call'[p].loaded = call[p].loaded /\ call'[p].verb = call[p].verb
          /\ call'[p].todo = call[p].todo /\ call'[p] # None /\ call[p] # None
      BY <2>1, <2>2, <2>3, NoCallAssumption DEF Base, TypeOK, Calls
    <2>5. cand.id = call[p].cand.id /\ cand # None /\ call[p].cand # None
      BY <2>2, <2>3, NoneAssumption DEF SameBooking
    <2>6. StepOf(p)
      BY <2>1, <2>4, <2>5 DEF StepOf, Base, TypeOK, Engaged
    <2>7. ConflictsIn(cand, rows) = ConflictsIn(call[p].cand, rows)
      BY <2>3, SameConflicts
    <2>8. VerdictStands(p)'
      <3>1. ~cand.overbooked => ConflictsIn(cand, rows) = {}
        BY <2>3, <2>7
      <3> QED
        BY <2>1, <2>4, <3>1 DEF VerdictStands, ConflictsIn, OthersThan, Stored
    <2>9. MoveIsFresh(p)' /\ AdvanceIsFresh(p)'
      BY <2>1, <2>3, <2>4, <2>5 DEF Knows, MoveIsFresh, AdvanceIsFresh, Reserving
    <2> QED
      BY <2>1, <2>6, <2>8, <2>9 DEF Knows
  <1> QED
    BY <1>1, <1>2

LEMMA FetchKnows ==
    ASSUME Base, NEW p \in Procs, Knows(p), Fetch(p)
    PROVE  rows' = rows /\ StepOf(p) /\ Knows(p)'
  <1>1. /\ pc[p] = "fetch" /\ rows' = rows
        /\ call' = [call EXCEPT ![p].loaded = rows[call[p].cand.id]]
        /\ pc' = [pc EXCEPT ![p] = "flush"]
    BY DEF Fetch, Goto
  <1>2. pc'[p] = "flush"
    BY <1>1 DEF Base, TypeOK
  <1>3. /\ call'[p].loaded = rows[call[p].cand.id]
        /\ call'[p].cand = call[p].cand /\ call'[p].verb = call[p].verb
        /\ call'[p].todo = call[p].todo /\ call'[p] # None /\ call[p] # None
    BY <1>1, LoadingKeepsTheRest
  <1>4. StepOf(p)
    BY <1>1, <1>2, <1>3 DEF StepOf, Base, TypeOK, Engaged
  <1>5. Knows(p)'
    BY <1>1, <1>2, <1>3 DEF Knows, MoveIsFresh, AdvanceIsFresh, VerdictStands, Reserving
  <1> QED
    BY <1>1, <1>4, <1>5

LEMMA RecordKnows ==
    ASSUME Base, NEW p \in Procs, Record(p)
    PROVE  rows' = rows /\ StepOf(p) /\ Knows(p)'
  <1>1. /\ rows' = rows
        /\ \/ pc' = [pc EXCEPT ![p] = "idle"] /\ call' = [call EXCEPT ![p] = None]
           \/ pc' = [pc EXCEPT ![p] = "series"] /\ call' = call
    BY DEF Record, Goto
  <1>2. /\ pc'[p] \in {"idle", "series"} /\ call'[p] \in {None, call[p]}
        /\ \A q \in Procs \ {p} : pc'[q] = pc[q] /\ call'[q] = call[q]
    BY <1>1 DEF Base, TypeOK
  <1>3. StepOf(p)
    BY <1>2 DEF StepOf, Engaged
  <1>4. Knows(p)'
    BY <1>2 DEF Knows, MoveIsFresh, AdvanceIsFresh, VerdictStands, Reserving
  <1> QED
    BY <1>1, <1>3, <1>4

-------------------------------------------------------------------------------
(* The steps that write a row.                                              *)

\* Who else may be changing the row that p is about to write: nobody, except
\* callers that move it too and have not yet read it inside their transaction.
LEMMA Bystanders ==
    ASSUME IInv, Disciplined, NEW p \in Procs, NEW q \in Procs, p # q,
           pc[p] \in {"commit", "flush"},
           call[p].verb = "create" => rows[call[p].cand.id] = None,
           call[p].cand.id = call[q].cand.id, Changing(q)
    PROVE  /\ pc[p] = "commit" /\ call[p].verb = "reschedule"
           /\ pc[q] \in {"lock", "load"}
  <1>1. /\ call[p] \in Calls /\ call[p].cand \in Appointments
        /\ call[q] \in Calls /\ call[q].cand \in Appointments
        /\ CallShape(p) /\ CallShape(q)
    BY CallTypes DEF IInv, Base, Changing, Reserving
  <1>2. ~Serialised
    <2>1. call[p] # None /\ call[p].cand # None /\ call[q] # None /\ call[q].cand # None
      BY <1>1, NoCallAssumption, NoneAssumption
    <2>2. call[p].cand.id \in Engaged(call[p]) \cap Engaged(call[q])
      BY <2>1 DEF Engaged
    <2> QED
      BY <2>2 DEF IInv, Apart
  <1>3. call[p].verb \in {"create", "reschedule"} /\ call[q].verb \in {"create", "reschedule"}
    BY <1>1, <1>2 DEF Disciplined, Calls
  <1>4. pc[p] = "commit" /\ pc[q] \in {"lock"} \cup Reserving
    BY <1>1, <1>3 DEF CallShape, Changing
  <1>5. rows[call[q].cand.id] # None /\ SameBooking(call[q].cand, rows[call[q].cand.id])
    BY <1>1 DEF CallShape
  <1>6. call[p].verb = "reschedule"
    BY <1>3, <1>5
  <1>7. SameBooking(call[p].cand, rows[call[p].cand.id])
    BY <1>1, <1>4, <1>6 DEF CallShape, Changing, Reserving
  <1>8. Occupied(call[p].cand) \cap Occupied(call[q].cand) # {}
    BY <1>5, <1>7 DEF SameBooking, Occupied
  <1>9. pc[q] \notin Reserving \/ pc[q] = "load"
    BY <1>4, <1>8, BaseIsExclusive DEF IInv, Exclusive, Reserving
  <1> QED
    BY <1>4, <1>6, <1>9

\* A row that takes the place of another adds no conflict to a candidate that
\* had none, when it occupies none of its resources or only differs in status
\* from an active row.
LEMMA NoNewConflict ==
    ASSUME Base, NEW i \in Ids, NEW a \in Appointments, a.id = i,
           rows' = [rows EXCEPT ![i] = a],
           NEW cand, ConflictsIn(cand, rows) = {},
           \/ Occupied(a) \cap Occupied(cand) = {}
           \/ /\ rows[i] \in Appointments /\ Active(rows[i])
              /\ SameBooking(a, rows[i]) /\ a.start = rows[i].start
    PROVE  ConflictsIn(cand, rows') = {}
  <1> SUFFICES ASSUME NEW other \in ConflictsIn(cand, rows')
               PROVE  FALSE
    OBVIOUS
  <1>1. /\ other \in Stored(rows') /\ other.id # cand.id
        /\ Occupied(cand) \cap Occupied(other) # {} /\ Active(other)
        /\ IntervalsOverlap(cand.start - Gap(cand), EndsAt(cand) + Gap(cand),
                            other.start, EndsAt(other))
    BY DEF ConflictsIn, FindConflicts, OthersThan
  <1>2. other = a \/ other \in Stored(rows)
    BY <1>1 DEF Stored, Base, TypeOK
  <1>3. CASE other \in Stored(rows)
    BY <1>1, <1>3 DEF ConflictsIn, FindConflicts, OthersThan
  <1>4. CASE other = a
    <2>1. /\ rows[i] \in Stored(rows) /\ Active(rows[i])
          /\ SameBooking(a, rows[i]) /\ a.start = rows[i].start
      BY <1>1, <1>4, NoneAssumption DEF Stored
    <2>2. /\ rows[i].id # cand.id /\ Occupied(rows[i]) = Occupied(a)
          /\ EndsAt(rows[i]) = EndsAt(a)
      BY <1>1, <1>4, <2>1 DEF SameBooking, Occupied, EndsAt
    <2>3. rows[i] \in ConflictsIn(cand, rows)
      BY <1>1, <1>4, <2>1, <2>2 DEF ConflictsIn, FindConflicts, OthersThan
    <2> QED
      BY <2>3
  <1> QED
    BY <1>2, <1>3, <1>4

\* The table keeps its promise if the new row keeps it towards the others.
LEMMA OverlapOnlyWithTheNew ==
    ASSUME Base, NoUnsanctionedOverlap, NEW i \in Ids, NEW a \in Appointments, a.id = i,
           rows' = [rows EXCEPT ![i] = a],
           \A b \in Stored(rows) : b.id # i /\ (Clash(a, b) \/ Clash(b, a)) =>
                a.overbooked \/ b.overbooked
    PROVE  NoUnsanctionedOverlap'
  <1> SUFFICES ASSUME NEW x \in Stored(rows'), NEW y \in Stored(rows'),
                      x.id # y.id, Clash(x, y)
               PROVE  x.overbooked \/ y.overbooked
    BY DEF NoUnsanctionedOverlap
  <1>1. (x = a \/ x \in Stored(rows)) /\ (y = a \/ y \in Stored(rows))
    BY DEF Stored, Base, TypeOK
  <1>2. x.overbooked \in BOOLEAN /\ y.overbooked \in BOOLEAN
    BY <1>1 DEF Stored, Base, TypeOK, Appointments
  <1>3. CASE x \in Stored(rows) /\ y \in Stored(rows)
    BY <1>3 DEF NoUnsanctionedOverlap
  <1>4. CASE x = a /\ y \in Stored(rows)
    BY <1>4
  <1>5. CASE x \in Stored(rows) /\ y = a
    BY <1>5
  <1> QED
    BY <1>1, <1>3, <1>4, <1>5

\* A write leaves the others what they know of the rows.
LEMMA WriteLeavesKnowledge ==
    ASSUME IInv, Disciplined, NEW p \in Procs, NEW a \in Appointments,
           pc[p] \in {"commit", "flush"},
           a.id = call[p].cand.id, SameBooking(a, call[p].cand),
           rows' = [rows EXCEPT ![a.id] = a],
           pc' = [pc EXCEPT ![p] = "record"],
           call' = call,
           call[p].verb = "create" => rows[a.id] = None,
           call[p].verb = "reschedule" => a.status = rows[a.id].status,
           pc[p] = "flush" =>
              /\ rows[a.id] \in Appointments /\ Active(rows[a.id])
              /\ SameBooking(a, rows[a.id]) /\ a.start = rows[a.id].start
    PROVE  /\ StepOf(p)
           /\ \A q \in Procs : Knows(q)'
           /\ Apart'
  <1>1. \A q \in Procs \ {p} : pc'[q] = pc[q] /\ call'[q] = call[q]
    BY DEF IInv, Base, TypeOK
  <1>2. pc'[p] = "record" /\ a.id \in Ids
    BY DEF IInv, Base, TypeOK, Appointments
  <1>3. \A j \in Ids \ {a.id} : rows'[j] = rows[j]
    BY DEF IInv, Base, TypeOK
  <1>4. rows'[a.id] = a
    BY <1>2 DEF IInv, Base, TypeOK
  <1>5. Knows(p)'
    BY <1>2 DEF Knows, MoveIsFresh, AdvanceIsFresh, VerdictStands, Reserving
  <1>6. ASSUME NEW q \in Procs \ {p}
        PROVE  MoveIsFresh(q)' /\ AdvanceIsFresh(q)'
    <2>1. MoveIsFresh(q) /\ AdvanceIsFresh(q)
      BY DEF IInv
    <2>2. Changing(q) => call[q].cand.id \in Ids
      BY CallTypes DEF IInv, Base, Changing, Reserving, Appointments
    <2>3. CASE ~Changing(q) \/ call[q].cand.id # a.id
      BY <1>1, <1>3, <2>1, <2>2, <2>3
         DEF Changing, MoveIsFresh, AdvanceIsFresh, Reserving
    <2>4. CASE Changing(q) /\ call[q].cand.id = a.id
      <3>1. call[p].verb = "reschedule" /\ pc[q] \in {"lock", "load"}
        BY <2>4, Bystanders
      <3> QED
        BY <1>1, <1>4, <2>1, <2>4, <3>1 DEF MoveIsFresh, AdvanceIsFresh, Reserving
    <2> QED
      BY <2>3, <2>4
  <1>7. ASSUME NEW q \in Procs \ {p}
        PROVE  VerdictStands(q)'
    <2>1. SUFFICES ASSUME pc[q] = "commit", ~call[q].cand.overbooked
                   PROVE  ConflictsIn(call[q].cand, rows') = {}
      BY <1>1 DEF VerdictStands, ConflictsIn, OthersThan, Stored
    <2>2. ConflictsIn(call[q].cand, rows) = {}
      BY <2>1 DEF IInv, VerdictStands
    <2>3. CASE pc[p] = "commit"
      <3>1. Occupied(call[p].cand) \cap Occupied(call[q].cand) = {}
        BY <2>1, <2>3, BaseIsExclusive DEF IInv, Exclusive, Reserving
      <3>2. Occupied(a) \cap Occupied(call[q].cand) = {}
        BY <3>1 DEF SameBooking, Occupied
      <3> QED
        BY <1>2, <2>2, <3>2, NoNewConflict DEF IInv
    <2>4. CASE pc[p] = "flush"
      BY <1>2, <2>2, <2>4, NoNewConflict DEF IInv
    <2> QED
      BY <2>3, <2>4
  <1>8. StepOf(p)
    BY <1>1 DEF StepOf
  <1>9. Apart'
    BY DEF IInv, Apart
  <1> QED
    BY <1>5, <1>6, <1>7, <1>8, <1>9 DEF Knows

LEMMA CommitKeepsIInv ==
    ASSUME IInv, Disciplined, NEW p \in Procs, Commit(p), ~Fail(p)
    PROVE  IInv'
  <1> DEFINE c == call[p]
             a == IF c.verb = "create" THEN Persisted(c.cand) ELSE Written(c)
  <1>1. /\ pc[p] = "commit"
        /\ c.verb = "create" => rows[c.cand.id] = None
        /\ rows' = [rows EXCEPT ![c.cand.id] = a]
        /\ pc' = [pc EXCEPT ![p] = "record"]
        /\ call' = call
    BY DEF Commit, Goto
  <1>2. c \in Calls /\ c.cand \in Appointments /\ c.cand.id \in Ids
    BY <1>1, CallTypes DEF IInv, Appointments
  <1>3. /\ a \in Appointments /\ SameBooking(a, c.cand)
        /\ a.start = c.cand.start /\ a.overbooked = c.cand.overbooked
        /\ c.verb = "reschedule" => a.status = rows[c.cand.id].status
    <2>1. CASE c.verb = "create"
      BY <1>2, <2>1, PersistedIsAppointment DEF Persisted, Appointments
    <2>2. CASE c.verb # "create"
      <3>1. c.verb = "reschedule"
        BY <1>1, <2>2 DEF IInv, Base, CallShape, Reserving
      <3>2. rows[c.cand.id] # None /\ SameBooking(c.cand, rows[c.cand.id])
        BY <1>1, <3>1 DEF IInv, Base, CallShape, Changing, Reserving
      <3>3. rows[c.cand.id] \in Appointments /\ c.cand # None
        BY <1>2, <3>2, NoneAssumption DEF IInv, Base, TypeOK
      <3>4. c.loaded = rows[c.cand.id] /\ c.cand.status = rows[c.cand.id].status
        BY <1>1, <3>1 DEF IInv, MoveIsFresh, Reserving
      <3>5. a = Written(c)
        BY <2>2
      <3>6. a \in Appointments /\ SameBooking(a, rows[c.cand.id])
        BY <1>2, <3>2, <3>3, <3>4, <3>5, WrittenIsAppointment
      <3>7. /\ a.start = c.cand.start /\ a.status = c.cand.status
            /\ a.overbooked = c.cand.overbooked
        BY <1>2, <3>3, <3>4, <3>5, WrittenWhenFresh
      <3> HIDE DEF a
      <3> QED
        BY <3>2, <3>4, <3>6, <3>7 DEF SameBooking
    <2> QED
      BY <2>1, <2>2
  <1>4. a.id = c.cand.id
    BY <1>3 DEF SameBooking
  <1> HIDE DEF a
  <1>5. Base'
    BY CommitKeepsBase DEF IInv
  <1>6. (\A q \in Procs : Knows(q)') /\ Apart'
    BY <1>1, <1>3, <1>4, WriteLeavesKnowledge
  <1>7. NoUnsanctionedOverlap'
    <2>1. ASSUME NEW b \in Stored(rows), b.id # a.id, Clash(a, b) \/ Clash(b, a),
                 ~c.cand.overbooked
          PROVE  FALSE
      <3>1. b \in Appointments
        BY DEF Stored, IInv, Base, TypeOK
      <3>2. ConflictsIn(a, rows) = {}
        BY <1>1, <1>3, <2>1, SameConflicts DEF IInv, VerdictStands
      <3>3. b \in ConflictsIn(a, rows)
        BY <1>3, <2>1, <3>1, ClashIsConflict DEF ConflictsIn, FindConflicts, OthersThan
      <3> QED
        BY <3>2, <3>3
    <2>2. \A b \in Stored(rows) : b.id # a.id /\ (Clash(a, b) \/ Clash(b, a)) =>
             a.overbooked \/ b.overbooked
      BY <1>3, <2>1
    <2> QED
      BY <1>1, <1>2, <1>3, <1>4, <2>2, OverlapOnlyWithTheNew DEF IInv
  <1> QED
    BY <1>5, <1>6, <1>7 DEF IInv, Knows

LEMMA FlushKeepsIInv ==
    ASSUME IInv, Disciplined, NEW p \in Procs, Flush(p)
    PROVE  IInv'
  <1> DEFINE c == call[p]
             row == rows[c.cand.id]
             a == Written(c)
  <1>1. /\ pc[p] = "flush"
        /\ rows' = [rows EXCEPT ![c.cand.id] = a]
        /\ pc' = [pc EXCEPT ![p] = "record"]
        /\ call' = call
    BY DEF Flush, Goto
  <1>2. c \in Calls /\ c.cand \in Appointments /\ c.cand.id \in Ids
    BY <1>1, CallTypes DEF IInv, Appointments
  <1>3. row # None /\ SameBooking(c.cand, row) /\ c.verb \notin {"create", "reschedule"}
    BY <1>1 DEF IInv, Base, CallShape, Changing
  <1>4. row \in Appointments /\ c.cand # None
    BY <1>2, <1>3, NoneAssumption DEF IInv, Base, TypeOK
  <1>5. /\ c.loaded = row
        /\ c.cand = [row EXCEPT !.status = c.cand.status]
        /\ <<row.status, c.cand.status>> \in Allowed
    BY <1>1 DEF IInv, AdvanceIsFresh
  <1>6. a \in Appointments /\ SameBooking(a, row)
    BY <1>2, <1>3, <1>4, <1>5, WrittenIsAppointment
  <1>7. a.start = row.start /\ a.overbooked = row.overbooked
    BY <1>2, <1>4, <1>5, WrittenWhenFresh DEF Appointments
  <1>8. Active(row)
    BY <1>5, AdvancingDeactivates DEF Active
  <1> HIDE DEF a
  <1>9. a.id = c.cand.id /\ SameBooking(a, c.cand)
    BY <1>3, <1>6 DEF SameBooking
  <1>10. Base'
    BY FlushKeepsBase DEF IInv
  <1>11. (\A q \in Procs : Knows(q)') /\ Apart'
    BY <1>1, <1>3, <1>4, <1>6, <1>7, <1>8, <1>9, WriteLeavesKnowledge
  <1>12. NoUnsanctionedOverlap'
    <2>1. ASSUME NEW b \in Stored(rows), b.id # a.id, Clash(a, b) \/ Clash(b, a)
          PROVE  a.overbooked \/ b.overbooked
      <3>1. row \in Stored(rows) /\ row.id = a.id
        BY <1>2, <1>3, <1>6 DEF Stored, SameBooking
      <3>2. Clash(row, b) \/ Clash(b, row)
        BY <1>6, <1>7, <1>8, <2>1
           DEF Clash, Distance, Gap, Occupied, EndsAt, SameBooking
      <3> QED
        BY <1>7, <2>1, <3>1, <3>2 DEF IInv, NoUnsanctionedOverlap
    <2> QED
      BY <1>1, <1>2, <1>6, <1>9, <2>1, OverlapOnlyWithTheNew DEF IInv
  <1> QED
    BY <1>10, <1>11, <1>12 DEF IInv, Knows

-------------------------------------------------------------------------------
(* The theorems.                                                            *)

\* A step that writes no row keeps the invariant if its caller knows enough.
LEMMA QuietStepKeepsIInv ==
    ASSUME IInv, Base', NEW p \in Procs, rows' = rows, StepOf(p), Knows(p)'
    PROVE  IInv'
  <1>1. \A q \in Procs \ {p} : pc'[q] = pc[q] /\ call'[q] = call[q]
    BY DEF StepOf
  <1>2. ASSUME NEW q \in Procs PROVE MoveIsFresh(q)' /\ AdvanceIsFresh(q)'
    <2>1. MoveIsFresh(q) /\ AdvanceIsFresh(q)
      BY DEF IInv
    <2> QED
      BY <1>1, <2>1 DEF Knows, MoveIsFresh, AdvanceIsFresh
  <1>3. ASSUME NEW q \in Procs PROVE VerdictStands(q)'
    <2>1. VerdictStands(q)
      BY DEF IInv
    <2> QED
      BY <1>1, <2>1 DEF Knows, VerdictStands, ConflictsIn, OthersThan, Stored
  <1>4. NoUnsanctionedOverlap'
    BY DEF IInv, NoUnsanctionedOverlap, Stored
  <1>5. Apart'
    BY <1>1 DEF IInv, Apart, StepOf
  <1> QED
    BY <1>2, <1>3, <1>4, <1>5 DEF IInv

LEMMA NextKeepsIInv ==
    ASSUME IInv, Disciplined, [Next]_vars
    PROVE  IInv'
  <1>1. Base'
    BY NextKeepsBase DEF IInv
  <1>2. CASE UNCHANGED vars
    <2>1. \A p \in Procs : MoveIsFresh(p)' /\ AdvanceIsFresh(p)' /\ VerdictStands(p)'
      BY <1>2 DEF vars, IInv, MoveIsFresh, AdvanceIsFresh, VerdictStands, ConflictsIn,
                  OthersThan, Stored
    <2>2. Apart' /\ NoUnsanctionedOverlap'
      BY <1>2 DEF vars, IInv, Apart, NoUnsanctionedOverlap, Stored
    <2> QED
      BY <1>1, <2>1, <2>2 DEF IInv
  <1>3. CASE Next
    <2>1. PICK p \in Procs : BeginCall(p) \/ Acquire(p) \/ Proceed(p) \/ Crash(p)
      BY <1>3 DEF Next
    <2>2. Base /\ Knows(p)
      BY DEF IInv, Knows
    <2>3. CASE Fail(p)
      BY <1>1, <2>2, <2>3, FailKnows, QuietStepKeepsIInv
    <2>4. CASE BeginCall(p)
      <3>1. rows' = rows /\ StepOf(p) /\ Knows(p)'
        BY <2>2, <2>4, CreateKnows, RescheduleKnows, TransitionKnows, CancelSeriesKnows
           DEF BeginCall
      <3> QED
        BY <1>1, <3>1, QuietStepKeepsIInv
    <2>5. CASE Acquire(p) \/ Load(p) \/ Validate(p) \/ Fetch(p) \/ Record(p)
                 \/ NextOccurrence(p)
      <3>1. rows' = rows /\ StepOf(p) /\ Knows(p)'
        BY <2>2, <2>5, AcquireKnows, LoadKnows, ValidateKnows, FetchKnows, RecordKnows,
           NextOccurrenceKnows
      <3> QED
        BY <1>1, <3>1, QuietStepKeepsIInv
    <2>6. CASE (Commit(p) /\ ~Fail(p)) \/ Flush(p)
      BY <2>6, CommitKeepsIInv, FlushKeepsIInv
    <2>7. CASE DeadlockAbort(p) \/ BusyTimeout(p) \/ Crash(p)
      BY <2>3, <2>7 DEF DeadlockAbort, BusyTimeout, Crash
    <2> QED
      BY <2>1, <2>3, <2>4, <2>5, <2>6, <2>7 DEF Proceed
  <1> QED
    BY <1>2, <1>3

LEMMA InitIInv ==
    ASSUME Init
    PROVE  IInv
  <1>1. Base
    BY InitBase
  <1>2. Stored(rows) = {}
    BY DEF Init, Stored
  <1>3. NoUnsanctionedOverlap
    BY <1>2 DEF NoUnsanctionedOverlap
  <1> QED
    BY <1>1, <1>3
       DEF Init, IInv, Apart, Engaged, MoveIsFresh, AdvanceIsFresh, VerdictStands, Reserving

\* Callers that only book and move, or that never work on one appointment at a
\* time, keep the invariant.
THEOREM DisciplinedInvariant ==
    ASSUME Disciplined
    PROVE  Spec => []IInv
  <1>1. IInv /\ [Next]_vars => IInv'
    BY NextKeepsIInv
  <1> QED
    BY <1>1, InitIInv, PTL DEF Spec

\* No double booking: whatever such callers ask for, however many there are and
\* wherever the machine stops, two active appointments of a resource that come
\* too close are there because one of them was let in as an overbooking
\* (sqlalchemy_repository.py:313-380).
THEOREM NoDoubleBooking ==
    ASSUME Disciplined
    PROVE  Spec => []NoUnsanctionedOverlap
  BY DisciplinedInvariant, PTL DEF IInv

===============================================================================
