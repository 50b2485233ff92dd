------------------------- MODULE SchedulerProperties --------------------------
(***************************************************************************)
(* What the scheduler has to keep true however its callers interleave.     *)
(***************************************************************************)
EXTENDS Scheduler

\* Every variable holds values of its type: rows and candidates are
\* appointments, locks belong to callers, a call has its local variables
\* exactly while it is running (application.py, create to _record).
TypeOK ==
    /\ rows \in [Ids -> Appointments \cup {None}]
    /\ log \in [Ids -> Seq(Transitions)]
    /\ owner \in [LockNames -> Procs \cup {None}]
    /\ pc \in [Procs -> PCs]
    /\ call \in [Procs -> Calls \cup {None}]
    /\ \A p \in Procs : call[p] = None <=> pc[p] = "idle"

-------------------------------------------------------------------------------
(* The slot.                                                                *)

\* Distance two appointments have to keep: the breathing room of the agenda
\* they are both booked in, none when they only share some other resource.
Distance(a, b) == IF a.resource = b.resource THEN Gap(a) ELSE 0

Clash(a, b) ==
    /\ Occupied(a) \cap Occupied(b) # {}
    /\ Active(a) /\ Active(b)
    /\ IntervalsOverlap(a.start - Distance(a, b), EndsAt(a) + Distance(a, b),
                        b.start, EndsAt(b))

\* Two active appointments that share a resource never overlap, nor come
\* closer than the agenda's breathing room, unless one of them was let in as
\* an overbooking: reserve() and relocate() validate and write in one locked
\* transaction (sqlalchemy_repository.py:313-380, domain.py:134-138).
NoUnsanctionedOverlap ==
    \A a, b \in Stored(rows) :
        a.id # b.id /\ Clash(a, b) => a.overbooked \/ b.overbooked

\* On no local day does an agenda hold more active overbookings than its
\* policy accepts (application.py:304-320).
OverbookingCap ==
    \A a \in Stored(rows) : Cardinality(Overbookings(a, Stored(rows))) <= Cap(a)
                            \/ ~(a.overbooked /\ Active(a))

\* Two callers whose appointments share a resource are never both between
\* their first read and their write (reserve and relocate).
Exclusive ==
    \A p, q \in Procs :
        /\ p # q
        /\ pc[p] \in Reserving /\ pc[q] \in Reserving
        => Occupied(call[p].cand) \cap Occupied(call[q].cand) = {}

-------------------------------------------------------------------------------
(* The life of an appointment.                                              *)

Closed == {"completed", "cancelled", "no_show"}

\* A closed appointment stays as it is: nothing reopens, moves or relabels it
\* (application.py:66-78 and 206-208).
ClosedIsFinal ==
    [][ \A i \in Ids :
            rows[i] # None /\ rows[i].status \in Closed => rows'[i] = rows[i] ]_vars

\* Nobody is in the middle of changing appointment i.
Settled(i) == \A p \in Procs : call[p] = None \/ i \notin Engaged(call[p])

Chained(history) ==
    \A n \in 1 .. Len(history) :
        history[n].from = IF n = 1 THEN None ELSE history[n-1].to

\* Between calls the history of an appointment tells its whole life: it
\* begins with its creation, each entry starts where the one before ended,
\* and the last one names the status it has (domain.py:175-187,
\* application.py:146-148).
HistoryTellsTheStatus ==
    \A i \in Ids : Settled(i) =>
        IF rows[i] = None
        THEN log[i] = <<>>
        ELSE /\ log[i] # <<>>
             /\ Chained(log[i])
             /\ log[i][Len(log[i])].to = rows[i].status

\* How far along its life an appointment with a status is.
Stage ==
    [ s \in Statuses |-> CASE s = "pending" -> 0
                           [] s = "confirmed" -> 1
                           [] s = "in_progress" -> 2
                           [] OTHER -> 3 ]

\* Whatever crashes between a write and its record, the history only lags: it
\* is in the order of the appointment's life and never tells of a status the
\* appointment has not reached (application.py:246-247: save, then _record).
HistoryNeverAhead ==
    \A i \in Ids : \A n \in 1 .. Len(log[i]) :
            /\ rows[i] # None
            /\ Stage[log[i][n].to] <= Stage[rows[i].status]
            /\ n > 1 => Stage[log[i][n-1].to] <= Stage[log[i][n].to]

-------------------------------------------------------------------------------
(* Progress and refinement.                                                 *)

\* A caller that has begun goes on: the code never waits but for a lock.  A
\* waiting SQLite connection ends up with the lock or with "database is
\* locked"; PostgreSQL queues the waiters of a row and the RLock wakes one of
\* its waiters, so there a lock that keeps being released is got in the end.
Fairness ==
    \A p \in Procs :
        /\ WF_vars(Acquire(p) \/ Proceed(p))
        /\ Backend # "sqlite" => SF_vars(Acquire(p))

FairSpec == Spec /\ Fairness

\* Every call returns, with its result or with an exception.
Returns == \A p \in Procs : pc[p] # "idle" ~> pc[p] = "idle"

\* The scheduler implements the agenda: the table it stores only ever changes
\* by bookings, moves and status changes that the agenda allows at once.
Promised == INSTANCE Agenda WITH book <- rows

Implements == Promised!Spec

===============================================================================
