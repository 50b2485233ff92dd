------------------------------ MODULE Scheduler -------------------------------
(***************************************************************************)
(* InMemoryScheduler (libragenda/application.py) over an appointment       *)
(* repository and a transition log (repositories.py,                       *)
(* sqlalchemy_repository.py).                                              *)
(*                                                                         *)
(* Procs are the threads or processes that call it.  They share the rows   *)
(* and the log, and every point at which another caller can get in between *)
(* is a step of its own:                                                   *)
(*                                                                         *)
(*   create       [lock ... load  validate  commit]  [record]              *)
(*   reschedule   get [lock ... load  validate  commit]  [record]          *)
(*   confirm, start, cancel, complete                                      *)
(*                get  [fetch  flush]  [record]                            *)
(*   cancel_series  list  ( get  [fetch  flush]  [record] )*               *)
(*                                                                         *)
(* where the brackets are one transaction each.  A call that raises rolls  *)
(* its transaction back and returns (Fail); a call that raises before it   *)
(* has touched anything is no step at all.                                 *)
(***************************************************************************)
EXTENDS AgendaRules

CONSTANTS
    Procs,       \* the concurrent callers
    Verbs,       \* the operations they use
    Backend,     \* the repository adapter: "memory", "sqlite" or "postgres"
    Faults,      \* what may go wrong: "crash" of a caller, "busy" database
    Serialised,  \* TRUE when callers never work on one appointment at a time
    MaxLog       \* bound on the length of an appointment's history

TransitionVerbs == {"confirm", "start", "cancel", "complete"}

ASSUME SchedulerAssumption ==
    /\ Verbs \subseteq {"create", "reschedule", "cancel_series"} \cup TransitionVerbs
    /\ Backend \in {"memory", "sqlite", "postgres"}
    /\ Faults \subseteq {"crash", "busy"}
    /\ Serialised \in BOOLEAN
    /\ MaxLog \in Nat

\* The status each verb of the transition table leads to.
Target ==
    [ confirm  |-> "confirmed", start    |-> "in_progress",
      cancel   |-> "cancelled", complete |-> "completed" ]

\* What reserve() and relocate() lock: the rows of the occupied resources in
\* PostgreSQL, the writer lock of the file in SQLite, the RLock in memory.
LockNames == IF Backend = "postgres" THEN Resources ELSE {"writer"}

\* Variant to check the properties against, not the code: the secondary
\* resources are not locked.
Wanted_PrimaryOnly(a) == IF Backend = "postgres" THEN {a.resource} ELSE {"writer"}

Wanted(a) == IF Backend = "postgres" THEN Occupied(a) ELSE {"writer"}

VARIABLES
    rows,   \* appointment id |-> the stored appointment, or None
    log,    \* appointment id |-> its recorded transitions, oldest first
    owner,  \* lock |-> the caller that holds it, or None
    pc,     \* caller |-> where its call is
    call    \* caller |-> the local variables of its call, or None

vars == <<rows, log, owner, pc, call>>

\* The steps between the first lock and the end of reserve() or relocate().
Reserving == {"load", "validate", "commit"}

PCs == {"idle", "lock", "series", "fetch", "flush", "record"} \cup Reserving

Calls ==
    [ verb   : Verbs,
      allow  : BOOLEAN,                   \* allow_overbooking
      cand   : Appointments \cup {None},  \* the appointment to be written
      from   : Statuses \cup {None},      \* the status it was read with
      loaded : Appointments \cup {None},  \* the row as the session loaded it
      todo   : SUBSET Appointments ]      \* occurrences left, as they were listed

Transitions == [from : Statuses \cup {None}, to : Statuses]

ASSUME NoCallAssumption == None \notin Procs \cup Calls

Init ==
    /\ rows = [i \in Ids |-> None]
    /\ log = [i \in Ids |-> <<>>]
    /\ owner = [l \in LockNames |-> None]
    /\ pc = [p \in Procs |-> "idle"]
    /\ call = [p \in Procs |-> None]

-------------------------------------------------------------------------------
(* Beginning a call.                                                        *)

\* The appointments a call works on, now or later.
Engaged(c) ==
    IF c = None THEN {}
    ELSE { a.id : a \in c.todo } \cup (IF c.cand = None THEN {} ELSE {c.cand.id})

Free(p, ids) ==
    /\ pc[p] = "idle"
    /\ Serialised => \A q \in Procs \ {p} : Engaged(call[q]) \cap ids = {}

\* The bound: no new change of an appointment whose history is full.
Room(ids) == \A i \in ids : Len(log[i]) < MaxLog

Begin(p, step, c) ==
    /\ pc' = [pc EXCEPT ![p] = step]
    /\ call' = [call EXCEPT ![p] = c]
    /\ UNCHANGED <<rows, log, owner>>

Create(p) ==
    \E b \in Bookings, allow \in BOOLEAN :
        /\ "create" \in Verbs
        /\ Free(p, {b.id})
        /\ Begin(p, "lock", [ verb |-> "create", allow |-> allow, cand |-> b,
                              from |-> None, loaded |-> None, todo |-> {} ])

\* The row read here is only compared with the one relocate() finds by the
\* latter's id: what is written later is built from this copy.
Reschedule(p) ==
    \E i \in Ids, start \in Starts, offset \in Offsets, allow \in BOOLEAN :
        /\ "reschedule" \in Verbs
        /\ rows[i] # None
        /\ rows[i].status \in {"pending", "confirmed"}
        /\ Free(p, {i}) /\ Room({i})
        /\ Begin(p, "lock",
                 [ verb |-> "reschedule", allow |-> allow,
                   cand |-> [rows[i] EXCEPT !.start = start, !.offset = offset],
                   from |-> rows[i].status, loaded |-> None, todo |-> {} ])

\* Variant to check the properties against, not the code: the history is given
\* the new status as the old one.
Advancing_FromTarget(i, target, verb, todo) ==
    [ verb |-> verb, allow |-> FALSE,
      cand |-> [rows[i] EXCEPT !.status = target],
      from |-> target, loaded |-> None, todo |-> todo ]

\* get() and the check against the table, for a copy with the target status.
Advancing(i, target, verb, todo) ==
    [ verb |-> verb, allow |-> FALSE,
      cand |-> [rows[i] EXCEPT !.status = target],
      from |-> rows[i].status, loaded |-> None, todo |-> todo ]

Transition(p) ==
    \E verb \in TransitionVerbs \cap Verbs, i \in Ids :
        /\ rows[i] # None
        /\ <<rows[i].status, Target[verb]>> \in Allowed
        /\ Free(p, {i}) /\ Room({i})
        /\ Begin(p, "fetch", Advancing(i, Target[verb], verb, {}))

CancelSeries(p) ==
    \E series \in { b.series : b \in Bookings } \ {None} :
        LET todo == { a \in Stored(rows) :
                        a.series = series /\ <<a.status, "cancelled">> \in Allowed }
            ids == { a.id : a \in todo }
        IN  /\ "cancel_series" \in Verbs
            /\ todo # {}
            /\ Free(p, ids) /\ Room(ids)
            /\ Begin(p, "series", [ verb |-> "cancel_series", allow |-> FALSE,
                                    cand |-> None, from |-> None,
                                    loaded |-> None, todo |-> todo ])

-------------------------------------------------------------------------------
(* Ending one.                                                              *)

Goto(p, step) == pc' = [pc EXCEPT ![p] = step]

\* Variant to check the properties against, not the code: whoever ends a
\* transaction frees the locks of everybody.
Released_Everything(p) == [l \in LockNames |-> None]

Released(p) == [l \in LockNames |-> IF owner[l] = p THEN None ELSE owner[l]]

\* Variant to check the properties against, not the code: the transaction of a
\* call that raised is left open.
Fail_LeftOpen(p) ==
    /\ Goto(p, "idle")
    /\ call' = [call EXCEPT ![p] = None]
    /\ UNCHANGED <<rows, log, owner>>

\* An exception reaches the caller: the open transaction is rolled back.
Fail(p) ==
    /\ Goto(p, "idle")
    /\ call' = [call EXCEPT ![p] = None]
    /\ owner' = Released(p)
    /\ UNCHANGED <<rows, log>>

-------------------------------------------------------------------------------
(* reserve() and relocate().                                                *)

\* SELECT ... FOR UPDATE names no order, so the rows are locked in any.
Acquire(p) ==
    /\ pc[p] = "lock"
    /\ \E l \in Wanted(call[p].cand) :
        /\ owner[l] = None
        /\ owner' = [owner EXCEPT ![l] = p]
    /\ Goto(p, IF \A l \in Wanted(call[p].cand) : owner'[l] = p THEN "load" ELSE "lock")
    /\ UNCHANGED <<rows, log, call>>

\* reserve() refuses an id that is stored, relocate() one that is not.
Load(p) ==
    LET row == rows[call[p].cand.id]
    IN  /\ pc[p] = "load"
        /\ IF (row = None) = (call[p].verb = "create")
           THEN /\ call' = [call EXCEPT ![p].loaded = row]
                /\ Goto(p, "validate")
                /\ UNCHANGED <<rows, log, owner>>
           ELSE Fail(p)

Validate(p) ==
    LET cand == call[p].cand
    IN  /\ pc[p] = "validate"
        /\ IF MayLand(cand, rows, call[p].allow)
           THEN /\ call' = [call EXCEPT ![p].cand = Landed(cand, rows)]
                /\ Goto(p, "commit")
                /\ UNCHANGED <<rows, log, owner>>
           ELSE Fail(p)

\* UtcDateTime stores an instant in UTC; the dictionary keeps what it is given.
Persisted(a) == IF Backend = "memory" THEN a ELSE [a EXCEPT !.offset = 0]

\* Variant to check the properties against, not the code: the columns that
\* changed are the ones left out.
Merged_Inverted(new, loaded, current) == IF new = loaded THEN new ELSE current

\* What one column holds after an UPDATE: SQLAlchemy leaves out the columns
\* whose new value is the one the session had loaded.
Merged(new, loaded, current) == IF new = loaded THEN current ELSE new

\* _copy_to_row followed by the flush; in memory the whole object is replaced.
Written(c) ==
    LET current == rows[c.cand.id]
    IN  IF Backend = "memory"
        THEN c.cand
        ELSE [ current EXCEPT
               !.start = Merged(c.cand.start, c.loaded.start, current.start),
               !.status = Merged(c.cand.status, c.loaded.status, current.status),
               !.overbooked =
                    Merged(c.cand.overbooked, c.loaded.overbooked, current.overbooked) ]

\* The INSERT of an id that appeared meanwhile violates the primary key.
Commit(p) ==
    LET c == call[p]
        i == c.cand.id
    IN  /\ pc[p] = "commit"
        /\ IF c.verb = "create" /\ rows[i] # None
           THEN Fail(p)
           ELSE /\ rows' = [rows EXCEPT ![i] = IF c.verb = "create"
                                              THEN Persisted(c.cand)
                                              ELSE Written(c)]
                /\ owner' = Released(p)
                /\ Goto(p, "record")
                /\ UNCHANGED <<log, call>>

-------------------------------------------------------------------------------
(* save() and record(): transactions that lock nothing but the SQLite file. *)

WriterFree == Backend = "sqlite" => owner["writer"] = None

Fetch(p) ==
    /\ pc[p] = "fetch"
    /\ call' = [call EXCEPT ![p].loaded = rows[call[p].cand.id]]
    /\ Goto(p, "flush")
    /\ UNCHANGED <<rows, log, owner>>

Flush(p) ==
    /\ pc[p] = "flush"
    /\ WriterFree
    /\ rows' = [rows EXCEPT ![call[p].cand.id] = Written(call[p])]
    /\ Goto(p, "record")
    /\ UNCHANGED <<log, owner, call>>

\* cancel_series() returns after the record of its last occurrence.
Record(p) ==
    LET c == call[p]
    IN  /\ pc[p] = "record"
        /\ WriterFree
        /\ log' = [log EXCEPT ![c.cand.id] =
                    Append(@, [from |-> c.from, to |-> c.cand.status])]
        /\ IF c.todo = {}
           THEN Goto(p, "idle") /\ call' = [call EXCEPT ![p] = None]
           ELSE Goto(p, "series") /\ UNCHANGED call
        /\ UNCHANGED <<rows, owner>>

\* The list is sorted by start, except in memory; each occurrence is read again.
NextOccurrence(p) ==
    /\ pc[p] = "series"
    /\ \E a \in call[p].todo :
        /\ Backend # "memory" => \A b \in call[p].todo : a.start <= b.start
        /\ IF <<rows[a.id].status, "cancelled">> \in Allowed
           THEN Begin(p, "fetch",
                      Advancing(a.id, "cancelled", "cancel_series", call[p].todo \ {a}))
           ELSE Fail(p)

-------------------------------------------------------------------------------
(* What the environment does to a call.                                     *)

\* Callers that wait for each other in a circle: PostgreSQL aborts one of them.
DeadlockAbort(p) ==
    /\ Backend = "postgres"
    /\ \E circle \in SUBSET Procs :
        /\ p \in circle
        /\ \A q \in circle :
            /\ pc[q] = "lock"
            /\ \E l \in Wanted(call[q].cand) : owner[l] \in circle \ {q}
    /\ Fail(p)

\* "database is locked": another transaction kept the SQLite file too long.
BusyTimeout(p) ==
    /\ "busy" \in Faults
    /\ Backend = "sqlite"
    /\ pc[p] \in {"lock", "flush", "record"}
    /\ owner["writer"] \notin {None, p}
    /\ Fail(p)

\* A caller dies; the database rolls its open transaction back.  In memory the
\* rows would die with it.
Crash(p) ==
    /\ "crash" \in Faults
    /\ Backend # "memory"
    /\ pc[p] # "idle"
    /\ Fail(p)

-------------------------------------------------------------------------------

\* What a call does by itself once it has begun.
Proceed(p) ==
    \/ Load(p) \/ Validate(p) \/ Commit(p)
    \/ Fetch(p) \/ Flush(p) \/ Record(p) \/ NextOccurrence(p)
    \/ DeadlockAbort(p) \/ BusyTimeout(p)

BeginCall(p) == Create(p) \/ Reschedule(p) \/ Transition(p) \/ CancelSeries(p)

Next == \E p \in Procs : BeginCall(p) \/ Acquire(p) \/ Proceed(p) \/ Crash(p)

Spec == Init /\ [][Next]_vars

===============================================================================
