-------------------------- MODULE SchedulerInvariant --------------------------
(***************************************************************************)
(* The inductive invariant behind NoUnsanctionedOverlap: what each call    *)
(* knows about the rows at each of its steps.  One part holds of any       *)
(* callers; the other of callers that stay out of each other's way.        *)
(***************************************************************************)
EXTENDS SchedulerProperties

\* Each row is kept under its own id.
RowsKeepTheirIds == \A i \in Ids : rows[i] # None => rows[i].id = i

\* The fields of an appointment that nothing ever changes.
SameBooking(a, b) ==
    /\ a.id = b.id
    /\ a.resource = b.resource
    /\ a.secondary = b.secondary
    /\ a.duration = b.duration
    /\ a.branch = b.branch
    /\ a.series = b.series

\* A caller past the locks holds all of them.
LocksHeld ==
    \A p \in Procs : pc[p] \in Reserving =>
        \A l \in Wanted(call[p].cand) : owner[l] = p

\* p is about to change a row that exists.
Changing(p) ==
    \/ pc[p] \in {"fetch", "flush"}
    \/ pc[p] \in {"lock"} \cup Reserving /\ call[p].verb = "reschedule"

\* Which calls reach which step, and with which local variables filled in.
CallShape(p) ==
    /\ pc[p] \notin {"idle", "series"} => call[p].cand # None
    /\ pc[p] \in {"lock"} \cup Reserving => call[p].verb \in {"create", "reschedule"}
    /\ pc[p] \in {"fetch", "flush"} => call[p].verb \notin {"create", "reschedule"}
    /\ pc[p] = "series" \/ (pc[p] # "idle" /\ call[p].todo # {}) =>
        call[p].verb = "cancel_series"
    /\ pc[p] # "idle" => \A a \in call[p].todo : rows[a.id] # None
    /\ Changing(p) =>
        /\ rows[call[p].cand.id] # None
        /\ SameBooking(call[p].cand, rows[call[p].cand.id])

\* What holds of every caller, disciplined or not.
Base ==
    /\ TypeOK
    /\ RowsKeepTheirIds
    /\ LocksHeld
    /\ \A p \in Procs : CallShape(p)

-------------------------------------------------------------------------------

\* Callers that stay out of each other's way: one at a time per appointment, or
\* any number of them that only book and move.
Disciplined == Serialised \/ Verbs \subseteq {"create", "reschedule"}

\* A move still agrees with the status of the row it is going to change, and
\* from the moment the session has loaded that row it is the row.
MoveIsFresh(p) ==
    /\ pc[p] \in {"lock"} \cup Reserving /\ call[p].verb = "reschedule" =>
        call[p].cand.status = rows[call[p].cand.id].status
    /\ pc[p] \in {"validate", "commit"} /\ call[p].verb = "reschedule" =>
        call[p].loaded = rows[call[p].cand.id]

\* A status change still starts from the row it read.
AdvanceIsFresh(p) ==
    /\ pc[p] \in {"fetch", "flush"} =>
        /\ call[p].cand = [rows[call[p].cand.id] EXCEPT !.status = call[p].cand.status]
        /\ <<rows[call[p].cand.id].status, call[p].cand.status>> \in Allowed
    /\ pc[p] = "flush" => call[p].loaded = rows[call[p].cand.id]

\* The verdict of the validator still stands when it is acted upon: no row that
\* appeared or changed since then gets in the way of an ordinary booking.
VerdictStands(p) ==
    pc[p] = "commit" /\ ~call[p].cand.overbooked =>
        ConflictsIn(call[p].cand, rows) = {}

\* Serialised callers are engaged with different appointments.
Apart ==
    Serialised =>
        \A p, q \in Procs : p # q => Engaged(call[p]) \cap Engaged(call[q]) = {}

\* The inductive invariant: the parts above together with the property they
\* are there for (sqlalchemy_repository.py:313-392, application.py:190-248).
\* TLC checks it, as part of AgendaInv, and SchedulerProofs proves it.
IInv ==
    /\ Base
    /\ Apart
    /\ \A p \in Procs : MoveIsFresh(p) /\ AdvanceIsFresh(p) /\ VerdictStands(p)
    /\ NoUnsanctionedOverlap

-------------------------------------------------------------------------------
(* What a call about to write knows beyond that: enough to promise an agenda. *)

\* What p is going to store is a booking, or a row that may be moved, with the
\* offset its caller wrote.
AskedFor(p) ==
    /\ pc[p] \in {"lock"} \cup Reserving /\ call[p].verb = "create" =>
        \E b \in Bookings :
            call[p].cand = [b EXCEPT !.overbooked = call[p].cand.overbooked]
    /\ pc[p] \in {"lock"} \cup Reserving /\ call[p].verb = "reschedule" =>
        /\ call[p].cand.offset \in Offsets
        /\ call[p].cand.status \in {"pending", "confirmed"}

\* The place was looked up before the write.
PlaceStands(p) ==
    pc[p] = "commit" =>
        /\ CheckResourceBranch(call[p].cand, Calendar)
        /\ IsAppointmentAvailable(call[p].cand, Calendar)

\* The cap still leaves room for the overbooking it was asked about.
CapStands(p) ==
    pc[p] = "commit" /\ call[p].cand.overbooked => UnderCap(call[p].cand, rows)

\* A database keeps every instant in UTC.
StoredInUtc ==
    Backend # "memory" => \A i \in Ids : rows[i] # None => rows[i].offset = 0

Standing(p) == AskedFor(p) /\ PlaceStands(p) /\ CapStands(p)

\* The invariant under which every step of the scheduler is one of the agenda
\* (application.py:162-248, sqlalchemy_repository.py:313-392).
AgendaInv == IInv /\ StoredInUtc /\ \A p \in Procs : Standing(p)

-------------------------------------------------------------------------------
(* What the history has to do with the rows in between.                     *)

\* The status an appointment has according to its history.
LastRecorded(i) == IF log[i] = <<>> THEN None ELSE log[i][Len(log[i])].to

\* p has written a row and not yet recorded it.
Owes(p, i) == pc[p] = "record" /\ call[p].cand.id = i

\* What is owed is still what the row says.
DebtIsFresh(p) ==
    pc[p] = "record" =>
        /\ rows[call[p].cand.id] # None
        /\ rows[call[p].cand.id].status = call[p].cand.status

\* The old status a call is going to record is the one it is going to replace.
FromIsFresh(p) ==
    pc[p] \in {"lock", "fetch", "flush"} \cup Reserving =>
        call[p].from = IF call[p].verb = "create" THEN None
                       ELSE rows[call[p].cand.id].status

\* The history ends where the next entry will begin: at the status of the row,
\* or at the one the row had before somebody owed the history an entry.
LogKeepsUp(i) ==
    /\ Chained(log[i])
    /\ \A p \in Procs : Owes(p, i) => LastRecorded(i) = call[p].from
    /\ (\A p \in Procs : ~Owes(p, i)) =>
            LastRecorded(i) = IF rows[i] = None THEN None ELSE rows[i].status

\* Behind HistoryNeverAhead, for disciplined callers that may crash.
LagInv == IInv /\ HistoryNeverAhead /\ \A p \in Procs : DebtIsFresh(p)

\* Behind HistoryTellsTheStatus, for serialised callers that do not.
HistoryInv ==
    /\ IInv
    /\ \A p \in Procs : DebtIsFresh(p) /\ FromIsFresh(p)
    /\ \A i \in Ids : LogKeepsUp(i)

===============================================================================
