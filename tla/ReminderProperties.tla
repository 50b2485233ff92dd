--------------------------- MODULE ReminderProperties ---------------------------
(***************************************************************************)
(* What becomes of the reminders.                                          *)
(***************************************************************************)
EXTENDS Reminders

\* Every variable holds values of its type and a call has local variables
\* exactly while it runs (reminder_dispatcher.py:24-31).
TypeOK ==
    /\ agenda \in [Visits -> Entries]
    /\ now \in 0 .. LastInstant
    /\ ledger \in [Pairs -> (0 .. LastInstant) \cup {None}]
    /\ delivered \in [Pairs -> 0 .. 2]
    /\ pc \in [Procs -> {"idle", "listed", "sending", "recording"}]
    /\ excused \subseteq Pairs
    /\ call \in [Procs -> Calls \cup {None}]
    /\ \A p \in Procs : call[p] = None <=> pc[p] = "idle"

\* The ledger is never ahead of the port: what it holds was delivered, so no
\* client misses a reminder because of a failure between the two
\* (reminder_dispatcher.py:28-30).
RecordedWasDelivered ==
    \A pair \in Pairs : ledger[pair] # None => delivered[pair] > 0

\* What one step may do to the ledger.
ReportStays == \A pair \in Pairs : ledger[pair] # None => ledger'[pair] = ledger[pair]

\* The time at which a reminder was first recorded stays, so that a report of
\* the reminders sent in a period never changes afterwards
\* (reminder_repository.py:26-39, list_sent).
ReportsStay == [][ReportStays]_vars

\* A client gets a reminder twice only when the first delivery was not recorded
\* because something failed, or when two workers had it due at the same time:
\* never because the agenda, the clock or the other reminders moved on
\* (reminder_dispatcher.py:25-30).
TwiceOnlyForAReason == \A pair \in Pairs \ excused : delivered[pair] <= 1

-------------------------------------------------------------------------------

Due(pair) == agenda[pair[1]].remindable /\ InWindow(pair, agenda, now)

\* The vertical keeps calling dispatch(); a call goes on by itself; a worker, a
\* port and a ledger that are tried over and over work in the end.
Fairness ==
    \A p \in Procs :
        /\ WF_vars(Dispatch(p))
        /\ SF_vars(FindDue(p)) /\ SF_vars(Send(p)) /\ SF_vars(Mark(p))

FairSpec == Spec /\ Fairness

\* A reminder that is due gets delivered, unless its time passes or its
\* appointment changes: neither a failure nor the reminders before it hold it up
\* for ever (reminder_dispatcher.py:24-31).
Reminded == \A pair \in Pairs : Due(pair) ~> delivered[pair] > 0 \/ ~Due(pair)

===============================================================================
