------------------------------- MODULE Reminders -------------------------------
(***************************************************************************)
(* ReminderDispatcher (libragenda/reminder_dispatcher.py) over the agenda, *)
(* the ledger of sent reminders (repositories.py, reminder_repository.py)  *)
(* and the notification port of a vertical (notifications.py).             *)
(*                                                                         *)
(*   dispatch(now)   list  sent_pairs  ( send  mark_sent )*                *)
(*                                                                         *)
(* Procs are the workers that call it.  The agenda and the clock go on     *)
(* meanwhile; the instant a call is given stays the one it began at.       *)
(***************************************************************************)
EXTENDS Integers, Sequences

CONSTANTS
    Procs,        \* the concurrent workers
    Visits,       \* the appointments
    Starts,       \* the instants they may be booked for
    LeadTimes,    \* the policies, in their order: how long before the start
    Backend,      \* the repository adapter: "memory" or "sql"
    Faults,       \* what may go wrong: "crash", failing "send", failing "mark"
    Mobile,       \* TRUE when appointments may be moved and cancelled
    LastInstant,  \* bound on the clock
    None

Policies == DOMAIN LeadTimes

Pairs == Visits \X Policies

ASSUME RemindersAssumption ==
    /\ Starts \subseteq Int
    /\ LeadTimes \in Seq(Nat \ {0})
    /\ Backend \in {"memory", "sql"}
    /\ Faults \subseteq {"crash", "send", "mark"}
    /\ Mobile \in BOOLEAN
    /\ LastInstant \in Nat
    /\ None \notin Int \cup Pairs

VARIABLES
    agenda,     \* appointment |-> its start and whether it may still happen
    now,        \* the clock
    ledger,     \* pair |-> when it was recorded as sent, or None
    delivered,  \* pair |-> how often it was delivered: never, once, more often
    pc,         \* worker |-> where its call is
    call,       \* worker |-> the local variables of its call, or None
    excused     \* pairs a failure left unrecorded, or that two calls had due at once

vars == <<agenda, now, ledger, delivered, pc, call, excused>>

Entries == [start : Starts, remindable : BOOLEAN]

Calls ==
    [ at : 0 .. LastInstant,           \* the now it was given
      listed : [Visits -> Entries],    \* the agenda as it was listed
      due : SUBSET Pairs,              \* the reminders it has to send
      todo : SUBSET Pairs,             \* the ones it has not sent yet
      current : Pairs \cup {None} ]    \* the one it has sent and not recorded

ASSUME NoCallAssumption == None \notin Calls

Init ==
    /\ agenda \in [Visits -> [start : Starts, remindable : {TRUE}]]
    /\ now = 0
    /\ ledger = [pair \in Pairs |-> None]
    /\ delivered = [pair \in Pairs |-> 0]
    /\ pc = [p \in Procs |-> "idle"]
    /\ call = [p \in Procs |-> None]
    /\ excused = {}

-------------------------------------------------------------------------------
(* The rule.                                                                *)

InWindow(pair, listed, at) ==
    LET start == listed[pair[1]].start
    IN  start - LeadTimes[pair[2]] <= at /\ at < start

\* Variant to check the properties against, not the code: what was already sent
\* is not left out.
DueReminders_Again(listed, at, alreadySent) ==
    { pair \in Pairs : listed[pair[1]].remindable /\ InWindow(pair, listed, at) }

DueReminders(listed, at, alreadySent) ==
    { pair \in Pairs :
        /\ listed[pair[1]].remindable
        /\ pair \notin alreadySent
        /\ InWindow(pair, listed, at) }

\* Variant to check the properties against, not the code: an appointment counts
\* as reminded of after its first reminder.
SentPairs_ByVisit == { pair \in Pairs : \E i \in Policies : ledger[<<pair[1], i>>] # None }

SentPairs == { pair \in Pairs : ledger[pair] # None }

-------------------------------------------------------------------------------
(* One dispatch.                                                            *)

Goto(p, step) == pc' = [pc EXCEPT ![p] = step]

Return(p) ==
    /\ Goto(p, "idle")
    /\ call' = [call EXCEPT ![p] = None]

Dispatch(p) ==
    /\ pc[p] = "idle"
    /\ Goto(p, "listed")
    /\ call' = [call EXCEPT ![p] =
                  [at |-> now, listed |-> agenda, due |-> {}, todo |-> {}, current |-> None]]
    /\ UNCHANGED <<agenda, now, ledger, delivered, excused>>

\* What a call has found due and not recorded yet.
Pending(p) == IF call[p] = None THEN {} ELSE call[p].todo \cup ({call[p].current} \ {None})

FindDue(p) ==
    LET due == DueReminders(call[p].listed, call[p].at, SentPairs)
    IN  /\ pc[p] = "listed"
        /\ IF due = {}
           THEN Return(p)
           ELSE /\ Goto(p, "sending")
                /\ call' = [call EXCEPT ![p].due = due, ![p].todo = due]
        /\ excused' = excused \cup (due \cap UNION { Pending(q) : q \in Procs \ {p} })
        /\ UNCHANGED <<agenda, now, ledger, delivered>>

\* The policies of an appointment in their order, the appointments by their
\* start when the database lists them and in any order in memory.
Before(first, second, listed) ==
    IF first[1] = second[1]
    THEN first[2] < second[2]
    ELSE Backend # "memory" /\ listed[first[1]].start < listed[second[1]].start

FirstOf(p) ==
    { pair \in call[p].todo :
        \A other \in call[p].todo : ~Before(other, pair, call[p].listed) }

Delivered(pair) ==
    [delivered EXCEPT ![pair] = IF @ < 2 THEN @ + 1 ELSE @]

\* Variant to check the properties against, not the code: what is sent is
\* recorded before it is sent, so a port that raises loses it.
Send_RecordedFirst(p) ==
    /\ pc[p] = "sending"
    /\ \E pair \in FirstOf(p) :
        /\ ledger' = [ledger EXCEPT ![pair] = call[p].at]
        /\ Goto(p, "recording")
        /\ call' = [call EXCEPT ![p].todo = @ \ {pair}, ![p].current = pair]
    /\ UNCHANGED <<agenda, now, delivered, excused>>

Send(p) ==
    /\ pc[p] = "sending"
    /\ \E pair \in FirstOf(p) :
        /\ delivered' = Delivered(pair)
        /\ Goto(p, "recording")
        /\ call' = [call EXCEPT ![p].todo = @ \ {pair}, ![p].current = pair]
    /\ UNCHANGED <<agenda, now, ledger, excused>>

\* What follows the record of one reminder: the next one, or the result.
Recorded(p) ==
    IF call[p].todo = {}
    THEN Return(p)
    ELSE Goto(p, "sending") /\ call' = [call EXCEPT ![p].current = None]

\* Variant to check the properties against, not the code: a reminder that is
\* recorded already is recorded anew.
MarkSent_Upsert(p) == [ledger EXCEPT ![call[p].current] = call[p].at]

\* The unique constraint keeps the first record, the dictionary the last.
MarkSent(p) ==
    [ledger EXCEPT ![call[p].current] =
        IF @ # None /\ Backend # "memory" THEN @ ELSE call[p].at]

Mark(p) ==
    /\ pc[p] = "recording"
    /\ ledger' = MarkSent(p)
    /\ Recorded(p)
    /\ UNCHANGED <<agenda, now, delivered, excused>>

\* The port raises, having delivered the reminder or not; nothing catches it.
SendFails(p) ==
    /\ "send" \in Faults
    /\ pc[p] = "sending"
    /\ \/ UNCHANGED <<delivered, excused>>
       \/ \E pair \in FirstOf(p) :
            delivered' = Delivered(pair) /\ excused' = excused \cup {pair}
    /\ Return(p)
    /\ UNCHANGED <<agenda, now, ledger>>

\* mark_sent() only catches the violated constraint.
MarkFails(p) ==
    /\ "mark" \in Faults
    /\ pc[p] = "recording"
    /\ Return(p)
    /\ excused' = excused \cup {call[p].current}
    /\ UNCHANGED <<agenda, now, ledger, delivered>>

Crash(p) ==
    /\ "crash" \in Faults
    /\ pc[p] # "idle"
    /\ Return(p)
    /\ excused' = excused \cup ({call[p].current} \ {None})
    /\ UNCHANGED <<agenda, now, ledger, delivered>>

-------------------------------------------------------------------------------
(* What goes on meanwhile.                                                  *)

Tick ==
    /\ now < LastInstant
    /\ now' = now + 1
    /\ UNCHANGED <<agenda, ledger, delivered, pc, call, excused>>

\* The scheduler moves an appointment, or ends it one way or another.
Change(v) ==
    /\ Mobile
    /\ agenda[v].remindable
    /\ \/ \E start \in Starts : agenda' = [agenda EXCEPT ![v].start = start]
       \/ agenda' = [agenda EXCEPT ![v].remindable = FALSE]
    /\ UNCHANGED <<now, ledger, delivered, pc, call, excused>>

Step(p) ==
    \/ Dispatch(p) \/ FindDue(p) \/ Send(p) \/ Mark(p)
    \/ SendFails(p) \/ MarkFails(p) \/ Crash(p)

Next == (\E p \in Procs : Step(p)) \/ Tick \/ (\E v \in Visits : Change(v))

Spec == Init /\ [][Next]_vars

===============================================================================
