------------------------------ MODULE Recurrence ------------------------------
(***************************************************************************)
(* generate_occurrences (libragenda/recurrence.py), one turn of its loops  *)
(* per step.  Dates are numbers of days, day 0 is a Monday; the time of    *)
(* day is added to each of them and left out here.                         *)
(***************************************************************************)
EXTENDS Integers, Sequences, FiniteSetsExt

CONSTANTS
    WeekdaySets,  \* the sets of weekdays of the rules, 0 is Monday
    StartDates,   \* the dates rules start on
    Intervals,    \* every how many weeks
    Untils,       \* the last dates of rules, or None
    Counts,       \* the numbers of occurrences of rules, or None
    CycleLimit,   \* 100_000 in the code
    None

ASSUME RecurrenceAssumption ==
    /\ WeekdaySets \subseteq (SUBSET (0 .. 6)) \ {{}}
    /\ StartDates \subseteq Nat
    /\ Intervals \subseteq Nat \ {0}
    /\ Untils \subseteq Nat \cup {None}
    /\ Counts \subseteq (Nat \ {0}) \cup {None}
    /\ CycleLimit \in Nat
    /\ None \notin Nat

\* The rules that RecurrenceRule accepts.
Rules ==
    { rule \in [ weekdays : WeekdaySets, startsOn : StartDates,
                 interval : Intervals, until : Untils, count : Counts ] :
        /\ rule.until # None \/ rule.count # None
        /\ rule.until # None => rule.until >= rule.startsOn }

VARIABLES
    rule,
    cycle,        \* the cycles completed
    days,         \* the weekdays left in this cycle
    occurrences,
    pc            \* "cycle" or "day" while it runs, then "done" or "raised"

vars == <<rule, cycle, days, occurrences, pc>>

Init ==
    /\ rule \in Rules
    /\ cycle = 0
    /\ days = {}
    /\ occurrences = <<>>
    /\ pc = "cycle"

\* Variant to check the properties against, not the code: the weeks are counted
\* from the date the rule starts on.
CycleStart_FromStart == rule.startsOn + 7 * cycle * rule.interval

\* The Monday of the week the rule starts in.
WeekStart == rule.startsOn - (rule.startsOn % 7)

CycleStart == WeekStart + 7 * cycle * rule.interval

Complete == rule.count # None /\ Len(occurrences) >= rule.count

\* The test of the outer loop.
Cycle ==
    /\ pc = "cycle"
    /\ IF Complete
       THEN pc' = "done" /\ UNCHANGED days
       ELSE pc' = "day" /\ days' = rule.weekdays
    /\ UNCHANGED <<rule, cycle, occurrences>>

\* Variant to check the properties against, not the code: the last date is left
\* out.
Beyond_Exclusive(date) == rule.until # None /\ date >= rule.until

Beyond(date) == rule.until # None /\ date > rule.until

\* Variant to check the properties against, not the code: a weekday before the
\* start is looked at again and again.
Day_Stuck ==
    LET date == CycleStart + Min(days)
    IN  /\ pc = "day"
        /\ days # {}
        /\ ~Complete
        /\ date >= rule.startsOn
        /\ IF Beyond(date)
           THEN pc' = "done" /\ UNCHANGED occurrences
           ELSE occurrences' = Append(occurrences, date) /\ UNCHANGED pc
        /\ days' = days \ {Min(days)}
        /\ UNCHANGED <<rule, cycle>>

\* One weekday of the cycle: before the start, beyond the end, or an occurrence
\* that may be the last.
Day ==
    LET date == CycleStart + Min(days)
    IN  /\ pc = "day"
        /\ days # {}
        /\ ~Complete
        /\ CASE date < rule.startsOn -> UNCHANGED <<occurrences, pc>>
             [] date >= rule.startsOn /\ Beyond(date) -> pc' = "done" /\ UNCHANGED occurrences
             [] OTHER -> occurrences' = Append(occurrences, date) /\ UNCHANGED pc
        /\ days' = days \ {Min(days)}
        /\ UNCHANGED <<rule, cycle>>

\* Variant to check the properties against, not the code: the limit ends the
\* loop one cycle early.
OverLimit_Early == cycle + 1 >= CycleLimit

OverLimit == cycle + 1 > CycleLimit

EndCycle ==
    /\ pc = "day"
    /\ days = {} \/ Complete
    /\ cycle' = cycle + 1
    /\ pc' = IF OverLimit THEN "raised" ELSE "cycle"
    /\ UNCHANGED <<rule, days, occurrences>>

Next == Cycle \/ Day \/ EndCycle

Spec == Init /\ [][Next]_vars

FairSpec == Spec /\ WF_vars(Next)

-------------------------------------------------------------------------------

\* The dates before a bound that a rule names: its weekdays, in every interval-th
\* week counted from the week it starts in, from its start to its end.
Named(bound) ==
    { date \in rule.startsOn .. bound - 1 :
        /\ date % 7 \in rule.weekdays
        /\ (date \div 7 - rule.startsOn \div 7) % rule.interval = 0
        /\ rule.until # None => date <= rule.until }

Ascending(dates) == \A i \in 1 .. Len(dates) - 1 : dates[i] < dates[i + 1]

\* The dates below this one have been dealt with.
Frontier ==
    CASE pc = "day" /\ days # {} -> CycleStart + Min(days)
      [] pc = "day" /\ days = {} -> CycleStart + 7
      [] pc = "done" /\ ~Complete -> rule.until + 1
      [] OTHER -> CycleStart

Found == { occurrences[i] : i \in 1 .. Len(occurrences) }

\* At every step the occurrences are the first dates the rule names, in their
\* order and none twice (recurrence.py:46-60).
FirstOnesInOrder ==
    /\ Ascending(occurrences)
    /\ \/ Found = Named(Frontier)
       \/ /\ Complete
          /\ Len(occurrences) = rule.count
          /\ Found = Named(1 + Max(Found))

\* What is returned is all of them: as many as the count says, unless the last
\* date comes first (recurrence.py:46, 53-55).
NothingMissing ==
    pc = "done" =>
        \/ rule.count # None /\ Len(occurrences) = rule.count
        \/ /\ rule.until # None
           /\ Len(occurrences) = Cardinality(Named(rule.until + 1))

\* Only a rule that reaches beyond as many cycles as the limit allows is refused
\* (recurrence.py:61-63).
RefusedOnlyWhenLong ==
    pc = "raised" =>
        LET bound == WeekStart + 7 * rule.interval * CycleLimit
        IN  \/ rule.until # None /\ rule.until >= bound
            \/ rule.count # None /\ Cardinality(Named(bound)) < rule.count

\* The days left of a cycle are its last ones, and those behind were not beyond the
\* end: what the next turn of a loop needs to know.
CycleUnderWay ==
    /\ \A d \in rule.weekdays, e \in days : e <= d => d \in days
    /\ pc = "day" =>
          /\ \A d \in rule.weekdays \ days :
                CycleStart + d < rule.startsOn \/ ~Beyond(CycleStart + d)
          /\ rule.count # None => Cardinality(Named(CycleStart)) < rule.count
    /\ pc \in {"cycle", "day"} => cycle <= CycleLimit

\* The inductive invariant: as long as occurrences are wanted there are exactly
\* those before the frontier, and the last that was wanted is the last there is
\* (recurrence.py:46-63).
IInv ==
    /\ rule \in Rules /\ cycle \in Nat /\ days \subseteq rule.weekdays
    /\ occurrences \in Seq(Nat) /\ pc \in {"cycle", "day", "done", "raised"}
    /\ \A i, j \in 1 .. Len(occurrences) : i < j => occurrences[i] < occurrences[j]
    /\ ~Complete => Found = Named(Frontier)
    /\ Complete => /\ Len(occurrences) = rule.count
                   /\ Found = Named(1 + occurrences[Len(occurrences)])
    /\ pc = "done" /\ ~Complete => rule.until # None
    /\ CycleUnderWay
    /\ RefusedOnlyWhenLong

\* The expansion of any rule ends (recurrence.py:46-64).
Ends == <>(pc \in {"done", "raised"})

===============================================================================
