--------------------------- MODULE RecurrenceProofs ----------------------------
(***************************************************************************)
(* The expansion of any rule: any weekdays, start, interval, end and count *)
(* and any limit on the cycles.                                            *)
(***************************************************************************)
EXTENDS Recurrence, FiniteSetTheorems, SequenceTheorems, TLAPS

-------------------------------------------------------------------------------
(* Rules, weeks and dates.                                                  *)

LEMMA RuleTypes ==
    ASSUME rule \in Rules
    PROVE  /\ rule.weekdays \subseteq 0..6 /\ rule.weekdays # {}
           /\ rule.startsOn \in Nat /\ rule.interval \in Nat \ {0}
           /\ rule.until \in Nat \cup {None} /\ rule.count \in (Nat \ {0}) \cup {None}
           /\ rule.until # None => rule.until \in Nat /\ rule.until >= rule.startsOn
           /\ rule.count # None => rule.count \in Nat \ {0}
           /\ rule.until # None \/ rule.count # None
           /\ None \notin Nat /\ CycleLimit \in Nat
  <1>1. /\ rule \in [ weekdays : WeekdaySets, startsOn : StartDates,
                       interval : Intervals, until : Untils, count : Counts ]
        /\ rule.until # None \/ rule.count # None
        /\ rule.until # None => rule.until >= rule.startsOn
    BY DEF Rules
  <1>2. /\ rule.weekdays \in WeekdaySets /\ rule.startsOn \in StartDates
        /\ rule.interval \in Intervals /\ rule.until \in Untils /\ rule.count \in Counts
    BY <1>1
  <1>3. rule.weekdays \in (SUBSET (0..6)) \ {{}}
    BY <1>2, RecurrenceAssumption
  <1>4. /\ rule.startsOn \in Nat /\ rule.interval \in Nat \ {0}
        /\ rule.until \in Nat \cup {None} /\ rule.count \in (Nat \ {0}) \cup {None}
        /\ None \notin Nat /\ CycleLimit \in Nat
    BY <1>2, RecurrenceAssumption
  <1>5. rule.weekdays \subseteq 0..6 /\ rule.weekdays # {}
    BY <1>3
  <1>6. rule.count # None => rule.count \in Nat \ {0}
    BY <1>4
  <1>7. rule.until # None => rule.until \in Nat /\ rule.until >= rule.startsOn
    BY <1>1, <1>4
  <1> QED
    BY <1>1, <1>4, <1>5, <1>6, <1>7

\* The weeks and the weekdays of the rule, apart from its start and its end.
OnRule(date) ==
    /\ date % 7 \in rule.weekdays
    /\ (date \div 7 - rule.startsOn \div 7) % rule.interval = 0

\* A multiple of n and a bit more.
LEMMA Remainder ==
    ASSUME NEW c \in Nat, NEW n \in Nat \ {0}, NEW j \in 0..(n - 1)
    PROVE  (c * n + j) % n = j
  <1> DEFINE x == c * n + j
             y == x \div n
             r == x % n
  <1>1. x \in Nat /\ y \in Int /\ r \in 0..(n - 1)
    OBVIOUS
  <1>2. x = n * y + r
    OBVIOUS
  <1> DEFINE z == y - c
  <1>3. z \in Int /\ n * z = j - r
    BY <1>1, <1>2
  <1> HIDE DEF x, y, r, z
  <1>4. CASE z >= 1
    <2>1. n * z >= n
      BY <1>3, <1>4
    <2> QED
      BY <1>1, <1>3, <2>1
  <1>5. CASE z <= -1
    <2>1. n * z <= -n
      BY <1>3, <1>5
    <2> QED
      BY <1>1, <1>3, <2>1
  <1>6. CASE z = 0
    BY <1>1, <1>3, <1>6 DEF r, x
  <1> QED
    BY <1>3, <1>4, <1>5, <1>6

LEMMA CycleTypes ==
    ASSUME rule \in Rules, cycle \in Nat
    PROVE  /\ cycle * rule.interval \in Nat
           /\ WeekStart = 7 * (rule.startsOn \div 7)
           /\ CycleStart = 7 * (rule.startsOn \div 7 + cycle * rule.interval)
           /\ WeekStart \in Nat /\ CycleStart \in Nat
           /\ WeekStart <= rule.startsOn /\ rule.startsOn < WeekStart + 7
           /\ WeekStart <= CycleStart
  <1>1. rule.startsOn \in Nat /\ rule.interval \in Nat
    BY RuleTypes
  <1> DEFINE weeks == cycle * rule.interval
             first == rule.startsOn \div 7
  <1>2. weeks \in Nat
    BY <1>1
  <1>3. 7 * cycle * rule.interval = 7 * weeks
    BY <1>1
  <1>4. first \in Nat /\ WeekStart = 7 * first
        /\ WeekStart <= rule.startsOn /\ rule.startsOn < WeekStart + 7
    BY <1>1 DEF WeekStart
  <1> HIDE DEF weeks, first
  <1>5. CycleStart = 7 * first + 7 * weeks
    BY <1>3, <1>4 DEF CycleStart
  <1>6. CycleStart = 7 * (first + weeks) /\ CycleStart \in Nat /\ WeekStart <= CycleStart
        /\ WeekStart \in Nat
    BY <1>2, <1>4, <1>5
  <1> QED
    BY <1>2, <1>4, <1>6 DEF weeks, first

\* From the Monday of a cycle to the next one, the rule is about the weekdays of the
\* first week.
LEMMA DatesOfACycle ==
    ASSUME rule \in Rules, cycle \in Nat, NEW k \in 0..(7 * rule.interval - 1)
    PROVE  OnRule(CycleStart + k) <=> k \in rule.weekdays
  <1> DEFINE weeks == cycle * rule.interval
             first == rule.startsOn \div 7
             n     == rule.interval
             j     == k \div 7
             date  == CycleStart + k
  <1>1. /\ rule.startsOn \in Nat /\ n \in Nat \ {0} /\ rule.weekdays \subseteq 0..6
        /\ weeks \in Nat /\ CycleStart = 7 * (first + weeks) /\ first \in Nat
    BY RuleTypes, CycleTypes
  <1>2. j \in 0..(n - 1) /\ k \in Nat /\ (j = 0 => k % 7 = k) /\ (j # 0 => k > 6)
    BY <1>1
  <1>3. date \div 7 = first + weeks + j /\ date % 7 = k % 7
    <2> HIDE DEF weeks, first
    <2>1. date = 7 * (first + weeks) + k
      BY <1>1
    <2> HIDE DEF date
    <2> QED
      BY <1>1, <1>2, <2>1
  <1>4. (weeks + j) % n = j
    BY <1>1, <1>2, Remainder
  <1>5. date \div 7 - first = weeks + j
    <2> HIDE DEF weeks, first, j, date
    <2> QED
      BY <1>1, <1>2, <1>3
  <1>6. OnRule(date) <=> k % 7 \in rule.weekdays /\ j = 0
    BY <1>3, <1>4, <1>5 DEF OnRule
  <1>7. k \in rule.weekdays => j = 0
    BY <1>1, <1>2
  <1> HIDE DEF j, date
  <1>8. OnRule(date) <=> k \in rule.weekdays
    BY <1>2, <1>6, <1>7
  <1> QED
    BY <1>8 DEF date

LEMMA NamedTells ==
    ASSUME rule \in Rules, NEW bound \in Int
    PROVE  Named(bound) =
             { date \in rule.startsOn .. bound - 1 : OnRule(date) /\ ~Beyond(date) }
  <1>1. ASSUME NEW date \in rule.startsOn .. bound - 1
        PROVE  OnRule(date) /\ ~Beyond(date) <=>
                 /\ date % 7 \in rule.weekdays
                 /\ (date \div 7 - rule.startsOn \div 7) % rule.interval = 0
                 /\ rule.until # None => date <= rule.until
    BY RuleTypes DEF OnRule, Beyond
  <1> QED
    BY <1>1 DEF Named

\* Dates that the rule does not name make no difference.
LEMMA NamedSame ==
    ASSUME rule \in Rules, NEW bound \in Int, NEW later \in Int, bound <= later,
           \A date \in bound .. later - 1 : date >= rule.startsOn => ~OnRule(date) \/ Beyond(date)
    PROVE  Named(later) = Named(bound)
  <1>1. rule.startsOn \in Int
    BY RuleTypes
  <1>2. \A date \in rule.startsOn .. later - 1 :
           date \notin rule.startsOn .. bound - 1 => ~(OnRule(date) /\ ~Beyond(date))
    BY <1>1
  <1>3. rule.startsOn .. bound - 1 \subseteq rule.startsOn .. later - 1
    BY <1>1
  <1> QED
    BY <1>2, <1>3, NamedTells

LEMMA NamedOneMore ==
    ASSUME rule \in Rules, NEW date \in Int, date >= rule.startsOn, OnRule(date), ~Beyond(date)
    PROVE  Named(date + 1) = Named(date) \cup {date}
  <1>1. rule.startsOn \in Int
    BY RuleTypes
  <1>2. rule.startsOn .. (date + 1) - 1 = (rule.startsOn .. date - 1) \cup {date}
    BY <1>1
  <1> QED
    BY <1>2, NamedTells

LEMMA LeastOfWeek ==
    ASSUME NEW S \in SUBSET (0..6), S # {}
    PROVE  Min(S) \in S /\ Min(S) \in 0..6 /\ \A y \in S : Min(S) <= y
  <1> DEFINE before == OpToRel(<, Nat)
  <1>1. S \subseteq Nat
    OBVIOUS
  <1>2. PICK x \in S : \A y \in S : <<y, x>> \notin before
    BY <1>1, NatLessThanWellFounded, WFMin
  <1>3. \A u, v \in Nat : u < v => <<u, v>> \in before
    BY DEF OpToRel
  <1>4. \A y \in S : x <= y
    <2> TAKE y \in S
    <2>1. ~(y < x)
      BY <1>1, <1>2, <1>3
    <2> QED
      BY <1>1, <2>1
  <1>5. Min(S) \in S /\ \A y \in S : Min(S) <= y
    BY <1>4 DEF Min
  <1> QED
    BY <1>5

-------------------------------------------------------------------------------
(* What has been found.                                                     *)

Ordered == \A i, j \in 1 .. Len(occurrences) : i < j => occurrences[i] < occurrences[j]

LEMMA AsManyAsFound ==
    ASSUME occurrences \in Seq(Nat), Ordered
    PROVE  IsFiniteSet(Found) /\ Cardinality(Found) = Len(occurrences)
  <1> DEFINE places == 1 .. Len(occurrences)
             f == [ i \in places |-> occurrences[i] ]
  <1>1. Len(occurrences) \in Nat /\ \A i \in places : occurrences[i] \in Nat
    BY LenProperties, ElementOfSeq
  <1>2. IsFiniteSet(places) /\ Cardinality(places) = Len(occurrences)
    BY <1>1, FS_Interval
  <1>3. f \in [ places -> Found ]
    BY DEF Found
  <1>4. \A i, j \in places : f[i] = f[j] => i = j
    BY <1>1 DEF Ordered
  <1>5. f \in Injection(places, Found)
    BY <1>3, <1>4 DEF Injection, IsInjective
  <1>6. \A date \in Found : \E i \in places : f[i] = date
    BY DEF Found
  <1>7. f \in Surjection(places, Found)
    BY <1>3, <1>6 DEF Surjection
  <1> HIDE DEF f, places
  <1> QED
    BY <1>2, <1>5, <1>7, FS_Surjection

\* What is appended is found after all the others.
LEMMA OneMoreFound ==
    ASSUME occurrences \in Seq(Nat), Ordered, NEW date \in Nat,
           occurrences' = Append(occurrences, date), \A other \in Found : other < date
    PROVE  /\ occurrences' \in Seq(Nat) /\ Len(occurrences') = Len(occurrences) + 1
           /\ occurrences'[Len(occurrences')] = date
           /\ Ordered'
           /\ Found' = Found \cup {date}
  <1> DEFINE n == Len(occurrences)
  <1>1. n \in Nat /\ \A i \in 1..n : occurrences[i] \in Nat
    BY LenProperties, ElementOfSeq
  <1>2. /\ occurrences' \in Seq(Nat) /\ Len(occurrences') = n + 1
        /\ \A i \in 1..n : occurrences'[i] = occurrences[i]
        /\ occurrences'[n + 1] = date
    BY AppendProperties
  <1>3. \A i \in 1..n : occurrences[i] < date
    BY DEF Found
  <1> HIDE DEF n
  <1>4. 1..(n + 1) = (1..n) \cup {n + 1} /\ n + 1 \notin 1..n
    BY <1>1
  <1>5. Ordered'
    <2> SUFFICES ASSUME NEW i \in 1..(n + 1), NEW j \in 1..(n + 1), i < j
                 PROVE  occurrences'[i] < occurrences'[j]
      BY <1>2 DEF Ordered
    <2>1. i \in 1..n
      BY <1>1
    <2>2. CASE j = n + 1
      BY <1>2, <1>3, <2>1, <2>2
    <2>3. CASE j \in 1..n
      BY <1>2, <2>1, <2>3 DEF Ordered, n
    <2> QED
      BY <1>4, <2>2, <2>3
  <1>6. Found' = { occurrences'[i] : i \in 1..(n + 1) }
    BY <1>2 DEF Found
  <1>7. Found = { occurrences[i] : i \in 1..n }
    BY DEF Found, n
  <1>8. Found' = Found \cup {date}
    BY <1>2, <1>4, <1>6, <1>7
  <1> QED
    BY <1>2, <1>5, <1>8 DEF n

-------------------------------------------------------------------------------
(* The inductive invariant.                                                 *)

LEMMA Start ==
    ASSUME Init
    PROVE  IInv
  <1>1. /\ rule \in Rules /\ cycle = 0 /\ days = {} /\ occurrences = <<>> /\ pc = "cycle"
    BY DEF Init
  <1>2. occurrences \in Seq(Nat) /\ Len(occurrences) = 0 /\ Found = {}
    BY <1>1 DEF Found
  <1>3. ~Complete
    BY <1>1, <1>2, RuleTypes DEF Complete
  <1>4. /\ rule.startsOn \in Nat /\ WeekStart <= rule.startsOn /\ WeekStart \in Nat
        /\ CycleStart = 7 * (rule.startsOn \div 7 + 0) /\ WeekStart = 7 * (rule.startsOn \div 7)
    BY <1>1, RuleTypes, CycleTypes
  <1>5. Frontier = CycleStart /\ CycleStart <= rule.startsOn
    BY <1>1, <1>4 DEF Frontier
  <1>6. rule.startsOn .. CycleStart - 1 = {}
    BY <1>4, <1>5
  <1>7. Named(Frontier) = {}
    BY <1>5, <1>6 DEF Named
  <1>8. CycleUnderWay
    BY <1>1, RuleTypes DEF CycleUnderWay
  <1>9. RefusedOnlyWhenLong
    BY <1>1 DEF RefusedOnlyWhenLong
  <1> QED
    BY <1>1, <1>2, <1>3, <1>7, <1>8, <1>9 DEF IInv

\* A cycle begins: the days before its first weekday are not of the rule.
LEMMA CycleStep ==
    ASSUME IInv, Cycle
    PROVE  IInv'
  <1>1. /\ rule \in Rules /\ cycle \in Nat /\ days \subseteq rule.weekdays
        /\ occurrences \in Seq(Nat) /\ Ordered
        /\ ~Complete => Found = Named(Frontier)
        /\ CycleUnderWay
    BY DEF IInv, Ordered
  <1>2. pc = "cycle" /\ rule' = rule /\ cycle' = cycle /\ occurrences' = occurrences
    BY DEF Cycle
  <1>3. /\ WeekStart' = WeekStart /\ CycleStart' = CycleStart /\ Complete' = Complete
        /\ Found' = Found /\ \A b : Named(b)' = Named(b)
    BY <1>2 DEF WeekStart, CycleStart, Complete, Found, Named
  <1>4. Complete => /\ Len(occurrences)' = rule'.count
                    /\ Found' = Named(1 + occurrences[Len(occurrences)])'
    BY <1>2, <1>3 DEF IInv
  <1>5. (\A i, j \in 1 .. Len(occurrences) : i < j => occurrences[i] < occurrences[j])'
    BY <1>1, <1>2 DEF Ordered
  <1>6. CASE Complete
    <2>1. pc' = "done" /\ days' = days
      BY <1>6 DEF Cycle
    <2>2. CycleUnderWay'
      BY <1>1, <1>2, <2>1 DEF CycleUnderWay
    <2>3. RefusedOnlyWhenLong'
      BY <2>1 DEF RefusedOnlyWhenLong
    <2> QED
      BY <1>1, <1>2, <1>3, <1>4, <1>5, <1>6, <2>1, <2>2, <2>3 DEF IInv
  <1>7. CASE ~Complete
    <2>1. pc' = "day" /\ days' = rule.weekdays
      BY <1>7 DEF Cycle
    <2>2. Found = Named(CycleStart)
      BY <1>1, <1>2, <1>7 DEF Frontier
    <2>3. /\ rule.weekdays \subseteq 0..6 /\ rule.weekdays # {}
          /\ rule.interval \in Nat \ {0} /\ CycleStart \in Nat
      BY <1>1, RuleTypes, CycleTypes
    <2> DEFINE m == Min(rule.weekdays)
    <2>4. m \in 0..6 /\ \A y \in rule.weekdays : m <= y
      BY <2>3, LeastOfWeek
    <2> HIDE DEF m
    <2>5. Frontier' = CycleStart + m
      BY <1>3, <2>1, <2>3 DEF Frontier, m
    <2>6. \A date \in CycleStart .. (CycleStart + m) - 1 : ~OnRule(date)
      <3> TAKE date \in CycleStart .. (CycleStart + m) - 1
      <3> DEFINE k == date - CycleStart
      <3>1. k \in 0..(m - 1) /\ date = CycleStart + k /\ k \in 0..(7 * rule.interval - 1)
        BY <2>3, <2>4
      <3>2. k \notin rule.weekdays
        BY <2>4, <3>1
      <3> HIDE DEF k
      <3> QED
        BY <1>1, <3>1, <3>2, DatesOfACycle
    <2>7. Named(CycleStart + m) = Named(CycleStart)
      BY <1>1, <2>3, <2>4, <2>6, NamedSame
    <2>8. (Found = Named(Frontier))'
      <3>1. Named(Frontier)' = Named(Frontier')
        BY <1>2 DEF Named
      <3> QED
        BY <1>3, <2>2, <2>5, <2>7, <3>1
    <2>9. rule.count # None => Cardinality(Named(CycleStart)) < rule.count
      <3>1. Cardinality(Named(CycleStart)) = Len(occurrences)
        BY <1>1, <2>2, AsManyAsFound
      <3> QED
        BY <1>1, <1>7, <3>1, RuleTypes, LenProperties DEF Complete
    <2>10. CycleUnderWay'
      BY <1>1, <1>2, <1>3, <2>1, <2>9 DEF CycleUnderWay
    <2>11. RefusedOnlyWhenLong'
      BY <2>1 DEF RefusedOnlyWhenLong
    <2> QED
      BY <1>1, <1>2, <1>3, <1>5, <1>7, <2>1, <2>8, <2>10, <2>11 DEF IInv
  <1> QED
    BY <1>6, <1>7

\* After a weekday that has been dealt with, the rule has no date before the next
\* frontier.
LEMMA NextFrontier ==
    ASSUME IInv, pc = "day", days # {}, days' = days \ {Min(days)}, pc' = "day",
           rule' = rule, cycle' = cycle
    PROVE  /\ Frontier' \in Nat /\ CycleStart + Min(days) < Frontier'
           /\ \A date \in CycleStart + Min(days) + 1 .. Frontier' - 1 : ~OnRule(date)
  <1> DEFINE m == Min(days)
             rest == days \ {m}
             next == IF rest # {} THEN Min(rest) ELSE 7
  <1>1. /\ rule \in Rules /\ cycle \in Nat /\ days \subseteq rule.weekdays
        /\ \A d \in rule.weekdays, e \in days : e <= d => d \in days
    BY DEF IInv, CycleUnderWay
  <1>2. /\ rule.weekdays \subseteq 0..6 /\ rule.interval \in Nat \ {0} /\ CycleStart \in Nat
    BY <1>1, RuleTypes, CycleTypes
  <1>3. m \in days /\ m \in 0..6 /\ \A y \in days : m <= y
    BY <1>1, <1>2, LeastOfWeek
  <1>4. CycleStart' = CycleStart
    BY DEF CycleStart, WeekStart
  <1>5. Frontier' = CycleStart + next
    BY <1>4 DEF Frontier
  <1>6. rest # {} => next \in rest /\ next \in 0..6 /\ \A y \in rest : next <= y
    BY <1>1, <1>2, LeastOfWeek
  <1>7. next \in 0..7 /\ m < next
    BY <1>3, <1>6
  <1>8. \A k \in m + 1 .. next - 1 : k \notin rule.weekdays
    <2> SUFFICES ASSUME NEW k \in m + 1 .. next - 1, k \in rule.weekdays
                 PROVE  FALSE
      OBVIOUS
    <2>1. k \in rest
      BY <1>1, <1>3, <1>7
    <2> QED
      BY <1>3, <1>6, <1>7, <2>1
  <1> HIDE DEF m, rest, next
  <1>9. \A date \in CycleStart + m + 1 .. (CycleStart + next) - 1 : ~OnRule(date)
    <2> TAKE date \in CycleStart + m + 1 .. (CycleStart + next) - 1
    <2> DEFINE k == date - CycleStart
    <2>1. k \in m + 1 .. next - 1 /\ date = CycleStart + k /\ k \in 0..(7 * rule.interval - 1)
      BY <1>2, <1>3, <1>7
    <2> HIDE DEF k
    <2> QED
      BY <1>1, <1>8, <2>1, DatesOfACycle
  <1> QED
    BY <1>2, <1>3, <1>5, <1>7, <1>9 DEF m

LEMMA DayStep ==
    ASSUME IInv, Day
    PROVE  IInv'
  <1> DEFINE m == Min(days)
             date == CycleStart + m
  <1>1. /\ rule \in Rules /\ cycle \in Nat /\ days \subseteq rule.weekdays
        /\ occurrences \in Seq(Nat) /\ Ordered
        /\ ~Complete => Found = Named(Frontier)
        /\ CycleUnderWay
    BY DEF IInv, Ordered
  <1>2. /\ pc = "day" /\ days # {} /\ ~Complete /\ days' = days \ {m}
        /\ rule' = rule /\ cycle' = cycle
    BY DEF Day
  <1>3. /\ rule.weekdays \subseteq 0..6 /\ rule.interval \in Nat \ {0}
        /\ CycleStart \in Nat /\ rule.startsOn \in Nat
        /\ rule.until # None => rule.until \in Nat /\ rule.until >= rule.startsOn
        /\ rule.count # None => rule.count \in Nat \ {0}
    BY <1>1, RuleTypes, CycleTypes
  <1>4. m \in days /\ m \in 0..6 /\ \A y \in days : m <= y
    BY <1>1, <1>2, <1>3, LeastOfWeek
  <1>5. date \in Nat
    BY <1>3, <1>4
  <1>6. /\ WeekStart' = WeekStart /\ CycleStart' = CycleStart
        /\ \A d : Beyond(d)' = Beyond(d)
        /\ Named(CycleStart)' = Named(CycleStart)
    BY <1>2 DEF WeekStart, CycleStart, Beyond, Named
  <1>7. Named(Frontier)' = Named(Frontier')
    BY <1>2 DEF Named
  <1>8. Found = Named(date)
    BY <1>1, <1>2 DEF Frontier
  <1>9. \/ date < rule.startsOn /\ UNCHANGED <<occurrences, pc>>
        \/ date >= rule.startsOn /\ Beyond(date) /\ pc' = "done" /\ UNCHANGED occurrences
        \/ /\ date >= rule.startsOn /\ ~Beyond(date)
           /\ occurrences' = Append(occurrences, date) /\ UNCHANGED pc
    <2> HIDE DEF date
    <2>1. CASE date < rule.startsOn
      BY <1>3, <1>5, <2>1 DEF Day, date, m
    <2>2. CASE ~(date < rule.startsOn) /\ Beyond(date)
      <3>1. ~(date < rule.startsOn) /\ date >= rule.startsOn
        BY <1>3, <1>5, <2>2
      <3> QED
        BY <2>2, <3>1 DEF Day, date, m
    <2>3. CASE ~(date < rule.startsOn) /\ ~Beyond(date)
      <3>1. ~(date < rule.startsOn) /\ date >= rule.startsOn
        BY <1>3, <1>5, <2>3
      <3> QED
        BY <2>3, <3>1 DEF Day, date, m
    <2> QED
      BY <2>1, <2>2, <2>3
  <1>10. rule' \in Rules /\ cycle' \in Nat /\ (days \subseteq rule.weekdays)'
    BY <1>1, <1>2
  <1>11. ASSUME pc' = "day", date < rule.startsOn \/ ~Beyond(date)
         PROVE  CycleUnderWay' /\ RefusedOnlyWhenLong'
    <2>1. (\A d \in rule.weekdays, e \in days : e <= d => d \in days)'
      <3> SUFFICES ASSUME NEW d \in rule.weekdays, NEW e \in days \ {m}, e <= d
                   PROVE  d \in days \ {m}
        BY <1>2
      <3>1. d \in days
        BY <1>1 DEF CycleUnderWay
      <3>2. e \in 0..6 /\ e # m /\ m <= e
        BY <1>1, <1>3, <1>4
      <3>3. d # m
        BY <1>4, <3>2
      <3> QED
        BY <3>1, <3>3
    <2>2. (\A d \in rule.weekdays \ days :
              CycleStart + d < rule.startsOn \/ ~Beyond(CycleStart + d))'
      <3> SUFFICES ASSUME NEW d \in rule.weekdays \ (days \ {m})
                   PROVE  CycleStart + d < rule.startsOn \/ ~Beyond(CycleStart + d)
        BY <1>2, <1>6 DEF Beyond
      <3>1. CASE d = m
        BY <1>11, <3>1
      <3>2. CASE d \in rule.weekdays \ days
        BY <1>1, <1>2, <3>2 DEF CycleUnderWay
      <3> QED
        BY <3>1, <3>2
    <2>3. (rule.count # None => Cardinality(Named(CycleStart)) < rule.count)'
      BY <1>1, <1>2, <1>6 DEF CycleUnderWay
    <2>4. (cycle <= CycleLimit)'
      BY <1>1, <1>2 DEF CycleUnderWay
    <2>5. RefusedOnlyWhenLong'
      BY <1>11 DEF RefusedOnlyWhenLong
    <2> QED
      BY <2>1, <2>2, <2>3, <2>4, <2>5 DEF CycleUnderWay
  <1>12. ASSUME pc' = "day"
         PROVE  /\ Frontier' \in Nat /\ date + 1 <= Frontier'
                /\ \A d \in date + 1 .. Frontier' - 1 : ~OnRule(d)
    <2>1. /\ Frontier' \in Nat /\ CycleStart + m < Frontier'
          /\ \A d \in CycleStart + m + 1 .. Frontier' - 1 : ~OnRule(d)
      BY <1>2, <1>12, NextFrontier
    <2>2. CycleStart \in Nat /\ m \in Nat
      BY <1>3, <1>4
    <2> HIDE DEF m
    <2>3. date + 1 = CycleStart + m + 1 /\ date + 1 <= Frontier'
      BY <2>1, <2>2
    <2> HIDE DEF date
    <2> QED
      BY <2>1, <2>3
  <1> HIDE DEF date
  <1>13. CASE date < rule.startsOn /\ UNCHANGED <<occurrences, pc>>
    <2>1. pc' = "day" /\ ~Complete' /\ Ordered' /\ Found' = Found
      BY <1>1, <1>2, <1>13 DEF Complete, Ordered, Found
    <2>2. Named(Frontier') = Named(date)
      <3>1. \A d \in date .. Frontier' - 1 : d >= rule.startsOn => ~OnRule(d) \/ Beyond(d)
        BY <1>3, <1>5, <1>12, <1>13, <2>1
      <3> QED
        BY <1>1, <1>5, <1>12, <2>1, <3>1, NamedSame
    <2>3. (Found = Named(Frontier))'
      BY <1>7, <1>8, <2>1, <2>2
    <2>4. CycleUnderWay' /\ RefusedOnlyWhenLong'
      BY <1>11, <1>13, <2>1
    <2> QED
      BY <1>1, <1>10, <1>13, <2>1, <2>3, <2>4 DEF IInv, Ordered
  <1>14. CASE date >= rule.startsOn /\ Beyond(date) /\ pc' = "done" /\ UNCHANGED occurrences
    <2>1. ~Complete' /\ Ordered' /\ Found' = Found
      BY <1>1, <1>2, <1>14 DEF Complete, Ordered, Found
    <2>2. rule.until \in Nat /\ rule.until + 1 <= date /\ rule.until # None
      BY <1>3, <1>5, <1>14 DEF Beyond
    <2>3. Frontier' = rule.until + 1
      BY <1>2, <1>14, <2>1 DEF Frontier
    <2>4. Named(date) = Named(rule.until + 1)
      <3>1. \A d \in rule.until + 1 .. date - 1 : Beyond(d)
        BY <2>2, <1>5 DEF Beyond
      <3> QED
        BY <1>1, <1>5, <2>2, <3>1, NamedSame
    <2>5. (Found = Named(Frontier))'
      BY <1>7, <1>8, <2>1, <2>3, <2>4
    <2>6. CycleUnderWay'
      <3>1. (\A d \in rule.weekdays, e \in days : e <= d => d \in days)'
        <4> SUFFICES ASSUME NEW d \in rule.weekdays, NEW e \in days \ {m}, e <= d
                     PROVE  d \in days \ {m}
          BY <1>2
        <4>1. d \in days
          BY <1>1 DEF CycleUnderWay
        <4>2. e \in 0..6 /\ e # m /\ m <= e
          BY <1>1, <1>3, <1>4
        <4>3. d # m
          BY <1>4, <4>2
        <4> QED
          BY <4>1, <4>3
      <3> QED
        BY <1>14, <3>1 DEF CycleUnderWay
    <2>7. RefusedOnlyWhenLong'
      BY <1>14 DEF RefusedOnlyWhenLong
    <2> QED
      BY <1>1, <1>2, <1>10, <1>14, <2>1, <2>2, <2>5, <2>6, <2>7 DEF IInv, Ordered
  <1>15. CASE /\ date >= rule.startsOn /\ ~Beyond(date)
              /\ occurrences' = Append(occurrences, date) /\ UNCHANGED pc
    <2>1. pc' = "day"
      BY <1>2, <1>15
    <2>2. \A other \in Found : other < date
      BY <1>1, <1>3, <1>5, <1>8, NamedTells
    <2>3. /\ occurrences' \in Seq(Nat) /\ Len(occurrences') = Len(occurrences) + 1
          /\ occurrences'[Len(occurrences')] = date
          /\ Ordered' /\ Found' = Found \cup {date}
      BY <1>1, <1>5, <1>15, <2>2, OneMoreFound
    <2>4. OnRule(date)
      <3>1. m \in 0..(7 * rule.interval - 1) /\ m \in rule.weekdays
        BY <1>1, <1>3, <1>4
      <3> QED
        BY <1>1, <3>1, DatesOfACycle DEF date
    <2>5. Found' = Named(date + 1)
      BY <1>1, <1>5, <1>8, <1>15, <2>3, <2>4, NamedOneMore
    <2>6. Named(Frontier') = Named(date + 1)
      BY <1>1, <1>5, <1>12, <2>1, NamedSame
    <2>7. (Found = Named(Frontier))'
      BY <1>7, <2>5, <2>6
    <2>8. (Complete => /\ Len(occurrences) = rule.count
                       /\ Found = Named(1 + occurrences[Len(occurrences)]))'
      <3>1. Len(occurrences) \in Nat
        BY <1>1, LenProperties
      <3>2. (Complete => Len(occurrences) = rule.count)'
        BY <1>2, <1>3, <2>3, <3>1 DEF Complete
      <3>3. 1 + occurrences'[Len(occurrences')] = date + 1
        BY <1>5, <2>3
      <3>4. Named(1 + occurrences[Len(occurrences)])' = Named(date + 1)
        BY <1>2, <3>3 DEF Named
      <3> QED
        BY <2>5, <3>2, <3>4
    <2> QED
      BY <1>10, <1>11, <1>15, <2>1, <2>3, <2>7, <2>8 DEF IInv, Ordered
  <1> QED
    BY <1>9, <1>13, <1>14, <1>15

\* Between the week of a cycle and the next cycle the rule has no dates.
LEMMA NextCycle ==
    ASSUME rule \in Rules, cycle \in Nat
    PROVE  Named(CycleStart + 7 * rule.interval) = Named(CycleStart + 7)
  <1>1. rule.weekdays \subseteq 0..6 /\ rule.interval \in Nat \ {0} /\ CycleStart \in Nat
    BY RuleTypes, CycleTypes
  <1>2. ASSUME NEW date \in CycleStart + 7 .. (CycleStart + 7 * rule.interval) - 1
        PROVE  ~OnRule(date)
    <2> DEFINE k == date - CycleStart
    <2>1. k \in 0..(7 * rule.interval - 1) /\ k > 6 /\ date = CycleStart + k
      BY <1>1
    <2>2. k \notin rule.weekdays
      BY <1>1, <2>1
    <2> HIDE DEF k
    <2> QED
      BY <2>1, <2>2, DatesOfACycle
  <1> QED
    BY <1>1, <1>2, NamedSame

\* Giving up after the last cycle that is allowed: the rule is a long one.
LEMMA GivenUp ==
    ASSUME IInv, pc = "day", days = {} \/ Complete, cycle = CycleLimit
    PROVE  LET bound == WeekStart + 7 * rule.interval * CycleLimit
           IN  \/ rule.until # None /\ rule.until >= bound
               \/ rule.count # None /\ Cardinality(Named(bound)) < rule.count
  <1> DEFINE bound == WeekStart + 7 * rule.interval * CycleLimit
  <1>1. rule \in Rules /\ cycle \in Nat /\ CycleUnderWay
    BY DEF IInv
  <1>2. /\ rule.interval \in Nat /\ rule.startsOn \in Nat /\ CycleStart \in Nat
        /\ rule.weekdays \subseteq 0..6 /\ rule.weekdays # {}
        /\ rule.until # None => rule.until \in Nat /\ rule.until >= rule.startsOn
        /\ rule.until # None \/ rule.count # None
    BY <1>1, RuleTypes, CycleTypes
  <1>3. bound = CycleStart
    BY <1>1, <1>2 DEF CycleStart
  <1> HIDE DEF bound
  <1>4. CASE rule.count # None
    BY <1>1, <1>3, <1>4 DEF CycleUnderWay, bound
  <1>5. CASE rule.count = None
    <2>1. days = {} /\ rule.until # None
      BY <1>2, <1>5 DEF Complete
    <2>2. PICK d \in rule.weekdays : CycleStart + d < rule.startsOn \/ ~Beyond(CycleStart + d)
      BY <1>1, <1>2, <2>1 DEF CycleUnderWay
    <2>3. d \in 0..6 /\ rule.until >= CycleStart
      BY <1>2, <2>1, <2>2 DEF Beyond
    <2> QED
      BY <1>3, <2>1, <2>3 DEF bound
  <1> QED
    BY <1>4, <1>5

LEMMA EndCycleStep ==
    ASSUME IInv, EndCycle
    PROVE  IInv'
  <1>1. /\ rule \in Rules /\ cycle \in Nat /\ days \subseteq rule.weekdays
        /\ occurrences \in Seq(Nat)
        /\ ~Complete => Found = Named(Frontier)
        /\ CycleUnderWay
    BY DEF IInv
  <1>2. /\ pc = "day" /\ (days = {} \/ Complete) /\ cycle' = cycle + 1
        /\ rule' = rule /\ days' = days /\ occurrences' = occurrences
        /\ pc' = IF OverLimit THEN "raised" ELSE "cycle"
    BY DEF EndCycle
  <1>3. rule.interval \in Nat \ {0} /\ CycleStart \in Nat /\ CycleLimit \in Nat
    BY <1>1, RuleTypes, CycleTypes
  <1>4. CycleStart' = CycleStart + 7 * rule.interval
    <2>1. WeekStart' = WeekStart /\ WeekStart \in Nat
      BY <1>1, <1>2, CycleTypes DEF WeekStart
    <2>2. 7 * (cycle + 1) * rule.interval = 7 * cycle * rule.interval + 7 * rule.interval
      BY <1>1, <1>3
    <2>3. 7 * cycle * rule.interval \in Nat /\ 7 * rule.interval \in Nat
      BY <1>1, <1>3
    <2>4. CycleStart' = WeekStart + (7 * cycle * rule.interval + 7 * rule.interval)
      BY <1>2, <2>1, <2>2 DEF CycleStart
    <2> QED
      BY <2>1, <2>3, <2>4 DEF CycleStart
  <1>5. Complete' = Complete /\ Found' = Found
    BY <1>2 DEF Complete, Found
  <1>6. pc' \in {"cycle", "raised"} /\ Frontier' = CycleStart'
    BY <1>2 DEF Frontier
  <1>7. (~Complete => Found = Named(Frontier))'
    <2> SUFFICES ASSUME ~Complete
                 PROVE  Found = Named(Frontier)'
      BY <1>5
    <2>1. Found = Named(CycleStart + 7)
      BY <1>1, <1>2 DEF Frontier
    <2>2. Found = Named(CycleStart + 7 * rule.interval)
      BY <1>1, <2>1, NextCycle
    <2>3. Named(Frontier)' = Named(CycleStart + 7 * rule.interval)
      BY <1>2, <1>4, <1>6 DEF Named
    <2> QED
      BY <2>2, <2>3
  <1>8. (Complete => /\ Len(occurrences) = rule.count
                     /\ Found = Named(1 + occurrences[Len(occurrences)]))'
    <2>1. Named(1 + occurrences[Len(occurrences)])' = Named(1 + occurrences[Len(occurrences)])
      BY <1>2 DEF Named
    <2> QED
      BY <1>2, <1>5, <2>1 DEF IInv
  <1>9. CycleUnderWay'
    <2>1. (\A d \in rule.weekdays, e \in days : e <= d => d \in days)'
      BY <1>1, <1>2 DEF CycleUnderWay
    <2>2. pc' = "cycle" => cycle' <= CycleLimit
      BY <1>1, <1>2, <1>3 DEF OverLimit
    <2> QED
      BY <1>6, <2>1, <2>2 DEF CycleUnderWay
  <1>10. RefusedOnlyWhenLong'
    <2> SUFFICES ASSUME pc' = "raised"
                 PROVE  LET bound == WeekStart + 7 * rule.interval * CycleLimit
                        IN  \/ rule.until # None /\ rule.until >= bound
                            \/ rule.count # None /\ Cardinality(Named(bound)) < rule.count
      BY <1>2 DEF RefusedOnlyWhenLong, WeekStart, Named
    <2>1. cycle = CycleLimit
      BY <1>1, <1>2, <1>3 DEF OverLimit, CycleUnderWay
    <2> QED
      BY <1>2, <2>1, GivenUp
  <1> QED
    BY <1>1, <1>2, <1>6, <1>7, <1>8, <1>9, <1>10 DEF IInv

LEMMA Stuttering ==
    ASSUME IInv, UNCHANGED vars
    PROVE  IInv'
  BY DEF IInv, vars, CycleUnderWay, RefusedOnlyWhenLong, Complete, Found, Frontier, Named,
         Beyond, CycleStart, WeekStart

\* At every step of the expansion of any rule the occurrences are the dates before
\* its frontier, or the last that was wanted is there (recurrence.py:41-64).
THEOREM RecurrenceInvariant == Spec => []IInv
  <1>1. IInv /\ [Next]_vars => IInv'
    BY CycleStep, DayStep, EndCycleStep, Stuttering DEF Next
  <1> QED
    BY Start, <1>1, PTL DEF Spec

-------------------------------------------------------------------------------
(* What is returned, and what is refused.                                   *)

\* The greatest of the occurrences is the last.
LEMMA LastIsGreatest ==
    ASSUME occurrences \in Seq(Nat), Ordered, Len(occurrences) # 0
    PROVE  Max(Found) = occurrences[Len(occurrences)]
  <1> DEFINE n == Len(occurrences)
             last == occurrences[n]
  <1>1. n \in Nat \ {0} /\ \A i \in 1..n : occurrences[i] \in Nat
    BY LenProperties, ElementOfSeq
  <1>2. n \in 1..n /\ last \in Nat
    BY <1>1
  <1>3. last \in Found /\ \A date \in Found : last >= date /\ date \in Nat
    <2>1. last \in Found
      BY <1>2 DEF Found
    <2> SUFFICES ASSUME NEW i \in 1..n
                 PROVE  last >= occurrences[i] /\ occurrences[i] \in Nat
      BY <2>1 DEF Found
    <2>2. i < n \/ i = n
      BY <1>1
    <2> QED
      BY <1>1, <1>2, <2>2 DEF Ordered
  <1> HIDE DEF n, last
  <1>4. \A x \in Found : (\A y \in Found : x >= y) => x = last
    BY <1>2, <1>3
  <1>5. Max(Found) = last
    BY <1>3, <1>4 DEF Max
  <1> QED
    BY <1>5 DEF last, n

\* The occurrences of any rule are its first dates, in their order and none twice
\* (recurrence.py:46-60).
THEOREM DatesInOrder == Spec => []FirstOnesInOrder
  <1>1. ASSUME IInv
        PROVE  FirstOnesInOrder
    <2>1. rule \in Rules /\ occurrences \in Seq(Nat) /\ Ordered /\ Len(occurrences) \in Nat
      BY <1>1, LenProperties DEF IInv, Ordered
    <2>2. Ascending(occurrences)
      <3> SUFFICES ASSUME NEW i \in 1 .. Len(occurrences) - 1
                   PROVE  occurrences[i] < occurrences[i + 1]
        BY DEF Ascending
      <3>1. i \in 1 .. Len(occurrences) /\ i + 1 \in 1 .. Len(occurrences) /\ i < i + 1
        BY <2>1
      <3> QED
        BY <2>1, <3>1 DEF Ordered
    <2>3. CASE Complete
      <3>1. Len(occurrences) = rule.count /\ Len(occurrences) # 0
        BY <1>1, <2>1, <2>3, RuleTypes DEF IInv, Complete
      <3>2. Max(Found) = occurrences[Len(occurrences)]
        BY <2>1, <3>1, LastIsGreatest
      <3> QED
        BY <1>1, <2>2, <2>3, <3>1, <3>2 DEF IInv, FirstOnesInOrder
    <2>4. CASE ~Complete
      BY <1>1, <2>2, <2>4 DEF IInv, FirstOnesInOrder
    <2> QED
      BY <2>3, <2>4
  <1> QED
    BY <1>1, RecurrenceInvariant, PTL

\* What is returned for any rule is as many dates as its count says, or all of them
\* up to its end (recurrence.py:46, 53-55).
THEOREM AllDatesFound == Spec => []NothingMissing
  <1>1. ASSUME IInv, pc = "done"
        PROVE  \/ rule.count # None /\ Len(occurrences) = rule.count
               \/ /\ rule.until # None
                  /\ Len(occurrences) = Cardinality(Named(rule.until + 1))
    <2>1. CASE Complete
      BY <1>1, <2>1 DEF IInv, Complete
    <2>2. CASE ~Complete
      <3>1. rule.until # None /\ Found = Named(rule.until + 1)
        BY <1>1, <2>2 DEF IInv, Frontier
      <3>2. Cardinality(Found) = Len(occurrences)
        BY <1>1, AsManyAsFound DEF IInv, Ordered
      <3> QED
        BY <3>1, <3>2
    <2> QED
      BY <2>1, <2>2
  <1>2. IInv => NothingMissing
    BY <1>1 DEF NothingMissing
  <1> QED
    BY <1>2, RecurrenceInvariant, PTL

\* No rule is refused that its limit on the cycles would have let through
\* (recurrence.py:61-63).
THEOREM OnlyLongRulesRefused == Spec => []RefusedOnlyWhenLong
  <1>1. IInv => RefusedOnlyWhenLong
    BY DEF IInv
  <1> QED
    BY <1>1, RecurrenceInvariant, PTL

===============================================================================
