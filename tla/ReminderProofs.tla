----------------------------- MODULE ReminderProofs ----------------------------
(***************************************************************************)
(* The ledger of sent reminders and the port, for any workers,             *)
(* appointments, policies and faults.                                      *)
(***************************************************************************)
EXTENDS ReminderProperties, TLAPS

\* Where a call is tells what it holds: a reminder that was delivered and is not
\* recorded yet, or none.
CallShape(p) ==
    /\ pc[p] = "listed" => call[p].todo = {}
    /\ pc[p] \in {"listed", "sending"} => call[p].current = None
    /\ pc[p] = "recording" => /\ call[p].current # None
                              /\ delivered[call[p].current] > 0

\* A reminder that nothing excuses and that was delivered is recorded, or about
\* to be by the call that sent it; one that is still to be sent by a call was
\* not delivered and is to be sent by no other.
Once(pair) ==
    /\ delivered[pair] <= 1
    /\ delivered[pair] = 1 =>
         \/ ledger[pair] # None
         \/ \E p \in Procs : call[p] # None /\ call[p].current = pair
    /\ \A p \in Procs :
         call[p] # None /\ pair \in call[p].todo =>
            /\ delivered[pair] = 0
            /\ \A q \in Procs \ {p} : pair \notin Pending(q)

\* The inductive invariant.
IInv ==
    /\ TypeOK
    /\ \A p \in Procs : CallShape(p)
    /\ RecordedWasDelivered
    /\ \A pair \in Pairs \ excused : Once(pair)

LEMMA CallTypes ==
    ASSUME IInv, NEW p \in Procs
    PROVE  /\ pc[p] \in {"idle", "listed", "sending", "recording"}
           /\ pc[p] = "idle" <=> call[p] = None
           /\ pc[p] # "idle" =>
                /\ call[p] \in Calls
                /\ call[p].todo \subseteq Pairs /\ call[p].at \in 0 .. LastInstant
                /\ call[p].current \in Pairs \cup {None}
  <1>1. None \notin Calls
    BY NoCallAssumption
  <1> QED
    BY <1>1 DEF IInv, TypeOK, Calls

\* A call returns, or begins, and what it leaves unrecorded is excused.
LEMMA ReturnKeeps ==
    ASSUME IInv, NEW p \in Procs, Return(p),
           UNCHANGED <<agenda, now, ledger>>,
           excused \subseteq excused', excused' \subseteq Pairs,
           pc[p] = "recording" => call[p].current \in excused',
           delivered' \in [Pairs -> 0 .. 2],
           \A pair \in Pairs : delivered'[pair] >= delivered[pair],
           \A pair \in Pairs \ excused' : delivered'[pair] = delivered[pair]
    PROVE  IInv'
  <1>1. pc' = [pc EXCEPT ![p] = "idle"] /\ call' = [call EXCEPT ![p] = None]
    BY DEF Return, Goto
  <1>2. \A q \in Procs : IF q = p THEN pc'[q] = "idle" /\ call'[q] = None
                                  ELSE pc'[q] = pc[q] /\ call'[q] = call[q]
    BY <1>1 DEF IInv, TypeOK
  <1>3. TypeOK'
    BY <1>1, <1>2 DEF IInv, TypeOK
  <1>4. ASSUME NEW q \in Procs PROVE CallShape(q)'
    <2>1. CASE q = p
      BY <1>2, <2>1 DEF CallShape
    <2>2. CASE q # p
      <3>1. pc[q] = "recording" => call[q].current \in Pairs
        BY CallTypes DEF IInv, CallShape
      <3>2. \A pair \in Pairs : delivered[pair] \in 0 .. 2 /\ delivered'[pair] \in 0 .. 2
        BY DEF IInv, TypeOK
      <3> QED
        BY <1>2, <2>2, <3>1, <3>2 DEF IInv, CallShape
    <2> QED
      BY <2>1, <2>2
  <1>5. RecordedWasDelivered'
    <2>1. \A pair \in Pairs : delivered[pair] \in 0 .. 2 /\ delivered'[pair] \in 0 .. 2
      BY DEF IInv, TypeOK
    <2> QED
      BY <2>1 DEF IInv, RecordedWasDelivered
  <1>6. ASSUME NEW pair \in Pairs \ excused' PROVE Once(pair)'
    <2>1. Once(pair) /\ delivered'[pair] = delivered[pair]
      BY <1>6 DEF IInv
    <2>2. \A q \in Procs : Pending(q)' \subseteq Pending(q)
      BY <1>2 DEF Pending
    <2>3. call[p] # None => call[p].current # pair
      BY <1>6, CallTypes, RemindersAssumption DEF IInv, CallShape
    <2> QED
      BY <1>2, <2>1, <2>2, <2>3 DEF Once
  <1> QED
    BY <1>3, <1>4, <1>5, <1>6 DEF IInv

LEMMA DispatchKeeps ==
    ASSUME IInv, NEW p \in Procs, Dispatch(p)
    PROVE  IInv'
  <1> DEFINE c == [at |-> now, listed |-> agenda, due |-> {}, todo |-> {}, current |-> None]
  <1>1. /\ pc[p] = "idle"
        /\ pc' = [pc EXCEPT ![p] = "listed"] /\ call' = [call EXCEPT ![p] = c]
        /\ UNCHANGED <<agenda, now, ledger, delivered, excused>>
    BY DEF Dispatch, Goto
  <1>2. c \in Calls /\ c.todo = {} /\ c.current = None /\ c # None
    BY NoCallAssumption DEF Calls, IInv, TypeOK
  <1>3. call[p] = None
    BY <1>1, CallTypes
  <1> HIDE DEF c
  <1>4. \A q \in Procs : IF q = p THEN pc'[q] = "listed" /\ call'[q] = c
                                  ELSE pc'[q] = pc[q] /\ call'[q] = call[q]
    BY <1>1 DEF IInv, TypeOK
  <1>5. TypeOK'
    BY <1>1, <1>2, <1>4 DEF IInv, TypeOK
  <1>6. ASSUME NEW q \in Procs PROVE CallShape(q)'
    BY <1>1, <1>2, <1>4 DEF IInv, CallShape
  <1>7. ASSUME NEW pair \in Pairs \ excused' PROVE Once(pair)'
    <2>1. Once(pair)
      BY <1>1, <1>7 DEF IInv
    <2>2. \A q \in Procs : Pending(q)' \subseteq Pending(q)
      BY <1>2, <1>4 DEF Pending
    <2> QED
      BY <1>1, <1>2, <1>3, <1>4, <2>1, <2>2 DEF Once
  <1>8. RecordedWasDelivered'
    BY <1>1 DEF IInv, RecordedWasDelivered
  <1> QED
    BY <1>5, <1>6, <1>7, <1>8 DEF IInv

LEMMA FindDueKeeps ==
    ASSUME IInv, NEW p \in Procs, FindDue(p)
    PROVE  IInv'
  <1> DEFINE due    == DueReminders(call[p].listed, call[p].at, SentPairs)
             others == UNION { Pending(q) : q \in Procs \ {p} }
  <1>1. /\ pc[p] = "listed"
        /\ excused' = excused \cup (due \cap others)
        /\ UNCHANGED <<agenda, now, ledger, delivered>>
        /\ due \subseteq Pairs /\ due \cap SentPairs = {}
    BY DEF FindDue, DueReminders
  <1>2. excused \subseteq excused' /\ excused' \subseteq Pairs
    BY <1>1 DEF IInv, TypeOK
  <1>3. call[p] \in Calls /\ call[p].current = None /\ call[p].todo = {}
    BY <1>1, CallTypes DEF IInv, CallShape
  <1>4. CASE due = {}
    <2>1. Return(p)
      BY <1>4 DEF FindDue
    <2> QED
      BY <1>1, <1>2, <2>1, ReturnKeeps DEF IInv, TypeOK
  <1>5. CASE due # {}
    <2> DEFINE c == [call[p] EXCEPT !.due = due, !.todo = due]
    <2>1. pc' = [pc EXCEPT ![p] = "sending"] /\ call' = [call EXCEPT ![p] = c]
      BY <1>5 DEF FindDue, Goto
    <2>2. c \in Calls /\ c.todo = due /\ c.current = None /\ c # None
      BY <1>1, <1>3, NoCallAssumption DEF Calls
    <2> HIDE DEF c, due
    <2>3. \A q \in Procs : IF q = p THEN pc'[q] = "sending" /\ call'[q] = c
                                    ELSE pc'[q] = pc[q] /\ call'[q] = call[q]
      BY <2>1 DEF IInv, TypeOK
    <2>4. TypeOK'
      BY <1>1, <1>2, <2>1, <2>2, <2>3 DEF IInv, TypeOK
    <2>5. ASSUME NEW q \in Procs PROVE CallShape(q)'
      BY <1>1, <2>2, <2>3 DEF IInv, CallShape
    <2>6. ASSUME NEW pair \in Pairs \ excused' PROVE Once(pair)'
      <3>1. Once(pair)
        BY <1>2, <2>6 DEF IInv
      <3>2. \A q \in Procs : Pending(q)' = IF q = p THEN due ELSE Pending(q)
        BY <2>2, <2>3 DEF Pending
      <3>3. ASSUME pair \in due
            PROVE  /\ \A q \in Procs \ {p} : pair \notin Pending(q)
                   /\ delivered[pair] = 0
        <4>1. \A q \in Procs \ {p} : pair \notin Pending(q)
          BY <1>1, <2>6, <3>3
        <4>2. ledger[pair] = None
          BY <1>1, <3>3 DEF SentPairs
        <4>3. ASSUME NEW q \in Procs, call[q] # None PROVE call[q].current # pair
          <5>1. CASE q = p
            BY <1>3, <2>6, <5>1, RemindersAssumption
          <5>2. CASE q # p
            BY <4>1, <4>3, <5>2, <2>6, RemindersAssumption DEF Pending
          <5> QED
            BY <5>1, <5>2
        <4>4. delivered[pair] \in 0 .. 2
          BY DEF IInv, TypeOK
        <4> QED
          BY <3>1, <4>1, <4>2, <4>3, <4>4 DEF Once
      <3>4. ASSUME NEW q \in Procs, call'[q] # None, pair \in call'[q].todo
            PROVE  /\ delivered'[pair] = 0
                   /\ \A r \in Procs \ {q} : pair \notin Pending(r)'
        <4>1. CASE q = p
          BY <1>1, <2>2, <2>3, <3>2, <3>3, <3>4, <4>1
        <4>2. CASE q # p
          <5>1. /\ delivered[pair] = 0 /\ pair \in Pending(q)
                /\ \A r \in Procs \ {q} : pair \notin Pending(r)
            BY <2>3, <3>1, <3>4, <4>2 DEF Once, Pending
          <5>2. pair \notin due
            BY <3>3, <4>2, <5>1
          <5> QED
            BY <1>1, <3>2, <5>1, <5>2
        <4> QED
          BY <4>1, <4>2
      <3>5. delivered[pair] = 1 =>
              \/ ledger[pair] # None
              \/ \E q \in Procs : call'[q] # None /\ call'[q].current = pair
        BY <1>3, <2>3, <2>6, <3>1, RemindersAssumption DEF Once
      <3> QED
        BY <1>1, <3>1, <3>4, <3>5 DEF Once
    <2>7. RecordedWasDelivered'
      BY <1>1 DEF IInv, RecordedWasDelivered
    <2> QED
      BY <2>4, <2>5, <2>6, <2>7 DEF IInv
  <1> QED
    BY <1>4, <1>5

LEMMA DeliveredCounts ==
    ASSUME IInv, NEW pair \in Pairs
    PROVE  /\ Delivered(pair) \in [Pairs -> 0 .. 2]
           /\ Delivered(pair)[pair] > 0
           /\ delivered[pair] = 0 => Delivered(pair)[pair] = 1
           /\ \A other \in Pairs : Delivered(pair)[other] >= delivered[other]
           /\ \A other \in Pairs \ {pair} : Delivered(pair)[other] = delivered[other]
  <1>1. delivered \in [Pairs -> 0 .. 2]
    BY DEF IInv, TypeOK
  <1> QED
    BY <1>1 DEF Delivered

LEMMA SendKeeps ==
    ASSUME IInv, NEW p \in Procs, Send(p)
    PROVE  IInv'
  <1>1. PICK sent \in FirstOf(p) :
          /\ pc[p] = "sending"
          /\ delivered' = Delivered(sent)
          /\ pc' = [pc EXCEPT ![p] = "recording"]
          /\ call' = [call EXCEPT ![p] = [call[p] EXCEPT !.todo = @ \ {sent}, !.current = sent]]
          /\ UNCHANGED <<agenda, now, ledger, excused>>
    BY DEF Send, Goto, IInv, TypeOK
  <1> DEFINE c == [call[p] EXCEPT !.todo = @ \ {sent}, !.current = sent]
  <1>2. /\ call[p] \in Calls /\ call[p] # None /\ call[p].current = None
        /\ sent \in call[p].todo /\ sent \in Pairs
    BY <1>1, CallTypes DEF IInv, CallShape, FirstOf
  <1>3. /\ c \in Calls /\ c # None
        /\ c.todo = call[p].todo \ {sent} /\ c.current = sent
    BY <1>2, NoCallAssumption DEF Calls
  <1>4. /\ call' = [call EXCEPT ![p] = c]
        /\ \A q \in Procs : IF q = p THEN pc'[q] = "recording" /\ call'[q] = c
                                     ELSE pc'[q] = pc[q] /\ call'[q] = call[q]
    BY <1>1 DEF IInv, TypeOK
  <1> HIDE DEF c
  <1>5. /\ delivered' \in [Pairs -> 0 .. 2] /\ delivered'[sent] > 0
        /\ delivered[sent] = 0 => delivered'[sent] = 1
        /\ \A pair \in Pairs : delivered'[pair] >= delivered[pair]
        /\ \A pair \in Pairs \ {sent} : delivered'[pair] = delivered[pair]
    BY <1>1, <1>2, DeliveredCounts
  <1>6. TypeOK'
    BY <1>1, <1>3, <1>4, <1>5 DEF IInv, TypeOK
  <1>7. \A pair \in Pairs : delivered[pair] \in 0 .. 2 /\ delivered'[pair] \in 0 .. 2
    BY <1>5 DEF IInv, TypeOK
  <1>8. ASSUME NEW q \in Procs PROVE CallShape(q)'
    <2>1. CASE q = p
      BY <1>2, <1>3, <1>4, <1>5, <2>1, RemindersAssumption DEF CallShape
    <2>2. CASE q # p
      <3>1. pc[q] = "recording" => call[q].current \in Pairs
        BY CallTypes DEF IInv, CallShape
      <3> QED
        BY <1>4, <1>5, <1>7, <2>2, <3>1 DEF IInv, CallShape
    <2> QED
      BY <2>1, <2>2
  <1>9. RecordedWasDelivered'
    BY <1>1, <1>5, <1>7 DEF IInv, RecordedWasDelivered
  <1>10. ASSUME NEW pair \in Pairs \ excused' PROVE Once(pair)'
    <2>1. Once(pair)
      BY <1>1, <1>10 DEF IInv
    <2>2. \A q \in Procs : Pending(q)' = Pending(q)
      <3>1. Pending(p) = call[p].todo
        BY <1>2 DEF Pending
      <3>2. Pending(p)' = (call[p].todo \ {sent}) \cup {sent}
        BY <1>2, <1>3, <1>4, RemindersAssumption DEF Pending
      <3>3. \A q \in Procs \ {p} : Pending(q)' = Pending(q)
        BY <1>4 DEF Pending
      <3> QED
        BY <1>2, <3>1, <3>2, <3>3
    <2>3. CASE pair = sent
      <3>1. delivered[pair] = 0 /\ \A q \in Procs \ {p} : pair \notin Pending(q)
        BY <1>2, <2>1, <2>3 DEF Once
      <3>2. \A q \in Procs : call'[q] # None => pair \notin call'[q].todo
        BY <1>3, <1>4, <2>3, <3>1 DEF Pending
      <3> QED
        BY <1>3, <1>4, <1>5, <2>3, <3>1, <3>2 DEF Once
    <2>4. CASE pair # sent
      <3>1. delivered'[pair] = delivered[pair]
        BY <1>5, <2>4
      <3>2. \A q \in Procs : call'[q] # None /\ pair \in call'[q].todo =>
                call[q] # None /\ pair \in call[q].todo
        BY <1>2, <1>3, <1>4
      <3>3. \A q \in Procs : call[q] # None /\ call[q].current = pair =>
                call'[q] # None /\ call'[q].current = pair
        BY <1>2, <1>4, <1>10, RemindersAssumption
      <3> QED
        BY <1>1, <2>1, <2>2, <3>1, <3>2, <3>3 DEF Once
    <2> QED
      BY <2>3, <2>4
  <1> QED
    BY <1>6, <1>8, <1>9, <1>10 DEF IInv

\* What mark_sent() does to the ledger.
LEMMA MarkSentRecords ==
    ASSUME IInv, NEW p \in Procs, pc[p] = "recording"
    PROVE  /\ call[p].current \in Pairs
           /\ MarkSent(p) \in [Pairs -> (0 .. LastInstant) \cup {None}]
           /\ MarkSent(p)[call[p].current] # None
           /\ \A pair \in Pairs \ {call[p].current} : MarkSent(p)[pair] = ledger[pair]
           /\ Backend = "sql" =>
                \A pair \in Pairs : ledger[pair] # None => MarkSent(p)[pair] = ledger[pair]
  <1>1. call[p].current \in Pairs /\ call[p].at \in 0 .. LastInstant
    BY CallTypes DEF IInv, CallShape
  <1>2. ledger \in [Pairs -> (0 .. LastInstant) \cup {None}]
    BY DEF IInv, TypeOK
  <1>3. call[p].at # None
    BY <1>1, RemindersAssumption
  <1> QED
    BY <1>1, <1>2, <1>3 DEF MarkSent

LEMMA MarkKeeps ==
    ASSUME IInv, NEW p \in Procs, Mark(p)
    PROVE  IInv'
  <1> DEFINE sent == call[p].current
  <1>1. /\ pc[p] = "recording" /\ ledger' = MarkSent(p) /\ Recorded(p)
        /\ UNCHANGED <<agenda, now, delivered, excused>>
    BY DEF Mark
  <1>2. /\ sent \in Pairs /\ ledger'[sent] # None
        /\ ledger' \in [Pairs -> (0 .. LastInstant) \cup {None}]
        /\ \A pair \in Pairs \ {sent} : ledger'[pair] = ledger[pair]
    BY <1>1, MarkSentRecords
  <1>3. call[p] \in Calls /\ call[p] # None /\ delivered[sent] > 0
    BY <1>1, CallTypes DEF IInv, CallShape
  <1> DEFINE c == IF call[p].todo = {} THEN None ELSE [call[p] EXCEPT !.current = None]
             step == IF call[p].todo = {} THEN "idle" ELSE "sending"
  <1>4. pc' = [pc EXCEPT ![p] = step] /\ call' = [call EXCEPT ![p] = c]
    BY <1>1 DEF Recorded, Return, Goto, IInv, TypeOK
  <1>5. /\ c \in Calls \cup {None} /\ (c = None <=> step = "idle")
        /\ step \in {"idle", "sending"}
        /\ c # None => c.todo = call[p].todo /\ c.current = None
    BY <1>3, NoCallAssumption DEF Calls
  <1> HIDE DEF sent, c, step
  <1>6. \A q \in Procs : IF q = p THEN pc'[q] = step /\ call'[q] = c
                                  ELSE pc'[q] = pc[q] /\ call'[q] = call[q]
    BY <1>4 DEF IInv, TypeOK
  <1>7. TypeOK'
    BY <1>1, <1>2, <1>4, <1>5, <1>6 DEF IInv, TypeOK
  <1>8. ASSUME NEW q \in Procs PROVE CallShape(q)'
    BY <1>1, <1>5, <1>6 DEF IInv, CallShape
  <1>9. RecordedWasDelivered'
    BY <1>1, <1>2, <1>3 DEF IInv, RecordedWasDelivered
  <1>10. ASSUME NEW pair \in Pairs \ excused' PROVE Once(pair)'
    <2>1. Once(pair)
      BY <1>1, <1>10 DEF IInv
    <2>2. \A q \in Procs : Pending(q)' \subseteq Pending(q)
      BY <1>3, <1>5, <1>6 DEF Pending
    <2>3. \A q \in Procs : call'[q] # None /\ pair \in call'[q].todo =>
              call[q] # None /\ pair \in call[q].todo
      BY <1>3, <1>5, <1>6
    <2>4. delivered[pair] = 1 =>
              \/ ledger'[pair] # None
              \/ \E q \in Procs : call'[q] # None /\ call'[q].current = pair
      <3>1. CASE pair = sent
        BY <1>2, <3>1
      <3>2. CASE pair # sent
        BY <1>2, <1>6, <2>1, <3>2 DEF Once, sent
      <3> QED
        BY <3>1, <3>2
    <2> QED
      BY <1>1, <2>1, <2>2, <2>3, <2>4 DEF Once
  <1> QED
    BY <1>7, <1>8, <1>9, <1>10 DEF IInv

LEMMA FailuresKeep ==
    ASSUME IInv, NEW p \in Procs, SendFails(p) \/ MarkFails(p) \/ Crash(p)
    PROVE  IInv'
  <1>1. delivered \in [Pairs -> 0 .. 2] /\ excused \subseteq Pairs
    BY DEF IInv, TypeOK
  <1>2. CASE SendFails(p)
    <2>1. Return(p) /\ pc[p] = "sending" /\ UNCHANGED <<agenda, now, ledger>>
      BY <1>2 DEF SendFails
    <2>2. CASE UNCHANGED <<delivered, excused>>
      BY <1>1, <2>1, <2>2, ReturnKeeps
    <2>3. CASE \E pair \in FirstOf(p) :
                  delivered' = Delivered(pair) /\ excused' = excused \cup {pair}
      <3>1. PICK pair \in FirstOf(p) :
                  delivered' = Delivered(pair) /\ excused' = excused \cup {pair}
        BY <2>3
      <3>2. pair \in Pairs
        BY <2>1, CallTypes DEF FirstOf
      <3> QED
        BY <1>1, <2>1, <3>1, <3>2, DeliveredCounts, ReturnKeeps
    <2> QED
      BY <1>2, <2>2, <2>3 DEF SendFails
  <1>3. CASE MarkFails(p)
    <2>1. call[p].current \in Pairs
      BY <1>3, CallTypes DEF MarkFails, IInv, CallShape
    <2> QED
      BY <1>1, <1>3, <2>1, ReturnKeeps DEF MarkFails
  <1>4. CASE Crash(p)
    <2>1. call[p].current \in Pairs \cup {None}
      BY <1>4, CallTypes DEF Crash
    <2>2. pc[p] = "recording" => call[p].current # None
      BY DEF IInv, CallShape
    <2> QED
      BY <1>1, <1>4, <2>1, <2>2, ReturnKeeps DEF Crash
  <1> QED
    BY <1>2, <1>3, <1>4

\* The agenda and the clock are nothing to the calls under way.
LEMMA WorldKeeps ==
    ASSUME IInv, agenda' \in [Visits -> Entries], now' \in 0 .. LastInstant,
           UNCHANGED <<ledger, delivered, pc, call, excused>>
    PROVE  IInv'
  <1>1. TypeOK'
    BY DEF IInv, TypeOK
  <1>2. \A p \in Procs : Pending(p)' = Pending(p)
    BY DEF Pending
  <1>3. \A p \in Procs : CallShape(p)'
    BY DEF IInv, CallShape
  <1>4. ASSUME NEW pair \in Pairs \ excused' PROVE Once(pair)'
    BY <1>2, <1>4 DEF IInv, Once
  <1>5. RecordedWasDelivered'
    BY DEF IInv, RecordedWasDelivered
  <1> QED
    BY <1>1, <1>3, <1>4, <1>5 DEF IInv

LEMMA InitIInv == Init => IInv
  <1> SUFFICES ASSUME Init PROVE IInv
    OBVIOUS
  <1>1. TypeOK
    <2>1. agenda \in [Visits -> Entries]
      BY DEF Init, Entries
    <2>2. now \in 0 .. LastInstant
      BY RemindersAssumption DEF Init
    <2> QED
      BY <2>1, <2>2 DEF Init, TypeOK
  <1>2. \A p \in Procs : CallShape(p)
    BY DEF Init, CallShape
  <1>3. RecordedWasDelivered
    BY DEF Init, RecordedWasDelivered
  <1>4. \A pair \in Pairs : Once(pair)
    BY DEF Init, Once
  <1> QED
    BY <1>1, <1>2, <1>3, <1>4 DEF IInv

LEMMA NextKeeps ==
    ASSUME IInv, [Next]_vars
    PROVE  IInv'
  <1>1. ASSUME NEW p \in Procs, Step(p) PROVE IInv'
    BY <1>1, DispatchKeeps, FindDueKeeps, SendKeeps, MarkKeeps, FailuresKeep DEF Step
  <1>2. CASE Tick
    <2>1. now' \in 0 .. LastInstant
      BY <1>2, RemindersAssumption DEF Tick, IInv, TypeOK
    <2> QED
      BY <1>2, <2>1, WorldKeeps DEF Tick, IInv, TypeOK
  <1>3. ASSUME NEW v \in Visits, Change(v) PROVE IInv'
    <2>1. agenda' \in [Visits -> Entries]
      BY <1>3 DEF Change, IInv, TypeOK, Entries
    <2> QED
      BY <1>3, <2>1, WorldKeeps DEF Change, IInv, TypeOK
  <1>4. CASE UNCHANGED vars
    BY <1>4, WorldKeeps DEF vars, IInv, TypeOK
  <1> QED
    BY <1>1, <1>2, <1>3, <1>4 DEF Next

\* What the calls know of the ledger and of each other, for any workers and
\* faults and on both ledgers.
THEOREM ReminderInvariant == Spec => []IInv
  <1>1. Init => IInv
    BY InitIInv
  <1>2. IInv /\ [Next]_vars => IInv'
    BY NextKeeps
  <1> QED
    BY <1>1, <1>2, PTL DEF Spec

\* Every variable keeps its type and a call has local variables exactly while it
\* runs.
THEOREM TypeCorrectness == Spec => []TypeOK
  <1>1. IInv => TypeOK
    BY DEF IInv
  <1> QED
    BY <1>1, ReminderInvariant, PTL

\* The ledger is never ahead of the port (reminder_dispatcher.py:28-30).
THEOREM LedgerFollowsPort == Spec => []RecordedWasDelivered
  <1>1. IInv => RecordedWasDelivered
    BY DEF IInv
  <1> QED
    BY <1>1, ReminderInvariant, PTL

\* A reminder is delivered twice only when a failure left it unrecorded or two
\* calls had it due at once, whatever the agenda and the clock do meanwhile
\* (reminder_dispatcher.py:25-30).
THEOREM SecondDeliveries == Spec => []TwiceOnlyForAReason
  <1>1. IInv => TwiceOnlyForAReason
    BY DEF IInv, TwiceOnlyForAReason, Once
  <1> QED
    BY <1>1, ReminderInvariant, PTL

LEMMA ReportStep ==
    ASSUME IInv, [Next]_vars, Backend = "sql"
    PROVE  \A pair \in Pairs : ledger[pair] # None => ledger'[pair] = ledger[pair]
  <1>1. ASSUME NEW p \in Procs, Mark(p)
        PROVE  \A pair \in Pairs : ledger[pair] # None => ledger'[pair] = ledger[pair]
    BY <1>1, MarkSentRecords DEF Mark
  <1>2. ASSUME NEW p \in Procs, Step(p), ~Mark(p)
        PROVE  ledger' = ledger
    BY <1>2 DEF Step, Dispatch, FindDue, Send, SendFails, MarkFails, Crash
  <1> QED
    BY <1>1, <1>2 DEF Next, Tick, Change, vars

\* In a database a reminder keeps the time at which it was first recorded
\* (reminder_repository.py:26-39).
THEOREM ReportsNeverChange ==
    ASSUME Backend = "sql"
    PROVE  Spec => ReportsStay
  <1>1. IInv /\ [Next]_vars => [ReportStays]_vars
    BY ReportStep DEF ReportStays
  <1> QED
    BY <1>1, ReminderInvariant, PTL DEF Spec, ReportsStay

===============================================================================
