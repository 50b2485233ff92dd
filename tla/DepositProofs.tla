----------------------------- MODULE DepositProofs -----------------------------
(***************************************************************************)
(* What the database alone guarantees of the deposit ledger, for any       *)
(* number of callers that share it, crash and meet a failing port; and     *)
(* what holds besides where no two of them work on one deposit at a time.  *)
(***************************************************************************)
EXTENDS DepositProperties, TLAPS

LEMMA CallTypes ==
    ASSUME TypeOK, NEW p \in Procs, pc[p] # "idle"
    PROVE  /\ call[p] \in Calls /\ call[p].id \in DepositIds
           /\ call[p].cand \in Deposits /\ call[p] # None
  BY NoCallAssumption DEF TypeOK, Calls

\* What an UPDATE leaves in the row of a deposit.
LEMMA WrittenIsDeposit ==
    ASSUME NEW c \in Calls, ledger[c.id] \in Deposits
    PROVE  /\ Written(c) \in Deposits
           /\ Written(c).status \in {c.cand.status, ledger[c.id].status}
           /\ c.cand.visit = ledger[c.id].visit => Written(c).visit = ledger[c.id].visit
  <1> DEFINE row    == ledger[c.id]
             status == Merged(c.cand.status, c.loaded.status, row.status)
             method == Merged(c.cand.method, c.loaded.method, row.method)
  <1>1. c.cand \in Deposits
    BY DEF Calls
  <1>2. CASE Backend = "memory"
    BY <1>1, <1>2 DEF Written
  <1>3. CASE Backend # "memory"
    <2>1. /\ status \in DepositStatus /\ status \in {c.cand.status, row.status}
          /\ method \in Methods \cup {None}
      BY <1>1 DEF Merged, Deposits
    <2>2. Written(c) = [row EXCEPT !.status = status, !.method = method]
      BY <1>3 DEF Written
    <2> HIDE DEF status, method
    <2> QED
      BY <2>1, <2>2 DEF Deposits
  <1> QED
    BY <1>2, <1>3

\* A call that begins with a deposit of the ledger, or with a new one.
LEMMA BeginKeeps ==
    ASSUME IInv, NEW p \in Procs, pc[p] = "idle", NEW step \in {"insert", "refund", "fetch"},
           NEW d \in DepositIds, NEW deposit \in Deposits, Begin(p, step, d, deposit),
           step = "insert" => deposit.status = "pending",
           step # "insert" => ledger[d] # None /\ deposit.visit = ledger[d].visit,
           step = "fetch" => deposit.status # "refunded"
    PROVE  IInv'
  <1> DEFINE c == [id |-> d, cand |-> deposit, loaded |-> None]
  <1>1. /\ pc' = [pc EXCEPT ![p] = step] /\ call' = [call EXCEPT ![p] = c]
        /\ ledger' = ledger /\ provider' = provider
    BY DEF Begin, Goto
  <1>2. c \in Calls /\ c # None
    BY NoCallAssumption DEF Calls
  <1>3. pc'[p] = step /\ call'[p] = c
    BY <1>1 DEF IInv, TypeOK
  <1>4. \A q \in Procs \ {p} : pc'[q] = pc[q] /\ call'[q] = call[q]
    BY <1>1 DEF IInv, TypeOK
  <1>5. TypeOK'
    BY <1>1, <1>2, <1>3, <1>4 DEF IInv, TypeOK, PCs
  <1>6. ASSUME NEW q \in Procs PROVE pc'[q] # "assign" /\ CallShape(q)'
    BY <1>1, <1>3, <1>4 DEF IInv, CallShape
  <1>7. \A e \in DepositIds : Charging(e)' = Charging(e)
    BY <1>3, <1>4 DEF Charging
  <1>8. ChargedAtMostOnce' /\ OneDepositPerAppointment' /\ RefundedWasAskedFor'
    BY <1>1, <1>7 DEF IInv, ChargedAtMostOnce, OneDepositPerAppointment, RefundedWasAskedFor
  <1> QED
    BY <1>5, <1>6, <1>8 DEF IInv

\* A call that returns without touching the ledger, whatever it has asked of the
\* provider other than a charge.
LEMMA ReturnKeeps ==
    ASSUME IInv, NEW p \in Procs, Return(p), ledger' = ledger, TypeOK',
           \A d \in DepositIds :
              /\ provider'[d].charges = provider[d].charges
              /\ provider'[d].refunds >= provider[d].refunds
    PROVE  IInv'
  <1>1. pc' = [pc EXCEPT ![p] = "idle"] /\ call' = [call EXCEPT ![p] = None]
    BY DEF Return, Goto
  <1>2. pc'[p] = "idle" /\ \A q \in Procs \ {p} : pc'[q] = pc[q] /\ call'[q] = call[q]
    BY <1>1 DEF IInv, TypeOK
  <1>3. ASSUME NEW q \in Procs PROVE pc'[q] # "assign" /\ CallShape(q)'
    <2>1. CASE q = p
      BY <1>2, <2>1 DEF CallShape
    <2>2. CASE q # p
      <3>1. pc[q] # "idle" => call[q].id \in DepositIds
        BY CallTypes DEF IInv
      <3>2. \A d \in DepositIds : provider[d].refunds \in Nat /\ provider'[d].refunds \in Nat
        BY DEF IInv, TypeOK
      <3> QED
        BY <1>2, <2>2, <3>1, <3>2 DEF IInv, CallShape
    <2> QED
      BY <2>1, <2>2
  <1>4. \A d \in DepositIds : Charging(d)' \subseteq Charging(d)
    BY <1>2 DEF Charging
  <1>5. ChargedAtMostOnce'
    BY <1>4 DEF IInv, ChargedAtMostOnce
  <1>6. RefundedWasAskedFor' /\ OneDepositPerAppointment'
    BY DEF IInv, TypeOK, OneDepositPerAppointment, RefundedWasAskedFor
  <1> QED
    BY <1>3, <1>5, <1>6 DEF IInv

LEMMA InsertKeeps ==
    ASSUME IInv, Backend = "sql", NEW p \in Procs, Insert(p), ~Fail(p)
    PROVE  IInv'
  <1> DEFINE c == call[p]
  <1>1. /\ pc[p] = "insert" /\ ~Taken(c)
        /\ ledger' = [ledger EXCEPT ![c.id] = c.cand]
        /\ pc' = [pc EXCEPT ![p] = "charge"]
        /\ call' = call /\ provider' = provider
    BY DEF Insert, Goto
  <1>2. /\ c.id \in DepositIds /\ c.cand \in Deposits /\ c.cand # None
        /\ c.cand.status = "pending"
    BY <1>1, CallTypes, DepositsAssumption DEF IInv, CallShape
  <1>3. ledger[c.id] = None /\ ~HasDeposit(c.cand.visit)
    BY <1>1 DEF Taken
  <1>4. pc'[p] = "charge" /\ \A q \in Procs \ {p} : pc'[q] = pc[q]
    BY <1>1 DEF IInv, TypeOK
  <1>5. ledger'[c.id] = c.cand /\ \A d \in DepositIds \ {c.id} : ledger'[d] = ledger[d]
    BY <1>1, <1>2 DEF IInv, TypeOK
  <1>6. TypeOK'
    BY <1>1, <1>2, <1>4 DEF IInv, TypeOK, PCs
  <1>7. ASSUME NEW q \in Procs PROVE pc'[q] # "assign" /\ CallShape(q)'
    <2>1. CASE q = p
      BY <1>1, <1>2, <1>4, <1>5, <2>1 DEF CallShape
    <2>2. CASE q # p
      <3>1. pc[q] # "idle" => call[q].id \in DepositIds
        BY CallTypes DEF IInv
      <3>2. pc[q] \in {"charge", "refund", "fetch", "flush"} => call[q].id # c.id
        BY <1>3 DEF IInv, CallShape
      <3> QED
        BY <1>1, <1>4, <1>5, <2>2, <3>1, <3>2 DEF IInv, CallShape
    <2> QED
      BY <2>1, <2>2
  <1>8. OneDepositPerAppointment'
    BY <1>2, <1>3, <1>5 DEF IInv, OneDepositPerAppointment, HasDeposit
  <1>9. ChargedAtMostOnce'
    <2>1. Charging(c.id) = {} /\ provider[c.id].charges = 0
      <3>1. Charging(c.id) = {}
        BY <1>3 DEF IInv, CallShape, Charging
      <3>2. provider[c.id].charges \in Nat
        BY <1>2 DEF IInv, TypeOK
      <3> QED
        BY <1>2, <1>3, <3>1, <3>2 DEF IInv, ChargedAtMostOnce
    <2>2. Charging(c.id)' = {p}
      BY <1>1, <1>4, <2>1 DEF Charging
    <2>3. \A d \in DepositIds \ {c.id} : Charging(d)' = Charging(d)
      BY <1>1, <1>4 DEF Charging
    <2> QED
      BY <1>1, <1>2, <1>5, <2>1, <2>2, <2>3 DEF IInv, ChargedAtMostOnce
  <1>10. RefundedWasAskedFor'
    BY <1>1, <1>2, <1>5 DEF IInv, RefundedWasAskedFor
  <1> QED
    BY <1>6, <1>7, <1>8, <1>9, <1>10 DEF IInv

LEMMA ChargeKeeps ==
    ASSUME IInv, NEW p \in Procs, Charge(p)
    PROVE  IInv'
  <1>0. pc[p] = "charge" /\ call[p].id \in DepositIds
    BY CallTypes DEF IInv, Charge
  <1> PICK d \in DepositIds : d = call[p].id
    BY <1>0
  <1>1. /\ pc[p] = "charge" /\ ledger' = ledger
        /\ pc' = [pc EXCEPT ![p] = "idle"] /\ call' = [call EXCEPT ![p] = None]
        /\ \/ provider' = provider
           \/ provider' = [provider EXCEPT ![d].charges = @ + 1]
    BY DEF Charge, Return, Goto
  <1>3. pc'[p] = "idle" /\ \A q \in Procs \ {p} : pc'[q] = pc[q] /\ call'[q] = call[q]
    BY <1>1 DEF IInv, TypeOK
  <1>4. provider' \in [DepositIds -> [charges : Nat, refunds : Nat]]
    BY <1>1 DEF IInv, TypeOK
  <1>5. /\ \A e \in DepositIds : provider'[e].refunds = provider[e].refunds
        /\ \A e \in DepositIds \ {d} : provider'[e].charges = provider[e].charges
        /\ provider'[d].charges \in {provider[d].charges, provider[d].charges + 1}
    BY <1>1 DEF IInv, TypeOK
  <1>6. TypeOK'
    BY <1>1, <1>3, <1>4 DEF IInv, TypeOK, PCs
  <1>7. ASSUME NEW q \in Procs PROVE pc'[q] # "assign" /\ CallShape(q)'
    <2>1. pc[q] # "idle" => call[q].id \in DepositIds
      BY CallTypes DEF IInv
    <2> QED
      BY <1>1, <1>3, <1>5, <2>1 DEF IInv, CallShape
  <1>8. Charging(d) = {p}
    BY <1>1 DEF IInv, ChargedAtMostOnce, Charging
  <1>9. provider[d].charges = 0 /\ ledger[d] # None
    <2>1. provider[d].charges \in Nat
      BY DEF IInv, TypeOK
    <2> QED
      BY <1>1, <1>8, <2>1 DEF IInv, ChargedAtMostOnce, CallShape
  <1>10. Charging(d)' = {} /\ \A e \in DepositIds \ {d} : Charging(e)' = Charging(e)
    BY <1>1, <1>3, <1>8 DEF Charging
  <1>11. ChargedAtMostOnce'
    BY <1>1, <1>5, <1>9, <1>10 DEF IInv, ChargedAtMostOnce
  <1>12. OneDepositPerAppointment' /\ RefundedWasAskedFor'
    BY <1>1, <1>5 DEF IInv, OneDepositPerAppointment, RefundedWasAskedFor
  <1> QED
    BY <1>6, <1>7, <1>11, <1>12 DEF IInv

LEMMA AskingKeeps ==
    ASSUME IInv, NEW p \in Procs, Refund(p)
    PROVE  IInv'
  <1> DEFINE d == call[p].id
  <1>1. /\ pc[p] = "refund" /\ ledger' = ledger
        /\ provider' = [provider EXCEPT ![d].refunds = @ + 1]
        /\ (pc' = [pc EXCEPT ![p] = "fetch"] /\ call' = call) \/ Return(p)
    BY DEF Refund, Goto
  <1>2. d \in DepositIds
    BY <1>1, CallTypes DEF IInv
  <1>3. provider' \in [DepositIds -> [charges : Nat, refunds : Nat]]
    BY <1>1, <1>2 DEF IInv, TypeOK
  <1>4. /\ \A e \in DepositIds : provider'[e].charges = provider[e].charges
        /\ \A e \in DepositIds : provider'[e].refunds >= provider[e].refunds
        /\ provider'[d].refunds > 0
    BY <1>1, <1>2 DEF IInv, TypeOK
  <1>5. CASE Return(p)
    <2>1. TypeOK'
      BY <1>1, <1>3, <1>5 DEF IInv, TypeOK, PCs, Return, Goto
    <2> QED
      BY <1>1, <1>4, <1>5, <2>1, ReturnKeeps
  <1>6. CASE pc' = [pc EXCEPT ![p] = "fetch"] /\ call' = call
    <2>1. pc'[p] = "fetch" /\ \A q \in Procs \ {p} : pc'[q] = pc[q]
      BY <1>6 DEF IInv, TypeOK
    <2>2. TypeOK'
      BY <1>1, <1>3, <1>6, <2>1 DEF IInv, TypeOK, PCs
    <2>3. ASSUME NEW q \in Procs PROVE pc'[q] # "assign" /\ CallShape(q)'
      <3>1. pc[q] # "idle" => call[q].id \in DepositIds
        BY CallTypes DEF IInv
      <3>2. \A e \in DepositIds : provider[e].refunds \in Nat /\ provider'[e].refunds \in Nat
        BY <1>3 DEF IInv, TypeOK
      <3> QED
        BY <1>1, <1>4, <1>6, <2>1, <3>1, <3>2 DEF IInv, CallShape
    <2>4. \A e \in DepositIds : Charging(e)' = Charging(e)
      BY <1>1, <1>6, <2>1 DEF Charging
    <2>5. ChargedAtMostOnce'
      BY <1>1, <1>4, <2>4 DEF IInv, ChargedAtMostOnce
    <2>6. OneDepositPerAppointment' /\ RefundedWasAskedFor'
      BY <1>1, <1>3, <1>4 DEF IInv, TypeOK, OneDepositPerAppointment, RefundedWasAskedFor
    <2> QED
      BY <2>2, <2>3, <2>5, <2>6 DEF IInv
  <1> QED
    BY <1>1, <1>5, <1>6

LEMMA FetchKeeps ==
    ASSUME IInv, NEW p \in Procs, Fetch(p)
    PROVE  IInv'
  <1> DEFINE c == call[p]
  <1>1. /\ pc[p] = "fetch" /\ ledger' = ledger /\ provider' = provider
        /\ call' = [call EXCEPT ![p].loaded = ledger[c.id]]
        /\ pc' = [pc EXCEPT ![p] = "flush"]
    BY DEF Fetch, Goto
  <1>2. c \in Calls /\ c.id \in DepositIds
    BY <1>1, CallTypes DEF IInv
  <1>3. call'[p] = [c EXCEPT !.loaded = ledger[c.id]]
    BY <1>1, <1>2 DEF IInv, TypeOK
  <1>4. call'[p] \in Calls /\ call'[p].id = c.id /\ call'[p].cand = c.cand
    BY <1>2, <1>3 DEF IInv, TypeOK, Calls
  <1>5. pc'[p] = "flush" /\ \A q \in Procs \ {p} : pc'[q] = pc[q] /\ call'[q] = call[q]
    BY <1>1 DEF IInv, TypeOK
  <1>6. TypeOK'
    <2>1. call' \in [Procs -> Calls \cup {None}] /\ call'[p] # None
      BY <1>1, <1>4, NoCallAssumption DEF IInv, TypeOK
    <2> QED
      BY <1>1, <1>5, <2>1 DEF IInv, TypeOK, PCs
  <1>7. ASSUME NEW q \in Procs PROVE pc'[q] # "assign" /\ CallShape(q)'
    BY <1>1, <1>4, <1>5 DEF IInv, CallShape
  <1>8. \A e \in DepositIds : Charging(e)' = Charging(e)
    BY <1>1, <1>5 DEF Charging
  <1>9. ChargedAtMostOnce' /\ OneDepositPerAppointment' /\ RefundedWasAskedFor'
    BY <1>1, <1>8 DEF IInv, ChargedAtMostOnce, OneDepositPerAppointment, RefundedWasAskedFor
  <1> QED
    BY <1>6, <1>7, <1>9 DEF IInv

LEMMA FlushKeeps ==
    ASSUME IInv, NEW p \in Procs, Flush(p)
    PROVE  IInv'
  <1> DEFINE c   == call[p]
             row == Written(c)
  <1>1. /\ pc[p] = "flush" /\ provider' = provider
        /\ ledger' = [ledger EXCEPT ![c.id] = row]
        /\ pc' = [pc EXCEPT ![p] = "idle"] /\ call' = [call EXCEPT ![p] = None]
    BY DEF Flush, Return, Goto
  <1>2. c \in Calls /\ c.id \in DepositIds
    BY <1>1, CallTypes DEF IInv
  <1>3. ledger[c.id] \in Deposits /\ c.cand.visit = ledger[c.id].visit
    BY <1>1, <1>2 DEF IInv, CallShape, TypeOK
  <1>4. /\ row \in Deposits /\ row # None /\ row.visit = ledger[c.id].visit
        /\ row.status \in {c.cand.status, ledger[c.id].status}
    BY <1>2, <1>3, WrittenIsDeposit, DepositsAssumption
  <1> HIDE DEF row
  <1>5. pc'[p] = "idle" /\ \A q \in Procs \ {p} : pc'[q] = pc[q] /\ call'[q] = call[q]
    BY <1>1 DEF IInv, TypeOK
  <1>6. ledger'[c.id] = row /\ \A d \in DepositIds \ {c.id} : ledger'[d] = ledger[d]
    BY <1>1, <1>2 DEF IInv, TypeOK
  <1>7. TypeOK'
    BY <1>1, <1>2, <1>4, <1>5 DEF IInv, TypeOK, PCs
  <1>8. ASSUME NEW q \in Procs PROVE pc'[q] # "assign" /\ CallShape(q)'
    <2>1. pc[q] # "idle" => call[q].id \in DepositIds
      BY CallTypes DEF IInv
    <2> QED
      BY <1>1, <1>3, <1>4, <1>5, <1>6, <2>1 DEF IInv, CallShape
  <1>9. \A e \in DepositIds : Charging(e)' = Charging(e)
    BY <1>1, <1>5 DEF Charging
  <1>10. ChargedAtMostOnce'
    BY <1>1, <1>4, <1>6, <1>9 DEF IInv, ChargedAtMostOnce
  <1>11. OneDepositPerAppointment'
    BY <1>3, <1>4, <1>6, DepositsAssumption DEF IInv, OneDepositPerAppointment
  <1>12. RefundedWasAskedFor'
    BY <1>1, <1>2, <1>3, <1>4, <1>6, DepositsAssumption
       DEF IInv, CallShape, RefundedWasAskedFor
  <1> QED
    BY <1>7, <1>8, <1>10, <1>11, <1>12 DEF IInv

LEMMA FailKeeps ==
    ASSUME IInv, NEW p \in Procs, Fail(p)
    PROVE  IInv'
  <1>1. /\ pc' = [pc EXCEPT ![p] = "idle"] /\ call' = [call EXCEPT ![p] = None]
        /\ ledger' = ledger /\ provider' = provider /\ Return(p)
    BY DEF Fail, Return, Goto
  <1>2. TypeOK'
    BY <1>1 DEF IInv, TypeOK, PCs
  <1>3. \A d \in DepositIds : provider'[d].refunds >= provider[d].refunds
    BY <1>1 DEF IInv, TypeOK
  <1> QED
    BY <1>1, <1>2, <1>3, ReturnKeeps

LEMMA StutterKeeps ==
    ASSUME IInv, UNCHANGED vars
    PROVE  IInv'
  <1>1. \A d \in DepositIds : Charging(d)' = Charging(d)
    BY DEF vars, Charging
  <1>2. TypeOK' /\ \A p \in Procs : pc'[p] # "assign" /\ CallShape(p)'
    BY DEF vars, IInv, TypeOK, CallShape
  <1>3. ChargedAtMostOnce' /\ OneDepositPerAppointment' /\ RefundedWasAskedFor'
    BY <1>1 DEF vars, IInv, ChargedAtMostOnce, OneDepositPerAppointment, RefundedWasAskedFor
  <1> QED
    BY <1>2, <1>3 DEF IInv

LEMMA HandlersKeep ==
    ASSUME IInv, NEW p \in Procs,
           Request(p) \/ MarkPaid(p) \/ MarkFailed(p) \/ RequestRefund(p)
    PROVE  IInv'
  <1>1. CASE Request(p)
    <2>1. PICK d \in DepositIds, v \in Visits :
            /\ Free(p, d)
            /\ Begin(p, "insert", d, [visit |-> v, status |-> "pending", method |-> None])
      BY <1>1 DEF Request
    <2>2. pc[p] = "idle"
      BY <2>1 DEF Free
    <2>3. [visit |-> v, status |-> "pending", method |-> None] \in Deposits
      BY DEF Deposits, DepositStatus
    <2> QED
      BY <2>1, <2>2, <2>3, BeginKeeps
  <1>2. CASE MarkPaid(p)
    <2>1. PICK d \in DepositIds, method \in Methods \cup {None} :
            /\ pc[p] = "idle" /\ ledger[d] # None
            /\ Begin(p, "fetch", d,
                     [ledger[d] EXCEPT !.status = "paid",
                                       !.method = IF method # None THEN method ELSE @])
      BY <1>2 DEF MarkPaid, Free
    <2> DEFINE deposit == [ledger[d] EXCEPT !.status = "paid",
                                            !.method = IF method # None THEN method ELSE @]
    <2>2. ledger[d] \in Deposits
      BY <2>1 DEF IInv, TypeOK
    <2>3. /\ deposit \in Deposits /\ deposit.visit = ledger[d].visit
          /\ deposit.status = "paid"
      BY <2>2 DEF Deposits, DepositStatus
    <2> QED
      BY <2>1, <2>3, BeginKeeps
  <1>3. CASE MarkFailed(p)
    <2>1. PICK d \in DepositIds :
            /\ pc[p] = "idle" /\ ledger[d] # None
            /\ Begin(p, "fetch", d, [ledger[d] EXCEPT !.status = "failed"])
      BY <1>3 DEF MarkFailed, Free
    <2> DEFINE deposit == [ledger[d] EXCEPT !.status = "failed"]
    <2>2. ledger[d] \in Deposits
      BY <2>1 DEF IInv, TypeOK
    <2>3. /\ deposit \in Deposits /\ deposit.visit = ledger[d].visit
          /\ deposit.status = "failed"
      BY <2>2 DEF Deposits, DepositStatus
    <2> QED
      BY <2>1, <2>3, BeginKeeps
  <1>4. CASE RequestRefund(p)
    <2>1. PICK d \in DepositIds :
            /\ pc[p] = "idle" /\ ledger[d] # None
            /\ Begin(p, "refund", d, [ledger[d] EXCEPT !.status = "refunded"])
      BY <1>4 DEF RequestRefund, Free
    <2> DEFINE deposit == [ledger[d] EXCEPT !.status = "refunded"]
    <2>2. ledger[d] \in Deposits
      BY <2>1 DEF IInv, TypeOK
    <2>3. deposit \in Deposits /\ deposit.visit = ledger[d].visit
      BY <2>2 DEF Deposits, DepositStatus
    <2> QED
      BY <2>1, <2>3, BeginKeeps
  <1> QED
    BY <1>1, <1>2, <1>3, <1>4

LEMMA InitIInv ==
    ASSUME Init
    PROVE  IInv
  <1>1. \A d \in DepositIds : Charging(d) = {}
    BY DEF Init, Charging
  <1>2. TypeOK
    BY DEF Init, TypeOK, PCs
  <1>3. \A p \in Procs : pc[p] # "assign" /\ CallShape(p)
    BY DEF Init, CallShape
  <1>4. ChargedAtMostOnce /\ OneDepositPerAppointment /\ RefundedWasAskedFor
    BY <1>1 DEF Init, ChargedAtMostOnce, OneDepositPerAppointment, RefundedWasAskedFor
  <1> QED
    BY <1>2, <1>3, <1>4 DEF IInv

\* The invariant of a ledger in a database, whoever shares it.
THEOREM LedgerInvariant ==
    ASSUME Backend = "sql"
    PROVE  Spec => []IInv
  <1>1. ASSUME IInv, Next
        PROVE  IInv'
    <2>1. ASSUME NEW p \in Procs, Step(p)
          PROVE  IInv'
      <3>1. CASE Fail(p)
        BY <1>1, <3>1, FailKeeps
      <3>2. CASE Request(p) \/ MarkPaid(p) \/ MarkFailed(p) \/ RequestRefund(p)
        BY <1>1, <3>2, HandlersKeep
      <3>3. CASE Insert(p) /\ ~Fail(p)
        BY <1>1, <3>3, InsertKeeps
      <3>4. CASE Assign(p)
        BY <1>1, <3>4 DEF IInv, Assign
      <3>5. CASE Charge(p) \/ Refund(p) \/ Fetch(p) \/ Flush(p)
        BY <1>1, <3>5, ChargeKeeps, AskingKeeps, FetchKeeps, FlushKeeps
      <3>6. CASE RefundFails(p) \/ Crash(p)
        BY <3>1, <3>6 DEF RefundFails, Crash
      <3> QED
        BY <2>1, <3>1, <3>2, <3>3, <3>4, <3>5, <3>6 DEF Step
    <2> QED
      BY <1>1, <2>1 DEF Next
  <1>2. IInv /\ [Next]_vars => IInv'
    BY <1>1, StutterKeeps
  <1> QED
    BY <1>2, InitIInv, PTL DEF Spec

\* No appointment has two deposits in a database, whatever the requests for
\* them do: the unique index decides, not the look before it
\* (sqlalchemy_repository.py:252-254).
THEOREM UniqueDeposits ==
    ASSUME Backend = "sql"
    PROVE  Spec => []OneDepositPerAppointment
  BY LedgerInvariant, PTL DEF IInv

\* Nobody is charged twice for a deposit, nor for one that is not stored
\* (deposit_manager.py:41-48).
THEOREM NoDoubleCharge ==
    ASSUME Backend = "sql"
    PROVE  Spec => []ChargedAtMostOnce
  BY LedgerInvariant, PTL DEF IInv

\* What the ledger calls refunded the provider was asked to refund
\* (deposit_manager.py:60-65).
THEOREM RefundsWereAskedFor ==
    ASSUME Backend = "sql"
    PROVE  Spec => []RefundedWasAskedFor
  BY LedgerInvariant, PTL DEF IInv

-------------------------------------------------------------------------------
(* Callers that never work on one deposit at a time, on either backend and  *)
(* with every fault.                                                        *)

\* A step of one caller that leaves the ledger alone, or changes the row of its
\* own deposit, disturbs no other call.
LEMMA OthersStayFresh ==
    ASSUME SerialInv, NEW p \in Procs, NEW q \in Procs \ {p},
           pc'[q] = pc[q], call'[q] = call[q],
           \A d \in DepositIds :
              ledger'[d] # ledger[d] => call[p] # None /\ d = call[p].id
    PROVE  CallIsFresh(q)'
  <1>1. CASE pc[q] = "idle"
    BY <1>1 DEF CallIsFresh
  <1>2. CASE pc[q] # "idle"
    <2>1. call[q] # None /\ call[q].id \in DepositIds
      BY <1>2, CallTypes DEF SerialInv
    <2>2. ledger'[call[q].id] = ledger[call[q].id]
      BY <2>1 DEF SerialInv, Apart
    <2> QED
      BY <2>2 DEF SerialInv, CallIsFresh
  <1> QED
    BY <1>1, <1>2

\* A call keeps its deposit or ends.
LEMMA StayApart ==
    ASSUME SerialInv, NEW p \in Procs,
           \A q \in Procs \ {p} : call'[q] = call[q],
           call'[p] # None => call[p] # None /\ call'[p].id = call[p].id
    PROVE  Apart'
  BY DEF SerialInv, Apart

\* Refunds are remembered as long as the row of each refunded deposit stays paid
\* or refunded.
LEMMA RefundsKept ==
    ASSUME SerialInv, provider' = provider,
           \A d \in DepositIds : ledger'[d] # ledger[d] =>
              \/ ledger[d] = None
              \/ /\ ledger'[d] # None
                 /\ <<ledger[d].status, ledger'[d].status>> \in Allowed
    PROVE  RefundsFollowPayments'
  BY DEF SerialInv, RefundsFollowPayments, Allowed

-------------------------------------------------------------------------------
LEMMA SerialBeginKeeps ==
    ASSUME SerialInv, Serialised, NEW p \in Procs, NEW d \in DepositIds,
           NEW step \in {"insert", "refund", "fetch"}, NEW deposit \in Deposits,
           Free(p, d), Begin(p, step, d, deposit),
           step # "insert" =>
              /\ ledger[d] # None
              /\ deposit.visit = ledger[d].visit
              /\ <<ledger[d].status, deposit.status>> \in Allowed
              /\ ledger[d].status = "paid" => deposit.method = ledger[d].method,
           step = "refund" => ledger[d].status = "paid"
    PROVE  SerialInv'
  <1> DEFINE c == [id |-> d, cand |-> deposit, loaded |-> None]
  <1>1. /\ pc' = [pc EXCEPT ![p] = step] /\ call' = [call EXCEPT ![p] = c]
        /\ ledger' = ledger /\ provider' = provider
    BY DEF Begin, Goto
  <1>2. c \in Calls /\ c # None
    BY NoCallAssumption DEF Calls
  <1>3. pc'[p] = step /\ call'[p] = c
    BY <1>1 DEF SerialInv, TypeOK
  <1>4. \A q \in Procs \ {p} : pc'[q] = pc[q] /\ call'[q] = call[q]
    BY <1>1 DEF SerialInv, TypeOK
  <1>5. TypeOK'
    BY <1>1, <1>2, <1>3, <1>4 DEF SerialInv, TypeOK, PCs
  <1>6. Apart'
    BY <1>3, <1>4 DEF SerialInv, Apart, Free
  <1>7. CallIsFresh(p)'
    BY <1>1, <1>3 DEF CallIsFresh
  <1>8. \A q \in Procs \ {p} : CallIsFresh(q)'
    BY <1>1, <1>4, OthersStayFresh
  <1>9. RefundsFollowPayments'
    BY <1>1, RefundsKept
  <1> QED
    BY <1>5, <1>6, <1>7, <1>8, <1>9 DEF SerialInv

\* The four operations read a row, or make one, that is fit to be written.
LEMMA SerialHandlersKeep ==
    ASSUME SerialInv, Serialised, NEW p \in Procs,
           Request(p) \/ MarkPaid(p) \/ MarkFailed(p) \/ RequestRefund(p)
    PROVE  SerialInv'
  <1> USE DEF Deposits, DepositStatus
  <1>1. \A d \in DepositIds : ledger[d] # None => ledger[d] \in Deposits
    BY DEF SerialInv, TypeOK
  <1>2. CASE Request(p)
    <2>1. PICK d \in DepositIds, v \in Visits :
              /\ Free(p, d)
              /\ Begin(p, "insert", d, [visit |-> v, status |-> "pending", method |-> None])
      BY <1>2 DEF Request
    <2> QED
      BY <2>1, SerialBeginKeeps
  <1>3. CASE MarkPaid(p)
    <2>1. PICK d \in DepositIds, method \in Methods \cup {None} :
              /\ Free(p, d) /\ ledger[d] # None
              /\ <<ledger[d].status, "paid">> \in Allowed
              /\ Begin(p, "fetch", d,
                       [ledger[d] EXCEPT !.status = "paid",
                                         !.method = IF method # None THEN method ELSE @])
      BY <1>3 DEF MarkPaid
    <2>2. ledger[d].status = "pending"
      BY <2>1 DEF Allowed
    <2> QED
      BY <1>1, <2>1, <2>2, SerialBeginKeeps
  <1>4. CASE MarkFailed(p)
    <2>1. PICK d \in DepositIds :
              /\ Free(p, d) /\ ledger[d] # None
              /\ <<ledger[d].status, "failed">> \in Allowed
              /\ Begin(p, "fetch", d, [ledger[d] EXCEPT !.status = "failed"])
      BY <1>4 DEF MarkFailed
    <2> QED
      BY <1>1, <2>1, SerialBeginKeeps
  <1>5. CASE RequestRefund(p)
    <2>1. PICK d \in DepositIds :
              /\ Free(p, d) /\ ledger[d] # None
              /\ <<ledger[d].status, "refunded">> \in Allowed
              /\ Begin(p, "refund", d, [ledger[d] EXCEPT !.status = "refunded"])
      BY <1>5 DEF RequestRefund
    <2>2. ledger[d].status = "paid"
      BY <2>1 DEF Allowed
    <2> QED
      BY <1>1, <2>1, <2>2, SerialBeginKeeps
  <1> QED
    BY <1>2, <1>3, <1>4, <1>5

-------------------------------------------------------------------------------
\* A call that ends without touching ledger or provider.
LEMMA SerialFailKeeps ==
    ASSUME SerialInv, NEW p \in Procs, Fail(p)
    PROVE  SerialInv'
  <1>1. /\ pc' = [pc EXCEPT ![p] = "idle"] /\ call' = [call EXCEPT ![p] = None]
        /\ ledger' = ledger /\ provider' = provider
    BY DEF Fail, Return, Goto
  <1>2. /\ pc'[p] = "idle" /\ call'[p] = None
        /\ \A q \in Procs \ {p} : pc'[q] = pc[q] /\ call'[q] = call[q]
    BY <1>1 DEF SerialInv, TypeOK
  <1>3. TypeOK'
    BY <1>1, <1>2 DEF SerialInv, TypeOK, PCs
  <1>4. CallIsFresh(p)'
    BY <1>2 DEF CallIsFresh
  <1>5. \A q \in Procs \ {p} : CallIsFresh(q)'
    BY <1>1, <1>2, OthersStayFresh
  <1> QED
    BY <1>1, <1>2, <1>3, <1>4, <1>5, StayApart, RefundsKept DEF SerialInv

\* A row that is stored for the first time.
LEMMA StoreKeeps ==
    ASSUME SerialInv, NEW p \in Procs, pc[p] # "idle", ledger[call[p].id] = None,
           ledger' = [ledger EXCEPT ![call[p].id] = call[p].cand],
           Goto(p, "charge"), UNCHANGED <<provider, call>>
    PROVE  SerialInv' /\ LifecycleStep
  <1>1. /\ call[p] # None /\ call[p].id \in DepositIds /\ call[p].cand \in Deposits
    BY CallTypes DEF SerialInv
  <1>2. /\ pc'[p] = "charge" /\ call'[p] = call[p]
        /\ \A q \in Procs \ {p} : pc'[q] = pc[q] /\ call'[q] = call[q]
    BY DEF SerialInv, TypeOK, Goto
  <1>3. \A d \in DepositIds : ledger'[d] # ledger[d] => d = call[p].id /\ ledger[d] = None
    BY <1>1 DEF SerialInv, TypeOK
  <1>4. TypeOK'
    BY <1>1, <1>2 DEF SerialInv, TypeOK, PCs, Goto
  <1>5. CallIsFresh(p)'
    BY <1>2 DEF CallIsFresh
  <1>6. \A q \in Procs \ {p} : CallIsFresh(q)'
    BY <1>1, <1>2, <1>3, OthersStayFresh
  <1>7. Apart' /\ RefundsFollowPayments'
    BY <1>1, <1>2, <1>3, StayApart, RefundsKept
  <1>8. LifecycleStep
    BY <1>3 DEF LifecycleStep
  <1> QED
    BY <1>4, <1>5, <1>6, <1>7, <1>8 DEF SerialInv

LEMMA SerialInsertKeeps ==
    ASSUME SerialInv, NEW p \in Procs, Insert(p)
    PROVE  SerialInv' /\ (LifecycleStep \/ ledger' = ledger)
  <1>1. CASE Fail(p)
    BY <1>1, SerialFailKeeps DEF Fail
  <1>2. CASE /\ ~Taken(call[p]) /\ pc[p] = "insert"
             /\ Goto(p, "assign") /\ UNCHANGED <<ledger, provider, call>>
    <2>1. /\ pc'[p] = "assign" /\ call'[p] = call[p] /\ ledger[call[p].id] = None
          /\ \A q \in Procs \ {p} : pc'[q] = pc[q] /\ call'[q] = call[q]
      BY <1>2 DEF SerialInv, TypeOK, Goto, Taken
    <2>2. call[p] # None
      BY <1>2, CallTypes DEF SerialInv
    <2>3. TypeOK'
      BY <1>2, <2>1, <2>2 DEF SerialInv, TypeOK, PCs, Goto
    <2>4. CallIsFresh(p)'
      BY <1>2, <2>1 DEF CallIsFresh
    <2>5. \A q \in Procs \ {p} : CallIsFresh(q)'
      BY <1>2, <2>1, OthersStayFresh
    <2> QED
      BY <1>2, <2>1, <2>2, <2>3, <2>4, <2>5, StayApart, RefundsKept DEF SerialInv
  <1>3. CASE /\ ~Taken(call[p]) /\ pc[p] = "insert"
             /\ ledger' = [ledger EXCEPT ![call[p].id] = call[p].cand]
             /\ Goto(p, "charge") /\ UNCHANGED <<provider, call>>
    BY <1>3, StoreKeeps DEF Taken
  <1> QED
    BY <1>1, <1>2, <1>3 DEF Insert

LEMMA AssignKeeps ==
    ASSUME SerialInv, NEW p \in Procs, Assign(p)
    PROVE  SerialInv' /\ LifecycleStep
  <1>1. pc[p] = "assign" /\ ledger[call[p].id] = None
    BY DEF SerialInv, CallIsFresh, Assign
  <1> QED
    BY <1>1, StoreKeeps DEF Assign

-------------------------------------------------------------------------------
\* Asking the provider: only a paid deposit is refunded.
LEMMA SerialAskingKeeps ==
    ASSUME SerialInv, NEW p \in Procs, Charge(p) \/ Refund(p)
    PROVE  SerialInv'
  <1> DEFINE d == call[p].id
  <1>1. /\ pc[p] \in {"charge", "refund"} /\ ledger' = ledger
        /\ call[p] # None /\ d \in DepositIds
    BY CallTypes DEF SerialInv, Charge, Refund
  <1>2. /\ \A q \in Procs \ {p} : pc'[q] = pc[q] /\ call'[q] = call[q]
        /\ \/ pc'[p] = "idle" /\ call'[p] = None
           \/ pc[p] = "refund" /\ pc'[p] = "fetch" /\ call'[p] = call[p]
        /\ pc' \in [Procs -> PCs] /\ call' \in [Procs -> Calls \cup {None}]
    BY DEF Charge, Refund, Return, Goto, SerialInv, TypeOK, PCs
  <1>3. /\ provider' \in [DepositIds -> [charges : Nat, refunds : Nat]]
        /\ \A e \in DepositIds : provider'[e].refunds # provider[e].refunds =>
              e = d /\ pc[p] = "refund"
    <2>1. CASE Charge(p)
      BY <1>1, <2>1 DEF Charge, SerialInv, TypeOK
    <2>2. CASE Refund(p)
      BY <1>1, <2>2 DEF Refund, SerialInv, TypeOK
    <2> QED
      BY <2>1, <2>2
  <1>4. TypeOK'
    BY <1>1, <1>2, <1>3 DEF SerialInv, TypeOK
  <1>5. CallIsFresh(p)'
    BY <1>1, <1>2 DEF SerialInv, CallIsFresh
  <1>6. \A q \in Procs \ {p} : CallIsFresh(q)'
    BY <1>1, <1>2, OthersStayFresh
  <1>7. pc[p] = "refund" => ledger[d] # None /\ ledger[d].status = "paid"
    BY DEF SerialInv, CallIsFresh
  <1>8. RefundsFollowPayments'
    BY <1>1, <1>3, <1>7 DEF SerialInv, RefundsFollowPayments
  <1> QED
    BY <1>2, <1>1, <1>4, <1>5, <1>6, <1>8, StayApart DEF SerialInv

LEMMA SerialFetchKeeps ==
    ASSUME SerialInv, NEW p \in Procs, Fetch(p)
    PROVE  SerialInv'
  <1> DEFINE c == [call[p] EXCEPT !.loaded = ledger[call[p].id]]
  <1>1. /\ pc[p] = "fetch" /\ ledger' = ledger /\ provider' = provider
        /\ call' = [call EXCEPT ![p] = c] /\ pc' = [pc EXCEPT ![p] = "flush"]
    BY DEF Fetch, Goto
  <1>2. call[p] \in Calls /\ call[p] # None /\ call[p].id \in DepositIds
    BY <1>1, CallTypes DEF SerialInv
  <1>3. c \in Calls /\ c # None /\ c.id = call[p].id /\ c.cand = call[p].cand
        /\ c.loaded = ledger[c.id]
    BY <1>2, NoCallAssumption DEF SerialInv, TypeOK, Calls
  <1>4. /\ pc'[p] = "flush" /\ call'[p] = c
        /\ \A q \in Procs \ {p} : pc'[q] = pc[q] /\ call'[q] = call[q]
    BY <1>1 DEF SerialInv, TypeOK
  <1> HIDE DEF c
  <1>5. TypeOK'
    BY <1>1, <1>3, <1>4 DEF SerialInv, TypeOK, PCs
  <1>6. CallIsFresh(p)'
    BY <1>1, <1>3, <1>4 DEF SerialInv, CallIsFresh
  <1>7. \A q \in Procs \ {p} : CallIsFresh(q)'
    BY <1>1, <1>4, OthersStayFresh
  <1> QED
    BY <1>1, <1>2, <1>3, <1>4, <1>5, <1>6, <1>7, StayApart, RefundsKept DEF SerialInv

\* The row that was loaded is still the row, so the write is the transition that
\* was checked.
LEMMA SerialFlushKeeps ==
    ASSUME SerialInv, NEW p \in Procs, Flush(p)
    PROVE  SerialInv' /\ LifecycleStep
  <1> DEFINE c == call[p]
             row == ledger[c.id]
  <1>1. /\ pc[p] = "flush" /\ provider' = provider
        /\ ledger' = [ledger EXCEPT ![c.id] = Written(c)]
        /\ call' = [call EXCEPT ![p] = None] /\ pc' = [pc EXCEPT ![p] = "idle"]
    BY DEF Flush, Return, Goto
  <1>2. /\ c \in Calls /\ c # None /\ c.id \in DepositIds /\ c.cand \in Deposits
    BY <1>1, CallTypes DEF SerialInv
  <1>3. /\ row \in Deposits /\ c.loaded = row /\ c.cand.visit = row.visit
        /\ <<row.status, c.cand.status>> \in Allowed
        /\ row.status = "paid" => c.cand.method = row.method
    BY <1>1, <1>2 DEF SerialInv, TypeOK, CallIsFresh
  <1>4. /\ Written(c) \in Deposits /\ Written(c).visit = row.visit
        /\ Written(c).status = c.cand.status /\ Written(c).method = c.cand.method
    <2>1. CASE Backend = "memory"
      BY <1>2, <1>3, <2>1 DEF Written
    <2>2. CASE Backend # "memory"
      <3>1. Written(c) = [row EXCEPT !.status = c.cand.status, !.method = c.cand.method]
        BY <1>3, <2>2 DEF Written, Merged
      <3> QED
        BY <1>2, <1>3, <3>1 DEF Deposits
    <2> QED
      BY <2>1, <2>2
  <1>5. Written(c) # None
    BY <1>4, DepositsAssumption
  <1>6. /\ ledger'[c.id] = Written(c)
        /\ \A d \in DepositIds : ledger'[d] # ledger[d] => d = c.id
    BY <1>1, <1>2 DEF SerialInv, TypeOK
  <1>7. /\ pc'[p] = "idle" /\ call'[p] = None
        /\ \A q \in Procs \ {p} : pc'[q] = pc[q] /\ call'[q] = call[q]
    BY <1>1 DEF SerialInv, TypeOK
  <1>8. TypeOK'
    BY <1>1, <1>4, <1>7 DEF SerialInv, TypeOK, PCs
  <1>9. CallIsFresh(p)'
    BY <1>7 DEF CallIsFresh
  <1>10. \A q \in Procs \ {p} : CallIsFresh(q)'
    BY <1>2, <1>6, <1>7, OthersStayFresh
  <1>11. Apart' /\ RefundsFollowPayments'
    BY <1>1, <1>3, <1>4, <1>5, <1>6, <1>7, StayApart, RefundsKept
  <1>12. LifecycleStep
    BY <1>3, <1>4, <1>6 DEF LifecycleStep
  <1> QED
    BY <1>8, <1>9, <1>10, <1>11, <1>12 DEF SerialInv

-------------------------------------------------------------------------------
LEMMA StepKeeps ==
    ASSUME SerialInv, Serialised, NEW p \in Procs, Step(p)
    PROVE  SerialInv' /\ (LifecycleStep \/ ledger' = ledger)
  <1>1. CASE Request(p) \/ MarkPaid(p) \/ MarkFailed(p) \/ RequestRefund(p)
    BY <1>1, SerialHandlersKeep DEF Request, MarkPaid, MarkFailed, RequestRefund, Begin
  <1>2. CASE Insert(p) \/ Assign(p)
    BY <1>2, SerialInsertKeeps, AssignKeeps
  <1>3. CASE Charge(p) \/ Refund(p)
    BY <1>3, SerialAskingKeeps DEF Charge, Refund
  <1>4. CASE RefundFails(p) \/ Crash(p)
    BY <1>4, SerialFailKeeps DEF RefundFails, Crash, Fail
  <1>5. CASE Fetch(p) \/ Flush(p)
    BY <1>5, SerialFetchKeeps, SerialFlushKeeps DEF Fetch
  <1> QED
    BY <1>1, <1>2, <1>3, <1>4, <1>5 DEF Step

LEMMA NextKeeps ==
    ASSUME SerialInv, Serialised, [Next]_vars
    PROVE  SerialInv' /\ [LifecycleStep]_vars
  <1>1. CASE Next
    <2>1. PICK p \in Procs : Step(p)
      BY <1>1 DEF Next
    <2>2. ledger' = ledger => LifecycleStep
      BY DEF LifecycleStep
    <2> QED
      BY <2>1, <2>2, StepKeeps
  <1>2. CASE UNCHANGED vars
    BY <1>2 DEF vars, SerialInv, TypeOK, Apart, CallIsFresh, RefundsFollowPayments
  <1> QED
    BY <1>1, <1>2

LEMMA InitSerialInv == Init => SerialInv
  <1> SUFFICES ASSUME Init PROVE SerialInv
    OBVIOUS
  <1>1. TypeOK /\ Apart
    BY DEF Init, TypeOK, PCs, Apart
  <1>2. \A p \in Procs : CallIsFresh(p)
    BY DEF Init, CallIsFresh
  <1>3. RefundsFollowPayments
    BY DEF Init, RefundsFollowPayments
  <1> QED
    BY <1>1, <1>2, <1>3 DEF SerialInv

\* The invariant of callers that never work on one deposit at a time.
THEOREM SerialInvariant ==
    ASSUME Serialised
    PROVE  Spec => []SerialInv
  <1>1. SerialInv /\ [Next]_vars => SerialInv'
    BY NextKeeps
  <1> QED
    BY <1>1, InitSerialInv, PTL DEF Spec

\* Such callers never ask for a refund of a deposit that was not paid, and the
\* ledger never forgets that it was (deposit_manager.py:58-59).
THEOREM RefundsOfPaidDeposits ==
    ASSUME Serialised
    PROVE  Spec => []RefundsFollowPayments
  BY SerialInvariant, PTL DEF SerialInv

\* With such callers a stored deposit only changes along the table of
\* transitions, whatever crashes or fails, in memory as in a database
\* (deposit_manager.py:8-13, 74-86).
THEOREM Lifecycle ==
    ASSUME Serialised
    PROVE  Spec => LifecycleRespected
  <1>1. SerialInv /\ [Next]_vars => [LifecycleStep]_vars
    BY NextKeeps
  <1> QED
    BY <1>1, SerialInvariant, PTL DEF Spec, LifecycleRespected

===============================================================================
