------------------------------- MODULE Deposits -------------------------------
(***************************************************************************)
(* DepositManager (libragenda/deposit_manager.py) over a deposit           *)
(* repository (repositories.py, deposit_repository.py) and the payment     *)
(* port of a vertical (payments.py).                                       *)
(*                                                                         *)
(* Procs are the request and webhook handlers that share one ledger.       *)
(*                                                                         *)
(*   request                 [insert]  charge                              *)
(*   mark_paid, mark_failed  get  [fetch  flush]                           *)
(*   request_refund          get  refund  [fetch  flush]                   *)
(*                                                                         *)
(* The brackets are one transaction each; charge and refund are calls of   *)
(* the port.  In memory the insert is a check and an assignment that       *)
(* another thread can get in between.                                      *)
(***************************************************************************)
EXTENDS Integers

CONSTANTS
    Procs,         \* the concurrent callers
    DepositIds,
    Visits,        \* the appointments deposits are asked for
    Methods,       \* payment methods callers may name (medio_pago)
    Backend,       \* the repository adapter: "memory" or "sql"
    Faults,        \* what may go wrong: "crash" of a caller, failing "port"
    Serialised,    \* TRUE when callers never work on one deposit at a time
    MaxRefunds,    \* no refund is asked for after this many of one deposit
    None

DepositStatus == {"pending", "paid", "failed", "refunded"}

Deposits ==
    [ visit : Visits, status : DepositStatus, method : Methods \cup {None} ]

ASSUME DepositsAssumption ==
    /\ Backend \in {"memory", "sql"}
    /\ Faults \subseteq {"crash", "port"}
    /\ Serialised \in BOOLEAN
    /\ MaxRefunds \in Nat
    /\ None \notin Procs \cup Deposits \cup Methods \cup Visits

Allowed == { <<"pending", "paid">>, <<"pending", "failed">>, <<"paid", "refunded">> }

VARIABLES
    ledger,    \* deposit id |-> the stored deposit, or None
    provider,  \* deposit id |-> what the port was asked for
    pc,        \* caller |-> where its call is
    call       \* caller |-> the local variables of its call, or None

vars == <<ledger, provider, pc, call>>

PCs == {"idle", "insert", "assign", "charge", "refund", "fetch", "flush"}

Calls ==
    [ id : DepositIds, cand : Deposits, loaded : Deposits \cup {None} ]

ASSUME NoCallAssumption == None \notin Calls

Init ==
    /\ ledger = [d \in DepositIds |-> None]
    /\ provider = [d \in DepositIds |-> [charges |-> 0, refunds |-> 0]]
    /\ pc = [p \in Procs |-> "idle"]
    /\ call = [p \in Procs |-> None]

-------------------------------------------------------------------------------

Free(p, d) ==
    /\ pc[p] = "idle"
    /\ Serialised => \A q \in Procs \ {p} : ~(call[q] # None /\ call[q].id = d)

Goto(p, step) == pc' = [pc EXCEPT ![p] = step]

Begin(p, step, d, deposit) ==
    /\ Goto(p, step)
    /\ call' = [call EXCEPT ![p] = [id |-> d, cand |-> deposit, loaded |-> None]]
    /\ UNCHANGED <<ledger, provider>>

\* The call is over, with its result or with an exception.
Return(p) ==
    /\ Goto(p, "idle")
    /\ call' = [call EXCEPT ![p] = None]

Fail(p) == Return(p) /\ UNCHANGED <<ledger, provider>>

Request(p) ==
    \E d \in DepositIds, v \in Visits :
        /\ Free(p, d)
        /\ Begin(p, "insert", d, [visit |-> v, status |-> "pending", method |-> None])

MarkPaid(p) ==
    \E d \in DepositIds, method \in Methods \cup {None} :
        /\ Free(p, d)
        /\ ledger[d] # None
        /\ <<ledger[d].status, "paid">> \in Allowed
        /\ Begin(p, "fetch", d,
                 [ledger[d] EXCEPT !.status = "paid",
                                   !.method = IF method # None THEN method ELSE @])

MarkFailed(p) ==
    \E d \in DepositIds :
        /\ Free(p, d)
        /\ ledger[d] # None
        /\ <<ledger[d].status, "failed">> \in Allowed
        /\ Begin(p, "fetch", d, [ledger[d] EXCEPT !.status = "failed"])

\* Variant to check the properties against, not the code: a refund is stored
\* without asking the provider for it.
RequestRefund_Silent(p) ==
    \E d \in DepositIds :
        /\ Free(p, d)
        /\ ledger[d] # None
        /\ <<ledger[d].status, "refunded">> \in Allowed
        /\ Begin(p, "fetch", d, [ledger[d] EXCEPT !.status = "refunded"])

\* Variant to check the properties against, not the code: the status is not
\* looked at.
RequestRefund_Unchecked(p) ==
    \E d \in DepositIds :
        /\ Free(p, d)
        /\ ledger[d] # None
        /\ provider[d].refunds < MaxRefunds
        /\ Begin(p, "refund", d, [ledger[d] EXCEPT !.status = "refunded"])

\* Variant to check the properties against, not the code: the copy is made
\* without the payment method.
RequestRefund_Forgetful(p) ==
    \E d \in DepositIds :
        /\ Free(p, d)
        /\ ledger[d] # None
        /\ <<ledger[d].status, "refunded">> \in Allowed
        /\ provider[d].refunds < MaxRefunds
        /\ Begin(p, "refund", d, [ledger[d] EXCEPT !.status = "refunded", !.method = None])

\* The bound: none is begun after MaxRefunds.
RequestRefund(p) ==
    \E d \in DepositIds :
        /\ Free(p, d)
        /\ ledger[d] # None
        /\ <<ledger[d].status, "refunded">> \in Allowed
        /\ provider[d].refunds < MaxRefunds
        /\ Begin(p, "refund", d, [ledger[d] EXCEPT !.status = "refunded"])

-------------------------------------------------------------------------------

HasDeposit(v) == \E d \in DepositIds : ledger[d] # None /\ ledger[d].visit = v

Taken(c) == ledger[c.id] # None \/ HasDeposit(c.cand.visit)

\* Variant to check the properties against, not the code: only the primary key
\* is unique.
Insert_AnyVisit(p) ==
    /\ pc[p] = "insert"
    /\ IF ledger[call[p].id] # None
       THEN Fail(p)
       ELSE /\ ledger' = [ledger EXCEPT ![call[p].id] = call[p].cand]
            /\ Goto(p, "charge")
            /\ UNCHANGED <<provider, call>>

\* Variant to check the properties against, not the code: merge() instead of
\* add(), which overwrites the row of an id that is stored.
Insert_Merging(p) ==
    /\ pc[p] = "insert"
    /\ ledger' = [ledger EXCEPT ![call[p].id] = call[p].cand]
    /\ Goto(p, "charge")
    /\ UNCHANGED <<provider, call>>

\* The primary key and the unique appointment_id refuse the row in one step;
\* the dictionary is looked at first and assigned to next.
Insert(p) ==
    /\ pc[p] = "insert"
    /\ IF Taken(call[p])
       THEN Fail(p)
       ELSE IF Backend = "memory"
       THEN Goto(p, "assign") /\ UNCHANGED <<ledger, provider, call>>
       ELSE /\ ledger' = [ledger EXCEPT ![call[p].id] = call[p].cand]
            /\ Goto(p, "charge")
            /\ UNCHANGED <<provider, call>>

Assign(p) ==
    /\ pc[p] = "assign"
    /\ ledger' = [ledger EXCEPT ![call[p].id] = call[p].cand]
    /\ Goto(p, "charge")
    /\ UNCHANGED <<provider, call>>

\* The call returns after the port has; a port that raises may have passed the
\* charge on before it did.
Charge(p) ==
    /\ pc[p] = "charge"
    /\ \E delivered \in {TRUE} \cup (IF "port" \in Faults THEN {FALSE} ELSE {}) :
        provider' = IF delivered THEN [provider EXCEPT ![call[p].id].charges = @ + 1]
                                 ELSE provider
    /\ Return(p)
    /\ UNCHANGED ledger

Refund(p) ==
    /\ pc[p] = "refund"
    /\ provider' = [provider EXCEPT ![call[p].id].refunds = @ + 1]
    /\ \/ Goto(p, "fetch") /\ UNCHANGED call
       \/ "port" \in Faults /\ Return(p)
    /\ UNCHANGED ledger

\* The port raises without having passed the refund on.
RefundFails(p) ==
    /\ "port" \in Faults
    /\ pc[p] = "refund"
    /\ Fail(p)

Fetch(p) ==
    /\ pc[p] = "fetch"
    /\ call' = [call EXCEPT ![p].loaded = ledger[call[p].id]]
    /\ Goto(p, "flush")
    /\ UNCHANGED <<ledger, provider>>

\* An UPDATE leaves out the columns whose new value is the one that was loaded;
\* in memory the whole object is replaced.
Merged(new, loaded, current) == IF new = loaded THEN current ELSE new

Written(c) ==
    IF Backend = "memory"
    THEN c.cand
    ELSE [ ledger[c.id] EXCEPT
           !.status = Merged(c.cand.status, c.loaded.status, @),
           !.method = Merged(c.cand.method, c.loaded.method, @) ]

Flush(p) ==
    /\ pc[p] = "flush"
    /\ ledger' = [ledger EXCEPT ![call[p].id] = Written(call[p])]
    /\ Return(p)
    /\ UNCHANGED provider

Crash(p) ==
    /\ "crash" \in Faults
    /\ Backend # "memory"
    /\ pc[p] # "idle"
    /\ Fail(p)

Step(p) ==
    \/ Request(p) \/ MarkPaid(p) \/ MarkFailed(p) \/ RequestRefund(p)
    \/ Insert(p) \/ Assign(p) \/ Charge(p) \/ Refund(p) \/ RefundFails(p)
    \/ Fetch(p) \/ Flush(p) \/ Crash(p)

Next == \E p \in Procs : Step(p)

Spec == Init /\ [][Next]_vars

===============================================================================
