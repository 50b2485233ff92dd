--------------------------- MODULE DepositProperties ---------------------------
(***************************************************************************)
(* What the deposit ledger has to keep true towards the provider.          *)
(***************************************************************************)
EXTENDS Deposits

\* Every variable holds values of its type and a call has local variables
\* exactly while it runs (deposit_manager.py:41-87).
TypeOK ==
    /\ ledger \in [DepositIds -> Deposits \cup {None}]
    /\ provider \in [DepositIds -> [charges : Nat, refunds : Nat]]
    /\ pc \in [Procs -> PCs]
    /\ call \in [Procs -> Calls \cup {None}]
    /\ \A p \in Procs : call[p] = None <=> pc[p] = "idle"

\* No appointment ever has two deposits, however the requests for it interleave
\* (repositories.py:138-139, the unique appointment_id of
\* sqlalchemy_repository.py:252-254).
OneDepositPerAppointment ==
    \A d, e \in DepositIds :
        /\ d # e
        /\ ledger[d] # None
        /\ ledger[e] # None
        => ledger[d].visit # ledger[e].visit

\* The requests that have stored their row and not yet called the port.
Charging(d) == { p \in Procs : pc[p] = "charge" /\ call[p].id = d }

\* The provider is asked for a charge at most once per deposit, and only for
\* one that is stored: what a crash or a failing port can lose is the charge,
\* never the record of it (deposit_manager.py:41-48).
ChargedAtMostOnce ==
    \A d \in DepositIds :
        /\ provider[d].charges > 0 => ledger[d] # None /\ Charging(d) = {}
        /\ provider[d].charges <= 1
        /\ \A p, q \in Charging(d) : p = q

\* A deposit is stored as refunded only after the provider was asked for it,
\* whatever fails on the way (deposit_manager.py:60-65).
RefundedWasAskedFor ==
    \A d \in DepositIds :
        ledger[d] # None /\ ledger[d].status = "refunded" => provider[d].refunds > 0

\* The provider is asked for a refund only of deposits that were paid, and the
\* ledger never forgets that they were (deposit_manager.py:58-59).
RefundsFollowPayments ==
    \A d \in DepositIds : provider[d].refunds > 0 =>
        ledger[d] # None /\ ledger[d].status \in {"paid", "refunded"}

\* What one step may do to a stored deposit.
LifecycleStep ==
    \A d \in DepositIds : ledger[d] # None /\ ledger'[d] # ledger[d] =>
        /\ <<ledger[d].status, ledger'[d].status>> \in Allowed
        /\ ledger'[d].visit = ledger[d].visit
        /\ ledger[d].status = "paid" => ledger'[d].method = ledger[d].method

\* A stored deposit only changes along the table of transitions, keeping its
\* appointment, and keeps its payment method from the payment on
\* (deposit_manager.py:8-13, 61-64).
LifecycleRespected == [][LifecycleStep]_vars

-------------------------------------------------------------------------------
\* A call that is still going to insert holds the deposit of a request; one that
\* is past its insert has its row; one that is about to store a refund has asked
\* the provider for it.
CallShape(p) ==
    /\ pc[p] = "insert" => call[p].cand.status = "pending"
    /\ pc[p] \in {"charge", "refund", "fetch", "flush"} => ledger[call[p].id] # None
    /\ pc[p] \in {"refund", "fetch", "flush"} =>
        call[p].cand.visit = ledger[call[p].id].visit
    /\ pc[p] \in {"fetch", "flush"} /\ call[p].cand.status = "refunded" =>
        provider[call[p].id].refunds > 0

\* The inductive invariant of a ledger in a database: its uniqueness, what the
\* provider was asked for and what each call knows of both
\* (deposit_manager.py:41-87, deposit_repository.py:14-39).  TLC checks it before
\* DepositProofs proves it.
IInv ==
    /\ TypeOK
    /\ \A p \in Procs : pc[p] # "assign" /\ CallShape(p)
    /\ OneDepositPerAppointment
    /\ ChargedAtMostOnce
    /\ RefundedWasAskedFor

-------------------------------------------------------------------------------
\* What a call knows of the row of its deposit when nobody else works on it.
CallIsFresh(p) ==
    LET cand == call[p].cand
        row == ledger[call[p].id]
    IN  /\ pc[p] = "assign" => row = None
        /\ pc[p] \in {"refund", "fetch", "flush"} =>
            /\ row # None
            /\ cand.visit = row.visit
            /\ <<row.status, cand.status>> \in Allowed
            /\ row.status = "paid" => cand.method = row.method
        /\ pc[p] = "refund" => row.status = "paid"
        /\ pc[p] = "flush" => call[p].loaded = row

Apart ==
    \A p, q \in Procs :
        p # q /\ call[p] # None /\ call[q] # None => call[p].id # call[q].id

\* The inductive invariant of serialised callers, on either backend: their calls
\* are about different deposits, and what each has read of its own still stands
\* (deposit_manager.py:74-86).  TLC checks it before DepositProofs
\* proves it.
SerialInv ==
    /\ TypeOK
    /\ Apart
    /\ \A p \in Procs : CallIsFresh(p)
    /\ RefundsFollowPayments

===============================================================================
