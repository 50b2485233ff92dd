----------------------------- MODULE MCDeposits -----------------------------
(* Small instances of Deposits for TLC. *)
EXTENDS DepositProperties, TLC

Symmetries ==
    Permutations(Procs) \cup Permutations(DepositIds) \cup Permutations(Visits)
        \cup Permutations(Methods)

=============================================================================
