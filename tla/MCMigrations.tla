----------------------------- MODULE MCMigrations ------------------------------
(***************************************************************************)
(* The chain of the repository, and the databases that processes find.     *)
(***************************************************************************)
EXTENDS MigrationProperties, TLC

CONSTANTS d1, d2, p1, p2

R == INSTANCE Revisions

Repository == R!Versions

Added(r) == UNION { R!Versions[r].up[i].what : i \in DOMAIN R!Versions[r].up }

Through(v) == UNION { Added(r) : r \in 1..v }

AllNeeds == [ o \in Through(Len(R!Versions)) |-> R!Requires(o) ]

As(v, mark) == [schema |-> Through(v), version |-> mark]

\* One made by create_all() without a mark; one that is new, or was left by an
\* earlier release.
SomeFound == [d \in Databases |-> IF d = d1 THEN {As(9, 0)} ELSE {As(0, 0), As(8, 8)}]

ProcSymmetry == Permutations(Procs)
===============================================================================
