-------------------------- MODULE MigrationProperties --------------------------
(***************************************************************************)
(* What makes Migrations correct.                                          *)
(***************************************************************************)
EXTENDS Migrations

\* Every variable stays in its type.
TypeOK ==
    /\ engine \in Engines
    /\ environment \in Environments
    /\ schema \in [Databases -> SUBSET Objects]
    /\ version \in [Databases -> 0..Newest]
    /\ job \in [Procs -> Jobs \cup {None}]
    /\ strayed \subseteq Databases
    /\ interrupted \subseteq Databases
    /\ copies \subseteq Databases \X Tables
    /\ calls \in 0..MaxCalls

\* The transaction of env.py on PostgreSQL: whatever processes migrate, fail or
\* die, the schema is exactly the one that alembic_version tells.
AllOrNothing ==
    engine = "postgres" =>
        \A d \in Databases \ strayed : schema[d] = UpTo(version[d])

\* On SQLite, the same of a database at which nobody is at work and where no
\* revision was left half way.
SchemaTellsTheVersion ==
    engine = "sqlite" =>
        \A d \in Databases \ (strayed \cup interrupted) :
            (\A p \in At(d) : job[p].step = 0) => schema[d] = UpTo(version[d])

\* What one step may make of a database.
MoveWhole(d) ==
    LET before == UpTo(version[d])
        after  == UpTo(version'[d])
    IN  \/ version'[d] = version[d] /\ schema'[d] = schema[d]
        \/ Stamp \/ CreateAll(d)
        \/ /\ version'[d] > version[d]
           /\ (after \ before) \cap schema[d] = {}
           /\ schema'[d] = schema[d] \cup (after \ before)
        \/ /\ version'[d] < version[d]
           /\ schema'[d] \subseteq schema[d] \ (before \ after)
           /\ schema[d] \cap after \subseteq schema'[d]

\* On PostgreSQL, of any database, also one that create_all() or a wrong stamp has
\* brought out of step with its mark: a migration adds all that lies between two
\* marks and takes nothing for its own that was there before, or takes all of it
\* away and nothing of what the older mark stands for, or does nothing.
OnlyWholeMoves == [][engine = "postgres" => \A d \in Databases : MoveWhole(d)]_vars

\* Another one was at the database, or something had been left there.
FailsForAReason(p) ==
    Fail(p) \/ GiveUp(p)
        => \/ ~job[p].alone
           \/ job[p].db \in strayed \cup interrupted
           \/ \E t \in Tables : <<job[p].db, t>> \in copies

\* A migration of a sound database fails only when another one was at it at the
\* same time: on PostgreSQL, what a failure or a crash left is never in the way.
FailsOnlyForAReason == [][\A p \in Procs : FailsForAReason(p)]_vars

\* What a call that returns leaves behind, where its caller will look for it.
Migrated(p) ==
    Finish(p) /\ job[p].alone /\ job[p].db \notin strayed \cup interrupted
        => /\ version'[job[p].meant] = job[p].goal
           /\ schema'[job[p].meant] = UpTo(job[p].goal)

\* upgrade() returns only when what it was asked for is there, at the database it
\* was asked for: also where argument, environment and alembic.ini name three.
OkMeansMigrated == [][\A p \in Procs : Migrated(p)]_vars

===============================================================================
