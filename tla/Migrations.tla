------------------------------ MODULE Migrations -------------------------------
(***************************************************************************)
(* libragenda/migrar.py and migrations/env.py: processes that bring the    *)
(* schema of a database from one revision to another.                      *)
(*                                                                         *)
(*   upgrade(url, revision)   begin, the statements of each revision and   *)
(*                            its mark in alembic_version, end             *)
(*   stamp(url, revision)     the mark alone                               *)
(*   create_all()             what from_url() and the consumers did when   *)
(*                            they started: the tables that are missing    *)
(*                                                                         *)
(* On PostgreSQL the whole of an upgrade is one transaction.  On SQLite    *)
(* every statement commits by itself, except from the first batch block of *)
(* a revision on: it commits an empty copy of the table, and filling it    *)
(* opens a transaction that the mark ends.                                 *)
(***************************************************************************)
EXTENDS Integers, Sequences, FiniteSets

CONSTANTS
    Procs,         \* the processes
    Databases,     \* the databases a URL may name
    Chain,         \* the revisions: their statements up and down
    Needs,         \* object |-> the tables it cannot be without
    Goals,         \* the revisions that processes are asked for
    Found,         \* database |-> how it may be found, [schema, version]
    Engines,       \* a subset of {"postgres", "sqlite"}
    Environments,  \* the values DATABASE_URL may have, None for unset
    IniUrl,        \* the database that alembic.ini names, None if nothing answers there
    Faults,        \* a subset of {"crash", "stamp", "boot"}
    MaxCalls,      \* a bound: the calls of upgrade(), downgrade, stamp(), create_all()
    None

Newest == Len(Chain)

Statements(r) == { Chain[r].up[i] : i \in DOMAIN Chain[r].up }

ObjectsOf(r) == UNION { st.what : st \in Statements(r) }

\* The schema as revision v leaves it.
UpTo(v) == UNION { ObjectsOf(r) : r \in 1..v }

Objects == UpTo(Newest)

Tables == { o[1] : o \in Objects }

\* What is gone once a statement dropped what it names.
Gone(st) == st.what \cup { o \in Objects : <<o[1], "table">> \in st.what }

GoneWith(r) == UNION { Gone(Chain[r].down[i]) : i \in DOMAIN Chain[r].down }

Statement == [ does : {"add", "drop"}, how : {"ddl", "batch"}, what : SUBSET Objects ]

ASSUME ChainAssumption ==
    /\ Chain \in Seq([up : Seq(Statement), down : Seq(Statement)])
    /\ \A r \in 1..Newest :
        /\ \A i \in DOMAIN Chain[r].up : Chain[r].up[i].does = "add"
        /\ \A i \in DOMAIN Chain[r].down : Chain[r].down[i].does = "drop"
        /\ UpTo(r) \ GoneWith(r) = UpTo(r - 1)
        /\ Chain[r].up # <<>> /\ Chain[r].up[1].what # {} /\ Chain[r].down # <<>>

\* A statement finds what it needs: a new object's table and those its foreign
\* keys name, nothing by its name; to drop, the object and, on PostgreSQL, no
\* foreign key of another table.
Applies(st, there, e) ==
    IF st.does = "add"
    THEN \A o \in st.what :
            /\ o \notin there
            /\ o[2] = "table" \/ <<o[1], "table">> \in there
            /\ \A t \in Needs[o] : <<t, "table">> \in there
    ELSE /\ st.what \subseteq there
         /\ e = "postgres" =>
              \A o \in there \ Gone(st) : \A t \in Needs[o] : <<t, "table">> \notin st.what

\* The statements of a revision are in an order in which each finds what it needs.
ASSUME OrderAssumption ==
    \A r \in 1..Newest, e \in Engines :
        /\ \A i \in DOMAIN Chain[r].up :
              Applies(Chain[r].up[i],
                      UpTo(r - 1) \cup UNION { Chain[r].up[k].what : k \in 1..(i - 1) }, e)
        /\ \A i \in DOMAIN Chain[r].down :
              Applies(Chain[r].down[i],
                      UpTo(r) \ UNION { Gone(Chain[r].down[k]) : k \in 1..(i - 1) }, e)

ASSUME MigrationAssumption ==
    /\ Goals \subseteq 0..Newest
    /\ Found \in [Databases -> SUBSET [schema : SUBSET Objects, version : 0..Newest]]
    /\ Engines \subseteq {"postgres", "sqlite"}
    /\ Environments \subseteq Databases \cup {None}
    /\ IniUrl \in Databases \cup {None}
    /\ None \notin Databases
    /\ MaxCalls \in Nat

VARIABLES
    engine,       \* the engine of the databases
    environment,  \* DATABASE_URL
    schema,       \* database |-> its committed objects
    version,      \* database |-> its mark, 0 for none
    job,          \* process |-> its migration under way, or None
    strayed,      \* databases made or marked by other means, or crossed on SQLite
    interrupted,  \* databases where a revision stopped between statements
    copies,       \* the <<database, table>> with a copy that a batch block left behind
    calls         \* how many calls there were, for the bound

vars ==
    <<engine, environment, schema, version, job, strayed, interrupted, copies, calls>>

Jobs ==
    [ meant : Databases,        \* where its caller will look for the result
      db : Databases, goal : 0..Newest,
      read : 0..Newest,           \* the mark as it was read
      at : 0..Newest, step : Nat, \* the revision reached, the statements since
      open : BOOLEAN,           \* in a transaction
      added : SUBSET Objects, dropped : SUBSET Objects, \* in that transaction
      alone : BOOLEAN ]         \* nobody else has been at that database

ASSUME NoJobAssumption == None \notin Jobs

Init ==
    /\ engine \in Engines
    /\ environment \in Environments
    /\ \E found \in [Databases -> UNION { Found[d] : d \in Databases }] :
        /\ \A d \in Databases : found[d] \in Found[d]
        /\ schema = [d \in Databases |-> found[d].schema]
        /\ version = [d \in Databases |-> found[d].version]
        /\ strayed = { d \in Databases : found[d].schema # UpTo(found[d].version) }
    /\ job = [p \in Procs |-> None]
    /\ interrupted = {}
    /\ copies = {}
    /\ calls = 0

At(d) == { p \in Procs : job[p] # None /\ job[p].db = d }

Rivals(p) == At(job[p].db) \ {p}

-------------------------------------------------------------------------------
(* Which database.                                                          *)

\* configuracion(): what it puts in libragenda.url; None is SinURL.
Configuracion(explicit) == IF explicit # None THEN explicit ELSE environment

\* Variant to check the properties against, not the code: env.py reads the
\* environment before what configuracion() was given.
GetUrl_EnvironmentFirst(option) ==
    IF environment # None THEN environment ELSE IF option # None THEN option ELSE IniUrl

\* env.py: libragenda.url, the environment, or alembic.ini, which the Config of
\* configuracion() does not read: there the option is never None.
GetUrl(option) ==
    IF option # None THEN option ELSE IF environment # None THEN environment ELSE IniUrl

\* The databases a call may reach: through migrar.py, or, when it names none,
\* through `alembic -c alembic.ini`, which leaves libragenda.url unset.
Targets(explicit) ==
    LET migrar  == {Configuracion(explicit)} \ {None}
        alembic == IF explicit = None THEN {None} ELSE {}
    IN  { GetUrl(option) : option \in migrar \cup alembic } \ {None}

\* What a caller means: what it names, or DATABASE_URL when it names nothing.
Meant(explicit, d) ==
    IF explicit # None THEN explicit ELSE IF environment # None THEN environment ELSE d

\* Those at a database are no longer alone there.
Crowded(q, d) == IF q \in At(d) THEN [job[q] EXCEPT !.alone = FALSE] ELSE job[q]

\* Variant to check the properties against, not the code: env.py looks for the
\* mark where nobody writes it.
Start_MarkUnseen(p, explicit, d, goal) ==
    job' = [ q \in Procs |->
               IF q = p
               THEN [ meant |-> Meant(explicit, d), db |-> d, goal |-> goal,
                      read |-> 0, at |-> 0, step |-> 0,
                      open |-> engine = "postgres", added |-> {}, dropped |-> {},
                      alone |-> At(d) = {} ]
               ELSE Crowded(q, d) ]

Start(p, explicit, d, goal) ==
    job' = [ q \in Procs |->
               IF q = p
               THEN [ meant |-> Meant(explicit, d), db |-> d, goal |-> goal,
                      read |-> version[d], at |-> version[d], step |-> 0,
                      open |-> engine = "postgres", added |-> {}, dropped |-> {},
                      alone |-> At(d) = {} ]
               ELSE Crowded(q, d) ]

Call == calls < MaxCalls /\ calls' = calls + 1

\* Up and down at the same time.
Crossing(d, goal) ==
    \/ At(d) # {} /\ goal < version[d]
    \/ \E q \in At(d) : job[q].goal < job[q].at

\* Nothing keeps the statements of two processes apart on SQLite, where one may
\* drop what another has added and come back to the mark that the other read.
Begin(p, explicit, d, goal) ==
    /\ Start(p, explicit, d, goal)
    /\ strayed' = IF engine = "sqlite" /\ Crossing(d, goal)
                  THEN strayed \cup {d} ELSE strayed
    /\ Call
    /\ UNCHANGED <<engine, environment, schema, version, interrupted, copies>>

End(p) ==
    /\ job' = [job EXCEPT ![p] = None]
    /\ UNCHANGED <<engine, environment, calls>>

\* upgrade(): a revision the database is already past is no reason to move.
Upgrade(p) ==
    \E explicit \in Databases \cup {None}, goal \in Goals :
        \E d \in Targets(explicit) :
            /\ job[p] = None
            /\ Begin(p, explicit, d, IF goal < version[d] THEN version[d] ELSE goal)

\* `alembic downgrade`, that no function of migrar.py offers.
Downgrade(p) ==
    \E goal \in Goals :
        LET d == GetUrl(None)
        IN  /\ job[p] = None
            /\ d # None
            /\ goal < version[d]
            /\ Begin(p, None, d, goal)

-------------------------------------------------------------------------------
(* A revision.                                                              *)

Ahead(j) == IF j.goal > j.at THEN Chain[j.at + 1].up ELSE Chain[j.at].down

MoreToDo(j) == j.goal # j.at /\ j.step < Len(Ahead(j))

Seen(j) == (schema[j.db] \cup j.added) \ j.dropped

\* A batch block makes a copy of its table, on SQLite, under a name that one
\* left behind has taken.
CopyInTheWay(j, st) ==
    st.how = "batch" /\ \E o \in st.what : <<j.db, o[1]>> \in copies

\* Variant to check the properties against, not the code: tables, columns and
\* indexes are created with IF NOT EXISTS.
Works_IfNotExists(j, st) == st.does = "add" \/ Applies(st, Seen(j), engine)

Works(j, st) == Applies(st, Seen(j), engine) /\ ~CopyInTheWay(j, st)

\* Another transaction holds what the statement is about: on PostgreSQL the same
\* objects, on SQLite the file.
Waits(p, what) ==
    \E q \in Rivals(p) :
        IF engine = "postgres" THEN what \cap (job[q].added \cup job[q].dropped) # {}
                               ELSE job[q].open

\* In a transaction the statement is pending, otherwise it is committed.
Execute(p) ==
    LET j  == job[p]
        st == Ahead(j)[j.step + 1]
        inside == j.open \/ st.how = "batch"
    IN  /\ j # None
        /\ MoreToDo(j)
        /\ ~Waits(p, st.what)
        /\ Works(j, st)
        /\ job' = [job EXCEPT
                     ![p].step = @ + 1,
                     ![p].open = inside,
                     ![p].added = IF inside /\ st.does = "add" THEN @ \cup st.what ELSE @,
                     ![p].dropped = IF inside /\ st.does = "drop" THEN @ \cup Gone(st) ELSE @]
        /\ IF inside
           THEN UNCHANGED schema
           ELSE schema' = [schema EXCEPT ![j.db] =
                             IF st.does = "add" THEN @ \cup st.what ELSE @ \ Gone(st)]
        /\ UNCHANGED <<engine, environment, version, strayed, interrupted, copies, calls>>

\* The row of alembic_version is held by the transaction that changed it.
MarkHeld(p) ==
    \E q \in Rivals(p) :
        IF engine = "postgres" THEN job[q].at # job[q].read ELSE job[q].open

\* Variant to check the properties against, not the code: the mark is written
\* whatever it was.
MarkAsRead_Unasked(p) == TRUE

\* UPDATE alembic_version ... WHERE version_num = what this process saw last.
MarkAsRead(p) ==
    LET j == job[p]
    IN  (engine = "postgres" /\ j.at # j.read) \/ version[j.db] = j.at

\* The revision that the next mark is of.
Further(j) == IF j.goal > j.at THEN j.at + 1 ELSE j.at - 1

\* Variant to check the properties against, not the code: the mark is committed
\* and what the revision has pending is not.
Mark_Alone(p) ==
    LET j == job[p]
    IN  /\ j # None
        /\ j.goal # j.at
        /\ ~MoreToDo(j)
        /\ ~MarkHeld(p)
        /\ MarkAsRead(p)
        /\ job' = [job EXCEPT ![p].at = Further(j), ![p].read = Further(j), ![p].step = 0,
                              ![p].open = FALSE, ![p].added = {}, ![p].dropped = {}]
        /\ version' = [version EXCEPT ![j.db] = Further(j)]
        /\ UNCHANGED <<engine, environment, schema, strayed, interrupted, copies, calls>>

\* The mark of a revision: pending on PostgreSQL, on SQLite committed together
\* with what the revision has pending.
Mark(p) ==
    LET j == job[p]
    IN  /\ j # None
        /\ j.goal # j.at
        /\ ~MoreToDo(j)
        /\ ~MarkHeld(p)
        /\ MarkAsRead(p)
        /\ IF engine = "postgres"
           THEN /\ job' = [job EXCEPT ![p].at = Further(j), ![p].step = 0]
                /\ UNCHANGED <<schema, version>>
           ELSE /\ job' = [job EXCEPT ![p].at = Further(j), ![p].read = Further(j),
                                      ![p].step = 0, ![p].open = FALSE,
                                      ![p].added = {}, ![p].dropped = {}]
                /\ schema' = [schema EXCEPT ![j.db] = Seen(j)]
                /\ version' = [version EXCEPT ![j.db] = Further(j)]
        /\ UNCHANGED <<engine, environment, strayed, interrupted, copies, calls>>

\* Variant to check the properties against, not the code: run_migrations_online()
\* without begin_transaction(), so that closing the connection rolls back.
Finish_RolledBack(p) ==
    /\ job[p] # None
    /\ job[p].goal = job[p].at
    /\ End(p)
    /\ UNCHANGED <<schema, version, strayed, interrupted, copies>>

\* Nothing is left to do, and on PostgreSQL everything is committed.
Finish(p) ==
    LET j == job[p]
    IN  /\ j # None
        /\ j.goal = j.at
        /\ schema' = [schema EXCEPT ![j.db] = Seen(j)]
        /\ version' = IF j.at = j.read THEN version ELSE [version EXCEPT ![j.db] = j.at]
        /\ End(p)
        /\ UNCHANGED <<strayed, interrupted, copies>>

\* The table that the first batch block among n statements copies: the empty
\* copy is committed, what comes after it is not.
Copied(j, n) ==
    { t \in Tables : \E i \in 1..n :
        /\ Ahead(j)[i].how = "batch" /\ \E o \in Ahead(j)[i].what : o[1] = t
        /\ \A k \in 1..(i - 1) : Ahead(j)[k].how # "batch" }

\* The transaction is rolled back; on SQLite what is committed stays, n statements
\* having begun.
Stop(p, n) ==
    LET j == job[p]
    IN  /\ End(p)
        /\ interrupted' = IF engine = "sqlite" /\ j.step > 0
                          THEN interrupted \cup {j.db} ELSE interrupted
        /\ copies' = IF engine = "sqlite"
                     THEN copies \cup ({j.db} \X Copied(j, n)) ELSE copies
        /\ UNCHANGED <<schema, version, strayed>>

\* Before a statement, or in it.
Cut(p) == Stop(p, job[p].step) \/ (MoreToDo(job[p]) /\ Stop(p, job[p].step + 1))

\* A statement, or the mark, that the database refuses.
Fail(p) ==
    LET j == job[p]
    IN  /\ j # None
        /\ j.goal # j.at
        /\ IF MoreToDo(j)
           THEN LET st == Ahead(j)[j.step + 1]
                IN  ~Waits(p, st.what) /\ ~Works(j, st)
           ELSE ~MarkHeld(p) /\ ~MarkAsRead(p)
        /\ Stop(p, j.step)

\* A lock that does not come: SQLite's timeout, PostgreSQL's deadlock detector.
GiveUp(p) ==
    LET j == job[p]
    IN  /\ j # None
        /\ j.goal # j.at
        /\ IF MoreToDo(j) THEN Waits(p, Ahead(j)[j.step + 1].what) ELSE MarkHeld(p)
        /\ Cut(p)

Crash(p) ==
    /\ "crash" \in Faults
    /\ job[p] # None
    /\ Cut(p)

-------------------------------------------------------------------------------
(* By other means.                                                          *)

Quiet(d) == \A p \in At(d) : job[p].step = 0 /\ job[p].at = job[p].read

\* stamp(): nobody looks at the schema.  On SQLite a right mark is not enough
\* where others are under way: they may have begun at another one.
Stamp ==
    \E explicit \in Databases \cup {None}, goal \in Goals :
        \E d \in Targets(explicit) :
            /\ "stamp" \in Faults
            /\ Quiet(d)
            /\ version' = [version EXCEPT ![d] = goal]
            /\ strayed' = IF schema[d] = UpTo(goal) /\ (engine = "postgres" \/ At(d) = {})
                          THEN strayed \ {d} ELSE strayed \cup {d}
            /\ job' = [p \in Procs |-> Crowded(p, d)]
            /\ Call
            /\ UNCHANGED <<engine, environment, schema, interrupted, copies>>

\* The tables that are missing, as the installed release declares them.
Missing(d) == { o \in Objects : <<o[1], "table">> \notin schema[d] }

CreateAll(d) ==
    /\ "boot" \in Faults
    /\ Quiet(d)
    /\ Missing(d) # {}
    /\ schema' = [schema EXCEPT ![d] = @ \cup Missing(d)]
    /\ strayed' = strayed \cup {d}
    /\ job' = [p \in Procs |-> Crowded(p, d)]
    /\ Call
    /\ UNCHANGED <<engine, environment, version, interrupted, copies>>

Migrate(p) == Execute(p) \/ Mark(p) \/ Finish(p) \/ Fail(p) \/ GiveUp(p)

Next ==
    \/ \E p \in Procs :
        Upgrade(p) \/ Downgrade(p) \/ Migrate(p) \/ Crash(p)
    \/ Stamp
    \/ \E d \in Databases : CreateAll(d)

Spec == Init /\ [][Next]_vars

===============================================================================
