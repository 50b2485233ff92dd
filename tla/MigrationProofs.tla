---------------------------- MODULE MigrationProofs ----------------------------
(***************************************************************************)
(* The transaction of env.py, for any chain of revisions, any processes,   *)
(* and any databases they find: first PostgreSQL, where a migration is one *)
(* transaction, then SQLite, where each statement is committed for itself  *)
(* and processes at one database get in each other's way.                  *)
(***************************************************************************)
EXTENDS MigrationProperties, TLAPS

\* The schema that a process has come to: a revision, and the statements since.
Reached(j) ==
    IF j.goal = j.at
    THEN UpTo(j.at)
    ELSE IF j.goal > j.at
         THEN UpTo(j.at) \cup UNION { Ahead(j)[i].what : i \in 1..j.step }
         ELSE UpTo(j.at) \ UNION { Gone(Ahead(j)[i]) : i \in 1..j.step }

\* What a transaction holds back is what leads from where it began to there.
Sound(j) ==
    /\ j.open
    /\ j.goal >= j.read => j.dropped = {} /\ j.read <= j.at /\ j.at <= j.goal
    /\ j.goal <= j.read => j.added = {} /\ j.goal <= j.at /\ j.at <= j.read
    /\ j.at = j.read /\ j.step = 0 => j.added = {} /\ j.dropped = {}
    /\ j.goal = j.at => j.step = 0
    /\ j.goal # j.at => j.step <= Len(Ahead(j))
    /\ (UpTo(j.read) \cup j.added) \ j.dropped = Reached(j)

\* Who has changed the mark holds it: it is still what was read, for everybody.
Holds(p) ==
    job[p].at # job[p].read =>
        /\ version[job[p].db] = job[p].read
        /\ \A q \in Rivals(p) : job[q].at = job[q].read

\* Who is alone at a database is not overtaken.
Undisturbed(p) ==
    job[p].alone => version[job[p].db] = job[p].read /\ Rivals(p) = {}

\* What PostgreSQL keeps.  That a commit leaves the schema of its mark takes what
\* the transaction holds back (Sound) and that nobody else has moved the mark
\* since (Holds).
Transactional ==
    /\ \A d \in Databases \ strayed : schema[d] = UpTo(version[d])
    /\ \A p \in Procs : job[p] # None => Sound(job[p]) /\ Holds(p) /\ Undisturbed(p)

\* A migration is at the database that its caller means.
Aimed == \A p \in Procs : job[p] # None => job[p].db = job[p].meant

\* The inductive invariant.
IInv == TypeOK /\ Aimed /\ (engine = "postgres" => Transactional)

-------------------------------------------------------------------------------
(* The chain.                                                               *)

LEMMA StatementTypes ==
    ASSUME NEW r \in 1..Newest
    PROVE  /\ Chain[r].up \in Seq(Statement) /\ Chain[r].down \in Seq(Statement)
           /\ \A i \in 1..Len(Chain[r].up) :
                 Chain[r].up[i] \in Statement /\ Chain[r].up[i].does = "add"
           /\ \A i \in 1..Len(Chain[r].down) :
                 Chain[r].down[i] \in Statement /\ Chain[r].down[i].does = "drop"
           /\ UpTo(r) \ GoneWith(r) = UpTo(r - 1)
  <1> DEFINE Revision == [up : Seq(Statement), down : Seq(Statement)]
  <1>1. Chain[r] \in Revision
    <2>1. Chain \in Seq(Revision)
      BY ChainAssumption
    <2> HIDE DEF Revision
    <2> QED
      BY <2>1 DEF Newest
  <1> QED
    BY <1>1, ChainAssumption

LEMMA NewestNat == Newest \in Nat
  BY ChainAssumption DEF Newest

\* Each revision adds its objects to those of the one before.
LEMMA UpToNext ==
    ASSUME NEW r \in Nat
    PROVE  UpTo(r + 1) = UpTo(r) \cup ObjectsOf(r + 1)
  <1> DEFINE before == 1..r
             through == 1..(r + 1)
  <1>1. through = before \cup {r + 1}
    OBVIOUS
  <1>2. UpTo(r) = UNION { ObjectsOf(i) : i \in before }
        /\ UpTo(r + 1) = UNION { ObjectsOf(i) : i \in through }
    BY DEF UpTo
  <1> HIDE DEF before, through
  <1> QED
    BY <1>1, <1>2, Zenon

LEMMA UpToObjects ==
    ASSUME NEW r \in 0..Newest
    PROVE  UpTo(r) \subseteq Objects
  <1>1. 1..r \subseteq 1..Newest
    BY NewestNat
  <1> QED
    BY <1>1 DEF UpTo, Objects

LEMMA GoneTypes ==
    ASSUME NEW st \in Statement
    PROVE  st.what \subseteq Objects /\ Gone(st) \subseteq Objects
  BY DEF Statement, Gone

\* The statements that lie ahead of a job add or drop according to its goal.
LEMMA AheadTypes ==
    ASSUME NEW j \in Jobs, j.goal # j.at
    PROVE  /\ Ahead(j) \in Seq(Statement)
           /\ \A i \in 1..Len(Ahead(j)) :
                /\ Ahead(j)[i] \in Statement
                /\ Ahead(j)[i].does = IF j.goal > j.at THEN "add" ELSE "drop"
           /\ Further(j) \in 0..Newest
  <1>1. j.goal \in 0..Newest /\ j.at \in 0..Newest
    BY DEF Jobs
  <1>2. CASE j.goal > j.at
    <2>1. j.at + 1 \in 1..Newest
      BY <1>1, <1>2, NewestNat
    <2> QED
      BY <1>2, <2>1, StatementTypes, NewestNat DEF Ahead, Further
  <1>3. CASE j.goal < j.at
    <2>1. j.at \in 1..Newest
      BY <1>1, <1>3, NewestNat
    <2>2. ~(j.goal > j.at)
      BY <1>1, <1>3, NewestNat
    <2> QED
      BY <1>1, <2>1, <2>2, StatementTypes, NewestNat DEF Ahead, Further
  <1> QED
    BY <1>1, <1>2, <1>3, NewestNat

\* What a job's next statement makes of the schema it has come to.
LEMMA StatementReached ==
    ASSUME NEW j \in Jobs, MoreToDo(j),
           NEW k, k.goal = j.goal, k.at = j.at, k.step = j.step + 1
    PROVE  LET st == Ahead(j)[j.step + 1]
           IN  Reached(k) = IF st.does = "add" THEN Reached(j) \cup st.what
                                               ELSE Reached(j) \ Gone(st)
  <1> DEFINE st == Ahead(j)[j.step + 1]
  <1>1. /\ j.goal \in Int /\ j.at \in Int /\ j.step \in Nat
        /\ j.goal # j.at /\ j.step < Len(Ahead(j))
    BY NewestNat DEF Jobs, MoreToDo
  <1>2. Len(Ahead(j)) \in Nat /\ st.does = IF j.goal > j.at THEN "add" ELSE "drop"
    BY <1>1, AheadTypes
  <1>3. Ahead(k) = Ahead(j)
    BY DEF Ahead
  <1>4. 1..k.step = (1..j.step) \cup {j.step + 1}
    BY <1>1
  <1>5. CASE j.goal > j.at
    <2>1. UNION { Ahead(j)[i].what : i \in 1..k.step }
            = (UNION { Ahead(j)[i].what : i \in 1..j.step }) \cup st.what
      BY <1>4
    <2> QED
      BY <1>1, <1>2, <1>3, <1>5, <2>1 DEF Reached
  <1>6. CASE ~(j.goal > j.at)
    <2>1. UNION { Gone(Ahead(j)[i]) : i \in 1..k.step }
            = (UNION { Gone(Ahead(j)[i]) : i \in 1..j.step }) \cup Gone(st)
      BY <1>4
    <2> QED
      BY <1>1, <1>2, <1>3, <1>6, <2>1 DEF Reached
  <1> QED
    BY <1>5, <1>6

\* All the statements of a revision come to the next one.
LEMMA RevisionReached ==
    ASSUME NEW j \in Jobs, j.goal # j.at, j.step = Len(Ahead(j))
    PROVE  Reached(j) = UpTo(Further(j))
  <1>1. j.goal \in 0..Newest /\ j.at \in 0..Newest
    BY DEF Jobs
  <1>2. Ahead(j) \in Seq(Statement)
    BY AheadTypes
  <1>3. CASE j.goal > j.at
    <2>1. j.at \in Nat /\ Further(j) = j.at + 1 /\ Ahead(j) = Chain[j.at + 1].up
      BY <1>1, <1>3 DEF Further, Ahead
    <2>2. ObjectsOf(j.at + 1) = UNION { Ahead(j)[i].what : i \in 1..j.step }
      BY <1>2, <2>1 DEF ObjectsOf, Statements
    <2> QED
      BY <1>1, <1>3, <2>1, <2>2, UpToNext DEF Reached
  <1>4. CASE ~(j.goal > j.at)
    <2>1. j.at \in 1..Newest /\ Further(j) = j.at - 1 /\ Ahead(j) = Chain[j.at].down
      BY <1>1, <1>4, NewestNat DEF Further, Ahead
    <2>2. GoneWith(j.at) = UNION { Gone(Ahead(j)[i]) : i \in 1..j.step }
      BY <1>2, <2>1 DEF GoneWith
    <2> QED
      BY <1>1, <1>4, <2>1, <2>2, StatementTypes DEF Reached
  <1> QED
    BY <1>3, <1>4

-------------------------------------------------------------------------------
(* What one transaction comes to.                                           *)

\* A statement inside the transaction.
After(j, st) ==
    [j EXCEPT !.step = @ + 1, !.open = TRUE,
              !.added = IF st.does = "add" THEN @ \cup st.what ELSE @,
              !.dropped = IF st.does = "drop" THEN @ \cup Gone(st) ELSE @]

LEMMA ExecuteSound ==
    ASSUME NEW j \in Jobs, Sound(j), MoreToDo(j)
    PROVE  Sound(After(j, Ahead(j)[j.step + 1]))
  <1> DEFINE st == Ahead(j)[j.step + 1]
             k == After(j, st)
  <1>1. /\ j.goal \in Int /\ j.at \in Int /\ j.read \in Int /\ j.step \in Nat
        /\ j.goal # j.at /\ j.step < Len(Ahead(j))
    BY NewestNat DEF Jobs, MoreToDo
  <1>2. Len(Ahead(j)) \in Nat /\ st \in Statement
        /\ st.does = IF j.goal > j.at THEN "add" ELSE "drop"
    BY <1>1, AheadTypes
  <1>3. /\ k.goal = j.goal /\ k.at = j.at /\ k.read = j.read /\ k.step = j.step + 1 /\ k.open
        /\ k.added = IF j.goal > j.at THEN j.added \cup st.what ELSE j.added
        /\ k.dropped = IF j.goal > j.at THEN j.dropped ELSE j.dropped \cup Gone(st)
    BY <1>2 DEF After, Jobs
  <1>4. Ahead(k) = Ahead(j)
    BY <1>3 DEF Ahead
  <1> HIDE DEF k
  <1>5. Reached(k) = IF j.goal > j.at THEN Reached(j) \cup st.what ELSE Reached(j) \ Gone(st)
    BY <1>2, <1>3, StatementReached
  <1>6. (UpTo(k.read) \cup k.added) \ k.dropped = Reached(k)
    <2>1. CASE j.goal > j.at
      <3>1. j.dropped = {} /\ k.dropped = {}
        BY <1>1, <1>3, <2>1 DEF Sound
      <3> QED
        BY <1>3, <1>5, <2>1, <3>1 DEF Sound
    <2>2. CASE ~(j.goal > j.at)
      BY <1>3, <1>5, <2>2 DEF Sound
    <2> QED
      BY <2>1, <2>2
  <1>7. Sound(k)
    BY <1>1, <1>2, <1>3, <1>4, <1>6 DEF Sound
  <1> QED
    BY <1>7 DEF k

\* A mark that is pending.
Marked(j) == [j EXCEPT !.at = Further(j), !.step = 0]

LEMMA MarkSound ==
    ASSUME NEW j \in Jobs, Sound(j), j.goal # j.at, ~MoreToDo(j)
    PROVE  Sound(Marked(j)) /\ Marked(j).at # Marked(j).read
  <1> DEFINE k == Marked(j)
  <1>1. /\ j.goal \in 0..Newest /\ j.at \in 0..Newest /\ j.read \in 0..Newest /\ j.step \in Nat
    BY DEF Jobs
  <1>2. Ahead(j) \in Seq(Statement) /\ j.step = Len(Ahead(j))
    BY <1>1, AheadTypes DEF Sound, MoreToDo
  <1>3. /\ k.goal = j.goal /\ k.at = Further(j) /\ k.read = j.read /\ k.step = 0
        /\ k.added = j.added /\ k.dropped = j.dropped /\ k.open
    BY DEF Marked, Jobs, Sound
  <1>4. Further(j) \in 0..Newest
    BY AheadTypes
  <1> HIDE DEF k
  <1>5. Reached(k) = UpTo(k.at)
    BY <1>3 DEF Reached
  <1>6. Reached(j) = UpTo(Further(j))
    BY <1>2, RevisionReached
  <1>7. /\ k.goal >= k.read => k.read < k.at /\ k.at <= k.goal
        /\ k.goal <= k.read => k.goal <= k.at /\ k.at < k.read
    BY <1>1, <1>3, NewestNat DEF Sound, Further
  <1>8. k.step <= Len(Ahead(k)) \/ k.goal = k.at
    <2> SUFFICES ASSUME k.goal # k.at PROVE 0 <= Len(Ahead(k))
      BY <1>3
    <2>1. k \in Jobs
      BY <1>4 DEF k, Marked, Jobs
    <2> QED
      BY <2>1, AheadTypes
  <1>9. k.at # k.read
    BY <1>1, <1>3, <1>4, <1>7, NewestNat
  <1>10. Sound(k)
    BY <1>1, <1>3, <1>4, <1>5, <1>6, <1>7, <1>8, <1>9, NewestNat DEF Sound
  <1> QED
    BY <1>9, <1>10 DEF k

-------------------------------------------------------------------------------
(* The types.                                                               *)

LEMMA JobTypes ==
    ASSUME TypeOK, NEW p \in Procs, job[p] # None
    PROVE  /\ job[p] \in Jobs /\ job[p].db \in Databases
           /\ job[p].added \subseteq Objects /\ job[p].dropped \subseteq Objects
           /\ Seen(job[p]) \subseteq Objects
  <1>1. job[p] \in Jobs
    BY DEF TypeOK
  <1>2. /\ job[p].db \in Databases
        /\ job[p].added \subseteq Objects /\ job[p].dropped \subseteq Objects
    BY <1>1 DEF Jobs
  <1>3. schema[job[p].db] \subseteq Objects
    BY <1>2 DEF TypeOK
  <1> QED
    BY <1>1, <1>2, <1>3 DEF Seen

\* Others at a database are at most told that they are not alone.
Told(q) ==
    IF job[q] = None
    THEN job'[q] = None
    ELSE job'[q] = job[q] \/ job'[q] = [job[q] EXCEPT !.alone = FALSE]

LEMMA CrowdedTells ==
    ASSUME TypeOK, NEW d, NEW q \in Procs, job'[q] = Crowded(q, d)
    PROVE  /\ Told(q)
           /\ job'[q] \in Jobs \cup {None}
           /\ job'[q] # None /\ job'[q].db = d => ~job'[q].alone
  <1>1. job[q] \in Jobs \cup {None}
    BY DEF TypeOK
  <1> QED
    BY <1>1, NoJobAssumption DEF Crowded, At, Told, Jobs

LEMMA ToldSame ==
    ASSUME TypeOK, NEW q \in Procs, Told(q), job[q] # None
    PROVE  /\ job'[q] \in Jobs
           /\ job'[q].meant = job[q].meant /\ job'[q].db = job[q].db
           /\ job'[q].at = job[q].at /\ job'[q].read = job[q].read
           /\ job'[q].alone => job[q].alone
           /\ Sound(job[q]) => Sound(job'[q])
  <1>1. job[q] \in Jobs
    BY DEF TypeOK
  <1>2. CASE job'[q] = job[q]
    BY <1>1, <1>2
  <1>3. CASE job'[q] = [job[q] EXCEPT !.alone = FALSE]
    <2> DEFINE j == job[q]
               k == job'[q]
    <2>1. /\ k \in Jobs /\ k.meant = j.meant /\ k.db = j.db /\ k.goal = j.goal
          /\ k.read = j.read /\ k.at = j.at /\ k.step = j.step /\ k.open = j.open
          /\ k.added = j.added /\ k.dropped = j.dropped /\ ~k.alone
      BY <1>1, <1>3 DEF Jobs
    <2> HIDE DEF j, k
    <2>2. Ahead(k) = Ahead(j)
      BY <2>1 DEF Ahead
    <2>3. Reached(k) = Reached(j)
      BY <2>1, <2>2 DEF Reached
    <2>4. Sound(j) => Sound(k)
      BY <2>1, <2>2, <2>3 DEF Sound
    <2> QED
      BY <2>1, <2>4 DEF j, k
  <1> QED
    BY <1>2, <1>3 DEF Told

-------------------------------------------------------------------------------
(* A call that begins, and the other ways to a schema and a mark.           *)

\* Whatever way a call takes to its database, it is the one that its caller means.
LEMMA TargetTypes ==
    ASSUME TypeOK, NEW explicit \in Databases \cup {None}, NEW d \in Targets(explicit)
    PROVE  d \in Databases /\ Meant(explicit, d) = d
  BY MigrationAssumption DEF TypeOK, Targets, Configuracion, GetUrl, Meant

LEMMA UnnamedTypes ==
    ASSUME TypeOK, GetUrl(None) # None
    PROVE  GetUrl(None) \in Databases /\ Meant(None, GetUrl(None)) = GetUrl(None)
  BY MigrationAssumption DEF TypeOK, GetUrl, Meant

LEMMA FreshSound ==
    ASSUME NEW j \in Jobs, j.open, j.at = j.read, j.step = 0, j.added = {}, j.dropped = {}
    PROVE  Sound(j)
  <1>1. j.goal \in 0..Newest /\ j.read \in 0..Newest
    BY DEF Jobs
  <1>2. Reached(j) = UpTo(j.read)
    BY DEF Reached
  <1>3. j.goal # j.at => 0 <= Len(Ahead(j))
    BY AheadTypes
  <1> QED
    BY <1>1, <1>2, <1>3, NewestNat DEF Sound

\* The job of a call that begins, and those of the others.
Begun(p, d, goal) ==
    LET fresh == job'[p]
    IN  /\ version[d] \in 0..Newest
        /\ job' \in [Procs -> Jobs \cup {None}]
        /\ fresh \in Jobs /\ fresh # None
        /\ fresh.meant = d /\ fresh.db = d /\ fresh.goal = goal
        /\ fresh.at = version[d] /\ fresh.read = version[d] /\ fresh.step = 0
        /\ fresh.added = {} /\ fresh.dropped = {} /\ fresh.open = (engine = "postgres")
        /\ fresh.alone => At(d) = {}
        /\ \A q \in Procs \ {p} :
               /\ Told(q)
               /\ job'[q] # None /\ job'[q].db = d => ~job'[q].alone
        /\ strayed' \in {strayed, strayed \cup {d}}
        /\ engine = "sqlite" /\ Crossing(d, goal) => d \in strayed'
        /\ engine = "postgres" => strayed' = strayed
        /\ calls' = calls + 1 /\ calls < MaxCalls
        /\ UNCHANGED <<engine, environment, schema, version, interrupted, copies>>

LEMMA BeginTells ==
    ASSUME TypeOK, NEW p \in Procs, job[p] = None,
           NEW explicit \in Databases \cup {None}, NEW d \in Databases,
           Meant(explicit, d) = d,
           NEW goal \in 0..Newest, Begin(p, explicit, d, goal)
    PROVE  Begun(p, d, goal)
  <1> DEFINE fresh == [ meant |-> d, db |-> d, goal |-> goal,
                        read |-> version[d], at |-> version[d], step |-> 0,
                        open |-> engine = "postgres", added |-> {}, dropped |-> {},
                        alone |-> At(d) = {} ]
  <1>1. /\ job' = [q \in Procs |-> IF q = p THEN fresh ELSE Crowded(q, d)]
        /\ strayed' \in {strayed, strayed \cup {d}} /\ calls' = calls + 1 /\ calls < MaxCalls
        /\ UNCHANGED <<engine, environment, schema, version, interrupted, copies>>
        /\ engine = "postgres" => strayed' = strayed
        /\ engine = "sqlite" /\ Crossing(d, goal) => d \in strayed'
    BY DEF Begin, Start, Call
  <1>2. version[d] \in 0..Newest
    BY DEF TypeOK
  <1>3. /\ fresh \in Jobs /\ fresh # None
        /\ fresh.meant = d /\ fresh.db = d /\ fresh.goal = goal
        /\ fresh.at = version[d] /\ fresh.read = version[d] /\ fresh.step = 0
        /\ fresh.added = {} /\ fresh.dropped = {} /\ fresh.open = (engine = "postgres")
        /\ fresh.alone => At(d) = {}
    <2> DEFINE opened == engine = "postgres"
               nobody == At(d) = {}
    <2>1. opened \in BOOLEAN /\ nobody \in BOOLEAN
      OBVIOUS
    <2>2. fresh = [ meant |-> d, db |-> d, goal |-> goal,
                    read |-> version[d], at |-> version[d], step |-> 0,
                    open |-> opened, added |-> {}, dropped |-> {}, alone |-> nobody ]
      OBVIOUS
    <2> HIDE DEF opened, nobody, fresh
    <2>3. fresh \in Jobs
      BY <1>2, <2>1, <2>2 DEF Jobs
    <2>4. /\ fresh.meant = d /\ fresh.db = d /\ fresh.goal = goal
          /\ fresh.at = version[d] /\ fresh.read = version[d] /\ fresh.step = 0
          /\ fresh.added = {} /\ fresh.dropped = {}
          /\ fresh.open = opened /\ fresh.alone = nobody
      BY <2>2
    <2> QED
      BY <2>3, <2>4, NoJobAssumption DEF opened, nobody
  <1>4. \A q \in Procs \ {p} :
            /\ Told(q) /\ job'[q] \in Jobs \cup {None}
            /\ job'[q] # None /\ job'[q].db = d => ~job'[q].alone
    BY <1>1, CrowdedTells
  <1>5. job'[p] = fresh
    BY <1>1
  <1> HIDE DEF fresh
  <1>6. job' \in [Procs -> Jobs \cup {None}]
    BY <1>1, <1>3, <1>4
  <1> QED
    BY <1>1, <1>2, <1>3, <1>4, <1>5, <1>6 DEF Begun

LEMMA BeginKeeps ==
    ASSUME IInv, NEW p \in Procs, job[p] = None,
           NEW explicit \in Databases \cup {None}, NEW d \in Databases,
           Meant(explicit, d) = d,
           NEW goal \in 0..Newest, Begin(p, explicit, d, goal)
    PROVE  IInv'
  <1> DEFINE fresh == job'[p]
  <1>0. Begun(p, d, goal)
    BY BeginTells DEF IInv
  <1>1. /\ strayed' \in {strayed, strayed \cup {d}} /\ calls' = calls + 1 /\ calls < MaxCalls
        /\ UNCHANGED <<engine, environment, schema, version, interrupted, copies>>
        /\ engine = "postgres" => strayed' = strayed
    BY <1>0 DEF Begun
  <1>2. version[d] \in 0..Newest /\ job' \in [Procs -> Jobs \cup {None}]
    BY <1>0 DEF Begun
  <1>3. /\ fresh \in Jobs /\ fresh # None
        /\ fresh.meant = d /\ fresh.db = d /\ fresh.at = version[d]
        /\ fresh.read = version[d] /\ fresh.step = 0
        /\ fresh.added = {} /\ fresh.dropped = {}
        /\ engine = "postgres" => fresh.open
        /\ fresh.alone => At(d) = {}
    BY <1>0 DEF Begun
  <1>4. \A q \in Procs \ {p} :
            /\ Told(q)
            /\ job'[q] # None /\ job'[q].db = d => ~job'[q].alone
    BY <1>0 DEF Begun
  <1>5. job'[p] = fresh
    OBVIOUS
  <1> HIDE DEF fresh
  <1>6. TypeOK'
    <2>1. job' \in [Procs -> Jobs \cup {None}]
      BY <1>2
    <2>2. strayed' \subseteq Databases /\ calls' \in 0..MaxCalls
      BY <1>1, <1>2, MigrationAssumption DEF IInv, TypeOK
    <2> QED
      BY <1>1, <2>1, <2>2 DEF IInv, TypeOK
  <1>7. \A q \in Procs \ {p} :
            /\ job'[q] # None <=> job[q] # None
            /\ job[q] # None =>
                  /\ job'[q].meant = job[q].meant /\ job'[q].db = job[q].db
                  /\ job'[q].at = job[q].at /\ job'[q].read = job[q].read
                  /\ job'[q].alone => job[q].alone
                  /\ Sound(job[q]) => Sound(job'[q])
    BY <1>4, ToldSame, NoJobAssumption DEF IInv, Told, Jobs, TypeOK
  <1>8. Aimed'
    BY <1>3, <1>5, <1>7 DEF IInv, Aimed
  <1>9. ASSUME engine = "postgres" PROVE Transactional'
    <2>1. \A b \in Databases \ strayed' : schema'[b] = UpTo(version'[b])
      BY <1>1, <1>9 DEF IInv, Transactional
    <2>2. Sound(fresh)
      BY <1>3, <1>9, FreshSound
    <2>3. Holds(p)' /\ Undisturbed(p)'
      <3>1. fresh.alone => Rivals(p)' = {}
        BY <1>3, <1>5, <1>7 DEF Rivals, At
      <3> QED
        BY <1>1, <1>3, <1>5, <3>1 DEF Holds, Undisturbed
    <2>4. ASSUME NEW q \in Procs \ {p}, job'[q] # None
          PROVE  Sound(job'[q]) /\ Holds(q)' /\ Undisturbed(q)'
      <3>1. job[q] # None /\ Sound(job[q]) /\ Holds(q) /\ Undisturbed(q)
        BY <1>7, <1>9, <2>4 DEF IInv, Transactional
      <3>2. \A o \in Rivals(q)' :
                \/ o = p
                \/ /\ o \in Rivals(q)
                   /\ job'[o].at = job[o].at /\ job'[o].read = job[o].read
        BY <1>7, <3>1 DEF Rivals, At
      <3>3. job[q].db = d => ~job'[q].alone
        BY <1>4, <1>7, <2>4
      <3>4. job[q].db # d => p \notin Rivals(q)'
        BY <1>3, <1>5, <1>7, <3>1 DEF Rivals, At
      <3>5. job'[p].at = job'[p].read
        BY <1>3, <1>5
      <3>6. Holds(q)'
        BY <1>1, <1>7, <3>1, <3>2, <3>5 DEF Holds
      <3>7. Undisturbed(q)'
        <4> SUFFICES ASSUME job'[q].alone
                     PROVE  version'[job'[q].db] = job'[q].read /\ Rivals(q)' = {}
          BY DEF Undisturbed
        <4>1. job[q].alone /\ job[q].db # d
          BY <1>7, <3>1, <3>3
        <4> QED
          BY <1>1, <1>7, <3>1, <3>2, <3>4, <4>1 DEF Undisturbed
      <3> QED
        BY <1>7, <3>1, <3>6, <3>7
    <2> QED
      BY <1>5, <2>1, <2>2, <2>3, <2>4 DEF Transactional
  <1> QED
    BY <1>1, <1>6, <1>8, <1>9 DEF IInv

LEMMA GoalTypes == Goals \subseteq 0..Newest
  BY MigrationAssumption

LEMMA CallBegins ==
    ASSUME TypeOK, NEW p \in Procs, Upgrade(p) \/ Downgrade(p)
    PROVE  \E explicit \in Databases \cup {None}, d \in Databases, goal \in 0..Newest :
              job[p] = None /\ Meant(explicit, d) = d /\ Begin(p, explicit, d, goal)
  <1>1. CASE Upgrade(p)
    <2> DEFINE To(d, goal) == IF goal < version[d] THEN version[d] ELSE goal
    <2>1. PICK explicit \in Databases \cup {None}, goal \in Goals :
              \E d \in Targets(explicit) :
                  job[p] = None /\ Begin(p, explicit, d, To(d, goal))
      BY <1>1 DEF Upgrade
    <2>2. PICK d \in Targets(explicit) :
              job[p] = None /\ Begin(p, explicit, d, To(d, goal))
      BY <2>1
    <2>3. d \in Databases /\ Meant(explicit, d) = d
      BY TargetTypes
    <2>4. To(d, goal) \in 0..Newest
      BY <2>3, GoalTypes DEF TypeOK
    <2> HIDE DEF To
    <2> QED
      BY <2>2, <2>3, <2>4
  <1>2. CASE Downgrade(p)
    <2>1. PICK goal \in Goals :
              /\ job[p] = None /\ GetUrl(None) # None
              /\ Begin(p, None, GetUrl(None), goal)
      BY <1>2 DEF Downgrade
    <2> QED
      BY <2>1, GoalTypes, UnnamedTypes
  <1> QED
    BY <1>1, <1>2

LEMMA CallsKeep ==
    ASSUME IInv, NEW p \in Procs, Upgrade(p) \/ Downgrade(p)
    PROVE  IInv'
  BY CallBegins, BeginKeeps DEF IInv

\* A change of one database at which nobody has begun anything.
LEMMA QuietKeeps ==
    ASSUME IInv, TypeOK', NEW d \in Databases, Quiet(d),
           UNCHANGED <<engine, environment>>,
           job' = [p \in Procs |-> Crowded(p, d)],
           \A b \in Databases \ {d} : schema'[b] = schema[b] /\ version'[b] = version[b],
           strayed \ {d} \subseteq strayed',
           d \in strayed' \/ schema'[d] = UpTo(version'[d])
    PROVE  IInv'
  <1>1. \A q \in Procs :
            /\ Told(q)
            /\ job'[q] # None /\ job'[q].db = d => ~job'[q].alone
    BY CrowdedTells DEF IInv
  <1>2. \A q \in Procs :
            /\ job'[q] # None <=> job[q] # None
            /\ job[q] # None =>
                  /\ job'[q].meant = job[q].meant /\ job'[q].db = job[q].db
                  /\ job'[q].at = job[q].at /\ job'[q].read = job[q].read
                  /\ job'[q].alone => job[q].alone
                  /\ Sound(job[q]) => Sound(job'[q])
    BY <1>1, ToldSame, NoJobAssumption DEF IInv, Told, Jobs, TypeOK
  <1>3. Aimed'
    BY <1>2 DEF IInv, Aimed
  <1>4. ASSUME engine = "postgres" PROVE Transactional'
    <2>1. \A b \in Databases \ strayed' : schema'[b] = UpTo(version'[b])
      BY <1>4 DEF IInv, Transactional
    <2>2. ASSUME NEW q \in Procs, job'[q] # None
          PROVE  Sound(job'[q]) /\ Holds(q)' /\ Undisturbed(q)'
      <3>1. /\ job[q] # None /\ job[q].db \in Databases
            /\ Sound(job[q]) /\ Holds(q) /\ Undisturbed(q)
        BY <1>2, <1>4, <2>2, JobTypes DEF IInv, Transactional
      <3>2. Rivals(q)' = Rivals(q)
        BY <1>2, <2>2 DEF Rivals, At
      <3>3. job[q].db = d => job[q].at = job[q].read /\ ~job'[q].alone
        BY <1>1, <1>2, <2>2, <3>1 DEF Quiet, At
      <3>4. \A o \in Rivals(q) : job'[o].at = job[o].at /\ job'[o].read = job[o].read
        BY <1>2 DEF Rivals, At
      <3>5. Holds(q)' /\ Undisturbed(q)'
        BY <1>2, <3>1, <3>2, <3>3, <3>4 DEF Holds, Undisturbed
      <3> QED
        BY <1>2, <3>1, <3>5
    <2> QED
      BY <2>1, <2>2 DEF Transactional
  <1> QED
    BY <1>3, <1>4 DEF IInv

LEMMA OtherMeansKeep ==
    ASSUME IInv, Stamp \/ \E d \in Databases : CreateAll(d)
    PROVE  IInv'
  <1>1. ASSUME NEW d \in Databases, job' = [p \in Procs |-> Crowded(p, d)]
        PROVE  job' \in [Procs -> Jobs \cup {None}]
    BY <1>1, CrowdedTells DEF IInv
  <1>2. CASE Stamp
    <2>0. PICK explicit \in Databases \cup {None}, goal \in Goals : \E d \in Targets(explicit) :
                  /\ Quiet(d)
                  /\ version' = [version EXCEPT ![d] = goal]
                  /\ strayed' = IF schema[d] = UpTo(goal) /\ (engine = "postgres" \/ At(d) = {})
                                THEN strayed \ {d} ELSE strayed \cup {d}
                  /\ job' = [p \in Procs |-> Crowded(p, d)]
                  /\ calls < MaxCalls /\ calls' = calls + 1
                  /\ UNCHANGED <<engine, environment, schema, interrupted, copies>>
      BY <1>2 DEF Stamp, Call
    <2>1. PICK d \in Targets(explicit) :
              /\ Quiet(d)
              /\ version' = [version EXCEPT ![d] = goal]
              /\ strayed' = IF schema[d] = UpTo(goal) /\ (engine = "postgres" \/ At(d) = {})
                            THEN strayed \ {d} ELSE strayed \cup {d}
              /\ job' = [p \in Procs |-> Crowded(p, d)]
              /\ calls < MaxCalls /\ calls' = calls + 1
              /\ UNCHANGED <<engine, environment, schema, interrupted, copies>>
      BY <2>0
    <2>2. d \in Databases
      BY TargetTypes DEF IInv
    <2>3. goal \in 0..Newest
      BY GoalTypes
    <2>4. TypeOK'
      BY <1>1, <2>1, <2>2, <2>3, MigrationAssumption DEF IInv, TypeOK
    <2> QED
      BY <2>1, <2>2, <2>3, <2>4, QuietKeeps DEF IInv, TypeOK
  <1>3. CASE \E d \in Databases : CreateAll(d)
    <2>1. PICK d \in Databases : CreateAll(d)
      BY <1>3
    <2>2. Missing(d) \subseteq Objects
      BY DEF Missing
    <2>3. TypeOK'
      BY <1>1, <2>1, <2>2, MigrationAssumption DEF IInv, TypeOK, CreateAll, Call
    <2> QED
      BY <2>1, <2>3, QuietKeeps DEF IInv, TypeOK, CreateAll
  <1> QED
    BY <1>2, <1>3

-------------------------------------------------------------------------------
(* The steps of a migration.                                                *)

\* A step of one process, that may move the mark only when it holds it.
LEMMA OwnStepKeeps ==
    ASSUME IInv, TypeOK', NEW p \in Procs, job[p] # None,
           UNCHANGED <<engine, environment, strayed>>,
           \A q \in Procs \ {p} : job'[q] = job[q],
           job'[p] # None => job'[p].db = job[p].db /\ job'[p].meant = job[p].meant,
           engine = "postgres" =>
              /\ \A b \in Databases \ strayed : schema'[b] = UpTo(version'[b])
              /\ job'[p] # None =>
                    /\ Sound(job'[p]) /\ version' = version
                    /\ job'[p].read = job[p].read /\ job'[p].alone = job[p].alone
                    /\ \/ job'[p].at = job[p].at
                       \/ /\ version[job[p].db] = job[p].read
                          /\ \A q \in Rivals(p) : job[q].at = job[q].read
              /\ job'[p] = None =>
                    \A b \in Databases : version'[b] # version[b] =>
                        b = job[p].db /\ job[p].at # job[p].read
    PROVE  IInv'
  <1>1. Aimed'
    BY DEF IInv, Aimed
  <1>2. ASSUME engine = "postgres" PROVE Transactional'
    <2>1. \A b \in Databases \ strayed' : schema'[b] = UpTo(version'[b])
      BY <1>2
    <2>2. ASSUME job'[p] # None PROVE Sound(job'[p]) /\ Holds(p)' /\ Undisturbed(p)'
      <3>1. Rivals(p)' = Rivals(p) /\ p \notin Rivals(p)
        BY <2>2 DEF Rivals, At
      <3>2. Holds(p) /\ Undisturbed(p)
        BY <1>2 DEF IInv, Transactional
      <3>3. \A q \in Rivals(p) : job'[q] = job[q]
        BY DEF Rivals, At
      <3>4. Undisturbed(p)'
        BY <1>2, <2>2, <3>1, <3>2 DEF Undisturbed
      <3>5. Holds(p)'
        BY <1>2, <2>2, <3>1, <3>2, <3>3 DEF Holds
      <3> QED
        BY <1>2, <2>2, <3>4, <3>5
    <2>3. ASSUME NEW q \in Procs \ {p}, job'[q] # None
          PROVE  Sound(job'[q]) /\ Holds(q)' /\ Undisturbed(q)'
      <3>1. /\ job'[q] = job[q] /\ job[q] # None /\ job[q].db \in Databases
            /\ Sound(job[q]) /\ Holds(q) /\ Undisturbed(q)
        BY <1>2, <2>3, JobTypes DEF IInv, Transactional
      <3>2. /\ Rivals(q)' \subseteq Rivals(q)
            /\ job[p].db = job[q].db => p \in Rivals(q) /\ q \in Rivals(p)
        BY <3>1 DEF Rivals, At
      <3>3. \A o \in Rivals(q)' : o = p \/ job'[o] = job[o]
        BY DEF Rivals, At
      <3>4. p \in Rivals(q)' => job'[p] # None
        BY DEF Rivals, At
      <3>5. Holds(q)'
        <4> SUFFICES ASSUME job[q].at # job[q].read
                     PROVE  /\ version'[job[q].db] = job[q].read
                            /\ \A o \in Rivals(q)' : job'[o].at = job'[o].read
          BY <3>1 DEF Holds
        <4>1. /\ version[job[q].db] = job[q].read
              /\ \A o \in Rivals(q) : job[o].at = job[o].read
          BY <3>1 DEF Holds
        <4>2. version'[job[q].db] = version[job[q].db]
          BY <1>2, <3>1, <3>2, <4>1
        <4>3. p \in Rivals(q)' => job'[p].at = job'[p].read
          <5> SUFFICES ASSUME p \in Rivals(q)' PROVE job'[p].at = job'[p].read
            OBVIOUS
          <5>1. job[p].db = job[q].db
            BY <3>2 DEF Rivals, At
          <5> QED
            BY <1>2, <3>2, <3>4, <4>1, <5>1
        <4> QED
          BY <3>2, <3>3, <4>1, <4>2, <4>3
      <3>6. Undisturbed(q)'
        <4> SUFFICES ASSUME job[q].alone
                     PROVE  version'[job[q].db] = job[q].read /\ Rivals(q)' = {}
          BY <3>1 DEF Undisturbed
        <4>1. version[job[q].db] = job[q].read /\ Rivals(q) = {}
          BY <3>1 DEF Undisturbed
        <4> QED
          BY <1>2, <3>1, <3>2, <4>1
      <3> QED
        BY <3>1, <3>5, <3>6
    <2> QED
      BY <2>1, <2>2, <2>3 DEF Transactional
  <1> QED
    BY <1>1, <1>2 DEF IInv

\* The job after a statement.
Executed(j, st, inside) ==
    [j EXCEPT !.step = @ + 1, !.open = inside,
              !.added = IF inside /\ st.does = "add" THEN @ \cup st.what ELSE @,
              !.dropped = IF inside /\ st.does = "drop" THEN @ \cup Gone(st) ELSE @]

LEMMA ExecuteTypes ==
    ASSUME TypeOK, NEW p \in Procs, Execute(p)
    PROVE  LET j == job[p]
               st == Ahead(j)[j.step + 1]
               inside == j.open \/ st.how = "batch"
               k == Executed(j, st, inside)
           IN  /\ j \in Jobs /\ j # None /\ MoreToDo(j) /\ Works(j, st)
               /\ st \in Statement /\ st.what \subseteq Objects /\ Gone(st) \subseteq Objects
               /\ job' = [job EXCEPT ![p] = k] /\ job'[p] = k
               /\ \A q \in Procs \ {p} : job'[q] = job[q]
               /\ k \in Jobs /\ k # None
               /\ k.db = j.db /\ k.meant = j.meant /\ k.goal = j.goal /\ k.at = j.at
               /\ k.read = j.read /\ k.alone = j.alone /\ k.step = j.step + 1
               /\ k.open = inside
               /\ k.added = IF inside /\ st.does = "add" THEN j.added \cup st.what ELSE j.added
               /\ k.dropped = IF inside /\ st.does = "drop"
                              THEN j.dropped \cup Gone(st) ELSE j.dropped
               /\ IF inside
                  THEN UNCHANGED schema
                  ELSE schema' = [schema EXCEPT ![j.db] =
                                    IF st.does = "add" THEN @ \cup st.what ELSE @ \ Gone(st)]
               /\ UNCHANGED <<engine, environment, version, strayed, interrupted, copies, calls>>
  <1> DEFINE j == job[p]
             st == Ahead(j)[j.step + 1]
             inside == j.open \/ st.how = "batch"
             k == Executed(j, st, inside)
  <1>1. /\ j # None /\ MoreToDo(j) /\ Works(j, st) /\ job' = [job EXCEPT ![p] = k]
        /\ UNCHANGED <<engine, environment, version, strayed, interrupted, copies, calls>>
        /\ IF inside
           THEN UNCHANGED schema
           ELSE schema' = [schema EXCEPT ![j.db] =
                             IF st.does = "add" THEN @ \cup st.what ELSE @ \ Gone(st)]
    BY DEF Execute, Executed, TypeOK
  <1>2. j \in Jobs /\ j.db \in Databases
    BY <1>1, JobTypes
  <1>3. st \in Statement /\ st.what \subseteq Objects /\ Gone(st) \subseteq Objects
    <2>1. j.step + 1 \in 1..Len(Ahead(j)) /\ j.goal # j.at
      BY <1>1, <1>2, AheadTypes DEF MoreToDo, Jobs
    <2> QED
      BY <1>2, <2>1, AheadTypes, GoneTypes
  <1> HIDE DEF st, j
  <1>4. inside \in BOOLEAN
    OBVIOUS
  <1> HIDE DEF inside
  <1>5. /\ k \in Jobs /\ k.db = j.db /\ k.meant = j.meant /\ k.goal = j.goal
        /\ k.at = j.at /\ k.read = j.read /\ k.alone = j.alone /\ k.step = j.step + 1
        /\ k.open = inside
        /\ k.added = IF inside /\ st.does = "add" THEN j.added \cup st.what ELSE j.added
        /\ k.dropped = IF inside /\ st.does = "drop" THEN j.dropped \cup Gone(st) ELSE j.dropped
    <2> DEFINE added == IF inside /\ st.does = "add" THEN j.added \cup st.what ELSE j.added
               dropped == IF inside /\ st.does = "drop"
                          THEN j.dropped \cup Gone(st) ELSE j.dropped
    <2>1. added \in SUBSET Objects /\ dropped \in SUBSET Objects
      BY <1>2, <1>3 DEF Jobs
    <2> HIDE DEF added, dropped
    <2> DEFINE stepped == [j EXCEPT !.step = @ + 1]
               opened == [stepped EXCEPT !.open = inside]
               pending == [opened EXCEPT !.added = added, !.dropped = dropped]
    <2>2. k = pending
      BY <1>2 DEF Executed, Jobs, added, dropped
    <2>3. stepped \in Jobs
      BY <1>2 DEF Jobs
    <2>4. /\ k.db = j.db /\ k.meant = j.meant /\ k.goal = j.goal
          /\ k.at = j.at /\ k.read = j.read /\ k.alone = j.alone /\ k.step = j.step + 1
          /\ k.open = inside
          /\ k.added = IF inside /\ st.does = "add" THEN j.added \cup st.what ELSE j.added
          /\ k.dropped = IF inside /\ st.does = "drop"
                         THEN j.dropped \cup Gone(st) ELSE j.dropped
      BY <1>2 DEF Executed, Jobs
    <2> HIDE DEF stepped
    <2>5. opened \in Jobs
      BY <1>4, <2>3 DEF Jobs
    <2> HIDE DEF opened
    <2>6. pending \in Jobs
      BY <2>1, <2>5 DEF Jobs
    <2> QED
      BY <2>2, <2>4, <2>6
  <1> HIDE DEF k
  <1>6. job'[p] = k /\ \A q \in Procs \ {p} : job'[q] = job[q]
    BY <1>1 DEF TypeOK
  <1>7. k # None
    BY <1>5, NoJobAssumption
  <1> QED
    BY <1>1, <1>2, <1>3, <1>5, <1>6, <1>7 DEF j, st, inside, k

LEMMA ExecuteKeeps ==
    ASSUME IInv, NEW p \in Procs, Execute(p)
    PROVE  IInv'
  <1> DEFINE j == job[p]
             st == Ahead(j)[j.step + 1]
             inside == j.open \/ st.how = "batch"
             k == Executed(j, st, inside)
  <1>1. /\ j \in Jobs /\ j # None /\ j.db \in Databases /\ MoreToDo(j)
        /\ st.what \subseteq Objects /\ Gone(st) \subseteq Objects
        /\ k \in Jobs /\ k.db = j.db /\ k.meant = j.meant
        /\ k.at = j.at /\ k.read = j.read /\ k.alone = j.alone
        /\ job' = [job EXCEPT ![p] = k]
        /\ UNCHANGED <<engine, environment, version, strayed, interrupted, copies, calls>>
        /\ IF inside
           THEN UNCHANGED schema
           ELSE schema' = [schema EXCEPT ![j.db] =
                             IF st.does = "add" THEN @ \cup st.what ELSE @ \ Gone(st)]
    BY ExecuteTypes DEF IInv, Jobs
  <1>2. job'[p] = k /\ \A q \in Procs \ {p} : job'[q] = job[q]
    BY ExecuteTypes DEF IInv
  <1> HIDE DEF st, inside
  <1>3. TypeOK'
    <2>1. job' \in [Procs -> Jobs \cup {None}]
      BY <1>1 DEF IInv, TypeOK
    <2>2. schema' \in [Databases -> SUBSET Objects]
      <3>1. schema \in [Databases -> SUBSET Objects]
        BY DEF IInv, TypeOK
      <3>2. CASE inside
        BY <1>1, <3>1, <3>2
      <3>3. CASE ~inside
        BY <1>1, <3>1, <3>3
      <3> QED
        BY <3>2, <3>3
    <2> QED
      BY <1>1, <2>1, <2>2 DEF IInv, TypeOK
  <1>4. ASSUME engine = "postgres" PROVE Sound(k) /\ schema' = schema
    <2>1. Sound(j)
      BY <1>1, <1>4 DEF IInv, Transactional
    <2>2. inside = TRUE
      BY <2>1 DEF Sound, inside
    <2>3. k = After(j, st)
      BY <2>2 DEF Executed, After
    <2> QED
      BY <1>1, <2>1, <2>2, <2>3, ExecuteSound DEF st
  <1> HIDE DEF k
  <1> QED
    BY <1>1, <1>2, <1>3, <1>4, OwnStepKeeps DEF IInv, Transactional

LEMMA MarkKeeps ==
    ASSUME IInv, NEW p \in Procs, Mark(p)
    PROVE  IInv'
  <1> DEFINE j == job[p]
  <1>1. /\ j # None /\ j.goal # j.at /\ ~MoreToDo(j) /\ ~MarkHeld(p) /\ MarkAsRead(p)
        /\ UNCHANGED <<engine, environment, strayed, interrupted, copies, calls>>
    BY DEF Mark
  <1>2. j \in Jobs /\ j.db \in Databases /\ Seen(j) \subseteq Objects
    BY <1>1, JobTypes DEF IInv
  <1>3. Further(j) \in 0..Newest
    BY <1>1, <1>2, AheadTypes
  <1>4. CASE engine = "postgres"
    <2> DEFINE k == Marked(j)
    <2>1. job' = [job EXCEPT ![p] = k] /\ UNCHANGED <<schema, version>>
      BY <1>4 DEF Mark, Marked, IInv, TypeOK
    <2>2. k \in Jobs /\ k.db = j.db /\ k.meant = j.meant
          /\ k.read = j.read /\ k.alone = j.alone
      BY <1>2, <1>3 DEF Marked, Jobs
    <2>3. Sound(k)
      BY <1>1, <1>2, <1>4, MarkSound DEF IInv, Transactional
    <2>4. /\ version[j.db] = j.read
          /\ \A q \in Rivals(p) : job[q].at = job[q].read
      BY <1>1, <1>4 DEF IInv, Transactional, Holds, MarkHeld, MarkAsRead
    <2>5. job'[p] = k /\ \A q \in Procs \ {p} : job'[q] = job[q]
      BY <2>1 DEF IInv, TypeOK
    <2> HIDE DEF k
    <2>6. TypeOK'
      BY <1>1, <2>1, <2>2 DEF IInv, TypeOK
    <2> QED
      BY <1>1, <1>4, <2>1, <2>2, <2>3, <2>4, <2>5, <2>6, NoJobAssumption, OwnStepKeeps
         DEF IInv, Transactional
  <1>5. CASE engine # "postgres"
    <2> DEFINE k == [j EXCEPT !.at = Further(j), !.read = Further(j), !.step = 0,
                              !.open = FALSE, !.added = {}, !.dropped = {}]
    <2>1. /\ job' = [job EXCEPT ![p] = k]
          /\ schema' = [schema EXCEPT ![j.db] = Seen(j)]
          /\ version' = [version EXCEPT ![j.db] = Further(j)]
      BY <1>5 DEF Mark, IInv, TypeOK
    <2>2. k \in Jobs /\ k.db = j.db /\ k.meant = j.meant
      BY <1>2, <1>3 DEF Jobs
    <2>3. job'[p] = k /\ \A q \in Procs \ {p} : job'[q] = job[q]
      BY <2>1 DEF IInv, TypeOK
    <2> HIDE DEF k
    <2>4. TypeOK'
      BY <1>1, <1>2, <1>3, <2>1, <2>2 DEF IInv, TypeOK
    <2> QED
      BY <1>1, <1>5, <2>2, <2>3, <2>4, OwnStepKeeps
  <1> QED
    BY <1>4, <1>5

\* What a migration commits when it ends: from a sound schema, that of its mark.
LEMMA FinishCommits ==
    ASSUME IInv, engine = "postgres", NEW p \in Procs, Finish(p)
    PROVE  LET j == job[p]
           IN  /\ j.at = j.goal
               /\ IF j.at = j.read
                  THEN schema'[j.db] = schema[j.db] /\ version' = version
                  ELSE /\ version[j.db] = j.read /\ version'[j.db] = j.at
                       /\ \A b \in Databases \ {j.db} : version'[b] = version[b]
                       /\ j.db \notin strayed => schema'[j.db] = UpTo(j.at)
  <1> DEFINE j == job[p]
  <1>1. /\ j # None /\ j.goal = j.at
        /\ schema' = [schema EXCEPT ![j.db] = Seen(j)]
        /\ version' = IF j.at = j.read THEN version ELSE [version EXCEPT ![j.db] = j.at]
    BY DEF Finish
  <1>2. j \in Jobs /\ j.db \in Databases /\ Sound(j) /\ Holds(p)
    BY <1>1, JobTypes DEF IInv, Transactional
  <1>3. schema'[j.db] = (schema[j.db] \cup j.added) \ j.dropped
    BY <1>1, <1>2 DEF IInv, TypeOK, Seen
  <1>4. CASE j.at = j.read
    BY <1>1, <1>2, <1>3, <1>4 DEF Sound
  <1>5. CASE j.at # j.read
    <2>1. version[j.db] = j.read
      BY <1>2, <1>5 DEF Holds
    <2>2. /\ version'[j.db] = j.at
          /\ \A b \in Databases \ {j.db} : version'[b] = version[b]
      BY <1>1, <1>2, <1>5 DEF IInv, TypeOK
    <2>3. j.db \notin strayed => schema[j.db] = UpTo(j.read)
      BY <1>2, <2>1 DEF IInv, Transactional
    <2>4. (UpTo(j.read) \cup j.added) \ j.dropped = UpTo(j.at)
      BY <1>1, <1>2 DEF Sound, Reached
    <2> QED
      BY <1>1, <1>3, <1>5, <2>1, <2>2, <2>3, <2>4
  <1> QED
    BY <1>4, <1>5

LEMMA FinishKeeps ==
    ASSUME IInv, NEW p \in Procs, Finish(p)
    PROVE  IInv'
  <1> DEFINE j == job[p]
  <1>1. /\ j # None /\ job' = [job EXCEPT ![p] = None]
        /\ schema' = [schema EXCEPT ![j.db] = Seen(j)]
        /\ version' = IF j.at = j.read THEN version ELSE [version EXCEPT ![j.db] = j.at]
        /\ UNCHANGED <<engine, environment, strayed, interrupted, copies, calls>>
    BY DEF Finish, End
  <1>2. j \in Jobs /\ j.db \in Databases /\ Seen(j) \subseteq Objects /\ j.at \in 0..Newest
    BY <1>1, JobTypes DEF IInv, Jobs
  <1>3. TypeOK'
    BY <1>1, <1>2 DEF IInv, TypeOK
  <1>4. job'[p] = None /\ \A q \in Procs \ {p} : job'[q] = job[q]
    BY <1>1 DEF IInv, TypeOK
  <1>5. \A b \in Databases \ {j.db} : schema'[b] = schema[b]
    BY <1>1 DEF IInv, TypeOK
  <1>6. ASSUME engine = "postgres", NEW b \in Databases \ strayed
        PROVE  schema'[b] = UpTo(version'[b])
    BY <1>5, <1>6, FinishCommits DEF IInv, Transactional
  <1>7. ASSUME engine = "postgres", NEW b \in Databases, version'[b] # version[b]
        PROVE  b = j.db /\ j.at # j.read
    BY <1>7, FinishCommits
  <1> QED
    BY <1>1, <1>3, <1>4, <1>6, <1>7, OwnStepKeeps

LEMMA StopsKeep ==
    ASSUME IInv, NEW p \in Procs, Fail(p) \/ GiveUp(p) \/ Crash(p)
    PROVE  IInv'
  <1>1. job[p] # None /\ \E n \in {job[p].step, job[p].step + 1} : Stop(p, n)
    BY DEF Fail, GiveUp, Crash, Cut
  <1>2. /\ job' = [job EXCEPT ![p] = None]
        /\ UNCHANGED <<engine, environment, schema, version, strayed, calls>>
        /\ interrupted' \in {interrupted, interrupted \cup {job[p].db}}
        /\ \E n : copies' \in {copies, copies \cup ({job[p].db} \X Copied(job[p], n))}
    BY <1>1 DEF Stop, End
  <1>3. job[p].db \in Databases /\ \A n : Copied(job[p], n) \subseteq Tables
    BY <1>1, JobTypes DEF IInv, Copied
  <1>4. TypeOK'
    BY <1>2, <1>3 DEF IInv, TypeOK
  <1>5. job'[p] = None /\ \A q \in Procs \ {p} : job'[q] = job[q]
    BY <1>2 DEF IInv, TypeOK
  <1> QED
    BY <1>1, <1>2, <1>4, <1>5, OwnStepKeeps DEF IInv, Transactional

-------------------------------------------------------------------------------

LEMMA InitIInv == Init => IInv
  <1> SUFFICES ASSUME Init PROVE IInv
    OBVIOUS
  <1>1. PICK found \in [Databases -> UNION { Found[d] : d \in Databases }] :
            /\ \A d \in Databases : found[d] \in Found[d]
            /\ schema = [d \in Databases |-> found[d].schema]
            /\ version = [d \in Databases |-> found[d].version]
            /\ strayed = { d \in Databases : found[d].schema # UpTo(found[d].version) }
    BY DEF Init
  <1>2. \A d \in Databases : found[d] \in [schema : SUBSET Objects, version : 0..Newest]
    BY <1>1, MigrationAssumption
  <1>3. schema \in [Databases -> SUBSET Objects] /\ version \in [Databases -> 0..Newest]
    BY <1>1, <1>2
  <1>4. /\ engine \in Engines /\ environment \in Environments
        /\ job = [p \in Procs |-> None] /\ interrupted = {} /\ copies = {} /\ calls = 0
    BY DEF Init
  <1>5. TypeOK
    BY <1>1, <1>3, <1>4, MigrationAssumption DEF TypeOK
  <1>6. Aimed
    BY <1>4 DEF Aimed
  <1>7. Transactional
    BY <1>1, <1>4 DEF Transactional
  <1> QED
    BY <1>5, <1>6, <1>7 DEF IInv

LEMMA NextKeeps ==
    ASSUME IInv, [Next]_vars
    PROVE  IInv'
  <1>1. CASE UNCHANGED vars
    <2>1. UNCHANGED <<engine, environment, schema, version, job, strayed, interrupted, copies, calls>>
      BY <1>1 DEF vars
    <2> QED
      BY <2>1 DEF IInv, TypeOK, Aimed, Transactional, Holds, Undisturbed, Rivals, At
  <1>2. CASE Next
    BY <1>2, CallsKeep, ExecuteKeeps, MarkKeeps, FinishKeeps, StopsKeep, OtherMeansKeep
       DEF Next, Migrate
  <1> QED
    BY <1>1, <1>2

\* What the transactions hold back and who holds the mark, for any chain whose
\* downgrades undo its upgrades.
THEOREM MigrationInvariant == Spec => []IInv
  <1>1. Init => IInv
    BY InitIInv
  <1>2. IInv /\ [Next]_vars => IInv'
    BY NextKeeps
  <1> QED
    BY <1>1, <1>2, PTL DEF Spec

\* Every variable stays in its type.
THEOREM TypeCorrectness == Spec => []TypeOK
  <1>1. IInv => TypeOK
    BY DEF IInv
  <1> QED
    BY <1>1, MigrationInvariant, PTL

\* On PostgreSQL the schema is the one that alembic_version tells, whatever
\* processes migrate, fail or die (migrations/env.py:53-55).
THEOREM SchemaOfTheMark == Spec => []AllOrNothing
  <1>1. IInv => AllOrNothing
    BY DEF IInv, Transactional, AllOrNothing
  <1> QED
    BY <1>1, MigrationInvariant, PTL

-------------------------------------------------------------------------------
(* Whole moves, of any database, whatever create_all() and stamps did to it.  *)

\* A job that has come to some schema finds there what its next statement needs.
LEMMA ReachedApplies ==
    ASSUME NEW j \in Jobs, MoreToDo(j), NEW e \in Engines
    PROVE  Applies(Ahead(j)[j.step + 1], Reached(j), e)
  <1> DEFINE i == j.step + 1
  <1>1. /\ j.goal \in 0..Newest /\ j.at \in 0..Newest /\ j.step \in Nat
        /\ j.goal # j.at /\ j.step < Len(Ahead(j))
    BY DEF Jobs, MoreToDo
  <1>2. i \in 1..Len(Ahead(j)) /\ i - 1 = j.step
    BY <1>1, AheadTypes
  <1>3. CASE j.goal > j.at
    <2> DEFINE r == j.at + 1
    <2>1. r \in 1..Newest /\ Ahead(j) = Chain[r].up /\ r - 1 = j.at
      BY <1>1, <1>3, NewestNat DEF Ahead
    <2>2. i \in DOMAIN Chain[r].up
      BY <1>2, <2>1, StatementTypes
    <2>3. Applies(Chain[r].up[i],
                  UpTo(r - 1) \cup UNION { Chain[r].up[k].what : k \in 1..(i - 1) }, e)
      BY <2>1, <2>2, OrderAssumption
    <2>4. Reached(j) = UpTo(r - 1) \cup UNION { Chain[r].up[k].what : k \in 1..(i - 1) }
      BY <1>1, <1>2, <1>3, <2>1 DEF Reached
    <2> QED
      BY <2>1, <2>3, <2>4
  <1>4. CASE ~(j.goal > j.at)
    <2> DEFINE r == j.at
    <2>1. r \in 1..Newest /\ Ahead(j) = Chain[r].down
      BY <1>1, <1>4, NewestNat DEF Ahead
    <2>2. i \in DOMAIN Chain[r].down
      BY <1>2, <2>1, StatementTypes
    <2>3. Applies(Chain[r].down[i],
                  UpTo(r) \ UNION { Gone(Chain[r].down[k]) : k \in 1..(i - 1) }, e)
      BY <2>1, <2>2, OrderAssumption
    <2>4. Reached(j) = UpTo(r) \ UNION { Gone(Chain[r].down[k]) : k \in 1..(i - 1) }
      BY <1>1, <1>2, <1>4, <2>1 DEF Reached
    <2> QED
      BY <2>1, <2>3, <2>4
  <1> QED
    BY <1>3, <1>4

\* What a process has pending to add is nobody else's: it is not at the database,
\* not of the revisions it came from, and not pending in another process.
Apart ==
    \A p \in Procs : job[p] # None =>
        /\ job[p].added \cap schema[job[p].db] = {}
        /\ job[p].added \cap UpTo(job[p].read) = {}
        /\ \A q \in Rivals(p) : job[p].added \cap job[q].added = {}

WholeInv == IInv /\ (engine = "postgres" => Apart)

\* Steps of others: nothing more is pending, and the schema does not grow there.
LEMMA ApartStays ==
    ASSUME Apart, NEW P \in SUBSET Procs,
           \A q \in Procs \ P : job'[q] # None => job'[q].added = {},
           \A q \in P : job'[q] # None =>
              /\ job[q] # None /\ job'[q].db = job[q].db /\ job'[q].read = job[q].read
              /\ job'[q].added = job[q].added
              /\ job[q].added \cap schema'[job[q].db] = {}
    PROVE  Apart'
  <1> SUFFICES ASSUME NEW p \in Procs, job'[p] # None
               PROVE  /\ job'[p].added \cap schema'[job'[p].db] = {}
                      /\ job'[p].added \cap UpTo(job'[p].read) = {}
                      /\ \A q \in Rivals(p)' : job'[p].added \cap job'[q].added = {}
    BY DEF Apart
  <1>1. CASE p \notin P
    BY <1>1
  <1>2. CASE p \in P
    <2>1. ASSUME NEW q \in Rivals(p)' PROVE job'[p].added \cap job'[q].added = {}
      <3>1. q \in Procs \ {p} /\ job'[q] # None /\ job'[q].db = job'[p].db
        BY DEF Rivals, At
      <3>2. CASE q \notin P
        BY <3>1, <3>2
      <3>3. CASE q \in P
        <4>1. q \in Rivals(p)
          BY <1>2, <3>1, <3>3 DEF Rivals, At
        <4> QED
          BY <1>2, <3>1, <3>3, <4>1 DEF Apart
      <3> QED
        BY <3>2, <3>3
    <2> QED
      BY <1>2, <2>1 DEF Apart
  <1> QED
    BY <1>1, <1>2

LEMMA ToldAdds ==
    ASSUME TypeOK, NEW q \in Procs, Told(q), job'[q] # None
    PROVE  /\ job[q] # None /\ job'[q].db = job[q].db /\ job'[q].read = job[q].read
           /\ job'[q].added = job[q].added
  <1>1. job[q] # None /\ job[q] \in Jobs
    BY DEF Told, TypeOK
  <1> QED
    BY <1>1 DEF Told, Jobs

\* What a statement that is executed adds, is added by nobody else.
LEMMA ExecuteApart ==
    ASSUME WholeInv, engine = "postgres", NEW p \in Procs, Execute(p)
    PROVE  Apart'
  <1> DEFINE j == job[p]
             k == job'[p]
             st == Ahead(j)[j.step + 1]
  <1>1. /\ j \in Jobs /\ j # None /\ MoreToDo(j) /\ Works(j, st) /\ ~Waits(p, st.what)
        /\ \A q \in Procs \ {p} : job'[q] = job[q]
    BY ExecuteTypes DEF WholeInv, IInv, Execute
  <1>2. Sound(j) /\ j.open /\ Apart
    BY <1>1 DEF WholeInv, IInv, Transactional, Sound
  <1>3. /\ k # None /\ k.db = j.db /\ k.read = j.read
        /\ k.added = IF st.does = "add" THEN j.added \cup st.what ELSE j.added
        /\ schema' = schema
    <2> DEFINE inside == j.open \/ st.how = "batch"
               e == Executed(j, st, inside)
    <2>1. inside = TRUE
      BY <1>2
    <2>2. /\ k = e /\ e # None /\ e.db = j.db /\ e.read = j.read
          /\ e.added = IF inside /\ st.does = "add" THEN j.added \cup st.what ELSE j.added
          /\ IF inside
             THEN UNCHANGED schema
             ELSE schema' = [schema EXCEPT ![j.db] =
                               IF st.does = "add" THEN @ \cup st.what ELSE @ \ Gone(st)]
      BY ExecuteTypes DEF WholeInv, IInv
    <2> HIDE DEF inside, e
    <2> QED
      BY <2>1, <2>2
  <1>4. ASSUME st.does = "add"
        PROVE  /\ st.what \cap schema[j.db] = {}
               /\ st.what \cap UpTo(j.read) = {}
               /\ \A q \in Rivals(p) : st.what \cap job[q].added = {}
    <2>1. /\ j.goal \in 0..Newest /\ j.at \in 0..Newest /\ j.read \in 0..Newest
          /\ j.goal # j.at /\ j.step + 1 \in 1..Len(Ahead(j))
      BY <1>1, AheadTypes DEF MoreToDo, Jobs
    <2>2. j.goal > j.at
      BY <1>1, <1>4, <2>1, AheadTypes
    <2>3. j.dropped = {} /\ j.read <= j.at
      BY <1>2, <2>1, <2>2, NewestNat DEF Sound
    <2>4. st.what \cap schema[j.db] = {}
      BY <1>1, <1>4, <2>3 DEF Works, Applies, Seen
    <2>5. Applies(st, Reached(j), engine)
      BY <1>1, ReachedApplies DEF WholeInv, IInv, TypeOK
    <2>6. UpTo(j.at) \subseteq Reached(j)
      BY <2>1, <2>2 DEF Reached
    <2>7. UpTo(j.read) \subseteq UpTo(j.at)
      <3>1. 1..j.read \subseteq 1..j.at
        BY <2>1, <2>3, NewestNat
      <3> QED
        BY <3>1 DEF UpTo
    <2>8. st.what \cap UpTo(j.read) = {}
      BY <1>4, <2>5, <2>6, <2>7 DEF Applies
    <2>9. \A q \in Rivals(p) : st.what \cap job[q].added = {}
      BY <1>1 DEF Waits
    <2> QED
      BY <2>4, <2>8, <2>9
  <1>5. /\ Rivals(p)' = Rivals(p)
        /\ \A q \in Procs \ {p} : Rivals(q)' = Rivals(q)
    BY <1>1, <1>3 DEF Rivals, At
  <1>6. \A q \in Rivals(p) : q \in Procs \ {p} /\ job'[q] = job[q]
    BY <1>1 DEF Rivals, At
  <1>7. \A q \in Procs \ {p} : p \in Rivals(q) /\ job[q] # None => q \in Rivals(p)
    BY <1>1 DEF Rivals, At
  <1> HIDE DEF st, k
  <1>8. /\ k.added \cap schema'[k.db] = {}
        /\ k.added \cap UpTo(k.read) = {}
        /\ \A q \in Rivals(p)' : k.added \cap job'[q].added = {}
    BY <1>1, <1>2, <1>3, <1>4, <1>5, <1>6 DEF Apart
  <1>9. ASSUME NEW q \in Procs \ {p}, job'[q] # None
        PROVE  /\ job'[q].added \cap schema'[job'[q].db] = {}
               /\ job'[q].added \cap UpTo(job'[q].read) = {}
               /\ \A o \in Rivals(q)' : job'[q].added \cap job'[o].added = {}
    <2>1. job'[q] = job[q]
      BY <1>1
    <2>2. ASSUME NEW o \in Rivals(q)' PROVE job'[q].added \cap job'[o].added = {}
      <3>1. o \in Rivals(q) /\ o \in Procs
        BY <1>5 DEF Rivals, At
      <3>2. CASE o = p
        <4>1. q \in Rivals(p)'
          BY <1>5, <1>7, <1>9, <2>1, <3>1, <3>2
        <4> QED
          BY <1>8, <3>2, <4>1 DEF k
      <3>3. CASE o # p
        BY <1>1, <1>2, <1>9, <2>1, <3>1, <3>3 DEF Apart
      <3> QED
        BY <3>2, <3>3
    <2> QED
      BY <1>2, <1>3, <1>9, <2>1, <2>2 DEF Apart
  <1> QED
    BY <1>8, <1>9 DEF Apart, k

\* The other steps of a migration, and those of others.
LEMMA OthersApart ==
    ASSUME WholeInv, engine = "postgres",
           (\E p \in Procs : \/ Upgrade(p) \/ Downgrade(p) \/ Mark(p) \/ Finish(p)
                             \/ Fail(p) \/ GiveUp(p) \/ Crash(p))
           \/ Stamp \/ \E d \in Databases : CreateAll(d)
    PROVE  Apart'
  <1>1. TypeOK /\ Apart /\ schema \in [Databases -> SUBSET Objects]
    BY DEF WholeInv, IInv, TypeOK
  <1>2. ASSUME NEW p \in Procs, Upgrade(p) \/ Downgrade(p) PROVE Apart'
    <2>1. PICK explicit \in Databases \cup {None}, d \in Databases, goal \in 0..Newest :
              job[p] = None /\ Meant(explicit, d) = d /\ Begin(p, explicit, d, goal)
      BY <1>1, <1>2, CallBegins
    <2>2. /\ job'[p].added = {} /\ schema' = schema
          /\ \A q \in Procs \ {p} : Told(q)
      BY <1>1, <2>1, BeginTells DEF Begun
    <2> DEFINE P == Procs \ {p}
    <2>3. \A q \in P : job'[q] # None =>
             /\ job[q] # None /\ job'[q].db = job[q].db /\ job'[q].read = job[q].read
             /\ job'[q].added = job[q].added
             /\ job[q].added \cap schema'[job[q].db] = {}
      BY <1>1, <2>2, ToldAdds DEF Apart
    <2>4. P \in SUBSET Procs /\ \A q \in Procs \ P : job'[q].added = {}
      BY <2>2
    <2> HIDE DEF P
    <2> QED
      BY <1>1, <2>3, <2>4, ApartStays
  <1>3. ASSUME NEW p \in Procs, Mark(p) PROVE Apart'
    <2>1. /\ job[p] # None /\ schema' = schema
          /\ job' = [job EXCEPT ![p].at = Further(job[p]), ![p].step = 0]
      BY <1>3 DEF Mark
    <2>2. job[p] \in Jobs /\ \A q \in Procs \ {p} : job'[q] = job[q]
      BY <1>1, <2>1 DEF TypeOK
    <2>3. /\ job'[p].db = job[p].db /\ job'[p].read = job[p].read
          /\ job'[p].added = job[p].added
      BY <1>1, <2>1, <2>2 DEF Jobs, TypeOK
    <2>4. \A q \in Procs : job'[q] # None =>
             /\ job[q] # None /\ job'[q].db = job[q].db /\ job'[q].read = job[q].read
             /\ job'[q].added = job[q].added
             /\ job[q].added \cap schema'[job[q].db] = {}
      BY <1>1, <2>1, <2>2, <2>3 DEF Apart
    <2> QED
      BY <1>1, <2>4, ApartStays
  <1>4. ASSUME NEW p \in Procs, Finish(p) PROVE Apart'
    <2> DEFINE j == job[p]
    <2>1. /\ j # None /\ job' = [job EXCEPT ![p] = None]
          /\ schema' = [schema EXCEPT ![j.db] = Seen(j)]
      BY <1>4 DEF Finish, End
    <2>2. job'[p] = None /\ \A q \in Procs \ {p} : job'[q] = job[q]
      BY <1>1, <2>1 DEF TypeOK
    <2>3. ASSUME NEW q \in Procs \ {p}, job[q] # None
          PROVE  job[q].added \cap schema'[job[q].db] = {}
      <3>1. job[q].db \in Databases /\ j.db \in Databases
        BY <1>1, <2>1, <2>3, JobTypes
      <3>2. CASE job[q].db # j.db
        BY <1>1, <2>1, <2>3, <3>1, <3>2 DEF Apart
      <3>3. CASE job[q].db = j.db
        <4>1. p \in Rivals(q)
          BY <2>1, <3>3 DEF Rivals, At
        <4>2. job[q].added \cap schema[j.db] = {} /\ job[q].added \cap j.added = {}
          BY <1>1, <2>3, <3>3, <4>1 DEF Apart
        <4>3. schema'[j.db] \subseteq schema[j.db] \cup j.added
          BY <1>1, <2>1, <3>1 DEF Seen
        <4> QED
          BY <3>3, <4>2, <4>3
      <3> QED
        BY <3>2, <3>3
    <2> QED
      BY <1>1, <2>2, <2>3, ApartStays
  <1>5. ASSUME NEW p \in Procs, Fail(p) \/ GiveUp(p) \/ Crash(p) PROVE Apart'
    <2>1. job' = [job EXCEPT ![p] = None] /\ schema' = schema
      BY <1>5 DEF Fail, GiveUp, Crash, Cut, Stop, End
    <2>2. job'[p] = None /\ \A q \in Procs \ {p} : job'[q] = job[q]
      BY <1>1, <2>1 DEF TypeOK
    <2> QED
      BY <1>1, <2>1, <2>2, ApartStays DEF Apart
  <1>6. ASSUME Stamp PROVE Apart'
    <2>1. PICK d : job' = [p \in Procs |-> Crowded(p, d)]
      BY <1>6 DEF Stamp
    <2>2. schema' = schema
      BY <1>6 DEF Stamp
    <2>3. \A q \in Procs : Told(q)
      BY <1>1, <2>1, CrowdedTells
    <2> QED
      BY <1>1, <2>2, <2>3, ToldAdds, ApartStays DEF Apart
  <1>7. ASSUME NEW d \in Databases, CreateAll(d) PROVE Apart'
    <2>1. /\ job' = [p \in Procs |-> Crowded(p, d)] /\ Quiet(d)
          /\ schema' = [schema EXCEPT ![d] = @ \cup Missing(d)]
      BY <1>7 DEF CreateAll
    <2>2. \A q \in Procs : Told(q)
      BY <1>1, <2>1, CrowdedTells
    <2>3. ASSUME NEW q \in Procs, job[q] # None
          PROVE  job[q].added \cap schema'[job[q].db] = {}
      <3>1. job[q].db \in Databases /\ Sound(job[q])
        BY <1>1, <2>3, JobTypes DEF WholeInv, IInv, Transactional
      <3>2. CASE job[q].db = d
        BY <2>1, <2>3, <3>1, <3>2 DEF Quiet, At, Sound
      <3>3. CASE job[q].db # d
        BY <1>1, <2>1, <2>3, <3>1, <3>3 DEF Apart
      <3> QED
        BY <3>2, <3>3
    <2> QED
      BY <1>1, <2>2, <2>3, ToldAdds, ApartStays
  <1> QED
    BY <1>2, <1>3, <1>4, <1>5, <1>6, <1>7

\* What a migration that ends has made of its database.
LEMMA FinishWhole ==
    ASSUME WholeInv, engine = "postgres", NEW p \in Procs, Finish(p), NEW d \in Databases
    PROVE  MoveWhole(d)
  <1> DEFINE j == job[p]
  <1>1. /\ j # None /\ j.goal = j.at /\ schema' = [schema EXCEPT ![j.db] = Seen(j)]
        /\ version' = IF j.at = j.read THEN version ELSE [version EXCEPT ![j.db] = j.at]
    BY DEF Finish
  <1>2. /\ j \in Jobs /\ j.db \in Databases /\ Sound(j)
        /\ j.at \in 0..Newest /\ j.read \in 0..Newest
    BY <1>1, JobTypes DEF WholeInv, IInv, Transactional, Jobs
  <1>3. CASE d # j.db
    BY <1>1, <1>2, <1>3 DEF MoveWhole, WholeInv, IInv, TypeOK
  <1>4. CASE d = j.db /\ j.at = j.read
    BY <1>4, FinishCommits DEF MoveWhole, WholeInv
  <1>5. CASE d = j.db /\ j.at # j.read
    <2>1. version[d] = j.read /\ version'[d] = j.at
      BY <1>5, FinishCommits DEF WholeInv
    <2>2. schema'[d] = (schema[d] \cup j.added) \ j.dropped
      BY <1>1, <1>2, <1>5 DEF WholeInv, IInv, TypeOK, Seen
    <2>3. (UpTo(j.read) \cup j.added) \ j.dropped = UpTo(j.at)
      BY <1>1, <1>2 DEF Sound, Reached
    <2>4. j.added \cap schema[d] = {} /\ j.added \cap UpTo(j.read) = {}
      BY <1>1, <1>5 DEF WholeInv, Apart
    <2>5. CASE j.at > j.read
      <3>1. j.dropped = {}
        BY <1>1, <1>2, <2>5, NewestNat DEF Sound
      <3>2. j.added = UpTo(j.at) \ UpTo(j.read)
        BY <2>3, <2>4, <3>1
      <3> QED
        BY <2>1, <2>2, <2>4, <2>5, <3>1, <3>2 DEF MoveWhole
    <2>6. CASE j.at < j.read
      <3>1. j.added = {}
        BY <1>1, <1>2, <2>6, NewestNat DEF Sound
      <3>2. /\ UpTo(j.read) \ UpTo(j.at) \subseteq j.dropped
            /\ UpTo(j.at) \cap j.dropped = {}
        BY <2>3, <3>1
      <3> QED
        BY <2>1, <2>2, <2>6, <3>1, <3>2 DEF MoveWhole
    <2> QED
      BY <1>2, <1>5, <2>5, <2>6, NewestNat
  <1> QED
    BY <1>3, <1>4, <1>5

LEMMA NextWhole ==
    ASSUME WholeInv, engine = "postgres", [Next]_vars, NEW d \in Databases
    PROVE  MoveWhole(d)
  <1>1. CASE UNCHANGED vars
    BY <1>1 DEF vars, MoveWhole
  <1>2. ASSUME NEW p \in Procs, Upgrade(p) \/ Downgrade(p) PROVE MoveWhole(d)
    BY <1>2 DEF Upgrade, Downgrade, Begin, MoveWhole
  <1>3. ASSUME NEW p \in Procs, Execute(p) PROVE MoveWhole(d)
    <2>1. job[p] # None
      BY <1>3 DEF Execute
    <2>2. job[p].open
      BY <2>1 DEF WholeInv, IInv, Transactional, Sound
    <2>3. schema' = schema /\ version' = version
      BY <1>3, <2>2 DEF Execute
    <2> QED
      BY <2>3 DEF MoveWhole
  <1>4. ASSUME NEW p \in Procs, Mark(p) PROVE MoveWhole(d)
    BY <1>4 DEF Mark, MoveWhole
  <1>5. ASSUME NEW p \in Procs, Fail(p) \/ GiveUp(p) \/ Crash(p) PROVE MoveWhole(d)
    BY <1>5 DEF Fail, GiveUp, Crash, Cut, Stop, MoveWhole
  <1>6. ASSUME Stamp PROVE MoveWhole(d)
    BY <1>6 DEF MoveWhole
  <1>7. ASSUME NEW b \in Databases, CreateAll(b) PROVE MoveWhole(d)
    <2>1. CASE b = d
      BY <1>7, <2>1 DEF MoveWhole
    <2>2. CASE b # d
      BY <1>7, <2>2 DEF CreateAll, MoveWhole, WholeInv, IInv, TypeOK
    <2> QED
      BY <2>1, <2>2
  <1> QED
    BY <1>1, <1>2, <1>3, <1>4, <1>5, <1>6, <1>7, FinishWhole DEF Next, Migrate

LEMMA EngineStays == [Next]_vars => engine' = engine
  <1>1. UNCHANGED vars => engine' = engine
    BY DEF vars
  <1>2. \A p \in Procs : Upgrade(p) \/ Downgrade(p) => engine' = engine
    BY DEF Upgrade, Downgrade, Begin
  <1>3. \A p \in Procs : Migrate(p) => engine' = engine
    <2> SUFFICES ASSUME NEW p \in Procs, Migrate(p) PROVE engine' = engine
      OBVIOUS
    <2>1. Execute(p) => engine' = engine
      BY DEF Execute
    <2>2. Mark(p) => engine' = engine
      BY DEF Mark
    <2>3. Finish(p) => engine' = engine
      BY DEF Finish, End
    <2>4. Fail(p) \/ GiveUp(p) => engine' = engine
      BY DEF Fail, GiveUp, Cut, Stop, End
    <2> QED
      BY <2>1, <2>2, <2>3, <2>4 DEF Migrate
  <1>4. \A p \in Procs : Crash(p) => engine' = engine
    BY DEF Crash, Cut, Stop, End
  <1>5. Stamp \/ (\E d \in Databases : CreateAll(d)) => engine' = engine
    BY DEF Stamp, CreateAll
  <1> QED
    BY <1>1, <1>2, <1>3, <1>4, <1>5 DEF Next

\* On PostgreSQL a migration moves any database, one out of step with its mark
\* too, by all that lies between two marks or not at all, and takes nothing for
\* its own that was there (migrations/env.py:53-55, sqlalchemy_repository.py:306).
THEOREM MovesAreWhole == Spec => OnlyWholeMoves
  <1>1. Init => WholeInv
    BY InitIInv DEF WholeInv, Apart, Init
  <1>2. WholeInv /\ [Next]_vars => WholeInv'
    <2> SUFFICES ASSUME WholeInv, [Next]_vars PROVE WholeInv'
      OBVIOUS
    <2>1. IInv' /\ engine' = engine
      BY NextKeeps, EngineStays DEF WholeInv
    <2>2. ASSUME engine = "postgres" PROVE Apart'
      <3>1. CASE UNCHANGED vars
        BY <2>2, <3>1 DEF vars, WholeInv, Apart, Rivals, At
      <3>2. CASE Next
        BY <2>2, <3>2, ExecuteApart, OthersApart DEF Next, Migrate
      <3> QED
        BY <3>1, <3>2
    <2> QED
      BY <2>1, <2>2 DEF WholeInv
  <1>3. WholeInv /\ [Next]_vars => (engine = "postgres" => \A d \in Databases : MoveWhole(d))
    BY NextWhole
  <1> QED
    BY <1>1, <1>2, <1>3, PTL DEF Spec, OnlyWholeMoves

-------------------------------------------------------------------------------
(* SQLite, where statements commit by themselves.                           *)

\* What a job has pending, and what it has done since its last mark.
Settled(j) ==
    /\ j.read = j.at
    /\ ~j.open => j.added = {} /\ j.dropped = {}
    /\ j.step = 0 => ~j.open
    /\ j.goal > j.at => j.dropped = {}
    /\ j.goal = j.at => j.step = 0
    /\ j.goal # j.at => j.step <= Len(Ahead(j))

\* Who writes is where the mark is; who goes up may have fallen behind it; who
\* goes down has nobody beside it.
InPlace(p, d) ==
    /\ job[p].step > 0 => job[p].at = version[d] /\ Seen(job[p]) = Reached(job[p])
    /\ job[p].goal > job[p].at => job[p].at <= version[d]
    /\ job[p].goal < job[p].at => job[p].at = version[d] /\ At(d) = {p}
    /\ job[p].alone => job[p].at = version[d]

\* One process at a time writes, and while none does the mark tells the schema.
InTurn(d) ==
    /\ \A p \in At(d) : InPlace(p, d)
    /\ \A p, q \in At(d) : job[p].step > 0 /\ job[q].step > 0 => p = q
    /\ (\A p \in At(d) : job[p].step = 0) => schema[d] = UpTo(version[d])

\* What SQLite keeps.  A process that is behind, or that finds another one at
\* the same revision, fails at its first statement: what it adds is there.
Stepwise ==
    /\ \A p \in Procs :
          job[p] # None => Settled(job[p]) /\ (job[p].alone => Rivals(p) = {})
    /\ \A d \in Databases \ (strayed \cup interrupted) : InTurn(d)

\* The inductive invariant of both engines.
StepInv == IInv /\ (engine = "sqlite" => Stepwise)

-------------------------------------------------------------------------------
(* What one process does to the others on SQLite.                           *)

\* The same job, but for who else is there.
Alike(k, j) ==
    /\ k.db = j.db /\ k.goal = j.goal /\ k.read = j.read /\ k.at = j.at /\ k.step = j.step
    /\ k.open = j.open /\ k.added = j.added /\ k.dropped = j.dropped

LEMMA AlikeSettled ==
    ASSUME NEW j, NEW k, Alike(k, j), Settled(j)
    PROVE  Settled(k)
  <1>1. Ahead(k) = Ahead(j)
    BY DEF Alike, Ahead
  <1> QED
    BY <1>1 DEF Alike, Settled

LEMMA AlikeReached ==
    ASSUME NEW j, NEW k, Alike(k, j)
    PROVE  Reached(k) = Reached(j)
  <1>1. Ahead(k) = Ahead(j) /\ k.goal = j.goal /\ k.at = j.at /\ k.step = j.step
    BY DEF Alike, Ahead
  <1> QED
    BY <1>1 DEF Reached

LEMMA ToldAlike ==
    ASSUME TypeOK, NEW q \in Procs, Told(q), job[q] # None
    PROVE  /\ job'[q] # None /\ Alike(job'[q], job[q])
           /\ job'[q].alone => job[q].alone
  <1>1. job[q] \in Jobs
    BY DEF TypeOK
  <1> QED
    BY <1>1, NoJobAssumption DEF Told, Jobs, Alike

LEMMA InTurnStays ==
    ASSUME NEW d, InTurn(d), schema'[d] = schema[d], version'[d] = version[d],
           At(d)' = At(d),
           \A q \in At(d) : Alike(job'[q], job[q]) /\ (job'[q].alone => job[q].alone)
    PROVE  InTurn(d)'
  <1>1. ASSUME NEW q \in At(d)
        PROVE  Reached(job[q])' = Reached(job[q])
    BY <1>1, AlikeReached
  <1>2. ASSUME NEW q \in At(d)
        PROVE  Seen(job[q])' = Seen(job[q])
    BY <1>2 DEF Alike, At, Seen
  <1> QED
    BY <1>1, <1>2 DEF InTurn, InPlace, Alike

LEMMA FirstStatement ==
    ASSUME NEW r \in 1..Newest
    PROVE  /\ 1 \in 1..Len(Chain[r].up) /\ Chain[r].up[1].what # {}
           /\ 1 \in 1..Len(Chain[r].down)
  <1>1. Chain[r].up # <<>> /\ Chain[r].up[1].what # {} /\ Chain[r].down # <<>>
    BY ChainAssumption
  <1>2. Chain[r].up \in Seq(Statement) /\ Chain[r].down \in Seq(Statement)
    BY StatementTypes
  <1>3. Len(Chain[r].up) # 0 /\ Len(Chain[r].down) # 0
    BY <1>1, <1>2
  <1> QED
    BY <1>1, <1>2, <1>3

\* The first statement upwards fails where what it adds is there already.
LEMMA FirstFails ==
    ASSUME NEW j \in Jobs, j.goal > j.at, j.step = 0,
           Works(j, Ahead(j)[1])
    PROVE  ~(Ahead(j)[1].what \subseteq Seen(j))
  <1>1. j.at + 1 \in 1..Newest /\ Ahead(j) = Chain[j.at + 1].up
    BY NewestNat DEF Jobs, Ahead
  <1>2. Ahead(j)[1].what # {} /\ 1 \in 1..Len(Ahead(j))
    BY <1>1, FirstStatement
  <1>3. Ahead(j)[1].does = "add"
    BY <1>1, <1>2, StatementTypes
  <1> QED
    BY <1>2, <1>3 DEF Works, Applies

LEMMA FirstAdds ==
    ASSUME NEW r \in 0..Newest, r # Newest
    PROVE  Chain[r + 1].up[1].what \subseteq UpTo(r + 1)
  <1>1. r + 1 \in 1..Newest /\ r \in Nat
    BY NewestNat
  <1>2. 1 \in DOMAIN Chain[r + 1].up
    BY <1>1, FirstStatement, StatementTypes
  <1> QED
    BY <1>1, <1>2, UpToNext DEF ObjectsOf, Statements

LEMMA UpToGrows ==
    ASSUME NEW r \in Nat, NEW v \in Nat, r <= v
    PROVE  UpTo(r) \subseteq UpTo(v)
  <1>1. 1..r \subseteq 1..v
    OBVIOUS
  <1> QED
    BY <1>1 DEF UpTo

\* A statement is executed only by the process that writes, or becomes it.
LEMMA ExecuteInPlace ==
    ASSUME StepInv, engine = "sqlite", NEW p \in Procs, Execute(p),
           job[p].db \notin strayed \cup interrupted
    PROVE  LET j == job[p]
           IN  /\ j.at = version[j.db] /\ Seen(j) = Reached(j)
               /\ \A q \in At(j.db) \ {p} : job[q].step = 0 /\ ~(job[q].goal < job[q].at)
  <1> DEFINE j == job[p]
             d == j.db
             st == Ahead(j)[j.step + 1]
  <1>1. j # None /\ MoreToDo(j) /\ ~Waits(p, st.what) /\ Works(j, st)
    BY DEF Execute
  <1>2. j \in Jobs /\ d \in Databases /\ version[d] \in 0..Newest
    BY <1>1, JobTypes DEF StepInv, IInv, TypeOK
  <1>3. InTurn(d) /\ p \in At(d) /\ Settled(j) /\ j.goal # j.at
    BY <1>1, <1>2 DEF StepInv, Stepwise, At, MoreToDo
  <1>4. /\ j.goal \in 0..Newest /\ j.at \in 0..Newest /\ j.step \in Nat
    BY <1>2 DEF Jobs
  <1>5. ASSUME NEW q \in At(d) \ {p}
        PROVE  /\ job[q] \in Jobs /\ job[q].db = d /\ Settled(job[q]) /\ InPlace(q, d)
               /\ job[q].goal \in 0..Newest /\ job[q].at \in 0..Newest /\ job[q].step \in Nat
    <2>1. q \in Procs /\ job[q] # None /\ job[q].db = d
      BY DEF At
    <2>2. job[q] \in Jobs
      BY <2>1 DEF StepInv, IInv, TypeOK
    <2> QED
      BY <1>3, <2>1, <2>2 DEF StepInv, Stepwise, InTurn, Jobs
  <1>6. \A q \in At(d) \ {p} : ~(job[q].goal < job[q].at)
    BY <1>3, <1>5 DEF InPlace
  <1>7. At(d) = {p} \/ j.goal > j.at
    BY <1>3, <1>4, NewestNat DEF InTurn, InPlace
  <1>8. ASSUME j.goal > j.at, j.step = 0
        PROVE  ~(Chain[j.at + 1].up[1].what \subseteq schema[d])
    <2>1. Seen(j) = schema[d]
      BY <1>3, <1>8 DEF Settled, Seen
    <2>2. Works(j, Ahead(j)[1]) /\ Ahead(j) = Chain[j.at + 1].up
      BY <1>1, <1>8 DEF Ahead
    <2> QED
      BY <1>2, <1>8, <2>1, <2>2, FirstFails
  <1>9. ASSUME j.goal > j.at, UpTo(version[d]) \subseteq schema[d], j.step = 0
        PROVE  j.at = version[d]
    <2> SUFFICES ASSUME j.at # version[d] PROVE FALSE
      OBVIOUS
    <2>1. j.at + 1 <= version[d] /\ j.at # Newest
      BY <1>2, <1>3, <1>4, <1>9, NewestNat DEF InTurn, InPlace
    <2>2. Chain[j.at + 1].up[1].what \subseteq UpTo(version[d])
      BY <1>2, <1>4, <2>1, FirstAdds, UpToGrows, NewestNat
    <2> QED
      BY <1>8, <1>9, <2>2
  <1>10. ASSUME NEW q \in At(d) \ {p} PROVE job[q].step = 0
    <2> SUFFICES ASSUME job[q].step # 0 PROVE FALSE
      OBVIOUS
    <2> DEFINE i == job[q]
    <2>1. /\ i.step > 0 /\ i.goal > i.at /\ i.at = version[d] /\ Seen(i) = Reached(i)
      BY <1>5, <1>6, NewestNat DEF InPlace, Settled
    <2>2. j.step = 0 /\ j.goal > j.at
      BY <1>3, <1>4, <1>7, <2>1 DEF InTurn
    <2>3. ~i.open
      BY <1>1, <1>5 DEF Waits, Rivals, StepInv, IInv
    <2>4. schema[d] = Reached(i)
      BY <1>5, <2>1, <2>3 DEF Settled, Seen
    <2>5. 1 \in 1..i.step
      BY <1>5, <2>1
    <2>6. UpTo(version[d]) \subseteq schema[d] /\ Ahead(i)[1].what \subseteq schema[d]
      BY <1>5, <2>1, <2>4, <2>5 DEF Reached
    <2>7. Ahead(i) = Chain[j.at + 1].up
      BY <1>9, <2>1, <2>2, <2>6 DEF Ahead
    <2> QED
      BY <1>8, <2>2, <2>6, <2>7
  <1>11. j.at = version[d] /\ Seen(j) = Reached(j)
    <2>1. CASE j.step > 0
      BY <1>3, <2>1 DEF InTurn, InPlace
    <2>2. CASE j.step = 0
      <3>1. schema[d] = UpTo(version[d])
        BY <1>3, <1>10, <2>2 DEF InTurn
      <3>2. j.at = version[d]
        BY <1>3, <1>4, <1>9, <2>2, <3>1, NewestNat DEF InTurn, InPlace
      <3>3. Seen(j) = schema[d]
        BY <1>3, <2>2 DEF Settled, Seen
      <3>4. 1..j.step = {}
        BY <2>2
      <3>5. Reached(j) = UpTo(j.at)
        BY <3>4 DEF Reached
      <3> QED
        BY <3>1, <3>2, <3>3, <3>5
    <2> QED
      BY <1>4, <2>1, <2>2
  <1> QED
    BY <1>6, <1>10, <1>11

\* A step of one process, of which only its database is to be shown.
LEMMA OwnStepInTurn ==
    ASSUME StepInv, engine = "sqlite", NEW p \in Procs, job[p] # None,
           NEW d \in Databases, job[p].db = d,
           \A q \in Procs \ {p} : job'[q] = job[q],
           job'[p] # None => /\ job'[p].db = d /\ job'[p].alone = job[p].alone
                             /\ Settled(job'[p]),
           strayed' = strayed, interrupted \subseteq interrupted',
           \A b \in Databases \ {d} : schema'[b] = schema[b] /\ version'[b] = version[b],
           d \notin strayed' \cup interrupted' => InTurn(d)'
    PROVE  Stepwise'
  <1>1. ASSUME NEW q \in Procs, job'[q] # None
        PROVE  Settled(job'[q]) /\ (job'[q].alone => Rivals(q)' = {})
    <2>1. job[q] # None /\ job'[q].db = job[q].db /\ job'[q].alone = job[q].alone
      BY <1>1
    <2>2. Settled(job'[q])
      BY <1>1, <2>1 DEF StepInv, Stepwise
    <2>3. Rivals(q)' \subseteq Rivals(q)
      BY <2>1 DEF Rivals, At
    <2> QED
      BY <2>1, <2>2, <2>3 DEF StepInv, Stepwise
  <1>2. ASSUME NEW b \in Databases \ (strayed' \cup interrupted')
        PROVE  InTurn(b)'
    <2>1. CASE b = d
      BY <1>2, <2>1
    <2>2. CASE b # d
      <3>1. InTurn(b)
        BY <1>2 DEF StepInv, Stepwise
      <3>2. At(b)' = At(b) /\ p \notin At(b)
        BY <2>2 DEF At
      <3>3. \A q \in At(b) : job'[q] = job[q]
        BY <3>2 DEF At
      <3> QED
        BY <1>2, <2>2, <3>1, <3>2, <3>3, InTurnStays DEF Alike
    <2> QED
      BY <2>1, <2>2
  <1> QED
    BY <1>1, <1>2 DEF Stepwise

LEMMA ExecuteInTurn ==
    ASSUME StepInv, engine = "sqlite", NEW p \in Procs, Execute(p)
    PROVE  Stepwise'
  <1> DEFINE j == job[p]
             st == Ahead(j)[j.step + 1]
             inside == j.open \/ st.how = "batch"
             k == job'[p]
  <1>0. PICK d \in Databases : d = j.db
    BY ExecuteTypes DEF StepInv, IInv, Jobs
  <1>1. /\ j \in Jobs /\ j # None /\ MoreToDo(j) /\ j.goal # j.at /\ j.step < Len(Ahead(j))
        /\ UNCHANGED <<engine, version, strayed, interrupted>>
        /\ IF inside
           THEN UNCHANGED schema
           ELSE schema' = [schema EXCEPT ![j.db] =
                             IF st.does = "add" THEN @ \cup st.what ELSE @ \ Gone(st)]
    BY ExecuteTypes DEF StepInv, IInv, MoreToDo
  <1>2. inside \in BOOLEAN /\ (j.open => inside)
    OBVIOUS
  <1>3. /\ k # None /\ k.db = d /\ k.goal = j.goal /\ k.read = j.read /\ k.at = j.at
        /\ k.step = j.step + 1 /\ k.alone = j.alone /\ k.open = inside
        /\ k.added = IF inside /\ st.does = "add" THEN j.added \cup st.what ELSE j.added
        /\ k.dropped = IF inside /\ st.does = "drop" THEN j.dropped \cup Gone(st) ELSE j.dropped
    <2> DEFINE e == Executed(j, st, inside)
    <2>1. /\ k = e /\ e # None /\ e.db = j.db /\ e.goal = j.goal /\ e.at = j.at
          /\ e.read = j.read /\ e.alone = j.alone /\ e.step = j.step + 1 /\ e.open = inside
      BY ExecuteTypes DEF StepInv, IInv
    <2>2. /\ e.added = IF inside /\ st.does = "add" THEN j.added \cup st.what ELSE j.added
          /\ e.dropped = IF inside /\ st.does = "drop"
                         THEN j.dropped \cup Gone(st) ELSE j.dropped
      BY ExecuteTypes DEF StepInv, IInv
    <2> HIDE DEF e
    <2> QED
      BY <1>0, <2>1, <2>2
  <1>4. \A q \in Procs \ {p} : job'[q] = job[q]
    BY ExecuteTypes DEF StepInv, IInv
  <1>5. /\ inside => schema'[d] = schema[d]
        /\ ~inside => schema'[d] = IF st.does = "add" THEN schema[d] \cup st.what
                                                      ELSE schema[d] \ Gone(st)
        /\ \A b \in Databases \ {d} : schema'[b] = schema[b]
    BY <1>0, <1>1 DEF StepInv, IInv, TypeOK
  <1> HIDE DEF inside
  <1>6. Settled(j)
    BY <1>1 DEF StepInv, Stepwise
  <1>7. st.does = IF j.goal > j.at THEN "add" ELSE "drop"
    <2>1. j.step + 1 \in 1..Len(Ahead(j))
      BY <1>1, AheadTypes DEF Jobs
    <2> QED
      BY <1>1, <2>1, AheadTypes
  <1>8. Settled(k)
    <2>1. Ahead(k) = Ahead(j)
      BY <1>3 DEF Ahead
    <2>2. j.step \in Nat /\ Len(Ahead(j)) \in Nat
      BY <1>1, AheadTypes DEF Jobs
    <2> QED
      BY <1>1, <1>2, <1>3, <1>6, <1>7, <2>1, <2>2 DEF Settled
  <1>9. ASSUME d \notin strayed' \cup interrupted' PROVE InTurn(d)'
    <2>1. /\ j.at = version[d] /\ Seen(j) = Reached(j) /\ InTurn(d)
          /\ \A q \in At(d) \ {p} : job[q].step = 0 /\ ~(job[q].goal < job[q].at)
      BY <1>0, <1>1, <1>9, ExecuteInPlace DEF StepInv, Stepwise
    <2>2. At(d)' = At(d) /\ p \in At(d)
      BY <1>0, <1>1, <1>3, <1>4 DEF At
    <2>3. \A q \in At(d) \ {p} : job'[q] = job[q]
      BY <1>4 DEF At
    <2>4. (schema'[d] \cup k.added) \ k.dropped = Reached(k)
      <3>1. Reached(k) = IF st.does = "add" THEN Reached(j) \cup st.what
                                            ELSE Reached(j) \ Gone(st)
        BY <1>1, <1>3, StatementReached
      <3>2. Reached(j) = (schema[d] \cup j.added) \ j.dropped
        BY <1>0, <2>1 DEF Seen
      <3>3. ~inside => j.added = {} /\ j.dropped = {}
        BY <1>2, <1>6 DEF Settled
      <3>4. st.does = "add" => j.dropped = {}
        BY <1>6, <1>7 DEF Settled
      <3>5. CASE inside
        <4>1. schema'[d] = schema[d]
          BY <1>5, <3>5
        <4>2. CASE st.does = "add"
          <5>1. k.added = j.added \cup st.what /\ k.dropped = {} /\ j.dropped = {}
            BY <1>3, <3>4, <3>5, <4>2
          <5> QED
            BY <3>1, <3>2, <4>1, <4>2, <5>1
        <4>3. CASE st.does = "drop"
          <5>1. k.added = j.added /\ k.dropped = j.dropped \cup Gone(st)
            BY <1>3, <3>5, <4>3
          <5> QED
            BY <3>1, <3>2, <4>1, <4>3, <5>1
        <4> QED
          BY <1>7, <4>2, <4>3
      <3>6. CASE ~inside
        BY <1>3, <1>5, <3>1, <3>2, <3>3, <3>6
      <3> QED
        BY <3>5, <3>6
    <2>5. Seen(job[p])' = Reached(job[p])'
      BY <1>3, <2>4 DEF Seen
    <2>6. InPlace(p, d)'
      BY <1>1, <1>3, <2>1, <2>2, <2>5 DEF InTurn, InPlace
    <2>7. ASSUME NEW q \in At(d) \ {p} PROVE InPlace(q, d)' /\ job'[q].step = 0
      BY <1>1, <2>1, <2>2, <2>3, <2>7 DEF InTurn, InPlace
    <2>8. job'[p].step > 0
      BY <1>1, <1>3 DEF Jobs
    <2> QED
      BY <2>2, <2>6, <2>7, <2>8 DEF InTurn
  <1> QED
    BY <1>0, <1>1, <1>3, <1>4, <1>5, <1>8, <1>9, OwnStepInTurn

LEMMA MarkInTurn ==
    ASSUME StepInv, engine = "sqlite", NEW p \in Procs, Mark(p)
    PROVE  Stepwise'
  <1> DEFINE j == job[p]
             k == [j EXCEPT !.at = Further(j), !.read = Further(j), !.step = 0,
                            !.open = FALSE, !.added = {}, !.dropped = {}]
  <1>1. /\ j # None /\ j.goal # j.at /\ ~MoreToDo(j)
        /\ job' = [job EXCEPT ![p] = k]
        /\ schema' = [schema EXCEPT ![j.db] = Seen(j)]
        /\ version' = [version EXCEPT ![j.db] = Further(j)]
        /\ strayed' = strayed /\ interrupted' = interrupted
    BY DEF Mark, StepInv, IInv, TypeOK
  <1>2. j \in Jobs /\ Further(j) \in 0..Newest
    BY <1>1, JobTypes, AheadTypes DEF StepInv, IInv
  <1>3. PICK d \in Databases : d = j.db
    BY <1>2 DEF Jobs
  <1>4. job'[p] = k /\ \A q \in Procs \ {p} : job'[q] = job[q]
    BY <1>1 DEF StepInv, IInv, TypeOK
  <1>5. /\ k.db = d /\ k.goal = j.goal /\ k.read = Further(j) /\ k.at = Further(j)
        /\ k.step = 0 /\ k.open = FALSE /\ k.added = {} /\ k.dropped = {} /\ k.alone = j.alone
        /\ k \in Jobs /\ k # None
    <2>1. /\ k.db = d /\ k.goal = j.goal /\ k.read = Further(j) /\ k.at = Further(j)
          /\ k.step = 0 /\ k.open = FALSE /\ k.added = {} /\ k.dropped = {}
          /\ k.alone = j.alone
      BY <1>2, <1>3 DEF Jobs
    <2>2. k \in Jobs
      BY <1>2 DEF Jobs
    <2> QED
      BY <2>1, <2>2, NoJobAssumption
  <1> HIDE DEF k
  <1>6. schema'[d] = Seen(j) /\ version'[d] = Further(j)
    BY <1>1, <1>3 DEF StepInv, IInv, TypeOK
  <1>7. \A b \in Databases \ {d} : schema'[b] = schema[b] /\ version'[b] = version[b]
    BY <1>1, <1>3 DEF StepInv, IInv, TypeOK
  <1>8. Settled(k)
    <2>1. k.goal # k.at => 0 <= Len(Ahead(k))
      BY <1>5, AheadTypes
    <2> QED
      BY <1>5, <2>1 DEF Settled
  <1>9. ASSUME d \notin strayed' \cup interrupted' PROVE InTurn(d)'
    <2>1. InTurn(d) /\ p \in At(d) /\ Settled(j)
      BY <1>1, <1>3, <1>9 DEF StepInv, Stepwise, At
    <2>2. j.goal \in 0..Newest /\ j.at \in 0..Newest /\ j.step \in Nat
      BY <1>2 DEF Jobs
    <2>3. j.step = Len(Ahead(j)) /\ j.step > 0
      <3>1. Len(Ahead(j)) \in Nat /\ j.step = Len(Ahead(j))
        BY <1>1, <1>2, <2>1, <2>2, AheadTypes DEF Settled, MoreToDo
      <3>2. CASE j.goal > j.at
        <4>1. j.at + 1 \in 1..Newest /\ Ahead(j) = Chain[j.at + 1].up
          BY <2>2, <3>2, NewestNat DEF Ahead
        <4> QED
          BY <3>1, <4>1, FirstStatement
      <3>3. CASE ~(j.goal > j.at)
        <4>1. j.at \in 1..Newest /\ Ahead(j) = Chain[j.at].down
          BY <1>1, <2>2, <3>3, NewestNat DEF Ahead
        <4> QED
          BY <3>1, <4>1, FirstStatement
      <3> QED
        BY <3>2, <3>3
    <2>4. j.at = version[d] /\ schema'[d] = UpTo(version'[d])
      BY <1>1, <1>2, <1>6, <2>1, <2>3, RevisionReached DEF InTurn, InPlace
    <2>5. At(d)' = At(d)
      BY <1>1, <1>3, <1>4, <1>5 DEF At
    <2>6. InPlace(p, d)'
      BY <1>4, <1>5, <1>6, <1>2, <2>1, <2>2, <2>4, <2>5, NewestNat DEF InTurn, InPlace, Further
    <2>7. ASSUME NEW q \in At(d) \ {p} PROVE InPlace(q, d)' /\ job'[q].step = 0
      <3>1. /\ q \in Procs /\ job'[q] = job[q] /\ job[q].db = d /\ job[q] \in Jobs
            /\ job[q].step \in Nat /\ job[q].at \in 0..Newest /\ job[q].goal \in 0..Newest
        BY <1>4 DEF At, StepInv, IInv, TypeOK, Jobs
      <3>2. InPlace(q, d) /\ job[q].step = 0
        BY <2>1, <2>3, <3>1 DEF InTurn
      <3>3. ~(job[q].goal < job[q].at) /\ ~job[q].alone
        BY <1>3, <2>1, <3>1, <3>2 DEF InPlace, StepInv, Stepwise, Rivals, At
      <3>4. j.goal > j.at
        BY <1>1, <2>1, <2>2, <2>7, NewestNat DEF InTurn, InPlace
      <3>5. version'[d] = version[d] + 1
        BY <1>6, <2>4, <3>4 DEF Further
      <3>6. version[d] \in 0..Newest
        BY DEF StepInv, IInv, TypeOK
      <3> QED
        BY <3>1, <3>2, <3>3, <3>5, <3>6, NewestNat DEF InPlace
    <2> QED
      BY <1>4, <1>5, <2>4, <2>5, <2>6, <2>7 DEF InTurn
  <1> QED
    BY <1>1, <1>3, <1>4, <1>5, <1>7, <1>8, <1>9, OwnStepInTurn

\* A process that leaves a database without having anything under way there.
LEMMA LeavesInTurn ==
    ASSUME StepInv, engine = "sqlite", NEW p \in Procs, job[p] # None,
           NEW d \in Databases, job[p].db = d, job' = [job EXCEPT ![p] = None],
           strayed' = strayed, interrupted \subseteq interrupted',
           \A b \in Databases : schema'[b] = schema[b] /\ version'[b] = version[b],
           d \in interrupted' \/ job[p].step = 0
    PROVE  Stepwise'
  <1>1. job'[p] = None /\ \A q \in Procs \ {p} : job'[q] = job[q]
    BY DEF StepInv, IInv, TypeOK
  <1>2. ASSUME d \notin strayed' \cup interrupted' PROVE InTurn(d)'
    <2>1. InTurn(d)
      BY <1>2 DEF StepInv, Stepwise
    <2>2. At(d)' = At(d) \ {p} /\ p \in At(d)
      BY <1>1 DEF At
    <2>3. ASSUME NEW q \in At(d) \ {p}
          PROVE  job'[q] = job[q] /\ job[q].db = d
      BY <1>1 DEF At
    <2>4. ASSUME NEW q \in At(d) \ {p} PROVE InPlace(q, d)'
      <3>1. InPlace(q, d) /\ At(d) # {q}
        BY <2>1, <2>2 DEF InTurn
      <3>2. Seen(job[q])' = Seen(job[q]) /\ Reached(job[q])' = Reached(job[q])
        BY <2>3 DEF Seen
      <3> QED
        BY <2>3, <3>1, <3>2 DEF InPlace
    <2> QED
      BY <1>2, <2>1, <2>2, <2>3, <2>4 DEF InTurn
  <1> QED
    BY <1>1, <1>2, OwnStepInTurn

LEMMA FinishInTurn ==
    ASSUME StepInv, engine = "sqlite", NEW p \in Procs, Finish(p)
    PROVE  Stepwise' /\ schema' = schema /\ version' = version
  <1> DEFINE j == job[p]
  <1>1. /\ j # None /\ j.goal = j.at /\ job' = [job EXCEPT ![p] = None]
        /\ schema' = [schema EXCEPT ![j.db] = Seen(j)]
        /\ version' = IF j.at = j.read THEN version ELSE [version EXCEPT ![j.db] = j.at]
        /\ strayed' = strayed /\ interrupted' = interrupted
    BY DEF Finish, End
  <1>2. j \in Jobs /\ j.db \in Databases /\ Settled(j)
    BY <1>1, JobTypes DEF StepInv, IInv, Stepwise
  <1>3. j.step = 0 /\ Seen(j) = schema[j.db] /\ j.at = j.read
    BY <1>1, <1>2 DEF Settled, Seen
  <1>4. schema' = schema /\ version' = version
    BY <1>1, <1>2, <1>3 DEF StepInv, IInv, TypeOK
  <1> QED
    BY <1>1, <1>2, <1>3, <1>4, LeavesInTurn

LEMMA StopsInTurn ==
    ASSUME StepInv, engine = "sqlite", NEW p \in Procs, Fail(p) \/ GiveUp(p) \/ Crash(p)
    PROVE  Stepwise'
  <1>1. job[p] # None /\ \E n \in {job[p].step, job[p].step + 1} : Stop(p, n)
    BY DEF Fail, GiveUp, Crash, Cut
  <1>2. job[p].db \in Databases /\ job[p].step \in Nat
    BY <1>1, JobTypes DEF StepInv, IInv, Jobs
  <1>3. /\ job' = [job EXCEPT ![p] = None] /\ strayed' = strayed
        /\ schema' = schema /\ version' = version
    BY <1>1 DEF Stop, End
  <1>4. /\ interrupted \subseteq interrupted'
        /\ job[p].db \in interrupted' \/ job[p].step = 0
    BY <1>1, <1>2 DEF Stop
  <1>5. \A b \in Databases : schema'[b] = schema[b] /\ version'[b] = version[b]
    BY <1>3
  <1> QED
    BY <1>1, <1>2, <1>3, <1>4, <1>5, LeavesInTurn

\* A call that begins, or another change of one database, as the others see it.
LEMMA ToldInTurn ==
    ASSUME StepInv, engine = "sqlite", NEW d \in Databases, NEW P \in SUBSET Procs,
           \A q \in P : Told(q) /\ (job'[q] # None /\ job'[q].db = d => ~job'[q].alone),
           \A q \in Procs \ P :
              /\ job[q] = None
              /\ job'[q] # None => job'[q].db = d /\ Settled(job'[q])
                                   /\ (job'[q].alone => Rivals(q)' = {}),
           strayed \ {d} \subseteq strayed', interrupted' = interrupted,
           \A b \in Databases \ {d} : schema'[b] = schema[b] /\ version'[b] = version[b],
           d \notin strayed' \cup interrupted' => InTurn(d)'
    PROVE  Stepwise'
  <1>1. ASSUME NEW q \in P
        PROVE  /\ job'[q] # None <=> job[q] # None
               /\ job[q] # None => Alike(job'[q], job[q]) /\ (job'[q].alone => job[q].alone)
    BY <1>1, ToldAlike DEF Told, StepInv, IInv
  <1>2. ASSUME NEW q \in Procs, job'[q] # None
        PROVE  Settled(job'[q]) /\ (job'[q].alone => Rivals(q)' = {})
    <2>1. CASE q \notin P
      BY <1>2, <2>1
    <2>2. CASE q \in P
      <3>1. job[q] # None /\ Settled(job[q]) /\ (job[q].alone => Rivals(q) = {})
        BY <1>1, <1>2, <2>2 DEF StepInv, Stepwise
      <3>2. ASSUME job'[q].alone PROVE Rivals(q)' = {}
        <4>1. job'[q].db = job[q].db /\ job[q].db # d /\ Rivals(q) = {}
          BY <1>1, <1>2, <2>2, <3>1, <3>2 DEF Alike
        <4>2. \A o \in Procs : o \in Rivals(q)' => o \in Rivals(q)
          BY <1>1, <4>1 DEF Rivals, At, Alike
        <4> QED
          BY <4>1, <4>2 DEF Rivals, At
      <3> QED
        BY <1>1, <2>2, <3>1, <3>2, AlikeSettled
    <2> QED
      BY <2>1, <2>2
  <1>3. ASSUME NEW b \in Databases \ (strayed' \cup interrupted'), b # d
        PROVE  InTurn(b)'
    <2>1. InTurn(b)
      BY <1>3 DEF StepInv, Stepwise
    <2>2. At(b)' = At(b) /\ At(b) \subseteq P
      <3>1. \A q \in Procs : q \in At(b)' <=> q \in At(b)
        BY <1>1, <1>3 DEF At, Alike
      <3> QED
        BY <3>1 DEF At
    <2>3. \A q \in At(b) : Alike(job'[q], job[q]) /\ (job'[q].alone => job[q].alone)
      BY <1>1, <2>2 DEF At
    <2> QED
      BY <1>3, <2>1, <2>2, <2>3, InTurnStays
  <1> QED
    BY <1>2, <1>3 DEF Stepwise

LEMMA BeginInTurn ==
    ASSUME StepInv, engine = "sqlite", NEW p \in Procs, job[p] = None,
           NEW explicit \in Databases \cup {None}, NEW d \in Databases,
           Meant(explicit, d) = d,
           NEW goal \in 0..Newest, Begin(p, explicit, d, goal)
    PROVE  Stepwise'
  <1> DEFINE k == job'[p]
             P == Procs \ {p}
  <1>1. Begun(p, d, goal)
    BY BeginTells DEF StepInv, IInv
  <1>2. /\ k # None /\ k.db = d /\ k.goal = goal /\ k.at = version[d] /\ k.read = version[d]
        /\ k.step = 0 /\ k.added = {} /\ k.dropped = {} /\ k.open = FALSE
        /\ k.alone => At(d) = {}
        /\ k \in Jobs /\ version[d] \in 0..Newest
    <2>1. /\ k \in Jobs /\ k # None /\ k.db = d /\ k.goal = goal
          /\ k.at = version[d] /\ k.read = version[d] /\ k.step = 0
          /\ k.added = {} /\ k.dropped = {}
          /\ k.alone => At(d) = {}
      BY <1>1 DEF Begun
    <2>2. k.open = (engine = "postgres")
      BY <1>1 DEF Begun
    <2>3. version[d] \in 0..Newest
      BY DEF StepInv, IInv, TypeOK
    <2> HIDE DEF k
    <2> QED
      BY <2>1, <2>2, <2>3
  <1>3. \A q \in P : Told(q) /\ (job'[q] # None /\ job'[q].db = d => ~job'[q].alone)
    BY <1>1 DEF Begun
  <1>4. /\ strayed \subseteq strayed'
        /\ Crossing(d, goal) => d \in strayed'
        /\ UNCHANGED <<schema, version, interrupted>>
    <2>1. /\ strayed' \in {strayed, strayed \cup {d}}
          /\ Crossing(d, goal) => d \in strayed'
          /\ UNCHANGED <<schema, version, interrupted>>
      BY <1>1 DEF Begun
    <2> QED
      BY <2>1
  <1>5. \A q \in P :
           /\ job'[q] # None <=> job[q] # None
           /\ job[q] # None => Alike(job'[q], job[q]) /\ (job'[q].alone => job[q].alone)
    BY <1>3, ToldAlike DEF Told, StepInv, IInv
  <1>6. At(d)' = At(d) \cup {p} /\ p \notin At(d)
    <2>1. \A q \in P : q \in At(d)' <=> q \in At(d)
      BY <1>5 DEF At, Alike
    <2>2. p \in At(d)' /\ p \notin At(d)
      BY <1>2 DEF At
    <2> QED
      BY <2>1, <2>2 DEF At
  <1>7. Settled(k)
    <2>1. k.goal # k.at => 0 <= Len(Ahead(k))
      BY <1>2, AheadTypes
    <2> QED
      BY <1>2, <2>1 DEF Settled
  <1>8. k.alone => Rivals(p)' = {}
    BY <1>2, <1>6 DEF Rivals
  <1>9. ASSUME d \notin strayed' \cup interrupted' PROVE InTurn(d)'
    <2>1. InTurn(d) /\ ~Crossing(d, goal)
      BY <1>4, <1>9 DEF StepInv, Stepwise
    <2>2. InPlace(p, d)'
      BY <1>2, <1>4, <1>6, <2>1, NewestNat DEF InPlace, Crossing
    <2>3. ASSUME NEW q \in At(d)
          PROVE  InPlace(q, d)' /\ job'[q].step = job[q].step
      <3>1. /\ Alike(job'[q], job[q]) /\ q # p /\ q \in P /\ job[q].db = d
        BY <1>5, <1>6 DEF At
      <3>2. /\ InPlace(q, d) /\ ~(job[q].goal < job[q].at)
        BY <2>1 DEF InTurn, Crossing
      <3>3. Reached(job[q])' = Reached(job[q])
        BY <3>1, AlikeReached
      <3>4. Seen(job[q])' = Seen(job[q])
        BY <1>4, <3>1 DEF Alike, Seen
      <3>5. ~job'[q].alone
        BY <1>3, <1>5, <3>1 DEF At, Alike
      <3> QED
        BY <1>4, <3>1, <3>2, <3>3, <3>4, <3>5 DEF InPlace, Alike
    <2> QED
      BY <1>2, <1>4, <1>6, <2>1, <2>2, <2>3 DEF InTurn
  <1>10. \A q \in Procs \ P :
            /\ job[q] = None
            /\ job'[q].db = d /\ Settled(job'[q]) /\ (job'[q].alone => Rivals(q)' = {})
    BY <1>2, <1>7, <1>8
  <1>11. P \in SUBSET Procs /\ strayed \ {d} \subseteq strayed'
    BY <1>4
  <1> HIDE DEF P
  <1> QED
    BY <1>3, <1>4, <1>9, <1>10, <1>11, ToldInTurn

LEMMA CallsInTurn ==
    ASSUME StepInv, engine = "sqlite", NEW p \in Procs, Upgrade(p) \/ Downgrade(p)
    PROVE  Stepwise'
  BY CallBegins, BeginInTurn DEF StepInv, IInv

LEMMA OtherMeansInTurn ==
    ASSUME StepInv, engine = "sqlite", Stamp \/ \E d \in Databases : CreateAll(d)
    PROVE  Stepwise'
  <1>1. ASSUME NEW d \in Databases, job' = [p \in Procs |-> Crowded(p, d)]
        PROVE  \A q \in Procs : /\ Told(q)
                                /\ job'[q] # None /\ job'[q].db = d => ~job'[q].alone
    BY <1>1, CrowdedTells DEF StepInv, IInv
  <1>2. CASE Stamp
    <2>0. PICK explicit \in Databases \cup {None}, goal \in Goals : \E d \in Targets(explicit) :
                  /\ version' = [version EXCEPT ![d] = goal]
                  /\ strayed' = IF schema[d] = UpTo(goal) /\ (engine = "postgres" \/ At(d) = {})
                                THEN strayed \ {d} ELSE strayed \cup {d}
                  /\ job' = [p \in Procs |-> Crowded(p, d)]
                  /\ UNCHANGED <<schema, interrupted>>
      BY <1>2 DEF Stamp
    <2>1. PICK d \in Targets(explicit) :
              /\ version' = [version EXCEPT ![d] = goal]
              /\ strayed' = IF schema[d] = UpTo(goal) /\ (engine = "postgres" \/ At(d) = {})
                            THEN strayed \ {d} ELSE strayed \cup {d}
              /\ job' = [p \in Procs |-> Crowded(p, d)]
              /\ UNCHANGED <<schema, interrupted>>
      BY <2>0
    <2>2. d \in Databases
      BY TargetTypes DEF StepInv, IInv
    <2>3. /\ version'[d] = goal /\ schema'[d] = schema[d]
          /\ \A b \in Databases \ {d} : schema'[b] = schema[b] /\ version'[b] = version[b]
      BY <2>1, <2>2 DEF StepInv, IInv, TypeOK
    <2>4. ASSUME d \notin strayed' PROVE InTurn(d)'
      <3>1. schema[d] = UpTo(goal) /\ At(d) = {}
        BY <2>1, <2>2, <2>4
      <3>2. \A q \in Procs : job'[q] # None => job[q] # None /\ job'[q].db = job[q].db
        BY <1>1, <2>1, <2>2, ToldAlike DEF Told, Alike, StepInv, IInv
      <3>3. At(d)' = {}
        BY <3>1, <3>2 DEF At
      <3> QED
        BY <2>3, <3>1, <3>3 DEF InTurn
    <2>5. strayed \ {d} \subseteq strayed'
      BY <2>1, <2>2
    <2> QED
      BY <1>1, <2>1, <2>2, <2>3, <2>4, <2>5, ToldInTurn
  <1>3. CASE \E d \in Databases : CreateAll(d)
    <2>1. PICK d \in Databases : CreateAll(d)
      BY <1>3
    <2>2. /\ job' = [p \in Procs |-> Crowded(p, d)]
          /\ strayed' = strayed \cup {d} /\ interrupted' = interrupted
          /\ \A b \in Databases \ {d} : schema'[b] = schema[b] /\ version'[b] = version[b]
      BY <2>1 DEF CreateAll, StepInv, IInv, TypeOK
    <2> QED
      BY <1>1, <2>2, ToldInTurn
  <1> QED
    BY <1>2, <1>3

\* One process at a time writes, on SQLite too, for any chain whose revisions begin
\* with something to add.
THEOREM TurnsAreTaken == Spec => []StepInv
  <1>1. Init => Stepwise
    <2> SUFFICES ASSUME Init PROVE Stepwise
      OBVIOUS
    <2>1. /\ job = [p \in Procs |-> None]
          /\ \A d \in Databases \ strayed : schema[d] = UpTo(version[d])
      <3>1. PICK found \in [Databases -> UNION { Found[d] : d \in Databases }] :
                /\ schema = [d \in Databases |-> found[d].schema]
                /\ version = [d \in Databases |-> found[d].version]
                /\ strayed = { d \in Databases : found[d].schema # UpTo(found[d].version) }
        BY DEF Init
      <3> QED
        BY <3>1 DEF Init
    <2>2. \A d : At(d) = {}
      BY <2>1 DEF At
    <2> QED
      BY <2>1, <2>2 DEF Stepwise, InTurn
  <1>2. StepInv /\ [Next]_vars /\ engine = "sqlite" => Stepwise'
    <2> SUFFICES ASSUME StepInv, [Next]_vars, engine = "sqlite" PROVE Stepwise'
      OBVIOUS
    <2>1. CASE UNCHANGED vars
      <3>1. /\ UNCHANGED <<schema, version, job, strayed, interrupted>>
        BY <2>1 DEF vars
      <3> QED
        BY <3>1 DEF StepInv, Stepwise, InTurn, InPlace, Seen, Rivals, At
    <2>2. CASE Next
      BY <2>2, CallsInTurn, ExecuteInTurn, MarkInTurn, FinishInTurn, StopsInTurn,
         OtherMeansInTurn DEF Next, Migrate
    <2> QED
      BY <2>1, <2>2
  <1>4. Init => StepInv
    BY <1>1, InitIInv DEF StepInv
  <1>5. StepInv /\ [Next]_vars => StepInv'
    BY <1>2, EngineStays, NextKeeps DEF StepInv
  <1> QED
    BY <1>4, <1>5, PTL DEF Spec

\* On SQLite, at a database where nobody is at work and nothing was left half way,
\* the schema is the one that alembic_version tells (migrations/env.py:45-55).
THEOREM SchemaBetweenRevisions == Spec => []SchemaTellsTheVersion
  <1>1. StepInv => SchemaTellsTheVersion
    BY DEF StepInv, Stepwise, InTurn, SchemaTellsTheVersion
  <1> QED
    BY <1>1, TurnsAreTaken, PTL

\* A call that returns with nobody else at its database, where no other hand
\* and no failure left it unsound, has brought the database its caller means to
\* the revision it was asked for (migrar.py:73-94, env.py:37-42).
THEOREM ReturnedIsMigrated == Spec => OkMeansMigrated
  <1>1. ASSUME StepInv PROVE \A p \in Procs : Migrated(p)
    <2> SUFFICES ASSUME NEW p \in Procs, Finish(p), job[p].alone,
                        job[p].db \notin strayed \cup interrupted
                 PROVE  /\ version'[job[p].db] = job[p].goal
                        /\ schema'[job[p].db] = UpTo(job[p].goal)
      BY <1>1 DEF Migrated, Finish, StepInv, IInv, Aimed
    <2> DEFINE j == job[p]
               d == j.db
    <2>1. j # None /\ d \in Databases /\ j.goal = j.at
      BY <1>1, JobTypes DEF StepInv, IInv, Finish
    <2>2. CASE engine = "postgres"
      <3>1. version[d] = j.read /\ schema[d] = UpTo(version[d])
        BY <1>1, <2>1, <2>2 DEF StepInv, IInv, Transactional, Undisturbed
      <3> QED
        BY <1>1, <2>1, <2>2, <3>1, FinishCommits DEF StepInv
    <2>3. CASE engine = "sqlite"
      <3>1. InTurn(d) /\ p \in At(d) /\ Settled(j) /\ Rivals(p) = {}
        BY <1>1, <2>1, <2>3 DEF StepInv, Stepwise, At
      <3>2. version[d] = j.at
        BY <3>1 DEF InTurn, InPlace
      <3>3. \A q \in At(d) : job[q].step = 0
        BY <2>1, <3>1 DEF Rivals, Settled
      <3>4. schema[d] = UpTo(version[d])
        BY <3>1, <3>3 DEF InTurn
      <3> QED
        BY <1>1, <2>1, <2>3, <3>2, <3>4, FinishInTurn
    <2> QED
      BY <1>1, <2>2, <2>3, MigrationAssumption DEF StepInv, IInv, TypeOK
  <1> QED
    BY <1>1, TurnsAreTaken, PTL DEF Spec, OkMeansMigrated

\* Who is alone at a sound database has come to where its revision says, and
\* finds the mark that it read.
LEMMA AloneIsOnCourse ==
    ASSUME StepInv, NEW p \in Procs, job[p] # None, job[p].alone,
           job[p].db \notin strayed \cup interrupted
    PROVE  Seen(job[p]) = Reached(job[p]) /\ MarkAsRead(p) /\ Rivals(p) = {}
  <1> DEFINE j == job[p]
             d == j.db
  <1>1. d \in Databases /\ j \in Jobs /\ engine \in {"postgres", "sqlite"}
    BY JobTypes, MigrationAssumption DEF StepInv, IInv, TypeOK
  <1>2. CASE engine = "postgres"
    <2>1. Sound(j) /\ version[d] = j.read /\ Rivals(p) = {} /\ schema[d] = UpTo(version[d])
      BY <1>1, <1>2 DEF StepInv, IInv, Transactional, Undisturbed
    <2>2. Seen(j) = Reached(j)
      BY <2>1 DEF Sound, Seen
    <2> QED
      BY <1>2, <2>1, <2>2 DEF MarkAsRead
  <1>3. CASE engine = "sqlite"
    <2>1. InTurn(d) /\ p \in At(d) /\ Settled(j) /\ Rivals(p) = {}
      BY <1>1, <1>3 DEF StepInv, Stepwise, At
    <2>2. version[d] = j.at
      BY <2>1 DEF InTurn, InPlace
    <2>3. CASE j.step > 0
      BY <2>1, <2>2, <2>3 DEF InTurn, InPlace, MarkAsRead
    <2>4. CASE j.step = 0
      <3>1. schema[d] = UpTo(j.at)
        BY <2>1, <2>2, <2>4 DEF InTurn, Rivals
      <3>2. Seen(j) = schema[d] /\ 1..j.step = {}
        BY <2>1, <2>4 DEF Settled, Seen
      <3>3. Reached(j) = UpTo(j.at)
        BY <3>2 DEF Reached
      <3> QED
        BY <2>1, <2>2, <3>1, <3>2, <3>3 DEF MarkAsRead
    <2> QED
      BY <1>1, <2>3, <2>4 DEF Jobs
  <1> QED
    BY <1>1, <1>2, <1>3

\* A migration that is alone at a sound database neither meets a statement that is
\* refused nor waits for a lock, on either engine, for any chain whose statements
\* are in a possible order (migrations/versions, migrations/env.py:45-55).
THEOREM AloneSucceeds == Spec => FailsOnlyForAReason
  <1>1. ASSUME StepInv
        PROVE  \A p \in Procs : FailsForAReason(p)
    <2> SUFFICES ASSUME NEW p \in Procs, Fail(p) \/ GiveUp(p), job[p].alone,
                        job[p].db \notin strayed \cup interrupted,
                        \A t \in Tables : <<job[p].db, t>> \notin copies
                 PROVE  FALSE
      BY DEF FailsForAReason
    <2> DEFINE j == job[p]
    <2>1. j # None /\ j \in Jobs /\ engine \in Engines
      BY <1>1, JobTypes DEF StepInv, IInv, TypeOK, Fail, GiveUp
    <2>2. Seen(j) = Reached(j) /\ MarkAsRead(p) /\ Rivals(p) = {}
      BY <1>1, <2>1, AloneIsOnCourse
    <2>3. MoreToDo(j) => Works(j, Ahead(j)[j.step + 1])
      <3> SUFFICES ASSUME MoreToDo(j) PROVE Works(j, Ahead(j)[j.step + 1])
        OBVIOUS
      <3>1. j.step + 1 \in 1..Len(Ahead(j)) /\ j.goal # j.at
        BY <2>1, AheadTypes DEF MoreToDo, Jobs
      <3>2. Ahead(j)[j.step + 1].what \subseteq Objects
        BY <2>1, <3>1, AheadTypes, GoneTypes
      <3>3. ~CopyInTheWay(j, Ahead(j)[j.step + 1])
        BY <3>2 DEF CopyInTheWay, Tables
      <3> QED
        BY <2>1, <2>2, <3>3, ReachedApplies DEF Works
    <2>4. ~MarkHeld(p) /\ \A what : ~Waits(p, what)
      BY <2>2 DEF MarkHeld, Waits
    <2> QED
      BY <2>2, <2>3, <2>4 DEF Fail, GiveUp
  <1> QED
    BY <1>1, TurnsAreTaken, PTL DEF Spec, FailsOnlyForAReason

===============================================================================
