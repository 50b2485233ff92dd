------------------------------- MODULE Catalog --------------------------------
(***************************************************************************)
(* SqlAlchemyCatalogRepository (libragenda/catalog_repository.py) and      *)
(* SqlAlchemyAvailabilityRepository (availability_repository.py): the      *)
(* tables of sqlalchemy_repository.py that hold branches, clients,         *)
(* resources, services, holidays, windows, policies, blocks and            *)
(* exceptions, the foreign keys between them, and the engine that          *)
(* database.py configures.                                                 *)
(*                                                                         *)
(*   add_*               [insert]                                          *)
(*   update_*, delete_*  [get   flush]                                     *)
(*   set_policy          [get   flush]                                     *)
(*                                                                         *)
(* where the brackets are one transaction: another process may commit      *)
(* between the SELECT of session.get() and the statement of the flush.  A  *)
(* call that raises rolls back; one that raises before its flush is no     *)
(* step at all.                                                            *)
(*                                                                         *)
(* A row is the rows its foreign keys name and two columns that matter to  *)
(* the class it is read as: the ends of an interval, the gap and the cap   *)
(* of a policy, the duration of a service or an appointment.  Gaps and     *)
(* durations are in half seconds, and in whole seconds once stored.        *)
(***************************************************************************)
EXTENDS Integers, FiniteSets, FiniteSetsExt

CONSTANTS
    Callers,  \* the concurrent callers
    Ids,      \* table |-> the primary keys its rows may have
    Asked,    \* table |-> the rows callers may ask to store
    Engines,  \* what the process may be connected to
    None

\* Tables whose rows have two ends, and tables whose rows get a number from the
\* database; the callers name the rest.
Intervals == {"availability", "time_blocks", "availability_exceptions"}

Numbered == Intervals \cup {"holidays"}

Masters == {"branches", "clients", "resources", "services"}

Tables == Numbered \cup Masters \cup {"agenda_policies", "appointments"}

Keys == UNION { {t} \X Ids[t] : t \in Tables }

Rows == [refs : SUBSET Keys, first : Int, second : Int]

\* The tables the foreign keys of a table name.
References ==
    [ t \in Tables |->
        CASE t \in {"branches", "clients", "services"} -> {}
          [] t \in {"resources", "holidays"} -> {"branches"}
          [] t = "appointments" -> {"resources", "services", "clients", "branches"}
          [] OTHER -> {"resources"} ]

\* PostgreSQL checks foreign keys, SQLite only on connections of configure().
Kinds == {"postgres", "sqlite", "sqlite_from_url"}

-------------------------------------------------------------------------------
(* What the classes accept and what is stored of them.                      *)

AcceptsInterval(row) == row.first < row.second

AcceptsDuration(row) == row.first > 0

AcceptsPolicy(row) == row.first >= 0 /\ row.second >= 0

\* What takes time.
Timed == {"services", "appointments"}

Accepts(t, row) ==
    /\ t \in Intervals => AcceptsInterval(row)
    /\ t \in Timed => AcceptsDuration(row)
    /\ t = "agenda_policies" => AcceptsPolicy(row)

InSeconds == Timed \cup {"agenda_policies"}

\* int(duration.total_seconds()) drops what is below a second.
ToRow(t, row) ==
    IF t \in InSeconds THEN [row EXCEPT !.first = @ \div 2] ELSE row

ToDomain(t, row) ==
    IF t \in InSeconds THEN [row EXCEPT !.first = 2 * @] ELSE row

Readable(t, row) == Accepts(t, ToDomain(t, row))

ASSUME CatalogAssumption ==
    /\ Engines \subseteq Kinds
    /\ \A t \in Numbered : Ids[t] \subseteq Nat \ {0}
    /\ Asked \in [Tables -> SUBSET Rows]
    /\ \A t \in Tables : \A row \in Asked[t] :
        /\ Accepts(t, row)
        /\ \A ref \in row.refs : ref[1] \in References[t]
    /\ None \notin Rows

VARIABLES
    engine,  \* the engine of this deployment
    store,   \* key |-> its row, or None
    issued,  \* numbered table |-> the last number its sequence gave out
    call,    \* caller |-> the local variables of its call, or None
    torn     \* the keys last written by an update that was overtaken

vars == <<engine, store, issued, call, torn>>

Calls ==
    [ verb : {"update", "delete", "set_policy"}, key : Keys,
      row : Rows, loaded : Rows \cup {None} ]

ASSUME NoCallAssumption == None \notin Calls

Init ==
    /\ engine \in Engines
    /\ store = [k \in Keys |-> None]
    /\ issued = [t \in Numbered |-> 0]
    /\ call = [c \in Callers |-> None]
    /\ torn = {}

Stored == { k \in Keys : store[k] # None }

\* Variant to check the properties against, not the code: foreign keys are
\* declared and nobody switches them on.
Enforced_Nowhere == engine = "postgres"

Enforced == engine # "sqlite_from_url"

\* The foreign keys of a row are satisfied, or nobody looks.
RefsHold(row) == Enforced => row.refs \subseteq Stored

Referenced(k) == \E other \in Stored : k \in store[other].refs

-------------------------------------------------------------------------------
(* add_*                                                                    *)

Idle(c) == call[c] = None

AddNamed(c, t) ==
    \E id \in Ids[t], row \in Asked[t] :
        /\ Idle(c)
        /\ store[<<t, id>>] = None
        /\ RefsHold(row)
        /\ store' = [store EXCEPT ![<<t, id>>] = ToRow(t, row)]
        /\ UNCHANGED <<engine, issued, call, torn>>

Greatest(t) == LET ids == { id \in Ids[t] : store[<<t, id>>] # None }
               IN  IF ids = {} THEN 0 ELSE Max(ids)

\* Variant to check the properties against, not the code: every database
\* numbers a row one above the greatest number in use.
NewId_Greatest(t) == Greatest(t) + 1

\* PostgreSQL draws the number of a row from a sequence; SQLite adds one to
\* the greatest rowid in use.
NewId(t) == IF engine = "postgres" THEN issued[t] + 1 ELSE Greatest(t) + 1

\* A sequence does not take a number back when the insert fails.
AddNumbered(c, t) ==
    LET id == NewId(t)
    IN  \E row \in Asked[t] :
            /\ Idle(c)
            /\ id \in Ids[t]
            /\ issued' = [issued EXCEPT ![t] = IF engine = "postgres" THEN id ELSE 0]
            /\ IF RefsHold(row)
               THEN store' = [store EXCEPT ![<<t, id>>] = ToRow(t, row)]
               ELSE UNCHANGED store
            /\ UNCHANGED <<engine, call, torn>>

-------------------------------------------------------------------------------
(* update_*, delete_* and set_policy.                                       *)

Get(c, verb, k, row) ==
    /\ Idle(c)
    /\ call' = [call EXCEPT ![c] =
                  [verb |-> verb, key |-> k, row |-> row, loaded |-> store[k]]]
    /\ UNCHANGED <<engine, store, issued, torn>>

\* Variant to check the properties against, not the code: nobody asks whether
\* the row was found.
Update_Unasked(c, t) ==
    \E id \in Ids[t], row \in Asked[t] : Get(c, "update", <<t, id>>, ToRow(t, row))

\* session.get() finds the row; otherwise KeyError.
Update(c, t) ==
    \E id \in Ids[t], row \in Asked[t] :
        /\ store[<<t, id>>] # None
        /\ Get(c, "update", <<t, id>>, ToRow(t, row))

Delete(c, t) ==
    \E id \in Ids[t] :
        /\ store[<<t, id>>] # None
        /\ Get(c, "delete", <<t, id>>, store[<<t, id>>])

\* The policy of a resource is keyed by the resource it references.
SetPolicy(c) ==
    \E id \in Ids["agenda_policies"], row \in Asked["agenda_policies"] :
        /\ row.refs = {<<"resources", id>>}
        /\ Get(c, "set_policy", <<"agenda_policies", id>>, ToRow("agenda_policies", row))

Return(c) == call' = [call EXCEPT ![c] = None]

\* A flush that raises: the row is there although it was not, or is gone, or a
\* foreign key objects.
Refused(c) == Return(c) /\ UNCHANGED <<engine, store, issued, torn>>

\* set_policy() found nothing.
FlushInsert(c) ==
    LET k == call[c].key
    IN  /\ ~Idle(c)
        /\ call[c].loaded = None
        /\ IF store[k] = None /\ RefsHold(call[c].row)
           THEN /\ store' = [store EXCEPT ![k] = call[c].row]
                /\ Return(c)
                /\ UNCHANGED <<engine, issued, torn>>
           ELSE Refused(c)

\* The columns that SQLAlchemy writes: those that differ from what it loaded.
Changed(c) ==
    { f \in {"refs", "first", "second"} : call[c].row[f] # call[c].loaded[f] }

\* Variant to check the properties against, not the code: an update forgets the
\* second column.
Merged_FirstOnly(c) ==
    LET now == store[call[c].key]
        row == call[c].row
    IN  [ refs |-> row.refs, first |-> row.first, second |-> now.second ]

Merged(c) ==
    LET now == store[call[c].key]
        row == call[c].row
    IN  [ refs   |-> IF "refs"   \in Changed(c) THEN row.refs   ELSE now.refs,
          first  |-> IF "first"  \in Changed(c) THEN row.first  ELSE now.first,
          second |-> IF "second" \in Changed(c) THEN row.second ELSE now.second ]

\* An UPDATE of a row that is gone raises, one of no column is never sent.
FlushUpdate(c) ==
    LET k == call[c].key
    IN  /\ ~Idle(c)
        /\ call[c].verb # "delete"
        /\ call[c].loaded # None
        /\ IF Changed(c) # {} /\ store[k] # None /\ RefsHold(Merged(c))
           THEN /\ store' = [store EXCEPT ![k] = Merged(c)]
                /\ torn' = IF call[c].loaded = store[k] THEN torn \ {k} ELSE torn \cup {k}
                /\ Return(c)
                /\ UNCHANGED <<engine, issued>>
           ELSE Refused(c)

\* A DELETE of a row that is gone deletes nothing and is only warned about.
FlushDelete(c) ==
    LET k == call[c].key
    IN  /\ ~Idle(c)
        /\ call[c].verb = "delete"
        /\ IF Enforced /\ Referenced(k)
           THEN Refused(c)
           ELSE /\ store' = [store EXCEPT ![k] = None]
                /\ torn' = torn \ {k}
                /\ Return(c)
                /\ UNCHANGED <<engine, issued>>

\* The process dies and its transaction is rolled back.
Crash(c) == ~Idle(c) /\ Refused(c)

\* SqlAlchemyCatalogRepository.
CatalogCall(c) ==
    \/ \E t \in Masters : AddNamed(c, t) \/ Update(c, t) \/ Delete(c, t)
    \/ AddNumbered(c, "holidays")

\* SqlAlchemyAvailabilityRepository.
CalendarCall(c) ==
    \/ \E t \in Intervals : AddNumbered(c, t) \/ Update(c, t) \/ Delete(c, t)
    \/ SetPolicy(c)
    \/ Delete(c, "agenda_policies")

\* The scheduler stores an appointment.
Book(c) == AddNamed(c, "appointments")

Next ==
    \E c \in Callers :
        \/ CatalogCall(c) \/ CalendarCall(c) \/ Book(c)
        \/ FlushInsert(c) \/ FlushUpdate(c) \/ FlushDelete(c)
        \/ Crash(c)

Spec == Init /\ [][Next]_vars

===============================================================================
