----------------------------- MODULE CatalogProofs -----------------------------
(***************************************************************************)
(* The properties of the tables for any set of callers, tables' rows and   *)
(* keys.                                                                   *)
(***************************************************************************)
EXTENDS CatalogProperties, TLAPS

\* What is written in the database is what some caller asked for.
AskedFor(t, row) == \E asked \in Asked[t] : row = ToRow(t, asked)

\* What a call knows: it writes a row that was asked for, and sets policies only.
CallFits(c) ==
    call[c] # None =>
        /\ call[c].verb # "delete" => AskedFor(call[c].key[1], call[c].row)
        /\ call[c].verb = "set_policy" => call[c].key[1] = "agenda_policies"

\* The inductive invariant.  Whole rows are what makes rows readable, and calls
\* that fit are what keeps them whole.
IInv ==
    /\ TypeOK
    /\ NoOrphans
    /\ \A k \in Stored \ torn : AskedFor(k[1], store[k])
    /\ \A c \in Callers : CallFits(c)

LEMMA KeyParts ==
    /\ \A t \in Tables : \A id \in Ids[t] : <<t, id>> \in Keys
    /\ \A k \in Keys : k[1] \in Tables /\ k[2] \in Ids[k[1]] /\ k = <<k[1], k[2]>>
  BY DEF Keys

LEMMA ToRowKeeps ==
    ASSUME NEW t, NEW row \in Rows
    PROVE  ToRow(t, row) \in Rows /\ ToRow(t, row).refs = row.refs
  BY DEF ToRow, Rows

\* A step that writes one row, or takes it away, and keeps the types.
LEMMA WriteKeeps ==
    ASSUME IInv, TypeOK', engine' = engine, NEW k \in Keys, NEW value \in Rows \cup {None},
           store' = [store EXCEPT ![k] = value],
           \A c \in Callers : call'[c] = call[c] \/ CallFits(c)',
           torn \ {k} \subseteq torn',
           k \in torn' \/ value = None \/ AskedFor(k[1], value),
           engine # "sqlite_from_url" =>
              IF value = None THEN ~Referenced(k) ELSE value.refs \subseteq Stored
    PROVE  IInv'
  <1>1. store'[k] = value /\ \A other \in Keys \ {k} : store'[other] = store[other]
    BY DEF IInv, TypeOK
  <1>2. Stored' = IF value = None THEN Stored \ {k} ELSE Stored \cup {k}
    BY <1>1 DEF Stored
  <1>3. NoOrphans'
    <2> SUFFICES ASSUME engine # "sqlite_from_url", NEW other \in Stored'
                 PROVE  store'[other].refs \subseteq Stored'
      BY DEF NoOrphans
    <2>1. CASE other = k
      <3>1. value # None
        BY <1>2, <2>1
      <3> QED
        BY <1>1, <1>2, <2>1, <3>1
    <2>2. CASE other # k
      <3>1. other \in Stored /\ store'[other] = store[other]
        BY <1>1, <1>2, <2>2 DEF Stored
      <3>2. store[other].refs \subseteq Stored
        BY <3>1 DEF IInv, NoOrphans
      <3>3. value = None => k \notin store[other].refs
        BY <3>1 DEF Referenced
      <3> QED
        BY <1>2, <3>1, <3>2, <3>3
    <2> QED
      BY <2>1, <2>2
  <1>4. ASSUME NEW other \in Stored' \ torn' PROVE AskedFor(other[1], store'[other])
    <2>1. CASE other = k
      <3>1. value # None
        BY <1>2, <2>1
      <3> QED
        BY <1>1, <2>1, <3>1
    <2>2. CASE other # k
      BY <1>1, <1>2, <2>2 DEF IInv, Stored
    <2> QED
      BY <2>1, <2>2
  <1>5. ASSUME NEW c \in Callers PROVE CallFits(c)'
    BY DEF IInv, CallFits, AskedFor
  <1>6. (\A other \in Stored \ torn : AskedFor(other[1], store[other]))'
    BY <1>4 DEF AskedFor
  <1> QED
    BY <1>3, <1>5, <1>6 DEF IInv

\* A step that only begins or ends calls, or draws a number.
LEMMA RowsStay ==
    ASSUME IInv, TypeOK', engine' = engine, store' = store, torn' = torn,
           \A c \in Callers : call'[c] = call[c] \/ CallFits(c)'
    PROVE  IInv'
  <1>1. NoOrphans' /\ (\A k \in Stored \ torn : AskedFor(k[1], store[k]))'
    BY DEF IInv, NoOrphans, Stored, AskedFor
  <1>2. ASSUME NEW c \in Callers PROVE CallFits(c)'
    BY DEF IInv, CallFits, AskedFor
  <1> QED
    BY <1>1, <1>2 DEF IInv

LEMMA AddNamedKeeps ==
    ASSUME IInv, NEW c \in Callers, NEW t \in Tables, AddNamed(c, t)
    PROVE  IInv'
  <1>1. PICK id \in Ids[t], row \in Asked[t] :
            /\ store[<<t, id>>] = None /\ RefsHold(row)
            /\ store' = [store EXCEPT ![<<t, id>>] = ToRow(t, row)]
            /\ UNCHANGED <<engine, issued, call, torn>>
    BY DEF AddNamed
  <1> DEFINE k == <<t, id>>
             value == ToRow(t, row)
  <1>2. k \in Keys /\ k[1] = t
    BY KeyParts
  <1>3. row \in Rows
    BY CatalogAssumption
  <1>4. value \in Rows /\ value.refs = row.refs /\ value # None
    BY <1>3, ToRowKeeps, CatalogAssumption
  <1>5. TypeOK'
    BY <1>1, <1>2, <1>4 DEF IInv, TypeOK
  <1>6. AskedFor(k[1], value)
    BY <1>2 DEF AskedFor
  <1>7. engine # "sqlite_from_url" => value.refs \subseteq Stored
    BY <1>1, <1>4 DEF RefsHold, Enforced
  <1> HIDE DEF k, value
  <1> QED
    BY <1>1, <1>2, <1>4, <1>5, <1>6, <1>7, WriteKeeps DEF k, value

LEMMA AddNumberedKeeps ==
    ASSUME IInv, NEW c \in Callers, NEW t \in Numbered, AddNumbered(c, t)
    PROVE  IInv'
  <1> DEFINE id == NewId(t)
             k == <<t, id>>
  <1>1. PICK row \in Asked[t] :
            /\ id \in Ids[t]
            /\ issued' = [issued EXCEPT ![t] = IF engine = "postgres" THEN id ELSE 0]
            /\ IF RefsHold(row) THEN store' = [store EXCEPT ![k] = ToRow(t, row)]
                                ELSE UNCHANGED store
            /\ UNCHANGED <<engine, call, torn>>
    BY DEF AddNumbered
  <1> DEFINE value == ToRow(t, row)
  <1>2. t \in Tables /\ k \in Keys /\ k[1] = t
    BY <1>1, KeyParts DEF Tables
  <1>3. row \in Rows
    BY <1>2, CatalogAssumption
  <1>4. value \in Rows /\ value.refs = row.refs /\ value # None
    BY <1>3, ToRowKeeps, CatalogAssumption
  <1>5. issued' \in [Numbered -> Nat]
    <2>1. engine = "postgres" => id \in Nat
      BY DEF NewId, IInv, TypeOK
    <2> HIDE DEF id
    <2> QED
      BY <1>1, <2>1 DEF IInv, TypeOK
  <1> HIDE DEF id, value
  <1>6. TypeOK'
    <2>1. store' \in [Keys -> Rows \cup {None}]
      BY <1>1, <1>2, <1>4 DEF IInv, TypeOK, value
    <2> QED
      BY <1>1, <1>5, <2>1 DEF IInv, TypeOK
  <1>7. AskedFor(k[1], value)
    BY <1>2 DEF AskedFor, value
  <1>8. CASE RefsHold(row)
    <2>1. engine # "sqlite_from_url" => value.refs \subseteq Stored
      BY <1>4, <1>8 DEF RefsHold, Enforced
    <2>2. store' = [store EXCEPT ![k] = value]
      BY <1>1, <1>8 DEF value
    <2> HIDE DEF k
    <2> QED
      BY <1>1, <1>2, <1>4, <1>6, <1>7, <2>1, <2>2, WriteKeeps
  <1>9. CASE ~RefsHold(row)
    BY <1>1, <1>6, <1>9, RowsStay
  <1> QED
    BY <1>8, <1>9

LEMMA GetKeeps ==
    ASSUME IInv, NEW c \in Callers, NEW verb \in {"update", "delete", "set_policy"},
           NEW k \in Keys, NEW row \in Rows, Get(c, verb, k, row),
           verb # "delete" => AskedFor(k[1], row),
           verb # "set_policy" => store[k] # None,
           verb = "set_policy" => k[1] = "agenda_policies"
    PROVE  IInv'
  <1> DEFINE j == [verb |-> verb, key |-> k, row |-> row, loaded |-> store[k]]
  <1>1. call' = [call EXCEPT ![c] = j] /\ UNCHANGED <<engine, store, issued, torn>>
    BY DEF Get
  <1>2. j \in Calls
    BY DEF IInv, TypeOK, Calls
  <1>3. call'[c] = j /\ \A other \in Callers \ {c} : call'[other] = call[other]
    BY <1>1 DEF IInv, TypeOK
  <1>4. TypeOK'
    BY <1>1, <1>2, <1>3 DEF IInv, TypeOK
  <1>5. CallFits(c)'
    BY <1>3 DEF CallFits, AskedFor
  <1> QED
    BY <1>1, <1>3, <1>4, <1>5, RowsStay

LEMMA UpdateKeeps ==
    ASSUME IInv, NEW c \in Callers, NEW t \in Tables, Update(c, t)
    PROVE  IInv'
  <1>1. PICK id \in Ids[t], row \in Asked[t] :
            store[<<t, id>>] # None /\ Get(c, "update", <<t, id>>, ToRow(t, row))
    BY DEF Update
  <1>2. <<t, id>> \in Keys /\ row \in Rows
    BY KeyParts, CatalogAssumption
  <1>3. ToRow(t, row) \in Rows
    BY <1>2, ToRowKeeps
  <1>4. AskedFor(t, ToRow(t, row))
    BY DEF AskedFor
  <1> QED
    BY <1>1, <1>2, <1>3, <1>4, GetKeeps

LEMMA DeleteKeeps ==
    ASSUME IInv, NEW c \in Callers, NEW t \in Tables, Delete(c, t)
    PROVE  IInv'
  <1>1. PICK id \in Ids[t] :
            store[<<t, id>>] # None /\ Get(c, "delete", <<t, id>>, store[<<t, id>>])
    BY DEF Delete
  <1>2. <<t, id>> \in Keys
    BY KeyParts
  <1>3. store[<<t, id>>] \in Rows
    BY <1>1, <1>2 DEF IInv, TypeOK
  <1> QED
    BY <1>1, <1>2, <1>3, GetKeeps

LEMMA SetPolicyKeeps ==
    ASSUME IInv, NEW c \in Callers, SetPolicy(c)
    PROVE  IInv'
  <1> DEFINE t == "agenda_policies"
  <1>1. PICK id \in Ids[t], row \in Asked[t] : Get(c, "set_policy", <<t, id>>, ToRow(t, row))
    BY DEF SetPolicy
  <1>2. t \in Tables
    BY DEF Tables
  <1>3. <<t, id>> \in Keys /\ row \in Rows
    BY <1>2, KeyParts, CatalogAssumption
  <1>4. ToRow(t, row) \in Rows
    BY <1>3, ToRowKeeps
  <1>5. AskedFor(t, ToRow(t, row))
    BY DEF AskedFor
  <1> HIDE DEF t
  <1>6. <<t, id>>[1] = "agenda_policies"
    BY DEF t
  <1> QED
    BY <1>1, <1>3, <1>4, <1>5, <1>6, GetKeeps

-------------------------------------------------------------------------------

\* A call that ends without having written anything.
LEMMA RefusedKeeps ==
    ASSUME IInv, NEW c \in Callers, Refused(c)
    PROVE  IInv'
  <1>1. call' = [call EXCEPT ![c] = None] /\ UNCHANGED <<engine, store, issued, torn>>
    BY DEF Refused, Return
  <1>2. call'[c] = None /\ \A other \in Callers \ {c} : call'[other] = call[other]
    BY <1>1 DEF IInv, TypeOK
  <1>3. TypeOK'
    BY <1>1, <1>2 DEF IInv, TypeOK
  <1>4. CallFits(c)'
    BY <1>2 DEF CallFits
  <1> QED
    BY <1>1, <1>2, <1>3, <1>4, RowsStay

\* What a running call holds.
LEMMA CallTypes ==
    ASSUME IInv, NEW c \in Callers, ~Idle(c)
    PROVE  /\ call[c] \in Calls /\ call[c].key \in Keys /\ call[c].row \in Rows
           /\ call[c].loaded \in Rows \cup {None} /\ CallFits(c)
           /\ call[c].loaded = None => call[c].verb = "set_policy"
  BY DEF IInv, TypeOK, Idle, Calls

\* A call that writes, or takes away, the row of its key and ends.
LEMMA FlushKeeps ==
    ASSUME IInv, NEW c \in Callers, ~Idle(c), NEW value \in Rows \cup {None},
           store' = [store EXCEPT ![call[c].key] = value],
           Return(c), UNCHANGED <<engine, issued>>,
           torn' \subseteq torn \cup {call[c].key}, torn \ {call[c].key} \subseteq torn',
           call[c].key \in torn' \/ value = None \/ AskedFor(call[c].key[1], value),
           engine # "sqlite_from_url" =>
              IF value = None THEN ~Referenced(call[c].key) ELSE value.refs \subseteq Stored
    PROVE  IInv'
  <1> DEFINE k == call[c].key
  <1>1. k \in Keys
    BY CallTypes
  <1>2. call' = [call EXCEPT ![c] = None]
    BY DEF Return
  <1>3. call'[c] = None /\ \A other \in Callers \ {c} : call'[other] = call[other]
    BY <1>2 DEF IInv, TypeOK
  <1>4. CallFits(c)'
    BY <1>3 DEF CallFits
  <1> HIDE DEF k
  <1>5. TypeOK'
    <2>1. store' \in [Keys -> Rows \cup {None}] /\ torn' \subseteq Keys
      BY <1>1 DEF IInv, TypeOK, k
    <2> QED
      BY <1>2, <1>3, <2>1 DEF IInv, TypeOK
  <1> QED
    BY <1>1, <1>3, <1>4, <1>5, WriteKeeps DEF k

LEMMA FlushInsertKeeps ==
    ASSUME IInv, NEW c \in Callers, FlushInsert(c)
    PROVE  IInv'
  <1>1. CASE Refused(c)
    BY <1>1, RefusedKeeps
  <1>2. CASE ~Refused(c)
    <2>1. /\ ~Idle(c) /\ call[c].loaded = None /\ RefsHold(call[c].row)
          /\ store' = [store EXCEPT ![call[c].key] = call[c].row]
          /\ Return(c) /\ UNCHANGED <<engine, issued, torn>>
      BY <1>2 DEF FlushInsert
    <2>2. AskedFor(call[c].key[1], call[c].row) /\ call[c].row \in Rows
      BY <2>1, CallTypes DEF CallFits, Idle
    <2>3. call[c].row # None
      BY <2>2, CatalogAssumption
    <2>4. engine # "sqlite_from_url" => call[c].row.refs \subseteq Stored
      BY <2>1 DEF RefsHold, Enforced
    <2> QED
      BY <2>1, <2>2, <2>3, <2>4, FlushKeeps
  <1> QED
    BY <1>1, <1>2

\* An update that nobody has overtaken stores the row that was asked for.
LEMMA MergedRow ==
    ASSUME IInv, NEW c \in Callers, ~Idle(c), call[c].loaded # None,
           store[call[c].key] # None
    PROVE  /\ Merged(c) \in Rows
           /\ call[c].loaded = store[call[c].key] => Merged(c) = call[c].row
  <1> DEFINE now == store[call[c].key]
             row == call[c].row
  <1>1. now \in Rows /\ row \in Rows
    BY CallTypes DEF IInv, TypeOK
  <1>2. Merged(c) \in Rows
    BY <1>1 DEF Merged, Rows
  <1>3. ASSUME call[c].loaded = now PROVE Merged(c) = row
    <2>1. /\ Merged(c).refs = row.refs
          /\ Merged(c).first = row.first
          /\ Merged(c).second = row.second
      BY <1>3 DEF Merged, Changed
    <2> QED
      BY <1>1, <1>2, <2>1 DEF Rows
  <1> QED
    BY <1>2, <1>3

LEMMA FlushUpdateKeeps ==
    ASSUME IInv, NEW c \in Callers, FlushUpdate(c)
    PROVE  IInv'
  <1>1. CASE Refused(c)
    BY <1>1, RefusedKeeps
  <1>2. CASE ~Refused(c)
    <2> DEFINE k == call[c].key
    <2>1. /\ ~Idle(c) /\ call[c].verb # "delete" /\ call[c].loaded # None
          /\ store[k] # None /\ RefsHold(Merged(c))
          /\ store' = [store EXCEPT ![k] = Merged(c)]
          /\ torn' = IF call[c].loaded = store[k] THEN torn \ {k} ELSE torn \cup {k}
          /\ Return(c) /\ UNCHANGED <<engine, issued>>
      BY <1>2 DEF FlushUpdate
    <2>2. Merged(c) \in Rows /\ Merged(c) # None
      BY <2>1, MergedRow, CatalogAssumption
    <2>3. k \in torn' \/ AskedFor(k[1], Merged(c))
      <3>1. AskedFor(k[1], call[c].row)
        BY <2>1, CallTypes DEF CallFits, Idle
      <3> QED
        BY <2>1, <3>1, MergedRow
    <2>4. engine # "sqlite_from_url" => Merged(c).refs \subseteq Stored
      BY <2>1 DEF RefsHold, Enforced
    <2> QED
      BY <2>1, <2>2, <2>3, <2>4, FlushKeeps
  <1> QED
    BY <1>1, <1>2

LEMMA FlushDeleteKeeps ==
    ASSUME IInv, NEW c \in Callers, FlushDelete(c)
    PROVE  IInv'
  <1>1. CASE Refused(c)
    BY <1>1, RefusedKeeps
  <1>2. CASE ~Refused(c)
    <2>1. /\ ~Idle(c)
          /\ ~(Enforced /\ Referenced(call[c].key))
          /\ store' = [store EXCEPT ![call[c].key] = None]
          /\ torn' = torn \ {call[c].key}
          /\ Return(c) /\ UNCHANGED <<engine, issued>>
      BY <1>2 DEF FlushDelete
    <2> QED
      BY <2>1, FlushKeeps DEF Enforced
  <1> QED
    BY <1>1, <1>2

-------------------------------------------------------------------------------

LEMMA InitIInv == Init => IInv
  <1> SUFFICES ASSUME Init PROVE IInv
    OBVIOUS
  <1>1. TypeOK /\ Stored = {}
    BY DEF Init, TypeOK, Stored
  <1> QED
    BY <1>1 DEF Init, IInv, NoOrphans, CallFits

LEMMA StepKeeps ==
    ASSUME IInv, [Next]_vars
    PROVE  IInv'
  <1>1. CASE UNCHANGED vars
    BY <1>1, RowsStay DEF vars, IInv, TypeOK
  <1>2. ASSUME NEW c \in Callers, CatalogCall(c) PROVE IInv'
    <2>1. Masters \subseteq Tables /\ "holidays" \in Numbered
      BY DEF Tables, Numbered
    <2> QED
      BY <1>2, <2>1, AddNamedKeeps, UpdateKeeps, DeleteKeeps, AddNumberedKeeps DEF CatalogCall
  <1>3. ASSUME NEW c \in Callers, CalendarCall(c) PROVE IInv'
    <2>1. /\ Intervals \subseteq Numbered /\ Intervals \subseteq Tables
          /\ "agenda_policies" \in Tables
      BY DEF Tables, Numbered
    <2> QED
      BY <1>3, <2>1, AddNumberedKeeps, UpdateKeeps, DeleteKeeps, SetPolicyKeeps DEF CalendarCall
  <1>4. ASSUME NEW c \in Callers, Book(c) PROVE IInv'
    BY <1>4, AddNamedKeeps DEF Book, Tables
  <1>5. ASSUME NEW c \in Callers, FlushInsert(c) \/ FlushUpdate(c) \/ FlushDelete(c) PROVE IInv'
    BY <1>5, FlushInsertKeeps, FlushUpdateKeeps, FlushDeleteKeeps
  <1>6. ASSUME NEW c \in Callers, Crash(c) PROVE IInv'
    BY <1>6, RefusedKeeps DEF Crash
  <1> QED
    BY <1>1, <1>2, <1>3, <1>4, <1>5, <1>6 DEF Next

\* Rows, numbers and calls keep their types, rows what they refer to, and only
\* rows that two updates wrote at once are other than somebody asked for.
THEOREM CatalogInvariant == Spec => []IInv
  <1>1. Init => IInv
    BY InitIInv
  <1>2. IInv /\ [Next]_vars => IInv'
    BY StepKeeps
  <1> QED
    BY <1>1, <1>2, PTL DEF Spec

\* Every variable keeps its type, for any callers, keys and rows.
THEOREM TypeCorrectness == Spec => []TypeOK
  <1>1. IInv => TypeOK
    BY DEF IInv
  <1> QED
    BY <1>1, CatalogInvariant, PTL

\* Where foreign keys are enforced, no call and no crash leaves a row without
\* what it refers to (database.py:17-27).
THEOREM ReferentialIntegrity == Spec => []NoOrphans
  <1>1. IInv => NoOrphans
    BY DEF IInv
  <1> QED
    BY <1>1, CatalogInvariant, PTL

\* What was stored as a whole can be read again, unless it lasts less than a
\* second.
LEMMA AskedIsReadable ==
    ASSUME NEW t \in Tables, NEW row \in Rows, AskedFor(t, row),
           ~(t \in Timed /\ row.first = 0)
    PROVE  Readable(t, row)
  <1>1. PICK asked \in Asked[t] : row = ToRow(t, asked)
    BY DEF AskedFor
  <1>2. asked \in Rows /\ Accepts(t, asked)
    BY CatalogAssumption
  <1>3. CASE t \notin InSeconds
    BY <1>1, <1>2, <1>3 DEF ToRow, ToDomain, Readable
  <1>4. CASE t \in InSeconds
    <2> DEFINE half == asked.first \div 2
               read == ToDomain(t, row)
    <2>1. asked.first \in Int /\ asked.first >= 0
      BY <1>2, <1>4 DEF Rows, Accepts, AcceptsDuration, AcceptsPolicy, InSeconds
    <2>2. half \in Nat
      BY <2>1
    <2>3. row.first = half /\ row.second = asked.second
      BY <1>1, <1>2, <1>4 DEF ToRow, Rows
    <2>4. read.first = 2 * half /\ read.second = asked.second
      BY <1>4, <2>3 DEF ToDomain, Rows
    <2>5. t \notin Intervals
      BY <1>4 DEF InSeconds, Timed, Intervals
    <2>6. t \in Timed => AcceptsDuration(read)
      <3>1. t \in Timed => half # 0
        BY <2>3
      <3> HIDE DEF half, read
      <3> QED
        BY <2>2, <2>4, <3>1 DEF AcceptsDuration
    <2>7. t = "agenda_policies" => AcceptsPolicy(read)
      <3>1. t = "agenda_policies" => asked.second >= 0
        BY <1>2 DEF Accepts, AcceptsPolicy
      <3> HIDE DEF half, read
      <3> QED
        BY <2>2, <2>4, <3>1 DEF AcceptsPolicy
    <2> QED
      BY <2>5, <2>6, <2>7 DEF Readable, Accepts
  <1> QED
    BY <1>3, <1>4

\* list_*() raises only for a row that two updates wrote at once or that lasts
\* less than a second (availability_repository.py:38-48).
THEOREM ReadableRows == Spec => []UnreadableOnlyIfTorn
  <1>1. IInv => UnreadableOnlyIfTorn
    <2> SUFFICES ASSUME IInv, NEW k \in Stored, k \notin torn,
                        ~(k[1] \in Timed /\ store[k].first = 0)
                 PROVE  Readable(k[1], store[k])
      BY DEF UnreadableOnlyIfTorn
    <2>1. k[1] \in Tables /\ store[k] \in Rows
      BY KeyParts DEF Stored, IInv, TypeOK
    <2> QED
      BY <2>1, AskedIsReadable DEF IInv
  <1> QED
    BY <1>1, CatalogInvariant, PTL
-------------------------------------------------------------------------------

\* A number that was given out and names no row.
Unused(k) == k[1] \in Numbered /\ k[2] <= issued[k[1]] /\ store[k] = None

LEMMA UnusedStays ==
    ASSUME IInv, Next, engine = "postgres", NEW k \in Keys, Unused(k)
    PROVE  store'[k] = None
  <1> USE DEF Unused
  <1>1. ASSUME NEW c \in Callers, NEW t \in Masters \cup {"appointments"}, AddNamed(c, t)
        PROVE  store'[k] = None
    <2>1. t # k[1]
      BY DEF Masters, Numbered, Intervals
    <2>2. \A id \in Ids[t] : <<t, id>> # k
      BY <2>1
    <2> QED
      BY <1>1, <2>2 DEF AddNamed, IInv, TypeOK
  <1>2. ASSUME NEW c \in Callers, NEW t \in Numbered, AddNumbered(c, t)
        PROVE  store'[k] = None
    <2>1. <<t, NewId(t)>> # k
      <3>1. NewId(t) = issued[t] + 1 /\ issued[t] \in Nat
        BY DEF NewId, IInv, TypeOK
      <3> QED
        BY <3>1
    <2> QED
      BY <1>2, <2>1 DEF AddNumbered, IInv, TypeOK
  <1>3. ASSUME NEW c \in Callers, FlushInsert(c)
        PROVE  store'[k] = None
    <2>1. call[c].key[1] = "agenda_policies"
      BY <1>3, CallTypes DEF FlushInsert, CallFits, Idle
    <2>2. call[c].key # k
      BY <2>1 DEF Numbered, Intervals
    <2> QED
      BY <1>3, <2>2 DEF FlushInsert, Refused, IInv, TypeOK
  <1>4. ASSUME NEW c \in Callers, FlushUpdate(c) \/ FlushDelete(c)
        PROVE  store'[k] = None
    BY <1>4 DEF FlushUpdate, FlushDelete, Refused, IInv, TypeOK
  <1>5. ASSUME NEW c \in Callers, NEW t \in Tables, Update(c, t) \/ Delete(c, t)
        PROVE  store'[k] = None
    BY <1>5 DEF Update, Delete, Get
  <1>6. ASSUME NEW c \in Callers, SetPolicy(c) \/ Crash(c)
        PROVE  store'[k] = None
    BY <1>6 DEF SetPolicy, Get, Crash, Refused
  <1>7. /\ Masters \subseteq Tables /\ Intervals \subseteq Tables
        /\ Intervals \subseteq Numbered /\ "holidays" \in Numbered
        /\ "agenda_policies" \in Tables
    BY DEF Tables, Numbered
  <1>8. ASSUME NEW c \in Callers, CatalogCall(c) PROVE store'[k] = None
    BY <1>1, <1>2, <1>5, <1>7, <1>8 DEF CatalogCall
  <1>9. ASSUME NEW c \in Callers, CalendarCall(c) PROVE store'[k] = None
    BY <1>2, <1>5, <1>6, <1>7, <1>9 DEF CalendarCall
  <1>10. ASSUME NEW c \in Callers, Book(c) PROVE store'[k] = None
    BY <1>1, <1>10 DEF Book
  <1> QED
    BY <1>3, <1>4, <1>6, <1>8, <1>9, <1>10 DEF Next

\* In PostgreSQL a number that a caller may remember never names another row
\* (availability_repository.py:26-31).
THEOREM NumbersStay == Spec => NumbersNameOneRow
  <1>1. IInv /\ [Next]_vars => [NumberStep]_vars
    BY UnusedStays DEF NumberStep, Unused
  <1> QED
    BY <1>1, CatalogInvariant, PTL DEF Spec, NumbersNameOneRow

===============================================================================
