--------------------------- MODULE CatalogProperties --------------------------
(***************************************************************************)
(* What the tables keep true whoever writes them.                          *)
(***************************************************************************)
EXTENDS Catalog

\* Every variable holds values of its type and a call has loaded a row, unless
\* it sets a policy that was not there (availability_repository.py:96-98).
TypeOK ==
    /\ engine \in Engines
    /\ store \in [Keys -> Rows \cup {None}]
    /\ issued \in [Numbered -> Nat]
    /\ call \in [Callers -> Calls \cup {None}]
    /\ \A c \in Callers : call[c] # None /\ call[c].loaded = None =>
                              call[c].verb = "set_policy"
    /\ torn \subseteq Keys

\* Where foreign keys are enforced no row names one that is gone: whatever is
\* deleted, moved to another branch or booked meanwhile, no window, policy,
\* block or appointment is left without its resource (database.py:17-27,
\* sqlalchemy_repository.py:95-196).
NoOrphans ==
    engine # "sqlite_from_url" =>
        \A k \in Stored : store[k].refs \subseteq Stored

\* The rows that were stored as a whole by one call.
Whole(k) == \E row \in Asked[k[1]] : store[k] = ToRow(k[1], row)

\* A row its class would refuse, so that list_*() raises for everybody, is
\* either one whose duration was below a second or one that two updates wrote
\* at once, each the columns it changed; an update that nobody overtakes makes
\* it whole again (availability_repository.py:38-48, catalog_repository.py:157,
\* sqlalchemy_repository.py:405).
UnreadableOnlyIfTorn ==
    \A k \in Stored :
        ~Readable(k[1], store[k]) => \/ k \in torn
                                     \/ k[1] \in Timed /\ store[k].first = 0

\* What one step may do with the numbers.
NumberStep ==
    engine = "postgres" =>
        \A k \in Keys :
            k[1] \in Numbered /\ k[2] <= issued[k[1]] /\ store[k] = None
            => store'[k] = None

\* Between two transactions a caller keeps the number of a window, a block or an
\* exception.  In PostgreSQL a number never comes to name another row, however
\* many rows come and go (availability_repository.py:26-31).
NumbersNameOneRow == [][NumberStep]_vars

===============================================================================
