# libragenda in TLA+

TLA+ modules, model-checking configurations and machine-checked proofs for
`libragenda`, a Python library for appointment agendas: an application service
that books, moves and closes appointments over an in-memory, SQLite or
PostgreSQL repository, with deposits, reminders and recurring series beside it.
The modules model the code under `src/libragenda/`; file and line references
below and in the modules are relative to the repository.

How to run (from this directory):

    tlc -workers 2 -config room_postgres.cfg MCScheduler
    tlapm SchedulerProofs.tla

## 1. Inventory

| component | code | state | operations |
|---|---|---|---|
| scheduling rules | `scheduling.py`, `domain.py` | none (pure) | conflicts, opening hours, exceptions, holidays, blocks, branches, policies |
| scheduler | `application.py` | none of its own; copies of the calendar and the policies | `create`, `reschedule`, `confirm`, `start`, `cancel`, `complete`, `cancel_series`, `history` |
| appointment repositories | `repositories.py`, `sqlalchemy_repository.py` | the appointments, the transition log | `reserve`, `relocate`, `save`, `get`, `list`, `record` |
| deposits | `deposit_manager.py`, `deposit_repository.py`, `payments.py` | one deposit per appointment | `request`, `mark_paid`, `mark_failed`, `request_refund` |
| reminders | `reminder_dispatcher.py`, `reminder_repository.py`, `notifications.py` | the reminders recorded as sent | `dispatch`, `list_sent` |
| recurrence | `recurrence.py` | none (pure) | `generate_occurrences` |
| time zones | `timezones.py` | none | conversions by the tz database |
| catalog, availability | `catalog_repository.py`, `availability_repository.py` | branches, services, resources, clients; windows, exceptions, blocks, holidays, policies | `add_*`, `update_*`, `delete_*`, `set_policy`, `list_*` |
| database configuration | `database.py` | the engine of the process | `configure`, `get_engine`, `reset` |
| migrations | `migrar.py`, `migrations/` | the schema and its mark in `alembic_version` | `upgrade`, `stamp`, `current`, `heads`; `create_all()` beside them |
| example, package surface | `examples/gestiolibra/app.py`, `__init__.py` | none | calls of the above |

**How they interact.** The scheduler hands `reserve()` and `relocate()` a
closure, `_validate_slot`, that they run under their lock over the appointments
they have just listed; everything else it does through `get`, `list`, `save`
and `record` runs in transactions of their own and takes no lock. The deposit
manager and the reminder dispatcher each share a ledger with other processes
and call a port of the embedding application (payments, notifications)
before or after they write. The dispatcher also reads the appointments that the
scheduler changes. The scheduler is constructed with lists of windows,
exceptions, blocks, holidays and policies, which the application reads from the
catalog and availability repositories; their tables, the appointments and
the resources are tied together by foreign keys. The migrations make the
tables that all the repositories need, and run in processes of their own while
others start. Nothing in the library starts threads or timers: the
processes are those of its users (web workers, webhooks, scheduled jobs).

**What is hard.**

- *Interleaving.* `create` and `reschedule` are atomic from lock to commit,
  but `reschedule` reads its appointment before the lock, and the status changes
  read and write without any. SQLAlchemy writes only the columns that differ
  from what the session loaded, so what a stale write destroys depends on both.
- *Locks.* PostgreSQL locks the rows of all the occupied resources in no stated
  order (deadlock), SQLite locks the file and may give up, in memory there is
  one `RLock`.
- *Crashes.* A row and its history entry are two transactions; so are a
  deposit and the request to the provider, and a reminder and its record.
- *Many transactions.* An update loads a row in one statement and writes it in
  another; a migration is one transaction on PostgreSQL and many on SQLite.
- *Boundaries.* Touching intervals, gaps, caps, local days against UTC days,
  rules that start or end in mid-week.

**What makes each component correct.**

- *Scheduler*: no two active appointments of a resource overlap or come
  closer than the breathing room unless one is an authorised overbooking; no
  more overbookings per day than the policy accepts; closed appointments stay
  closed; the history tells the life of the appointment; every call returns;
  the table changes only as an atomic agenda would.
- *Deposits*: at most one per appointment, at most one charge per deposit,
  refunds only of what was paid, the stored status follows the table of
  transitions.
- *Reminders*: nothing recorded that was not delivered, nothing delivered twice
  unless a failure left the first delivery unrecorded or two workers had it
  due at once, everything that stays due delivered in
  the end, reports that do not change afterwards.
- *Recurrence*: exactly the dates the rule names, in order, and an end.
- *Catalog and availability*: no row without the rows it names, no row that its
  own class refuses to read, a number that keeps naming the same row.
- *Opening hours*: the answer agrees with the calendar at every instant of the
  appointment, and changes only with what was written about it.
- *Migrations*: the schema is the one the mark tells, at the database that the
  caller means, whoever else migrates or dies; on PostgreSQL a database moves by whole
  revisions or not at all, and a failure is never in the way of the next attempt.

The hazards of the code, each at its line with the properties that would catch
it, are in `PROJECT.json`.

## 2. Modules

| module | role |
|---|---|
| `Scheduling` | pure rules of `scheduling.py` and of the value objects |
| `AgendaRules` | configuration, inputs and the decision `_validate_slot` takes |
| `Agenda` | abstract specification: one table that changes atomically |
| `Scheduler` | the service over a repository, step by step, with callers, locks and faults |
| `SchedulerProperties` | its properties, fairness and the refinement of `Agenda` |
| `SchedulerInvariant` | its inductive invariants |
| `SchedulerProofs` | theorems: mutual exclusion, no double booking |
| `AgendaProofs` | theorems: the refinement of `Agenda`, what follows from it, and what the history tells |
| `Deposits`, `DepositProperties`, `DepositProofs` | the deposit manager, its properties and theorems |
| `Reminders`, `ReminderProperties`, `ReminderProofs` | the dispatcher, its properties and theorems |
| `Recurrence`, `RecurrenceProofs` | the expansion of a rule, its properties and theorems |
| `Catalog`, `CatalogProperties`, `CatalogProofs` | the tables of the catalog and the availabilities, with their foreign keys, properties and theorems |
| `OpeningHours`, `OpeningHoursProperties`, `OpeningHoursProofs` | a calendar in the database that changes, the question `is_appointment_available` answers of it, properties and theorems |
| `Revisions` | the nine migrations, statement by statement |
| `Migrations`, `MigrationProperties`, `MigrationProofs` | processes that run a chain of migrations, their properties and theorems |
| `MC*` | instances for TLC |

`Agenda` and `Scheduler` both extend `AgendaRules`, which extends `Scheduling`:
the abstract and the detailed specification share the rules and differ in when
they are applied. `OpeningHours` extends `Scheduling` too and asks it of what
the availability repository lists. `Migrations` takes its chain as a constant;
`MCMigrations` gives it the one of `Revisions`. Operators called `X_Something` next to an operator `X` are
deliberately wrong variants of it. They are used by no specification; each
one shows that some property would notice that bug.

### Scheduler

A caller `p` has a program counter and the local variables of its call
(`call[p]`): the appointment it is about to write, the status it read, the
row its session loaded, the occurrences left. The steps are the points at
which another process can get in between:

    create       [lock ... load  validate  commit]  [record]
    reschedule   get [lock ... load  validate  commit]  [record]
    confirm, start, cancel, complete
                 get  [fetch  flush]  [record]
    cancel_series  list  ( get  [fetch  flush]  [record] )*

- `Create`, `Reschedule`, `Transition`, `CancelSeries` begin a call: its reads
  and its checks before the first lock. A call refused there changes nothing
  and is no step.
- `Acquire` takes one lock at a time, in any order: the rows of the occupied
  resources in PostgreSQL, the writer lock of the file in SQLite, the
  `RLock` in memory.
- `Load`, `Validate`, `Commit` are the body of `reserve()` and `relocate()`:
  the test of the id, `_validate_slot` over the listed appointments, and the
  write, in which an INSERT of a duplicate id fails and an UPDATE writes only the
  columns that changed (`Merged`, `Written`). `Persisted` is the
  conversion of `UtcDateTime`: the instant is kept, the offset becomes UTC.
- `Fetch`, `Flush` are `save()`; `Record` is `record()`; `NextOccurrence` is
  one turn of the loop of `cancel_series()`.
- `DeadlockAbort` (PostgreSQL aborts a member of a circle of waiters),
  `BusyTimeout` ("database is locked") and `Crash` are the environment.

Instants are integers and an aware datetime is an instant with an offset,
because Python compares instants and `.date()`, `.time()` and `.weekday()` use
the offset. Service, client, reasons and actors are left out: no rule reads
them.

### Deposits

`Request`, `MarkPaid`, `MarkFailed`, `RequestRefund` begin a call (read and
check of the table); `Insert` is the INSERT with its unique index, which in
memory is a look and then an assignment (`Assign`); `Charge` and `Refund` are
calls of the port, counted in `provider`; `Fetch`, `Flush` are `save()`. A port that
raises may or may not have passed the request on. Callers may crash anywhere.

### Reminders

`Dispatch` fixes the instant and lists the agenda, `FindDue` reads the ledger
and computes `due_reminders`, then each reminder is sent (`Send`) and recorded
(`Mark`). `Tick` is the clock, `Change` what the scheduler does to the
appointments meanwhile; `SendFails`, `MarkFails` and `Crash` are the failures.
Deliveries are counted as none, one or more. `excused` is no state of the code:
it collects the reminders for which a second delivery is explained, by a
failure after the send or by two workers that had them due at once.

### Recurrence

One turn of either loop of `generate_occurrences` is a step. Dates are day
numbers, day 0 a Monday. The reference definition `Named` says which dates a
rule names without walking through them; `Frontier` is the date below which the
loops have dealt with everything.

### Catalog

One store maps keys `<<table, id>>` to rows; a row is the rows its foreign keys
name and two columns, the ones its class has something to say about
(`AcceptsInterval`, `AcceptsDuration`, `AcceptsPolicy`). `AddNamed` and
`AddNumbered` are the `add_*` calls of tables whose keys the caller chooses or
the database numbers. `update_*`, `delete_*` and `set_policy` are two steps
of one transaction: `Get`, the SELECT of `session.get()`, and `FlushInsert`,
`FlushUpdate` or `FlushDelete`, which write only the columns that differ from
what was loaded. `Book` is the scheduler's insert. `ToRow` and `ToDomain` are the
conversion of durations to whole seconds and back. `engine` tells PostgreSQL,
SQLite through `configure()`, which switches foreign keys on, and SQLite through
`from_url()`, which does not. `torn` collects the rows two updates wrote at once.

### OpeningHours

`rows` is the table of exceptions in the order in which the database gives its
rows; `AddException` and `UpdateException` put a row where the engine may put it.
`Answer` hands what is listed to `IsAppointmentAvailable` of `Scheduling`,
the same operator the scheduler's verdict uses. The properties compare
it with `OpenAt` and `FreeAt`, which say what the calendar is at one instant.

### Revisions and Migrations

A revision is two sequences of statements that add or drop objects: tables,
columns, keys, indexes. `Upgrade` and `Downgrade` begin a migration. Where it goes is
`GetUrl`: the option that `configuracion()` sets, `DATABASE_URL`, or the URL of
`alembic.ini` (`IniUrl`), which only `alembic -c alembic.ini` reaches (`Targets`);
`meant` keeps where the caller will look for the result (`Meant`) and no step reads it. `Execute` is one statement, `Mark` the update
of `alembic_version` that closes a revision, `Finish` the commit and the return.
`Fail`, `GiveUp` and `Crash` end one early. `Stamp` and `CreateAll` change
the mark and the tables by other means, and only while no migration is half
way. A job keeps what its transaction has added and dropped and not committed:
everything on PostgreSQL (`migrations/env.py:53-55`), on SQLite only from a batch block
to the mark. `strayed` collects databases whose schema and mark were set apart
by `stamp()`, `create_all()` or, on SQLite, by an upgrade and a downgrade that
crossed; `interrupted` those where a revision stopped between two commits on SQLite.
`copies` are the tables of which a batch block left an empty copy there: its CREATE
TABLE commits by itself before the rows are copied, and the next batch block about
the same table finds the name taken (`CopyInTheWay`).

## 3. Runs

| run | instance | what it shows |
|---|---|---|
| `desk_memory` | one agenda with a gap and a cap, 3 appointments booked at the opening and moved from there, 2 callers, in memory, one caller per appointment at a time | types, no unsanctioned overlap, cap, history, closed is final, with every single-appointment verb |
| `room_postgres` | two professionals and a room, a duplicated id, 2 callers that book and move at will, row locks | mutual exclusion, no unsanctioned overlap, the inductive invariant, refinement of `Agenda`, and that every call returns although locks are taken in any order |
| `series_sqlite` | a series of two and a competitor, 2 callers, crash and busy at every step | refinement of `Agenda`, and that the history only ever lags |
| `deposits_shared` | 2 handlers on the same deposits, database, crashes, failing port | one deposit per appointment, one charge, refunds were asked for, the inductive invariant |
| `deposits_memory` | 2 threads that never share a deposit, in memory, failing port | transitions respected, refunds follow payments, the inductive invariant of serialised callers |
| `reminders_shared` | 2 workers, one appointment with two policies that moves and ends, crashes, failing port and ledger | recorded was delivered, twice only for a reason, reports stay, and what stays due is delivered |
| `recurrence` | every rule out of 7 weekday sets, 4 starts, 3 intervals, 6 ends, 5 counts | the inductive invariant, the right dates, none missing, refused only when too long, ends |
| `catalog_shared` | 2 callers on a branch, a resource, a service, two windows, a policy, a holiday and an appointment, three engines | no orphans, no unreadable row without a known cause, numbers keep naming their row on PostgreSQL |
| `opening_hours` | up to 3 exceptions of 4 shapes, a block and a holiday, two windows that touch, 34 appointments asked for, one of a resource without a branch, two engines | the inductive invariant, the answer is the calendar's, the greatest number decides on SQLite, and only what concerns an appointment changes its answer |
| `migrations` | 2 processes, 2 databases (one made by `create_all()`, one empty or at revision 8), named by argument, `DATABASE_URL` or `alembic.ini`, the repository's own chain, 3 calls, crashes, stamps | schema and mark agree, failures have a reason, a call that returns has migrated the database its caller means, on PostgreSQL any database moves by whole revisions or not at all |
| `stale_save_postgres` | the room, book, move and confirm at will | **violated**: a status change writes back a stale slot |
| `west_cap` | one desk four instants west of UTC | **violated**: the cap compares a local day with UTC days |

**Bounds.** `MaxLog` bounds the changes per appointment (a booking and a
move or confirmation with 2, a third change with 3): `Room` keeps a call
from beginning once the history is full. `MaxRefunds` bounds the refunds asked for,
`LastInstant` the clock, `CycleLimit` is 3 instead of 100 000. Two callers suffice for the
hazards listed, which all are one caller overtaken by another; three
appointments suffice for one overtaken twice and for a cap of one to be
exceeded. Day, gap and duration (8, 1, 2 instants) are chosen so that
one start touches, one keeps exactly the gap and one is too close. The key sets of
`catalog_shared` have one row per table and two windows: a row that is deleted,
one that still references it and one whose number could be given again.
`MaxExceptions = 3` lets an exception that decides have one
before and one after it. `MaxCalls` bounds the calls of a `migrations` run:
3 are two that overlap and one that follows or disturbs them; the goals are the
empty schema, the newest revision and the one before it, and the transactions
between them run all nine revisions. Two
databases suffice for the three sources of a URL, since what counts is which of two
that disagree wins: the argument names either, `DATABASE_URL` the first or nothing,
`alembic.ini` the second. Symmetry is
used over callers, processes and interchangeable appointments, in runs without
liveness only.

**`Serialised`.** Several guarantees only hold if nobody changes one appointment
(or deposit) from two places at once; the violated runs show what happens
otherwise. `Serialised = TRUE` states that assumption: a call begins only
when no other is engaged with the same one. It says nothing of
different appointments, which still compete for slots.

**Fairness.** *Scheduler*: a call that has begun goes on (weak fairness of its
own steps), since the code waits for nothing but locks; and where a
lock is released again and again a waiter gets it in the end (strong fairness
of `Acquire`), which PostgreSQL's queue and the `RLock` justify and SQLite's
polling does not. `Returns` is checked in `room_postgres`. *Reminders*: the vertical
keeps calling `dispatch()`, and a worker, port and ledger tried over and over
work in the end (strong fairness of `FindDue`, `Send`, `Mark`): an assumption
about the environment, without which no code could deliver anything. *Recurrence*: the
loop runs (weak fairness of `Next`). Deadlock is checked everywhere but in
`recurrence`, which is finished when it is finished, and `migrations`, which
has nothing left to do once `MaxCalls` calls have returned. *Catalog, opening hours
and migrations* have safety properties only: every call of theirs ends by itself
or by the timeout of a lock.

## 4. Divergences

Between code and what its documents, comments or tests say, each backed by a
run that is expected to fail:

- `confirm()`, `cancel()` and the others save the whole appointment as they
  read it, so a concurrent move is undone over a slot that was booked since
  (`application.py:246`, against `DECISIONS.md:299`). Run `stale_save_postgres`.
- The overbooking cap compares the candidate's local day with the UTC day of
  the stored ones (`application.py:308-313`). Run `west_cap`.

Further ones that follow from the same models and have no run of their own (where a
property is named, a run that adds it shows the divergence in seconds):

- `reschedule()` writes back the status it read before the lock and reopens an
  appointment cancelled meanwhile (`application.py:209`, against
  `tests/test_application.py:60`): the mirror image of `stale_save_postgres`, which the
  passing runs exclude by `Serialised` or by leaving the other verbs out.
  `ClosedIsFinal` fails in `stale_save_postgres.cfg` with "cancel" among the `Verbs`.
- Two webhooks that read a deposit as pending overwrite each other, and a failed
  deposit becomes paid (`deposit_manager.py:77`, against `MODULES.md:37-38`):
  `LifecycleRespected` fails in `deposits_shared.cfg`, also with `Faults = {}`.
- `request()` stores the deposit before it calls the port (`deposit_manager.py:44-47`,
  against `MODULES.md:38`, which has the port first): a port that raises leaves a
  pending deposit that nobody was asked to charge, and the second request for it is
  refused.
- The unique constraint on sent reminders prevents the second record, not the
  second delivery (`reminder_dispatcher.py:29`, against
  `reminder_repository.py:29-31`): in `reminders_shared` the invariant
  `\A pair \in Pairs : delivered[pair] <= 1` fails without any fault.
- An exception is only looked at when it contains the whole appointment
  (`scheduling.py:135-141`): one that closes part of it is ignored, although
  "a per-resource `AvailabilityException` always has the final say"
  (`scheduling.py:118`); and an appointment that crosses midnight is compared by
  the time of day of its end. `AnswersTheCalendar` leaves both out, by name.
- An appointment that begins in one window and ends in the next is refused although
  the calendar is open at each of its instants, since one window has to contain all
  of it (`scheduling.py:148-153`). `HandsOver` names that case in `AnswersTheCalendar`.
- `list_exceptions()` has no `ORDER BY` and the last matching exception decides
  (`availability_repository.py:227`, `scheduling.py:143`): on PostgreSQL an update
  may change which of two exceptions that overlap wins.
- SQLite gives the number of a deleted window, block or exception to the next
  one, so a caller that kept the number updates or deletes another row:
  `NumbersNameOneRow` is about PostgreSQL and fails for SQLite.
- Two updates of one row write the columns each of them changed: a window may
  end before it begins, and every `list_availabilities()` raises from then on
  (`availability_repository.py:38-48`).
- A duration below a second is stored as 0, which the value object refuses when
  the row is read (`sqlalchemy_repository.py:405`, `catalog_repository.py:157`).
- `set_policy()` is an upsert of one caller: of two that find no policy the
  second gets an `IntegrityError` (`availability_repository.py:90-104`).
- A database made by `create_all()` has every table and no mark: `upgrade()` fails on
  it for ever, until somebody calls `stamp()`, which does not look at the schema
  (`sqlalchemy_repository.py:303-307`, `migrar.py:102-110`).
- A revision that stops half way on SQLite leaves tables, also the empty copy of a
  batch block, that its next attempt finds in the way, and an upgrade crossed by a
  downgrade may leave a mark that the schema does not bear out.
- Eleven indexes that the row classes declare are created by no revision, so a
  migrated database and one made by `create_all()` differ in them; objects
  that only `create_all()` makes are left out of the model.
- `cancel_series()` raises, with occurrences left, if one was closed after the
  series was listed (`NextOccurrence`; `application.py:180-187`).
- A crash between row and history leaves a status the history does not know
  (`application.py:246-247`): `HistoryTellsTheStatus` holds without crashes
  (`desk_memory`), `HistoryNeverAhead` with them (`series_sqlite`).
- The breathing room of a shared secondary resource is not kept: only the
  primary resource's policy is looked at (`application.py:293`). `Distance` in
  `SchedulerProperties` states what is kept.
- `request_refund()` stores `refunded` before the
  provider has confirmed (`deposit_manager.py:31-33`), and two of them at once ask the
  provider twice; the in-memory ledger's look before the assignment is not locked
  (`repositories.py:161`).
- A reminder may go out for an appointment that was cancelled or began during
  the call (`notifications.py:57-59`).

## 5. Proofs

Checked by TLAPS for every value of the constants that satisfies the named
assumptions (`DayLengthAssumption`, `BookingsAssumption`, `NoneAssumption`,
`PoliciesAssumption`, `SchedulerAssumption`, `NoCallAssumption`,
`DepositsAssumption`, `RemindersAssumption`, `CatalogAssumption`, `ChainAssumption`,
`OrderAssumption`, `MigrationAssumption`, `NoJobAssumption`, `CalendarAssumption`,
`RequestsAssumption`, `RecurrenceAssumption`): any sets of resources, appointments,
callers, any calendar and policies, any backend and faults. TLC evaluates the
assumptions in each run.

*Scheduler.* `Base` is inductive for any callers: types, rows under their own
ids, callers past the locks hold all of them (`LocksHeld`), and which calls
reach which step (`CallShape`). From it follow

- `TypeCorrectness`: `Spec => []TypeOK`;
- `MutualExclusion`: `Spec => []Exclusive`. Appointments that share a resource
  want a common lock.

`NoUnsanctionedOverlap` is not inductive: nothing in it says that a candidate
about to be committed fits the rows. `IInv` adds what each call knows:
a verdict still stands at the commit (`VerdictStands`), which needs the
locks, since a row that appears or changes meanwhile belongs to somebody with other
resources; a move still has the status of its row, and after `Load`
the whole row (`MoveIsFresh`); a status change still starts from the row it
read (`AdvanceIsFresh`). The last two need that others leave the
appointment alone: `Disciplined` says that callers are serialised per appointment
or only book and move. Without that assumption the property is false
(`stale_save_postgres`), so the theorems assume it and nothing else:

- `DisciplinedInvariant`: `ASSUME Disciplined PROVE Spec => []IInv`;
- `NoDoubleBooking`: `ASSUME Disciplined PROVE Spec => []NoUnsanctionedOverlap`.

There is one lemma per action for `Base` and one per conjunct an action can
disturb for `IInv`; the heart is that two appointments that do not conflict do
not clash, which uses that the gap is symmetric where both are booked in one agenda.

*The agenda.* A step of the scheduler is a step of `Agenda` only if the candidate
at its commit is admissible there and then, which `IInv` does not say of an
overbooking. `AgendaInv` adds to it that the candidate is what was asked for
(`AskedFor`), that its place was looked up (`PlaceStands`), that the cap still has
room for it (`CapStands`: a row that appears meanwhile is of another resource, and
a status change never adds to the count) and that a database keeps UTC
(`StoredInUtc`). For disciplined callers and finitely many appointment ids (the cap
is a cardinality), on every backend and with every fault:

- `AgendaInvariant`: `Spec => []AgendaInv`;
- `SchedulerImplementsAgenda`: `Spec => Implements`. Only `Commit` and `Flush`
  touch the rows (`CommitIsPromised`, `FlushIsPromised`); `SameRules` relates the
  instance's rules to the scheduler's;
- `ClosedStaysClosed`: `Spec => ClosedIsFinal`, from the refinement: no step of
  the agenda changes a closed appointment;
- `CapIsKept`: `Spec => []OverbookingCap` when datetimes are written in UTC
  (`Offsets \subseteq {0}`), also from the refinement. Without that assumption it
  is false (`west_cap`).

*The history.* Every step is quiet, writes a row or records an entry
(`StepsOfTheHistory`). `HistoryLags`: `Spec => []HistoryNeverAhead` for
disciplined callers and any fault; what is needed besides is that an entry that is
owed still names the status of its row (`DebtIsFresh`). `HistoryIsComplete`: `Spec =>
[]HistoryTellsTheStatus` for callers that are serialised and that nothing interrupts
(`Faults = {}`): the history ends at the status of the row, or at the one that whoever
owes an entry has replaced (`LogKeepsUp`, `FromIsFresh`). With a crash it
is false, and so it is when a move is recorded before the creation it follows.

*Deposits.* For a database ledger (`Backend = "sql"`), any handlers, crashes
and ports: `LedgerInvariant` (`IInv`: types, what a call past its insert or its
refund knows, and the three properties), and from it `UniqueDeposits`,
`NoDoubleCharge`, `RefundsWereAskedFor`. In memory the first two are false
without serialisation. For handlers that never work on one deposit at a time, on
either backend and with every fault: `SerialInvariant` (`SerialInv`: calls are about
different deposits and what each read of its own still stands), and from it
`RefundsOfPaidDeposits` and `Lifecycle`. Without that assumption the latter is
false (divergences).

*Reminders.* For any workers, appointments, policies, changes of the agenda and
faults: `ReminderInvariant`, and from it `LedgerFollowsPort`,
`SecondDeliveries` and, for a ledger in a database, `ReportsNeverChange`. That a
reminder outside `excused` was delivered at most once is not inductive. `IInv`
adds what stands between a delivery and the next one (`Once`): a reminder that
was delivered is recorded, or is the current one of a worker past its send, and
then no worker has it still to do. That holds because a call takes its reminders
out of the ledger as it is, and whatever another call had pending at that moment
is excused.

*Catalog.* For any tables' keys, any rows asked for and any callers:
`CatalogInvariant`, and from it `ReferentialIntegrity`, `ReadableRows` and
`NumbersStay`. `IInv` adds that outside `torn` each stored row is one that some
caller asked for as a whole, and that a call writes such a row: whole rows are
readable but for the loss of what is below a second.

*Opening hours.* For any windows, branches, requests and length of the day, and
exceptions, blocks and holidays that come, change and go: `CalendarInvariant`, and
from it `CalendarIsAnswered`, `LastAddedDecides` and `OnlyConcernsChangeAnswers`.
`IInv` says of the table of exceptions that no two rows share a number and that SQLite
gives them in the order of their numbers; `GreatestNumberDecides` needs the second,
which an update keeps because it leaves the row in its place. The answers are
compared with the calendar through the first and the last instant of an
appointment: what speaks about both and does not straddle contains all of it
(`ContainsAllInstants`); a window that covers the first instant and never hands over
covers the last (`OneWindowHolds`, by the least instant it does not cover). That other
rows are nothing to an answer is one lemma about the table (`SilentRow`: to insert or
remove a row that does not match leaves the last one that does).

*Recurrence.* For any rule and any limit: `RecurrenceInvariant`, and from it
`DatesInOrder`, `AllDatesFound` and `OnlyLongRulesRefused`. `FirstOnesInOrder` is not
inductive: it does not say that the weekdays left of a cycle are its last
ones, nor that those behind were not yet beyond the end. `IInv` adds both
(`CycleUnderWay`) and, for the refusal, that a cycle which is under way began with
occurrences still wanted. The arithmetic is in `DatesOfACycle`: from the Monday of a cycle to
the next one the rule names exactly the weekdays of the first week. Each step then
moves the frontier over dates that are not named (`NamedSame`) or over one that is
(`NamedOneMore`); that as many dates were found as there are occurrences
(`AsManyAsFound`) follows from their order.

*Migrations.* For any processes, databases and goals, and any chain of revisions
whose downgrades undo its upgrades (`ChainAssumption`) and whose statements find what
they need in their order (`OrderAssumption`); TLC evaluates both for the repository's
nine. `MigrationInvariant`, and from it `TypeCorrectness` and `SchemaOfTheMark` (on
PostgreSQL). `AllOrNothing` is not inductive: a
commit writes what the transaction held back over a schema that others may have
changed. `Sound` says that what it holds back leads from the revision where it began
to the one it has reached; `Holds`, that who has changed the mark holds its row, so
that nobody else has moved it since; `Undisturbed`, that a call that is alone still
finds the mark it read. There is one lemma for what a statement and one for what a
mark does to a transaction (`ExecuteSound`, `MarkSound`), which speak of a job
alone, and one for a step of one process among the others (`OwnStepKeeps`).

On SQLite no transaction keeps processes apart, and what does is that the first
statement of a revision fails where another process has run it already.
`TurnsAreTaken` proves that (`Stepwise`, inductive on top of `IInv`): outside
`strayed` and `interrupted`, at most one process at a database is between the
statements of a revision and the schema is what it has reached; who goes up is never
ahead of the mark, and who goes down has nobody beside it (`InTurn`, `InPlace`). From
it follow `SchemaBetweenRevisions` (`SchemaTellsTheVersion`) and, together with the transactions of PostgreSQL,
`ReturnedIsMigrated` and `AloneSucceeds` on both engines; the last also needs
`OrderAssumption`: a call that is alone is on its course, so every statement finds what
it needs. `ReturnedIsMigrated` speaks of the database the caller means: that it is the
one the call works at (`Aimed`) comes from the order in which `GetUrl` asks its three
sources (`CallBegins`).

These leave the databases out whose schema and mark were set apart. `MovesAreWhole`
(`Spec => OnlyWholeMoves`) does not: on PostgreSQL no migration of any database,
however it was found, succeeds in part, takes an object for its own that was there before,
or drops one that an older mark stands for. It is not inductive either. `Apart` says
that what a transaction is about to add is neither in the schema nor in that of the
mark it began at, and that no other transaction at the database is about to add it
(`ExecuteApart`: a statement that finds such an object fails, or waits); a commit then
adds exactly what lies between the two marks (`FinishWhole`).

*Only model-checked*: liveness (`Returns`, `Reminded`, `Ends`), which the prover
does not do under fairness. Every other property of the passing runs is a theorem.
The types of reminders and migrations are only proved, as part of their
invariants: no run lists them.
What the theorems do not say: `NoDoubleBooking` and the refinement assume
`Disciplined`, the cap is proved for datetimes written in UTC, the deposits' two sets
of theorems are for a database or for serialised handlers, and what alembic and the
databases do is taken from how the code uses them.

## 6. Not modelled

- `timezones.py`: the tz database. The scheduler sees instants with offsets.
- The rows of the secondary resources (`_sync_secondary_rows`) and the unchecked
  `add()`: no operation of the scheduler changes the first or calls the second.
- The process-wide engine of `database.py` and its `reset()`; which engine a
  repository runs on is a choice in `Init`.
- Of the migrations: the choice of a driver (`normalizar_url`), the exit codes and
  messages of the command line, `current` and `heads`, which only read, the creation of
  `alembic_version` itself, and the offline mode, which prints SQL. Alembic and the databases are
  external: `Execute`, `Waits`, `Mark` and `Works` model them as `env.py` uses them.
- A scheduler that works on copies of a calendar that is edited meanwhile: the
  constructor promises nothing about it. `Calendar` and `Policies` are constants in
  `Scheduler`; `OpeningHours` reads them anew for every answer.
- The example application, names, texts and amounts.

## 7. Plan

Done: the scheduler with its abstract specification, deposits, reminders,
recurrence, the catalog and the availabilities, the opening hours and the
migrations, with the theorems above. What is left, in this order:

1. Scheduler and reminders composed: what a moved appointment's client was told,
   which needs the told time in the ledger.
2. The rows of the secondary resources, for a consumer that edits them.
3. Proofs: the deposits' database theorems for the in-memory ledger of serialised
   handlers, as far as one invariant can serve both.
