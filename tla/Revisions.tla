------------------------------- MODULE Revisions -------------------------------
(***************************************************************************)
(* The chain of migrations in libragenda/migrations/versions: what each    *)
(* upgrade() and each downgrade() does to the schema, statement by         *)
(* statement and in order.                                                 *)
(*                                                                         *)
(* A statement adds or drops objects.  An object is <<table, name>>, where *)
(* the name is "table" for the table with the columns it is created with,  *)
(* or that of a column, a foreign key or an index added to it.  What is    *)
(* done inside a batch_alter_table block is marked "batch": SQLite copies  *)
(* the table there, PostgreSQL alters it.                                  *)
(***************************************************************************)
EXTENDS Sequences

Statement(does, how, what) == [does |-> does, how |-> how, what |-> what]

CreateTable(t) == Statement("add", "ddl", {<<t, "table">>})

\* add_column and create_index.
AddTo(t, name) == Statement("add", "ddl", {<<t, name>>})

ForeignKey(t, name) == Statement("add", "batch", {<<t, name>>})

DropTable(t) == Statement("drop", "ddl", {<<t, "table">>})

DropFrom(t, name) == Statement("drop", "ddl", {<<t, name>>})

BatchDrop(t, names) == Statement("drop", "batch", {t} \X names)

Initial ==
    [ up   |-> << CreateTable("resources"), CreateTable("services"),
                  CreateTable("availability"), CreateTable("appointments") >>,
      down |-> << DropTable("appointments"), DropTable("availability"),
                  DropTable("services"), DropTable("resources") >> ]

Entities ==
    [ up   |-> << CreateTable("branches"), CreateTable("clients"),
                  CreateTable("time_blocks"), CreateTable("availability_exceptions"),
                  ForeignKey("resources", "fk_branch"),
                  ForeignKey("appointments", "fk_client") >>,
      down |-> << BatchDrop("appointments", {"fk_client"}),
                  BatchDrop("resources", {"fk_branch"}),
                  DropTable("availability_exceptions"), DropTable("time_blocks"),
                  DropTable("clients"), DropTable("branches") >> ]

TimezoneHolidays ==
    [ up   |-> << AddTo("branches", "timezone"), CreateTable("holidays"),
                  AddTo("appointments", "branch_id"),
                  ForeignKey("appointments", "fk_branch") >>,
      down |-> << BatchDrop("appointments", {"fk_branch", "branch_id"}),
                  DropTable("holidays"), DropFrom("branches", "timezone") >> ]

AppointmentSeries ==
    [ up   |-> << AddTo("appointments", "series_id"), AddTo("appointments", "ix_series_id") >>,
      down |-> << DropFrom("appointments", "ix_series_id"),
                  DropFrom("appointments", "series_id") >> ]

SentReminders ==
    [ up   |-> << CreateTable("sent_reminders"), AddTo("sent_reminders", "ix_appointment_id") >>,
      down |-> << DropFrom("sent_reminders", "ix_appointment_id"),
                  DropTable("sent_reminders") >> ]

Deposits ==
    [ up   |-> << CreateTable("deposits"), AddTo("deposits", "ix_appointment_id"),
                  AddTo("deposits", "ix_status") >>,
      down |-> << DropFrom("deposits", "ix_status"), DropFrom("deposits", "ix_appointment_id"),
                  DropTable("deposits") >> ]

AppointmentReason ==
    [ up   |-> << AddTo("appointments", "reason") >>,
      down |-> << DropFrom("appointments", "reason") >> ]

DepositMedioPago ==
    [ up   |-> << AddTo("deposits", "medio_pago") >>,
      down |-> << BatchDrop("deposits", {"medio_pago"}) >> ]

OccupancyAndHistory ==
    [ up   |-> << AddTo("availability", "valid_from"), AddTo("availability", "valid_to"),
                  AddTo("appointments", "overbooked"),
                  CreateTable("appointment_resources"),
                  AddTo("appointment_resources", "ix_appointment_id"),
                  AddTo("appointment_resources", "ix_resource_id"),
                  CreateTable("appointment_transitions"),
                  AddTo("appointment_transitions", "ix_appointment_id"),
                  AddTo("appointment_transitions", "ix_to_status"),
                  AddTo("appointment_transitions", "ix_at"),
                  CreateTable("agenda_policies") >>,
      down |-> << DropTable("agenda_policies"),
                  DropFrom("appointment_transitions", "ix_at"),
                  DropFrom("appointment_transitions", "ix_to_status"),
                  DropFrom("appointment_transitions", "ix_appointment_id"),
                  DropTable("appointment_transitions"),
                  DropFrom("appointment_resources", "ix_resource_id"),
                  DropFrom("appointment_resources", "ix_appointment_id"),
                  DropTable("appointment_resources"),
                  BatchDrop("appointments", {"overbooked"}),
                  BatchDrop("availability", {"valid_to", "valid_from"}) >> ]

\* From the oldest to the newest, as the down_revision of each says.
Versions ==
    << Initial, Entities, TimezoneHolidays, AppointmentSeries, SentReminders,
       Deposits, AppointmentReason, DepositMedioPago, OccupancyAndHistory >>

\* The tables that the foreign keys among the columns of a new object name.
References ==
    [ availability |-> {"resources"}, appointments |-> {"resources", "services"},
      time_blocks |-> {"resources"}, availability_exceptions |-> {"resources"},
      holidays |-> {"branches"}, sent_reminders |-> {"appointments"},
      deposits |-> {"appointments"},
      appointment_resources |-> {"appointments", "resources"},
      appointment_transitions |-> {"appointments"}, agenda_policies |-> {"resources"} ]

FkReferences ==
    [ fk_branch |-> {"branches"}, fk_client |-> {"clients"} ]

\* The other tables that an object cannot be without.
Requires(object) ==
    LET t == object[1]
        name == object[2]
    IN  CASE name = "table" /\ t \in DOMAIN References -> References[t]
          [] name \in DOMAIN FkReferences -> FkReferences[name]
          [] OTHER -> {}
===============================================================================
