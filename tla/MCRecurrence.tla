---------------------------- MODULE MCRecurrence ----------------------------
(* A small instance of Recurrence for TLC. *)
EXTENDS Recurrence

SomeWeekdays == {{0}, {2}, {6}, {0, 2}, {1, 6}, {2, 3, 4}, 0 .. 6}

=============================================================================
