----------------------------- MODULE MCReminders -----------------------------
(* Small instances of Reminders for TLC. *)
EXTENDS ReminderProperties, TLC

\* Two policies, one instant and two instants ahead.
OneAndTwo == <<2, 1>>

Symmetries == Permutations(Procs) \cup Permutations(Visits)

=============================================================================
