--------------------------- MODULE MCScheduledTasks ---------------------------
(* Small instances of ScheduledTasks for TLC. *)
EXTENDS ScheduledTasks
CONSTANTS a, b
AB == <<a, b>>
SuspendedLater == <<{a, b}, {b}>>
=============================================================================
