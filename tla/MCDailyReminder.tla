--------------------------- MODULE MCDailyReminder ---------------------------
(***************************************************************************)
(* A small instance of DailyReminder for TLC.                              *)
(***************************************************************************)
EXTENDS ReminderProperties

\* All jobs reach the same instance, where they share the dedupe keys.
OneInstance == [p \in Procs |-> CHOOSE i \in Instances : TRUE]
=============================================================================
