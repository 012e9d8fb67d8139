--------------------------- MODULE MCDeadlineAlerts ---------------------------
(***************************************************************************)
(* Managers and scans are interchangeable.  A few days, two reminders before *)
(* the date, and reminders every second day when it is late.                 *)
(***************************************************************************)
EXTENDS DeadlineAlerts, TLC

Symmetry == Permutations(Manager) \cup Permutations(Scan)
=============================================================================
