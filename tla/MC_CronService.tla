--------------------------- MODULE MC_CronService ---------------------------
(* Instances of CronService for TLC. *)
EXTENDS CronService

AllKinds   == {"once", "at", "every", "cron"}
TwoKinds   == {"once", "every"}

=============================================================================
