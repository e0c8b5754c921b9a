----------------------------- MODULE MCJobScheduler -----------------------------
(* The instance of JobScheduler that is checked: two of the five jobs, which     *)
(* differ in nothing the queue looks at, in the order they are scheduled.        *)
EXTENDS JobScheduler

MCJobSeq == <<"purge-sweep", "escalation-timer">>
=============================================================================
