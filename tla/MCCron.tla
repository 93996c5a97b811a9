------------------------------- MODULE MCCron -------------------------------
\* Instances of CronService for TLC.
EXTENDS CronService

MCSchedules == {[kind |-> "at", ms |-> 2, del |-> TRUE],
                [kind |-> "every", ms |-> 2, del |-> FALSE]}

MCToolSchedules == MCSchedules \cup {[kind |-> "cron", ms |-> 2, del |-> FALSE]}

MCExtSchedules == {[kind |-> "at", ms |-> 3, del |-> FALSE],
                   [kind |-> "every", ms |-> 1, del |-> FALSE]}
=============================================================================
