--------------------------- MODULE MCCronScheduler ---------------------------
EXTENDS CronScheduler

Interval == [type |-> "interval", spec |-> 1]
EveryTwo == [type |-> "cron", spec |-> 2]
AtOne == [type |-> "oneshot", spec |-> 1]

ThreeKinds == {Interval, EveryTwo, AtOne}
Recurring == {Interval, EveryTwo}
=============================================================================
