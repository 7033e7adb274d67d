---------------------------- MODULE MC_CronJobs ----------------------------
(* Schedule expressions for the runs of CronJobs.                          *)
EXTENDS CronJobs

CONSTANTS daemon, ctl, j1, j2

Every(n) == [form |-> "every", n |-> n]
In(n) == [form |-> "in", n |-> n]
At(n) == [form |-> "at", n |-> n]

Mixed == {Every(1), In(1), At(0), In(0)}
DueOnce == {Every(1), At(0)}
=============================================================================
