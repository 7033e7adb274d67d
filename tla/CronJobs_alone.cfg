SPECIFICATION FairSpec
CHECK_DEADLOCK FALSE
CONSTANTS
  daemon = daemon
  ctl = ctl
  j1 = j1
  j2 = j2
  Procs = {ctl}
  Editors = {ctl}
  JobIds = {j1, j2}
  Expressions <- Mixed
  DurationRange = 5
  MaxTime = 2
  MaxMishaps = 1
  MaxAttempts = 6
INVARIANT AcknowledgedEditsKept
INVARIANT RepeatsExplained
PROPERTY IntervalSpaced
PROPERTY WholeCallsOnly
PROPERTY DueJobsRun
