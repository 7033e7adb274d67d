SPECIFICATION Spec
CHECK_DEADLOCK FALSE
CONSTANTS
  daemon = daemon
  ctl = ctl
  j1 = j1
  j2 = j2
  Procs = {daemon, ctl}
  Editors = {ctl}
  JobIds = {j1, j2}
  Expressions <- DueOnce
  DurationRange = 5
  MaxTime = 0
  MaxMishaps = 0
  MaxAttempts = 2
INVARIANT TableConsistent
