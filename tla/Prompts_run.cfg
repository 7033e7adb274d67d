SPECIFICATION Spec
CHECK_DEADLOCK FALSE
CONSTANTS
  d1 = d1
  c1 = c1
  m1 = m1
  hermesd = hermesd
  console = console
  Workers = {d1, c1}
  Writers = {m1}
  Procs = {hermesd, console}
  ProcOf <- Homes
  Models = {"small", "large"}
  Configured = "small"
  Window = 3
  Threshold = 1
  Keep = 1
  Budget = 3
  Texts = {1, 2}
  Noted <- OneNote
  Changes <- OneOfEach
  Limit = 2
  RecallLimit = 1
  MaxAsks = 3
  MaxEvents = 1
INVARIANT ServedPlanCurrent
 
 
 
