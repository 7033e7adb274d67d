SPECIFICATION Spec
CHECK_DEADLOCK FALSE
SYMMETRY Processes
CONSTANTS
  r1 = r1
  r2 = r2
  Runners = {r1, r2}
  Prompts = {"a", "b"}
  Dataset <- TwoItems
  Edits <- OneLeft
  MaxRuns = 3
  MaxFaults = 2
INVARIANT ReportAddsUp
 
PROPERTY ResumeSkipsDone
