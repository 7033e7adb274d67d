SPECIFICATION FairSpec
CONSTANTS
  Blank = Blank
  t1 = t1
  t2 = t2
  t3 = t3
  s1 = s1
  goal = goal
  toolA = toolA
  exec = exec
  BlockedTools = {exec}
  PolicyLimit = 2
  Submitted <- UnsetMax
PROPERTY
  RunReturns
CHECK_DEADLOCK FALSE
