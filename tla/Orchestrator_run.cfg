SPECIFICATION FairSpec
CONSTANTS
  Blank = Blank
  t1 = t1
  t2 = t2
  t3 = t3
  s1 = s1
  goal = goal
  toolA = toolA
  exec = exec
  BlockedTools = {exec}
  PolicyLimit = 2
  Submitted <- AllPlans
INVARIANTS
  TypeOK
  WriteScopesExclusive
  ParentLogOrdered
  ConcurrencyLimited
  TokensMatchHolders
  SequentialOrder
  ResultsComplete
PROPERTIES
  
  RunReturns
  GoroutinesDrain
  ImplementsContract
CHECK_DEADLOCK FALSE
