SPECIFICATION FairSpec
CONSTANTS
  Tools = {search, exec, ghost}
  Registry = {search, exec}
  Granted = {search, ghost}
  DefaultTools = {search}
  search = search
  exec = exec
  ghost = ghost
  IterationCap = 2
  MaxCalls = 2
  MaxSessions = 2
INVARIANTS
  ResultMatchesStore
  StoredTraceReplayable
  ResumeMovesOn
PROPERTIES
  ExecutionEnds
CHECK_DEADLOCK FALSE
