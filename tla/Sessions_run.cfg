SPECIFICATION Spec
CONSTANTS
  left = left
  right = right
  Consoles = {left, right}
  MaxTurns = 4
  MaxSessions = 2
SYMMETRY Swapped
INVARIANTS
  ConsoleMatchesLog
  AnswersFollowQuestions
  SnapshotCurrent
PROPERTY
  RollsBackOwnSessions
CHECK_DEADLOCK FALSE
