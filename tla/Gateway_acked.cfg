SPECIFICATION Spec
CHECK_DEADLOCK FALSE
CONSTANTS
  tg = tg
  sl = sl
  wx = wx
  web = web
  cmd = cmd
  note = note
  raw = raw
  Updates = {tg}
  Platform <- Platforms
  Unnumbered = {}
  Textless = {}
  MaxRequests = 3
  MaxCrashes = 0
INVARIANT AcknowledgedIsRouted
