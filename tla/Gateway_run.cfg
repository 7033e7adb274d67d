SPECIFICATION Spec
CHECK_DEADLOCK FALSE
CONSTANTS
  tg = tg
  sl = sl
  wx = wx
  web = web
  cmd = cmd
  note = note
  raw = raw
  Updates = {tg, sl, note, wx, raw, web, cmd}
  Platform <- Platforms
  Unnumbered = {raw}
  Textless = {note}
  MaxRequests = 3
  MaxCrashes = 1
INVARIANT RoutedAtMostOnce
INVARIANT RoutedBeforeAcknowledged
