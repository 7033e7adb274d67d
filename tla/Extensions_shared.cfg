SPECIFICATION Spec
CHECK_DEADLOCK FALSE
CONSTANTS
  plug = plug
  skill = skill
  srv = srv
  web = web
  health = health
  execp = execp
  tool = tool
  call = call
  fetch = fetch
  deploy = deploy
  undo = undo
  d1 = d1
  c1 = c1
  hermesd = hermesd
  hermesctl = hermesctl
  Workers = {d1, c1}
  Procs = {hermesd, hermesctl}
  Commands = {hermesctl}
  ProcOf <- Alone
  Order <- Extensions2
  ToolOf <- Tools2
  Hooks <- Hooks2
  ServerOrder <- NoServers
  Transport <- Transports2
  ServerTools <- Served2
  Builtins = {health, execp}
  ExecProfile = execp
  NoTool = NoTool
  Nobody = Nobody
  Calls <- NoCalls
  AskedProfiles = {deploy}
  Profiles = {deploy, undo}
  Length <- Lengths
  Rollback <- Rollbacks
  ContinueOnError = {deploy}
  NeedsApproval = {deploy}
  NeedsToken = {}
  NoProfile = NoProfile
  Edits <- Edits2
  MaxStrays = 1
  MaxAsks = 3
  MaxFaults = 1
INVARIANT ConfirmedStateKept
INVARIANT HooksAgreeWithRow
