CONSTANTS
  User = {a, b, m}
  NoUser = NoUser
  Mods = {m}
  Auth = {b, m}
  TrustFlag = {m}
  SizeLimit = 0
  ResetThreshold = 6
  MaxUsers = 2
  InKinds = {"kick-user", "ban-user", "remove-ban", "gain-op", "sessionconf", "Trusted", "kill-session", "init-complete"}
  StreamKinds = {"Draw"}
  AdminKinds = {"kick", "kill", "op", "trust", "untrust", "conf"}
  FlagChoices = {{}, {"opword", "closed", "persistent"}, {"deputies", "authOnly"}}
  MaxUsersChoices = {3}
  ThresholdChoices = {4}
  MaxFirst = 1000
  MaxHist = 8
  MaxStream = 1
  MaxHeld = 1

SPECIFICATION MCSpec
INVARIANTS OpsAgree UsersAgree AutoResetQueried
PROPERTIES NoEscalation
CHECK_DEADLOCK FALSE
VIEW RightsView
