CONSTANTS
  User = {a, b, c}
  NoUser = NoUser
  Mods = {}
  Auth = {}
  TrustFlag = {}
  SizeLimit = 0
  ResetThreshold = 3
  MaxUsers = 3
  InKinds = {"Owner", "Trusted", "Chat", "init-complete", "reset-session"}
  StreamKinds = {"Chat"}
  AdminKinds = {}
  FlagChoices = {}
  MaxUsersChoices = {3}
  ThresholdChoices = {3}
  MaxFirst = 1000
  MaxHist = 9
  MaxStream = 1
  MaxHeld = 1

SPECIFICATION MCSpec
INVARIANTS OpsAgree UsersAgree OperatorExists AutoResetQueried
SYMMETRY Symmetry
CHECK_DEADLOCK FALSE
VIEW RightsView
