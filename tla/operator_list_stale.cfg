CONSTANTS
  User = {a, b}
  NoUser = NoUser
  Mods = {}
  Auth = {}
  TrustFlag = {}
  SizeLimit = 0
  ResetThreshold = 0
  MaxUsers = 2
  InKinds = {"init-complete", "reset-session"}
  StreamKinds = {"Draw"}
  AdminKinds = {"deop"}
  FlagChoices = {}
  MaxUsersChoices = {2}
  ThresholdChoices = {0}
  MaxFirst = 0
  MaxHist = 9
  MaxStream = 1
  MaxHeld = 1

SPECIFICATION MCSpec
INVARIANTS OpsAgree
CHECK_DEADLOCK FALSE
