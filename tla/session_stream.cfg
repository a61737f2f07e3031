CONSTANTS
  User = {a, b}
  NoUser = NoUser
  Mods = {}
  Auth = {}
  TrustFlag = {}
  SizeLimit = 5
  ResetThreshold = 2
  MaxUsers = 2
  InKinds = {"Draw", "BypassChat", "PrivateChat", "ready-to-autoreset", "init-begin", "init-complete", "init-cancel", "reset-session"}
  StreamKinds = {"Draw"}
  AdminKinds = {"deop"}
  FlagChoices = {}
  MaxUsersChoices = {2}
  ThresholdChoices = {2}
  MaxFirst = 6
  MaxHist = 5
  MaxStream = 3
  MaxHeld = 1

SPECIFICATION MCFairSpec
INVARIANTS TypeOK ResetterPresent HeldOnlyInInit StreamIsPrefix
PROPERTIES IndexGrows IsHistoryLog AskedOnce CaughtUp
CHECK_DEADLOCK FALSE
