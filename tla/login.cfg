CONSTANTS
  Name = {g, r, x}
  NoName = NoName
  Registered = {r, x}
  BannedNames = {x}
  Hosts = {r}
  BatchLimit = 1
  Configs = {{"guests", "extAuth", "fallback", "extAuthHost"}}
  MaxCommands = 3
  MaxNews = 2
  MaxChanges = 1
SPECIFICATION FairSpec
INVARIANTS TypeOK QueueIsFifo
PROPERTIES IdentityIsFinal GuestsAreAdmitted DisconnectCloses
CHECK_DEADLOCK FALSE
