\* An open room and one with a secret, a command, a loss and two failures in any order: what is lost is repaired.
CONSTANTS
  MaxSockets = 4
  MaxAttempts = 1
  MaxSessions = 3
  Locking = {FALSE, TRUE}
  Commands = {"connect", "reconnect", "join", "leave"}
  MaxCommands = 1
  MaxFailures = 2
  MaxDrops = 1
SPECIFICATION FairSpec
INVARIANTS ConnectionTypeOK KeepsTrying ConnectedIsWatched OneSeatPerSession
PROPERTIES LossIsRepaired
CHECK_DEADLOCK FALSE
