SPECIFICATION Spec
CONSTANTS
  NoFd = NoFd
  MaxSockets = 2
  MaxClients = 1
  QueueCap = 2
  Fds = {f1, f2}
INVARIANTS
  InitOnlyToRequester
