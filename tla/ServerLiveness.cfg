SPECIFICATION FairSpec
CONSTANTS
  NoFd = NoFd
  MaxSockets = 2
  MaxClients = 1
  QueueCap = 3
  Fds = {f1, f2}
PROPERTIES
  HealthyClientHears
  QueuedInitAnswered
