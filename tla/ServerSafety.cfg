SPECIFICATION Spec
CONSTANTS
  Fds = {f1, f2, f3}
  NoFd = NoFd
  MaxSockets = 3
  MaxClients = 2
  QueueCap = 2
SYMMETRY Symmetry
INVARIANTS
  TypeOK
  QuarantineOnlyGivenUp
  QuarantineCoversGivenUp
  BroadcastReachesClients
  BroadcastBounded
