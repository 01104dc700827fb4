SPECIFICATION HeartbeatFairSpec
CONSTANTS
  Sockets = {s1, s2, s3}
  CheckEvery = 2
  StaleAfter = 20
  ReconnectAfter = 6
  MaxLate = 4
  BeatEvery = 5
  LoopEvery = 1
  MaxDelay = 2
  Tolerated = 2
  Off = Off
INVARIANTS
  TypeOK
  OneConnection
  NeverAbandoned
  ShownConnectedIsAlive
PROPERTIES
  HealthyKept
  LossesTolerated
  Recovers
