SPECIFICATION Spec
CONSTANTS
  Sockets = {s1, s2}
  CheckEvery = 1
  StaleAfter = 10
  ReconnectAfter = 3
  MaxLate = 1
  Off = Off
INVARIANT ReconnectsWhileClosing
