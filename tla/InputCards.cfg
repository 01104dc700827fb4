SPECIFICATION Spec
CONSTANTS
  Pages = {p1, p2}
  Cards = {c1}
  CardKinds = {"button", "toggle", "slider", "input", "color", "dropdown", "location", "timezone"}
  QueueCap = 2
  MaxValue = 2
  MaxInputs = 1
  NoDrag = NoDrag
INVARIANTS
  TypeOK
  AtRestAllAgree
  NothingTransientHeard
SYMMETRY Symmetric
