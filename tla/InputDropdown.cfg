SPECIFICATION Spec
CONSTANTS
  Pages = {p1}
  Cards = {c1}
  CardKinds = {"dropdown"}
  QueueCap = 2
  MaxValue = 1
  MaxInputs = 1
  NoDrag = NoDrag
PROPERTY InputReachesItsFunction
