SPECIFICATION Spec
CONSTANTS
  MaxPoints = 3
  MaxSeries = 3
  MaxTicks = 8
  ZeroLast = TRUE
INVARIANTS
  TypeOK
  LabelsTrue
  UpdatesAgreeWithInit
