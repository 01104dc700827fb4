SPECIFICATION Spec
CONSTANTS
  t1 = t1
  t2 = t2
  server = server
  Tasks = {t1, t2}
  MaxCards = 2
  Pages = {p1}
  QueueCap = 2
  Writer <- TaskPerCard
  Adder = t2
  Server = server
  Callbacks = {1}
  MaxVersion <- Writes
  NoJob = NoJob
  Idle = Idle
INVARIANTS
  TypeOK
  AtRestShowsStored
PROPERTY NeverBackwards
