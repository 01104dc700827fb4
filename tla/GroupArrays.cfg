SPECIFICATION Spec
CONSTANTS
  GroupIds = {g1, g2}
  CardIds = {c1, c2}
  MaxGroups = 3
  MaxIds = 2
  NoId = NoId
INVARIANT TypeOK
PROPERTY ImplementsGroupList
