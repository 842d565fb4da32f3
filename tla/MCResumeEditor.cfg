SPECIFICATION Spec
CONSTANTS
  section1 = section1
  section2 = section2
  section3 = section3
  entity1 = entity1
  entity2 = entity2
  bullet1 = bullet1
  Items <- MCItems
  Root = Root
  Parent <- MCParent
  Promoted <- MCPromoted
  Requests = {request1, request2}
  MaxFailures = 1
INVARIANTS
  TypeOK
  UndamagedIsInOrder
  ReadsAreOfTheirTime
PROPERTIES
  ImplementsOutline
CHECK_DEADLOCK FALSE
