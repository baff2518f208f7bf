SPECIFICATION FairSpec
CONSTANTS
  x1 = x1
  x2 = x2
  Deleters = {x1, x2}
  Ids = {1, 2, 3, 4}
INVARIANTS NoDanglingRow
PROPERTIES DeletesWhole MigrationEnds DeletionEnds
