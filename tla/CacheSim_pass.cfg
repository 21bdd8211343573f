\* Every valid combination of parameters, every trace over these addresses,
\* whose tags fit.
SPECIFICATION Spec
CONSTANTS
  Geometries <- MCGeometries
  Addresses = {0, 4, 8, 12, 16}
  TagLimit = 8
  MaxAccesses = 5
CHECK_DEADLOCK FALSE
INVARIANTS TypeOK StampsAreRanks
PROPERTIES ImplementsPolicy OnlyLoadHitsLoseStores
