SPECIFICATION TocSpec
CONSTANTS
  Platforms <- AllSystems
  TocDiscs <- MCDiscs
  Heads <- MCHeads
  Positions <- MCPositions
INVARIANT TocRight
PROPERTY PositionsAgree
PROPERTY HidesOldPositions
