SPECIFICATION FairSpec
CONSTANTS
  MaxItem = 3
  MaxText = 2
  MaxTurn = 2
  Allowances <- OrdinaryMixtures
INVARIANTS
  TypeOK
  NothingIsForgotten
PROPERTIES
  KeptNeverShrinks
  SaidIsKept
