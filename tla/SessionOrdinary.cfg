SPECIFICATION Spec
CONSTANTS
  MaxExec = 2
  Shutdowns = 1
  Allowances <- OrdinaryMixtures
INVARIANTS
  TypeOK
  NoUnownedTurn
  CancelIsKept
  PumpCommitsItsOwn
  SomebodyEndsIt
  ClosedMeansGone
PROPERTIES
  UncleanTakesNoPrompt
  ImplementsClaim
