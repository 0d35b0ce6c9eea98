SPECIFICATION Spec
CONSTANTS
  MaxExec = 2
  Shutdowns = 1
  Allowances <- AnyMixtures
INVARIANT SwitchWaitsForTurn
