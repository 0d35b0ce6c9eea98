SPECIFICATION Spec
CONSTANTS
  m1 = m1
  m2 = m2
  n1 = n1
  NoMsg = NoMsg
  Human <- MCHuman
  System <- MCSystem
  MaxPending = 2
  MaxTurns = 8
  Settings <- ExitSetting
INVARIANT NothingIsDropped
