SPECIFICATION FairSpec
CONSTANTS
  MaxExec = 2
  Shutdowns = 1
  Allowances <- FairMixtures
PROPERTIES
  ComesToAnEnd
