SPECIFICATION Spec
CONSTANTS
  Host = {resident, client}
  MaxVersion = 4
  Abi = {"old", "new"}
  Built <- MCBuilt
  Apps <- MCApps
  Allowances <- Mixtures
INVARIANTS
  TypeOK
  FenceCoversActive
  NoDowngrade
  AppliedIsKept
PROPERTIES
  ReloadGoesForward
SYMMETRY Symmetry
