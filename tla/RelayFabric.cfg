SPECIFICATION FairSpec
CONSTANTS
  a = a
  b = b
  r1 = r1
  r2 = r2
  Endpoint <- MCEndpoint
  Route <- MCRoute
  Id = {1, 2}
  MaxConn = 3
  MaxOpen = 2
  LateMax = 1
  Profiles <- MCProfiles
INVARIANTS
  TypeOK
  MapsAgree
  RevokedIsOut
  NoneIsLeftHanging
PROPERTIES
  AbandonedStaysDead
  ImplementsPromise
  RevocationTakesEffect
CHECK_DEADLOCK FALSE
