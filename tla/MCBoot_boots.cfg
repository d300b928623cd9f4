CONSTANTS
  Latest = 4
  Repeatable = {3}
  Configs <- MCConfigs
  NormalName <- MCNormalName
  Derived <- MCDerived
  Bad = Bad
  NoValue = NoValue
  Square = Square
  Shore = Shore
  MaxFailures = 2
  MaxChanges = 2
SPECIFICATION FairSpec
INVARIANTS InOrder ServesConfig
PROPERTY GetsUp
CHECK_DEADLOCK FALSE
