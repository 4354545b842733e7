SPECIFICATION Spec

CONSTANTS
  NumEvents = 4
  MaxStamp = 3
  WalkLimit = 2
  StreamCap = 2
  Setups <- MCSetups

INVARIANTS
  TypeOK
  TwiceAtMost
  HolesHaveACause
  WalkSkipsOnlyTies

PROPERTIES
  ImplementsFeed
  StreamComesBack
  ReturningHeals

CHECK_DEADLOCK FALSE
