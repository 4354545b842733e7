\* The monitor is the last to be stopped; a proxied exchange can be under way anywhere.
CONSTANTS
  NumAdapters = 2
  Monitors = {1}
  NumProxies = 2
  Exchanges = {x1}
  Via <- MCVia
  Requests = {r1}
  Streams = {s1}
SPECIFICATION FairSpec
INVARIANTS
  TypeOK
  NothingRunsAtClose
PROPERTY StopsUnlessHeld
\* The program ends.
CHECK_DEADLOCK FALSE
