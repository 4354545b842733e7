\* No proxied exchange: only a browser that stays can hold up the end.
CONSTANTS
  NumAdapters = 2
  Monitors = {1}
  NumProxies = 1
  Exchanges = {}
  Via <- MCVia
  Requests = {r1}
  Streams = {s1}
SPECIFICATION FairSpec
PROPERTY CtrlCStops
\* The program ends.
CHECK_DEADLOCK FALSE
