\* Ctrl+C during start-up, before the server's goroutine has run.
CONSTANTS
  NumAdapters = 2
  Monitors = {1}
  NumProxies = 1
  Exchanges = {}
  Via <- MCVia
  Requests = {r1}
  Streams = {s1}
SPECIFICATION FairSpec
INVARIANT ShutdownIsSafe
\* The program ends.
CHECK_DEADLOCK FALSE
