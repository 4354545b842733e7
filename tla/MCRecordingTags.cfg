\* A database that does hold a snapshot with the empty id, so that a scenario can
\* be inserted and everything behind the INSERT happens.
CONSTANTS
  s1 = s1
  s2 = s2
  s3 = s3
  s4 = s4
  backup = backup
  signup = signup
  reset = reset
  Starts = {s1, s2, s3, s4}
  Stops = {t1, t2}
  Events = {e1}
  NameOf <- MCNameOf
  Blank = Blank
  Snapshots = {Blank}
  MaxInFlight = 2
  MaxRestarts = 1
  None = None
SPECIFICATION Spec
SYMMETRY Symmetry
PROPERTY CapturedIsTagged
CHECK_DEADLOCK FALSE
