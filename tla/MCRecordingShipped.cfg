\* A database file that this code created: config_snapshots is empty.
CONSTANTS
  s1 = s1
  s2 = s2
  s3 = s3
  s4 = s4
  backup = backup
  signup = signup
  reset = reset
  Starts = {s1, s2, s3, s4}
  Stops = {t1, t2}
  Events = {e1}
  NameOf <- MCNameOf
  Blank = Blank
  Snapshots = {}
  MaxInFlight = 2
  MaxRestarts = 1
  None = None
SPECIFICATION Spec
SYMMETRY Symmetry
INVARIANT StartSucceeds
CHECK_DEADLOCK FALSE
