\* Three applications of a rule are one more than the limit of one hit and one
\* concurrent request beside it allow for.
CONSTANTS
  limited = limited
  expiring = expiring
  Rules = {limited, expiring}
  Requests = {q1, q2}
  NameOf <- MCNameOf
  MaxHits <- MCMaxHits
  TTL <- MCTTL
  Fits <- MCFits
  Seeds = {0, 1}
  MaxTime = 2
  MaxApplied = 3
  NoRule = NoRule
SPECIFICATION Spec
SYMMETRY Symmetry
INVARIANT MaxHitsRespected
CHECK_DEADLOCK FALSE
