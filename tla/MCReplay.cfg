\* Safe and unsafe entries in turn, any of which may be inserted late.
CONSTANTS
  NumEntries = 4
  Unsafe = {2, 4}
  Runs = {r1}
SPECIFICATION FairSpec
INVARIANTS
  TypeOK
  ConsentedOnly
  VerdictIsEarned
PROPERTY ReplayEnds
\* Every replay request is made once.
CHECK_DEADLOCK FALSE
