SPECIFICATION Spec

CONSTANTS
  NumRows = 3
  NumTables = 2
  Table <- MCTable
  BatchLimit = 2
  MaxLostMarks = 1
  Mails = {m1, m2, m3}
  NoMail = NoMail
  FetchLimit = 2
  MaxDelay = 1
  MaxTime = 3
  NumCommands = 3
  Shapes <- MCShapes
  Escapes <- MCEscapes
  Queues <- MCQueues
  MaxRuns = 2
  Setups <- MCSetups

INVARIANTS
  TypeOK
  DuplicatesHaveACause
  NoMailTwice
  MissedForAReason
  HistoryHasNoHole

PROPERTIES
  ImplementsDelivery
  EveryRowStored
  EveryMailSeen
  QueueHistoryInOrder

CHECK_DEADLOCK FALSE
