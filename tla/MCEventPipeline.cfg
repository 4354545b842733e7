\* Three events and two connections, one of which may stop reading; a channel of
\* two entries is full while a broadcast is still to come.
CONSTANTS
  Events = {e1, e2, e3}
  Clients = {c1, c2}
  Reading = {c1}
  ChanCap = 2
  Nobody = Nobody
SPECIFICATION FairSpec
INVARIANTS
  TypeOK
  StoredFirst
  FeedInOrder
PROPERTIES
  CompleteFeed
  NothingAfterGone
  EmitReturns
  ReaderIsServed
  ClosedIsForgotten
  ImplementsFeed
\* Every event is emitted and every connection opened once.
CHECK_DEADLOCK FALSE
