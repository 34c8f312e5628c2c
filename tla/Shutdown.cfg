SPECIFICATION FairSpec
CONSTANTS
  None = None
  Caller = {t1}
  Deferred = {d1, d2}
  Agent = {a1, a2}
  Driver = {http}
  Adapter = {chat}
  Failing = {http}
  Programs <- AllPrograms
  MaxTicks = 2
INVARIANTS TypeOK OneCloser OneDeferred
PROPERTIES NeverMeetsClosed WaitMeansClosed ShutdownEnds
