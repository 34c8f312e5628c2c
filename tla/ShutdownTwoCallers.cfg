SPECIFICATION Spec
CONSTANTS
  None = None
  Caller = {t1, t2}
  Deferred = {d1, d2, d3}
  Agent = {a1, a2}
  Driver = {http}
  Adapter = {chat}
  Failing = {http}
  Programs <- CarefulProgram
  MaxTicks = 2
PROPERTIES NeverMeetsClosed
