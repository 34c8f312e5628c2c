SPECIFICATION FairSpec
CONSTANTS
  None = None
  Gui = Gui
  Server = {t1}
  Owner = {}
  Caller = {t2, t3}
  Request = {r1, r2}
  CtrlC = t1
  RunTicks = {2}
  History = 1
  MaxTicks = 2
CHECK_DEADLOCK FALSE
INVARIANTS TypeOK OneServer ClosedNotServing ReportsTell AnswerConsistent
PROPERTIES StopEnds RequestsEnd
