SPECIFICATION FairSpec
CONSTANTS
  None = None
  Gui = Gui
  Server = {}
  Owner = {main}
  Caller = {t1}
  Request = {r1}
  CtrlC = None
  RunTicks = {1}
  History = 1
  MaxTicks = 1
CHECK_DEADLOCK FALSE
PROPERTIES StopEnds
