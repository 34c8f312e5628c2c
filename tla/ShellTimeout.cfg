SPECIFICATION ShellSpec
CONSTANTS
  Stream = {out, err}
  Inputs = {0}
  PipeSize = 2
  Chunk = 2
  MaxOutput = 3
  Behaviour = {"fork"}
  MaxOut = 2
CHECK_DEADLOCK FALSE
PROPERTIES RunReturns
