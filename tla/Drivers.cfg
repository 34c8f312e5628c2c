SPECIFICATION Spec
CONSTANTS
  Stream = {out, err}
  Inputs = {0, 1, 3}
  PipeSize = 2
  Chunk = 2
  MaxOutput = 1
  Behaviour = {"read", "shut stdin", "fork", "garble"}
  MaxOut = 3
  Worker = {w1, w2}
  Absent = Absent
  Dir = Dir
  Path <- Paths
  Sizes = {1, 2}
  MaxBytes = 2
  ReadOnly = FALSE
  MaxOps = 3
CHECK_DEADLOCK FALSE
INVARIANTS TypeOK ReadToTheEnd OutputTrue WithinLimit WholeContents WritersMakeParents
PROPERTIES ReturnsUnlessHeld
