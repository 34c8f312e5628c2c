SPECIFICATION SpecP
CONSTANTS
  a1 = a1  a2 = a2
  n1 = n1  n2 = n2
  None = None  Operator = Operator
  Name = {n1, n2}
  Agent = {a1, a2}
  NameOf <- MCNameOf
  Boot <- BootTwo
  BootParent <- ParentFirst
  OnFailure = {a1}
  MaxRestarts <- MCMaxRestarts
  HookRaises = {}
  AsyncAgents = {}
  AwaitsSteps = FALSE
  MaxWorkers = 1
  Calls = {"send", "wait"}
  RunLimits = {0}
  MaxTicks = 2
  MaxPosts = 2
  NoFactory = {}
  SnapshotInTick = TRUE
  MaxCrashes = 1
PROPERTIES SnapshotAtBoundary
