SPECIFICATION Spec
CONSTANTS
  a1 = a1  a2 = a2  a3 = a3
  n1 = n1  n2 = n2  n3 = n3
  None = None  Operator = Operator
  Name = {n1, n2}
  Agent = {a1, a2}
  NameOf <- MCTwoNames
  Boot <- BootTwo
  BootParent <- Orphans
  OnFailure = {}
  MaxRestarts <- MCMaxRestarts
  HookRaises = {}
  AsyncAgents = {}
  AwaitsSteps = FALSE
  MaxWorkers = 2
  Calls = {"send", "wait"}
  RunLimits = {0}
  MaxTicks = 2
  MaxPosts = 2
INVARIANTS SenderOrder
