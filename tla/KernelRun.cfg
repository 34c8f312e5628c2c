SPECIFICATION FairSpec
CONSTANTS
  a1 = a1  a2 = a2  a3 = a3
  n1 = n1  n2 = n2  n3 = n3
  None = None  Operator = Operator
  Name = {n1, n2}
  Agent = {a1, a2, a3}
  NameOf <- MCSuccessor
  Boot <- BootTwo
  BootParent <- ChildFirst
  OnFailure = {a2}
  MaxRestarts <- MCMaxRestarts
  HookRaises = {a2}
  AsyncAgents = {a3}
  AwaitsSteps = FALSE
  MaxWorkers = 1
  Calls = {"post", "broadcast", "register", "wait", "exit", "raise", "unregister", "unregister_in_step", "abort"}
  RunLimits = {0, 1, 2}
  MaxTicks = 2
  MaxPosts = 1
PROPERTIES StopReasonTrue QuiescenceIsFinal RunReturnsEventually WaitingWakes
