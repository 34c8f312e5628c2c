SPECIFICATION Spec
CONSTANTS
  a1 = a1  a2 = a2  a3 = a3
  n1 = n1  n2 = n2  n3 = n3
  None = None  Operator = Operator
  Name = {n1, n2, n3}
  Agent = {a1, a2, a3}
  NameOf <- MCNameOf
  Boot <- BootTwo
  BootParent <- ChildFirst
  OnFailure = {a2}
  MaxRestarts <- MCMaxRestarts
  HookRaises = {}
  AsyncAgents = {}
  AwaitsSteps = FALSE
  MaxWorkers = 2
  Calls = {"post", "send", "spawn", "exit", "raise"}
  RunLimits = {0}
  MaxTicks = 2
  MaxPosts = 2
INVARIANTS TypeOK SupervisionBudget ParentTold MailOrder TickBarrier LiveHaveMailbox MailboxesOfTheLive
PROPERTIES Delivery
