SPECIFICATION SpecPlatform
CONSTANTS
  a1 = a1  a2 = a2  a3 = a3
  n1 = n1  n2 = n2  n3 = n3
  None = None  Operator = Operator  Everyone = Everyone
  Name = {n1, n2, n3}
  Agent = {a1, a2, a3}
  NameOf <- MCNameOf
  Boot <- BootTwo
  BootParent <- ParentFirst
  OnFailure = {a1, a2}
  MaxRestarts <- MCMaxRestarts
  HookRaises = {}
  AsyncAgents = {}
  AwaitsSteps = FALSE
  MaxWorkers = 1
  Calls = {"send", "broadcast", "spawn", "wait", "exit", "raise"}
  RunLimits = {0, 2}
  MaxTicks = 2
  MaxPosts = 2
  NoFactory = {a3}
  SnapshotInTick = FALSE
  MaxCrashes = 1
  Platform = {a2, a3}
  WithSeed = {a2}
  Broadcasts = {}
  ReplyTo <- MCReplyTo
  MaxTurns <- MCMaxTurns
  Results <- MCResults
INVARIANTS LiveHaveMailbox MailboxesOfTheLive SeedOnce TurnsEnd ReadyHasMail
PROPERTIES RestoreIsExact
