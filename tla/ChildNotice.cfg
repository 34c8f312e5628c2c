SPECIFICATION SpecPlatform
CONSTANTS
  a1 = a1  a2 = a2  a3 = a3
  n1 = n1  n2 = n2  n3 = n3
  None = None  Operator = Operator  Everyone = Everyone
  Name = {n1, n2, n3}
  Agent = {a1, a2}
  NameOf <- MCTwoNames
  Boot <- BootTwo
  BootParent <- PlatformFirst
  OnFailure = {}
  MaxRestarts <- MCMaxRestarts
  HookRaises = {}
  AsyncAgents = {}
  AwaitsSteps = FALSE
  MaxWorkers = 1
  Calls = {"send", "broadcast", "spawn", "wait", "exit", "raise"}
  RunLimits = {2}
  MaxTicks = 2
  MaxPosts = 3
  NoFactory = {}
  SnapshotInTick = FALSE
  MaxCrashes = 0
  Platform = {a2}
  WithSeed = {}
  Broadcasts = {}
  ReplyTo <- MCReplyTo
  MaxTurns <- MCMaxTurns
  Results <- MCResults
PROPERTIES NoticeIsNoFailure
