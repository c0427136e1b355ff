SPECIFICATION FrameSpec
CONSTANTS
  None = None
  Pools = {p1}
  Cmds = {c1, c2}
  Sets = {d1}
  QueryPools = {q1}
  KindOf <- MCKinds
  Addresses = {a1, a2, a3, a4, a5, a6, a7}
  Capacity = 3
  MaxCalls = 3
  FewCalls = 2
  MaxBegins = 2
  MaxUpdates = 1
  MaxSubmits = 2
  Images <- MCImages
  Buffers <- MCBuffers
  MemoryOf <- MCMemoryOf
  BoundSets <- MCSets
  SetLayout <- MCSetLayout
  SetWrites <- MCSetWrites
  SetInput <- MCSetInput
  Pipelines <- MCPipelines
  Passes <- MCPasses
  DrawParameters = TRUE
  ImplicitBarriers = TRUE
  GlobalBarriers = FALSE
  Budget = 2
  MaxMore <- MCMaxMore
  Scenarios = {"bindings", "switching", "passes", "subpasses", "transfers"}
  s1 = s1
  s2 = s2
  w1 = w1
  Surfaces = {s1, s2}
  Chains = {w1, w2}
  Count = 2
  Sizes = {1, 2}
  SystemOf <- MCSystemOf
  MaxSerial = 3
  MaxPackets = 2
  MaxRequests = 5
  MaxMishaps = 1
INVARIANTS
    RecordingsInvariant
    DrawsSeeBoundState
    BatchesInvariant
    DisplayedStaysImported
    SwapchainInvariant
PROPERTIES
    SnapshotsNeverChange
    SpendsOnlyWhatRan
CHECK_DEADLOCK FALSE
