SPECIFICATION BackendsSpec
CONSTANTS
  None = None
  Textures <- TexturesDef
  LogicalBuffers <- LogicalBuffersDef
  Images <- ImagesDef
  FormatOf <- FormatDef
  Presented = {"screen"}
  Groups = {"g1", "g2"}
  Binds <- BindsDef
  Fixed = {"solid", "image"}
  Samples = {"image"}
  DepthOf <- DepthDef
  Programs = {"list", "strip"}
  Computes = {"kernel"}
  SlotsOf <- SlotsDef
  EmptySlots <- EmptyDef
  VerticesOf <- VerticesDef
  TopologyOf <- TopologyDef
  ShadersOf <- ShadersDef
  Streams <- StreamsDef
  Sizes = {1, 2}
  SizeOf <- SizeDef
  MaxNatives = 9
  MaxChanges = 2
  MaxCount = 4
  Threads = {"t1", "t2"}
  Limit = 2
  MaxSubmissions = 3
  b1 = b1
  b2 = b2
  Buffers = {b1, b2}
  Words = 3
  Values = {0, 1}
  Invalid = {2}
  MaxIntervals = 1
  MaxRevision = 3
  SyncFailsLate = FALSE
CONSTRAINT Bounded
INVARIANTS
    ShadowInvariant
    EncodedAsRecorded
    ErrorsReachTheirCall
    CompletionInvariant
CHECK_DEADLOCK FALSE
