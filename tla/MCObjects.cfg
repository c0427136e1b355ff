SPECIFICATION MCSpec
CONSTANTS
  None = None
  Pools = {p}
  Sets = {s1, s2}
  SetLayouts = {"plain", "pushed", "mixed"}
  Resources = {"b1", "b2", "v"}
  RealIds = {r1, r2}
  GroupIds = {g1, g2}
  Types = {"buffer", "dynamic", "combined"}
  Declared <- MCDeclared
  PushLayouts = {"pushed"}
  Kind <- MCKind
  PoolCapacity <- MCPoolCapacity
  PoolSets <- MCPoolSets
  FreeablePools = {p}
  Pairs = 3
  SetLimit = 2
  DefinitionLimit = 2
  Kept = 1
  MaxUses = 1
  Shaders = {s1, s2}
  Pipelines = {r1, r2}
  Keys = {k}
  Maps = {m}
  ModuleIds = {1, 2, 3}
  PipeIds = {1, 2, 3}
  PipelineLimit = 2
  MaxBatch = 2
  m1 = m1
  whole = whole
  alias = alias
  part = part
  i1 = i1
  Memories <- MCMemories
  Buffers <- MCBuffers
  Images <- MCImages
  MemorySize <- MCMemorySize
  BufferSize <- MCBufferSize
  ImageSize <- MCImageSize
  Targets <- MCTargets
  Usage <- MCUsage
  MaxAllocations = 1
  HeapSize = 3
  Immediate = FALSE
  HostRaces = FALSE
  MaxWrites = 2
  MaxAccepted = 0
  Capacity <- MCTableCapacity
  MaxGeneration = 1
  TextureDescs <- MCTextureDescs
  BufferDescs <- MCBufferDescs
  Layouts <- MCLayouts
  Programs <- MCPrograms
  MaxCommands = 8
  MaxTrace = 3
  MaxTableOps = 4
INVARIANTS
    TableInvariant
    RecordingInvariant
    DeviceReadsMemory
    DescriptorsInvariant
    PipelinesInvariant
SYMMETRY Symmetry
CHECK_DEADLOCK FALSE
