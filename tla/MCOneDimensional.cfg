SPECIFICATION LibrarySpec
CONSTANTS
  None = None
  MaxRevision = 4
  MaxReceipts = 2
  Files = {m1, m2}
  Libraries = {l1}
  DriverNames = {"scarlet-virgl", "other"}
  Gpus = {"virtio-gpu", "qcom-adreno"}
  Compiled = {"wgpu", "dynamic"}
  MaxChanges = 3
  MaxAdapters = 2
  Half = 128
  MaxColors = 8
  MaxAttributes = 16
  MaxVertexBuffers = 8
  MaxBindings = 32
  MaxGroups = 4
  ByteChunk = 2
  MaxBuilders = 3
  MaxWords = 64
  MaxCommands = 3
  MaxOwned = 4
  Alphabet = {"EndRenderPass", "EndComputePass", "Draw", "BeginComputePass", "WriteBuffer"}
  Tables = {0, 1}
INVARIANTS
    DimensionIsKept
CHECK_DEADLOCK FALSE
