SPECIFICATION VirglSpec
CONSTANTS
  None = None
  MaxTrackedBytes = 8
  UploadArenaCount = 2
  MaxCommandSize = 3
  GpuLimits = {3, 4, 5}
  GpuMaxCommand = 4
  Own = Own
  s1 = s1 t1 = t1 d1 = d1 sb = sb sm = sm f1 = f1 p1 = p1 p2 = p2 i1 = i1 x1 = x1
  Screens = {s1} Colors = {t1} Depths = {d1} StorageBuffers = {sb} Samplers = {sm}
  Fixed = {f1} Programs = {p1, p2} Images = {i1} Imports = {x1}
  PassSets <- MCPassSets
  MaxDraws = 3 MaxIncarnations = 2 MaxQueued = 3
  q1 = q1 q2 = q2 q3 = q3 a1 = a1 c1 = c1
  NoArena = NoArena
  NoStream = NoStream
  Streams = {q1, q2, q3}
  Arenas = {a1}
  ChunkArenas <- MCChunkArenas
  Bytes <- MCBytes
  MaxSubmissions = 2
  MaxPendingBytes = 3
  MaxStreamBytes = 4
  MaxInFlight = 1
  Callers = {c1}
  WriteOutcomes = {"ok", "uncertain"}
INVARIANTS
    SubmitInvariant
    ObjectsAreLive
    
    ReleasedIsUnreferenced
    AdmissionInvariant
    NoLostWakeup
CHECK_DEADLOCK FALSE
