SPECIFICATION DeviceSpec
CONSTANTS
    f1 = f1
    s1 = s1
    t1 = t1
    Fences = {f1}
    Binaries = {s1}
    Timelines = {t1}
    Templates <- AllRequests
    MaxPending = 2
    MaxValue = 2
    MaxPackets = 2
    h1 = h1
    h2 = h2
    m1 = m1
    i1 = i1
    Handles = {h1, h2}
    Memories = {m1}
    Images = {i1}
    Sizes = {1, 3}
    MaxBuffers = 2
    CacheCapacity = 1
    CacheBytes = 2
    RetirementBatch = 1
    MaxIds = 3
    MaxSubmitted = 2
INVARIANTS
    FenceCertifiesPrefix
    QueueInvariant
    CacheInvariant
PROPERTIES
    QueueProgress
    RetirementComesFirst
CHECK_DEADLOCK FALSE
