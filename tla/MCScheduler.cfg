SPECIFICATION MCSpec
CONSTANTS
    s1 = s1
    s2 = s2
    s3 = s3
    s4 = s4
    a1 = a1
    c1 = c1
    c2 = c2
    NoArena = NoArena
    NoStream = NoStream
    Streams <- MCStreams
    Arenas <- MCArenas
    ChunkArenas <- MCChunkArenas
    Bytes <- MCBytes
    MaxSubmissions = 2
    MaxPendingBytes = 4
    MaxStreamBytes = 5
    MaxInFlight = 2
    Callers = {c1, c2}
    WriteOutcomes = {"ok", "lost"}
INVARIANTS
    CompletionCoversPrefix
    DispatchFIFO
    ArenaExclusive
    SchedulerInvariant
PROPERTIES
    NeverReplayed
    EveryStreamSettles
    EveryReceiptSettles
    KeepsContract
CHECK_DEADLOCK FALSE
