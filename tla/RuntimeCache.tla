----------------------------- MODULE RuntimeCache -----------------------------
(***************************************************************************)
(* The device worker's ownership of native resources in the Vulkan driver  *)
(* (crates/vulkan-sgfx/src/runtime.rs, with the operations of resources.rs *)
(* and images.rs that use it and run_device_operation of api.rs).          *)
(*                                                                         *)
(* The worker runs one operation at a time.  Destroyed buffers go to a     *)
(* bounded cache, to be handed out again once the submissions accepted     *)
(* before their destruction completed; destroyed images wait in a batch.   *)
(* Releasing either for good waits until nothing is in flight, and when    *)
(* no Vulkan object is left the whole resource table is replaced.  The     *)
(* completion thread retires submissions in order at the same time.        *)
(***************************************************************************)
EXTENDS Integers, Sequences, FiniteSets

CONSTANTS
    Handles,        \* VkBuffer handles
    Memories,       \* VkDeviceMemory handles, bound to at offset 0
    Images,         \* VkImage handles
    Sizes,          \* buffer descriptions, told apart by their size
    MaxBuffers,     \* ir::MAX_BUFFERS, of handles and of the table
    CacheCapacity,  \* BUFFER_CACHE_CAPACITY
    CacheBytes,     \* BUFFER_CACHE_BYTES
    RetirementBatch, \* IMAGE_RETIREMENT_BATCH
    MaxIds,         \* bound: identities defined in the table
    MaxSubmitted    \* bound: submissions

ASSUME CacheAssumption ==
    /\ Sizes \subseteq Nat \ {0}
    /\ MaxBuffers \in Nat /\ CacheCapacity \in Nat \ {0} /\ CacheBytes \in Nat
    /\ RetirementBatch \in Nat \ {0} /\ MaxIds \in Nat /\ MaxSubmitted \in Nat
    /\ "unbound" \notin Memories   \* stands for no memory

Unbound == "unbound"
NoBuffer == [id |-> 0, bound |-> Unbound]

VARIABLES
    buffers,    \* Resources::buffers: [id, bound] of a live handle
    images,     \* Resources::images: the identity, 0 for none
    table,      \* ir::ResourceTable: the size of every defined buffer
    textures,   \* ir::ResourceTable: the defined textures
    cached,     \* Runtime::cached_buffers
    cachedBytes, \* Runtime::cached_buffer_bytes
    retired,    \* Runtime::retired_images
    runtimeLost, \* Driver::lost
    worker,     \* the operation under way and where it stands
    submitted,  \* InFlight::submitted
    gpu,        \* submissions in flight: the identities each one uses
    nextId,     \* the next identity of the table
    wasBound,   \* handles bound to memory since their creation (history)
    released    \* identities released by the backend (history)

runtimeObjects == <<buffers, images, wasBound>>
tableVars == <<table, textures, nextId>>
cacheVars == <<cached, cachedBytes>>
runtimeVars == <<runtimeObjects, tableVars, cacheVars, retired, runtimeLost, worker,
                 submitted, gpu, released>>

(* Completion is observed in order of submission: InFlight::completed.     *)
completed == submitted - Len(gpu)

Live == {h \in Handles : buffers[h] # NoBuffer}
LiveImages == {i \in Images : images[i] # 0}
LiveIds == {buffers[h].id : h \in Live}
CachedIds == {cached[k].id : k \in 1..Len(cached)}
RetiredIds == {retired[k] : k \in 1..Len(retired)}

WithoutKeys(f, S) == [x \in DOMAIN f \ S |-> f[x]]
WithKey(f, x, y) == [z \in DOMAIN f \cup {x} |-> IF z = x THEN y ELSE f[z]]

-----------------------------------------------------------------------------
(* run_device_operation around every operation.                            *)

Op(kind, void, h, m, i, size, hs, is) ==
    [kind |-> kind, void |-> void, handle |-> h, memory |-> m, image |-> i,
     size |-> size, handles |-> hs, images |-> is]
None == "none"
NoOp == Op("none", TRUE, None, None, None, 0, {}, {})

Goto(stage) == worker' = [worker EXCEPT !.stage = stage]

(* The application has the worker run an operation; one that answers       *)
(* ("call") first releases the retired images.  A lost device refuses.     *)
Start(op) ==
    /\ worker.stage = "idle"
    /\ worker' = [stage |-> IF runtimeLost THEN "reclaim"
                            ELSE IF op.void \/ retired = << >> THEN "body"
                            ELSE "images",
                  op |-> op]
    /\ UNCHANGED <<runtimeObjects, tableVars, cacheVars, retired, runtimeLost, submitted, gpu,
                   released>>

(* InFlight::wait.                                                         *)
Idle == gpu = << >>
ReleaseFailed == runtimeLost' = TRUE

(* release_image_batch: the backend releases every texture, then the table *)
(* forgets them.  After a failure nobody knows how far it came: some       *)
(* prefix is released, and table and batch stay as they are.               *)
ReleaseImages(next, failed) ==
    /\ Idle
    /\ \/ /\ released' = released \cup RetiredIds
          /\ textures' = textures \ RetiredIds
          /\ retired' = << >>
          /\ UNCHANGED runtimeLost
          /\ Goto(next)
       \/ /\ \E n \in 0..Len(retired) :
                released' = released \cup {retired[k] : k \in 1..n}
          /\ ReleaseFailed
          /\ Goto(failed)
          /\ UNCHANGED <<textures, retired>>
    /\ UNCHANGED <<runtimeObjects, table, nextId, cacheVars, submitted, gpu>>

FlushBefore == worker.stage = "images" /\ ReleaseImages("body", "reclaim")

(* The batch is released once it is large enough.                          *)
FlushAfter ==
    /\ worker.stage = "after"
    /\ Len(retired) >= RetirementBatch
    /\ ReleaseImages("reclaim", "reclaim")

NoFlushAfter ==
    /\ worker.stage = "after"
    /\ Len(retired) < RetirementBatch
    /\ Goto("reclaim")
    /\ UNCHANGED <<runtimeObjects, tableVars, cacheVars, retired, runtimeLost, submitted, gpu,
                   released>>

EpochOver == retired = << >> /\ Live = {} /\ LiveImages = {} /\ gpu = << >>

(* reclaim_idle_resources: the backend drops all it holds with its table,  *)
(* unless no new one can be made.                                          *)
Reclaim ==
    /\ worker.stage = "reclaim"
    /\ \/ /\ EpochOver
          /\ table' = [x \in {} |-> 0] /\ textures' = {}
          /\ cached' = << >> /\ cachedBytes' = 0
          /\ released' = released \cup DOMAIN table \cup textures
          /\ UNCHANGED runtimeLost
       \/ /\ EpochOver
          /\ runtimeLost' = TRUE
          /\ UNCHANGED <<table, textures, cacheVars, released>>
       \/ /\ ~EpochOver
          /\ UNCHANGED <<table, textures, cacheVars, released, runtimeLost>>
    /\ worker' = [stage |-> "idle", op |-> NoOp]
    /\ UNCHANGED <<runtimeObjects, nextId, retired, submitted, gpu>>

-----------------------------------------------------------------------------
(* Runtime::flush_cached_buffers, in three places of other operations.     *)

(* Every cached buffer is released by the backend, then by the table; a    *)
(* failure, some prefix into it, keeps the cache and loses the device.     *)
FlushCached(next) ==
    /\ Idle
    /\ \/ /\ released' = released \cup CachedIds
          /\ table' = WithoutKeys(table, CachedIds)
          /\ cached' = << >> /\ cachedBytes' = 0
          /\ Goto(next)
          /\ UNCHANGED runtimeLost
       \/ /\ \E n \in 0..Len(cached) :
                released' = released \cup {cached[k].id : k \in 1..n}
          /\ ReleaseFailed
          /\ Goto("after")
          /\ UNCHANGED <<table, cacheVars>>
    /\ UNCHANGED <<runtimeObjects, textures, nextId, retired, submitted, gpu>>

FlushForDefinition == worker.stage = "pressure" /\ FlushCached("define")
FlushForCaching == worker.stage = "evict" /\ FlushCached("cache")
FlushOversize == worker.stage = "oversize" /\ FlushCached("rest")

-----------------------------------------------------------------------------
(* vkCreateBuffer: Runtime::allocate_buffer.                               *)

Publish(h, id) ==
    buffers' = [buffers EXCEPT ![h] = [id |-> id, bound |-> Unbound]]

(* Mutant: a buffer is taken back as soon as its packets are submitted.    *)
MutantReusable(c) == c.after <= submitted
Reusable(c) == c.after <= completed

Candidates(size) ==
    {k \in 1..Len(cached) : cached[k].size = size /\ Reusable(cached[k])}

(* Vec::swap_remove.                                                       *)
SwapRemove(s, k) == [j \in 1..Len(s) - 1 |-> IF j = k THEN s[Len(s)] ELSE s[j]]

BytesWithout(c) == cachedBytes - c.size

CanDefine == Cardinality(DOMAIN table) < MaxBuffers

Creating == worker.stage = "body" /\ worker.op.kind = "create"

CreateRefused ==
    /\ Creating
    /\ \/ Cardinality(Live) >= MaxBuffers
       \/ Candidates(worker.op.size) = {} /\ ~CanDefine /\ cached = << >>
    /\ Goto("after")
    /\ UNCHANGED <<runtimeObjects, tableVars, cacheVars, retired, runtimeLost, submitted, gpu,
                   released>>

CreateFromCache ==
    /\ Creating
    /\ Cardinality(Live) < MaxBuffers
    /\ LET found == Candidates(worker.op.size)
           k == CHOOSE j \in found : \A m \in found : j <= m
       IN  /\ found # {}
           /\ Publish(worker.op.handle, cached[k].id)
           /\ cachedBytes' = BytesWithout(cached[k])
           /\ cached' = SwapRemove(cached, k)
    /\ Goto("after")
    /\ UNCHANGED <<images, wasBound, tableVars, retired, runtimeLost, submitted, gpu,
                   released>>

CreateUnderPressure ==
    /\ Creating
    /\ Cardinality(Live) < MaxBuffers
    /\ Candidates(worker.op.size) = {} /\ ~CanDefine /\ cached # << >>
    /\ Goto("pressure")
    /\ UNCHANGED <<runtimeObjects, tableVars, cacheVars, retired, runtimeLost, submitted, gpu,
                   released>>

CreateByDefinition ==
    /\ \/ worker.stage = "define"
       \/ /\ Creating
          /\ Cardinality(Live) < MaxBuffers
          /\ Candidates(worker.op.size) = {}
    /\ CanDefine
    /\ table' = WithKey(table, nextId, worker.op.size)
    /\ nextId' = nextId + 1
    /\ Publish(worker.op.handle, nextId)
    /\ Goto("after")
    /\ UNCHANGED <<images, wasBound, textures, cacheVars, retired, runtimeLost,
                   submitted, gpu, released>>

-----------------------------------------------------------------------------
(* vkDestroyBuffer and the alias of vkBindBufferMemory: cache_buffer.      *)

CachedId == buffers[worker.op.handle].id

(* Mutant: an identity another handle shares is cached, too.               *)
MutantShared(h) == FALSE
Shared(h) == \E g \in Live \ {h} : buffers[g].id = buffers[h].id

BoundTo(m) == {g \in Live : buffers[g].bound = m}

(* An equal range of the memory is already bound: the handle takes over    *)
(* the identity that has it.  Everything bound to a memory shares one.     *)
Aliases(h, m) ==
    {g \in BoundTo(m) : table[buffers[g].id] = table[buffers[h].id]}

(* What is left to do once the identity is cached.                         *)
Rest ==
    /\ worker.stage = "rest"
    /\ LET h == worker.op.handle IN
       IF worker.op.kind = "destroy"
       THEN /\ buffers' = [buffers EXCEPT ![h] = NoBuffer]
            /\ wasBound' = wasBound \ {h}
       ELSE /\ \E g \in BoundTo(worker.op.memory) :
                  buffers' = [buffers EXCEPT ![h] =
                       [id |-> buffers[g].id, bound |-> worker.op.memory]]
            /\ wasBound' = wasBound \cup {h}
    /\ Goto("after")
    /\ UNCHANGED <<images, tableVars, cacheVars, retired, runtimeLost, submitted, gpu,
                   released>>

Full(size) == Len(cached) = CacheCapacity \/ cachedBytes + size > CacheBytes

MakeRoom ==
    Goto(IF Full(table[CachedId]) /\ cached # << >> THEN "evict" ELSE "cache")

DestroyBuffer ==
    /\ worker.stage = "body"
    /\ worker.op.kind = "destroy"
    /\ IF Shared(worker.op.handle) THEN Goto("rest") ELSE MakeRoom
    /\ UNCHANGED <<runtimeObjects, tableVars, cacheVars, retired, runtimeLost, submitted, gpu,
                   released>>

(* The submissions accepted so far, which may use the buffer.              *)
Watermark == submitted

CacheBuffer ==
    /\ worker.stage = "cache"
    /\ LET size == table[CachedId] IN
       /\ cached' = Append(cached, [id |-> CachedId, size |-> size,
                                    after |-> Watermark])
       /\ cachedBytes' = cachedBytes + size
       /\ Goto(IF cachedBytes + size > CacheBytes THEN "oversize" ELSE "rest")
    /\ UNCHANGED <<runtimeObjects, tableVars, retired, runtimeLost, submitted, gpu, released>>

(* vkBindBufferMemory; Vulkan never binds a buffer twice (valid usage).    *)
BindBuffer ==
    /\ worker.stage = "body"
    /\ worker.op.kind = "bind"
    /\ LET h == worker.op.handle
           m == worker.op.memory
       IN  \/ /\ Aliases(h, m) # {}
              /\ MakeRoom
              /\ UNCHANGED <<buffers, wasBound>>
           \/ /\ BoundTo(m) = {}
              /\ buffers' = [buffers EXCEPT ![h].bound = m]
              /\ wasBound' = wasBound \cup {h}
              /\ Goto("after")
           \/ /\ BoundTo(m) # {} /\ Aliases(h, m) = {}
              /\ Goto("after")
              /\ UNCHANGED <<buffers, wasBound>>
    /\ UNCHANGED <<images, tableVars, cacheVars, retired, runtimeLost, submitted, gpu,
                   released>>

FreeMemory ==
    /\ worker.stage = "body"
    /\ worker.op.kind = "free"
    /\ buffers' = [h \in Handles |->
                     IF h \in Live /\ buffers[h].bound = worker.op.memory
                     THEN [buffers[h] EXCEPT !.bound = Unbound] ELSE buffers[h]]
    /\ Goto("after")
    /\ UNCHANGED <<images, wasBound, tableVars, cacheVars, retired, runtimeLost,
                   submitted, gpu, released>>

-----------------------------------------------------------------------------
(* Images, and the execution of a packet.                                  *)

CreateImage ==
    /\ worker.stage = "body"
    /\ worker.op.kind = "image"
    /\ textures' = textures \cup {nextId}
    /\ images' = [images EXCEPT ![worker.op.image] = nextId]
    /\ nextId' = nextId + 1
    /\ Goto("after")
    /\ UNCHANGED <<buffers, wasBound, table, cacheVars, retired, runtimeLost, submitted,
                   gpu, released>>

(* retire_image.                                                           *)
RetireImage ==
    /\ worker.stage = "body"
    /\ worker.op.kind = "retire"
    /\ retired' = Append(retired, images[worker.op.image])
    /\ images' = [images EXCEPT ![worker.op.image] = 0]
    /\ Goto("after")
    /\ UNCHANGED <<buffers, wasBound, tableVars, cacheVars, runtimeLost, submitted, gpu,
                   released>>

(* The recordings' handles are resolved to identities and executed.        *)
ExecutePacket ==
    /\ worker.stage = "body"
    /\ worker.op.kind = "execute"
    /\ gpu' = Append(gpu, {buffers[h].id : h \in worker.op.handles}
                          \cup {images[i] : i \in worker.op.images})
    /\ submitted' = submitted + 1
    /\ Goto("after")
    /\ UNCHANGED <<runtimeObjects, tableVars, cacheVars, retired, runtimeLost, released>>

(* Everything the packet submitted was waited for before the error.        *)
ExecutionFails ==
    /\ worker.stage = "body"
    /\ worker.op.kind = "execute"
    /\ runtimeLost' = TRUE
    /\ Goto("after")
    /\ UNCHANGED <<runtimeObjects, tableVars, cacheVars, retired, submitted, gpu,
                   released>>

(* The completion thread: finish_submissions of the oldest packet.         *)
Complete ==
    /\ gpu # << >>
    /\ gpu' = Tail(gpu)
    /\ runtimeLost' \in {runtimeLost, TRUE}
    /\ UNCHANGED <<runtimeObjects, tableVars, cacheVars, retired, worker, submitted,
                   released>>

-----------------------------------------------------------------------------
RuntimeInit ==
    /\ buffers = [h \in Handles |-> NoBuffer]
    /\ images = [i \in Images |-> 0]
    /\ table = [x \in {} |-> 0] /\ textures = {} /\ nextId = 1
    /\ cached = << >> /\ cachedBytes = 0
    /\ retired = << >>
    /\ runtimeLost = FALSE
    /\ worker = [stage |-> "idle", op |-> NoOp]
    /\ submitted = 0 /\ gpu = << >>
    /\ wasBound = {} /\ released = {}

(* The requests of the application: new handles get the unused ones.       *)
RequestStep ==
    \/ /\ nextId <= MaxIds
       /\ \E h \in Handles \ Live, size \in Sizes :
             Start(Op("create", FALSE, h, None, None, size, {}, {}))
    \/ /\ nextId <= MaxIds
       /\ \E i \in Images \ LiveImages :
             Start(Op("image", FALSE, None, None, i, 0, {}, {}))
    \/ \E h \in Live : Start(Op("destroy", TRUE, h, None, None, 0, {}, {}))
    \/ \E i \in LiveImages : Start(Op("retire", TRUE, None, None, i, 0, {}, {}))
    \/ \E h \in Live \ wasBound, m \in Memories :
          Start(Op("bind", FALSE, h, m, None, 0, {}, {}))
    \/ \E m \in Memories : Start(Op("free", FALSE, None, m, None, 0, {}, {}))
    \/ /\ submitted < MaxSubmitted
       /\ \E hs \in SUBSET {h \in Live : buffers[h].bound # Unbound},
             is \in SUBSET LiveImages :
             Start(Op("execute", FALSE, None, None, None, 0, hs, is))

WorkerStep ==
    \/ FlushBefore \/ FlushAfter \/ NoFlushAfter \/ Reclaim
    \/ FlushForDefinition \/ FlushForCaching \/ FlushOversize
    \/ CreateRefused \/ CreateFromCache \/ CreateUnderPressure
    \/ CreateByDefinition \/ DestroyBuffer \/ CacheBuffer \/ Rest
    \/ BindBuffer \/ FreeMemory \/ CreateImage \/ RetireImage
    \/ ExecutePacket \/ ExecutionFails

RuntimeNext == RequestStep \/ WorkerStep \/ Complete

RuntimeSpec == RuntimeInit /\ [][RuntimeNext]_runtimeVars

(* The worker runs, and the completion thread observes every receipt.      *)
RuntimeFairness == WF_runtimeVars(WorkerStep) /\ WF_runtimeVars(Complete)

FairRuntimeSpec == RuntimeSpec /\ RuntimeFairness

-----------------------------------------------------------------------------
(* Properties.                                                             *)

InFlightIds == UNION {gpu[k] : k \in 1..Len(gpu)}

(* A buffer handed out by vkCreateBuffer is not used by any submission in  *)
(* flight, although destruction never waits for the GPU ("Reuse never      *)
(* races an accepted GPU submission").                                     *)
ReuseAfterRetirement ==
    [][\A h \in Handles :
          buffers[h] = NoBuffer /\ buffers'[h] # NoBuffer =>
              buffers'[h].id \notin InFlightIds]_runtimeVars

(* The backend never releases a resource a submission in flight uses:      *)
(* neither by a flush nor at the end of an epoch.                          *)
ReleaseAfterRetirement ==
    [][(released' \ released) \cap InFlightIds = {}]_runtimeVars

(* What the next operation may find, live or cached, the backend has not   *)
(* released: after a batch that failed half way, whose prefix is gone, the *)
(* identities that are kept are never used again.                          *)
NothingReleasedIsLive ==
    worker.stage \in {"idle", "body"} /\ ~runtimeLost =>
        (LiveIds \cup {images[i] : i \in LiveImages} \cup CachedIds)
            \cap released = {}

(* Between operations a working device accounts for every identity of its  *)
(* table exactly once: live (perhaps under several aliases), cached or     *)
(* waiting for release.  Nothing leaks and nothing is owned twice.         *)
EveryIdentityIsOwned ==
    worker.stage = "idle" /\ ~runtimeLost =>
        /\ DOMAIN table = LiveIds \cup CachedIds
        /\ LiveIds \cap CachedIds = {}
        /\ Cardinality(CachedIds) = Len(cached)
        /\ textures = {images[i] : i \in LiveImages} \cup RetiredIds

(* The bytes of a sequence of cached buffers.                              *)
BytesOf(buffersKept) ==
    LET sum[k \in 0..Len(buffersKept)] ==
          IF k = 0 THEN 0 ELSE sum[k - 1] + buffersKept[k].size
    IN  sum[Len(buffersKept)]

(* Between operations the cache respects its two limits, its byte count is *)
(* exact, and fewer images than a batch wait for release.                  *)
CacheWithinBudget ==
    worker.stage = "idle" /\ ~runtimeLost =>
        /\ Len(cached) <= CacheCapacity
        /\ cachedBytes <= CacheBytes
        /\ cachedBytes = BytesOf(cached)
        /\ Len(retired) < RetirementBatch

(* The invariant of the worker's ownership of native resources (Runtime,   *)
(* its cache of destroyed buffers and its batch of retired images).        *)
CacheInvariant == NothingReleasedIsLive /\ EveryIdentityIsOwned /\ CacheWithinBudget

(* Neither reuse nor release overtakes the GPU.                            *)
RetirementComesFirst == ReuseAfterRetirement /\ ReleaseAfterRetirement

=============================================================================
