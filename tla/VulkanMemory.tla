---------------------------- MODULE VulkanMemory ----------------------------
(* Device memory of the Vulkan frontend.                                    *)
(*                                                                          *)
(* An allocation is host bytes only (`AlignedBytes`); the device computes   *)
(* on SGFX buffers with storage of their own.  A bound buffer is uploaded   *)
(* from the host bytes before a recording that uses it and what the device  *)
(* wrote is read back into them afterwards.  Uploads of unmapped memory are *)
(* remembered and not repeated.  The module checks that this imitates one   *)
(* memory.  A cell stands for 256 bytes, the binding alignment, so padding  *)
(* to whole dwords is not visible here.                                     *)
EXTENDS Naturals, Sequences, FiniteSets, FiniteSetsExt, SequencesExt, Functions, Absent

CONSTANTS
  Memories, Buffers, Images,
  MemorySize, BufferSize, ImageSize,  \* cells of each
  Targets,               \* what allocations are dedicated to, None among them
  Usage,                 \* [Buffers -> SUBSET {"src", "dst", "vertex", "uniform", "storage"}]
  MaxAllocations,        \* MAX_MEMORY_ALLOCATIONS
  HeapSize,              \* memory_budget::heap_size, in cells
  Immediate,             \* capabilities.supports_immediate_buffer_readback
  HostRaces,             \* the host writes bytes a shader could but does not write
  MaxWrites,             \* bound: values written by host and device
  MaxAccepted            \* bound: operations pending when a recording begins

BindOffsets == 0..Max({MemorySize[m] : m \in Memories}) - 1
CellsOf(b) == 1..BufferSize[b]

ASSUME MemoryAssumption ==
  /\ Immediate \in BOOLEAN /\ HostRaces \in BOOLEAN
  /\ \A m \in Memories : MemorySize[m] \in Nat \ {0}
  /\ \A b \in Buffers : BufferSize[b] \in Nat \ {0}
  /\ \A i \in Images : ImageSize[i] \in Nat \ {0}

VARIABLES
  memories,    \* handle -> Memory, None when not allocated
  dedicated,   \* dedicated_allocations
  buffers,     \* handle -> Buffer
  images,      \* handle -> Image
  uploaded,    \* uploaded_unmapped_buffers
  work,        \* the recording execute is busy with
  accepted,    \* operations the device has not performed yet, oldest first
  storage,     \* contents of the SGFX buffers
  memoryLost,  \* Runtime::lost
  truth,       \* history: what one coherent memory would hold
  writes,      \* history: values written so far
  spent        \* history: handles destroyed or left without their memory

memoryVars == <<memories, dedicated, buffers, images, uploaded, work, accepted,
                storage, memoryLost, truth, writes, spent>>
objectVars == <<work, accepted, storage, memoryLost, writes>>

Unwritten == 0
MaxSize == Max({BufferSize[b] : b \in Buffers})
AllCells == 1..Max({MemorySize[m] : m \in Memories})

-----------------------------------------------------------------------------
(* Objects.  Everything runs on the device worker, between recordings.      *)

Idle == work = None /\ ~memoryLost

\* Cells of the allocation under the cells of a bound buffer.
Place(b, cells) == {buffers[b].bound.offset + c : c \in cells}
BoundTo(x, m) == x # None /\ x.bound # None /\ x.bound.memory = m
Extent(x, size) == (x.bound.offset + 1)..(x.bound.offset + size)

Overlaps(x, size, m, range) == BoundTo(x, m) /\ Extent(x, size) \cap range # {}

MemoryAvailable(m, offset, size) ==
  LET range == (offset + 1)..(offset + size)
  IN  /\ offset + size <= MemorySize[m]
      /\ \A b \in Buffers : ~Overlaps(buffers[b], BufferSize[b], m, range)
      /\ \A i \in Images : ~Overlaps(images[i], ImageSize[i], m, range)

ForgetUploads(m) == {b \in uploaded : buffers[b].bound.memory # m}

\* A handle is never used again.  Its SGFX identity may be a recycled one: it
\* holds whatever an earlier buffer left there.
Garbage == MaxWrites + 1

CreateBuffer(b) ==
  /\ Idle /\ buffers[b] = None /\ b \notin spent
  /\ buffers' = [buffers EXCEPT ![b] = [id |-> b, bound |-> None]]
  /\ UNCHANGED <<memories, dedicated, images, uploaded, truth, spent, objectVars>>

\* The backing goes to the cache unless an alias still owns it.
DestroyBuffer(b) ==
  /\ Idle /\ buffers[b] # None
  /\ buffers' = [buffers EXCEPT ![b] = None]
  /\ uploaded' = uploaded \ {b}
  /\ spent' = spent \cup {b}
  /\ UNCHANGED <<memories, dedicated, images, truth, objectVars>>

\* retire_image: the handle and its binding go at once.  An image that is not
\* bound and one that does not exist are the same to this module.
DestroyImage(i) ==
  /\ Idle /\ images[i].bound # None
  /\ images' = [images EXCEPT ![i].bound = None]
  /\ UNCHANGED <<memories, dedicated, buffers, uploaded, truth, spent, objectVars>>

-----------------------------------------------------------------------------
(* Allocations.                                                             *)

Target(k, x) == [kind |-> k, of |-> x]

AllocationSize(t) ==
  CASE t.kind = "buffer" /\ buffers[t.of] # None -> BufferSize[t.of]
    [] t.kind = "image" -> ImageSize[t.of]
    [] OTHER -> 0

Allocated == MapThenSumSet(LAMBDA m : MemorySize[m], {m \in Memories : memories[m] # None})

AllocateMemory(m, target) ==
  /\ Idle /\ memories[m] = None /\ m \notin spent
  /\ target # None => AllocationSize(target) = MemorySize[m]
  /\ Cardinality({x \in Memories : memories[x] # None}) < MaxAllocations
  /\ Allocated + MemorySize[m] <= HeapSize
  /\ memories' = [memories EXCEPT ![m] =
       [materialized |-> FALSE, mapped |-> FALSE, hostWritten |-> FALSE,
        bytes |-> [c \in 1..MemorySize[m] |-> Unwritten]]]
  /\ dedicated' = [dedicated EXCEPT ![m] = target]
  /\ truth' = [truth EXCEPT ![m] = [c \in AllCells |-> Unwritten]]
  /\ UNCHANGED <<buffers, images, uploaded, spent, objectVars>>

\* Valid usage: a buffer or image of freed memory is not bound again.
FreeMemory(m) ==
  /\ Idle /\ memories[m] # None
  /\ memories' = [memories EXCEPT ![m] = None]
  /\ dedicated' = [dedicated EXCEPT ![m] = None]
  /\ uploaded' = ForgetUploads(m)
  /\ buffers' = [b \in Buffers |-> IF BoundTo(buffers[b], m) THEN [buffers[b] EXCEPT !.bound = None]
                                   ELSE buffers[b]]
  /\ images' = [i \in Images |-> IF BoundTo(images[i], m) THEN [images[i] EXCEPT !.bound = None]
                                 ELSE images[i]]
  /\ spent' = spent \cup {m} \cup {b \in Buffers : BoundTo(buffers[b], m)}
  /\ UNCHANGED <<truth, objectVars>>

Permits(m, target, offset) == dedicated[m] # None => offset = 0 /\ dedicated[m] = target

Aliases(b, m, offset) ==
  {x \in Buffers \ {b} : /\ BoundTo(buffers[x], m) /\ buffers[x].bound.offset = offset
                         /\ BufferSize[x] = BufferSize[b]}

AliasId(b, alias) == buffers[alias].id

BindAlias(b, m, offset) ==
  \E alias \in Aliases(b, m, offset) :
    /\ Usage[b] \subseteq Usage[alias]
    /\ buffers' = [buffers EXCEPT ![b] = [id |-> AliasId(b, alias), bound |-> [memory |-> m, offset |-> offset]]]
    /\ UNCHANGED <<memories, truth>>

\* Contents of memory that was never mapped live in the SGFX buffer alone: a
\* buffer bound there later starts without them.
BindFresh(b, m, offset) ==
  LET range == (offset + 1)..(offset + BufferSize[b])
  IN  /\ Aliases(b, m, offset) = {}
      /\ MemoryAvailable(m, offset, BufferSize[b])
      /\ buffers' = [buffers EXCEPT ![b].bound = [memory |-> m, offset |-> offset]]
      /\ memories' = [memories EXCEPT ![m].materialized = TRUE]
      /\ truth' = IF memories[m].hostWritten THEN truth
                  ELSE [truth EXCEPT ![m] = [c \in AllCells |-> IF c \in range THEN Unwritten ELSE @[c]]]

BindBufferMemory(b, m, offset) ==
  /\ Idle /\ buffers[b] # None /\ memories[m] # None /\ b \notin spent
  /\ buffers[b].bound = None
  /\ Permits(m, Target("buffer", b), offset)
  /\ BindAlias(b, m, offset) \/ BindFresh(b, m, offset)
  /\ UNCHANGED <<dedicated, images, uploaded, spent, objectVars>>

\* An image over memory leaves what buffers wrote there undefined.
BindImageMemory(i, m, offset) ==
  /\ Idle /\ memories[m] # None
  /\ Permits(m, Target("image", i), offset)
  /\ MemoryAvailable(m, offset, ImageSize[i])
  /\ images[i].bound = None
  /\ images' = [images EXCEPT ![i].bound = [memory |-> m, offset |-> offset]]
  /\ UNCHANGED <<memories, dedicated, buffers, uploaded, truth, spent, objectVars>>

-----------------------------------------------------------------------------
(* Mapping.                                                                 *)

Mapped(m) == ForgetUploads(m)

MapMemory(m) ==
  /\ Idle /\ memories[m] # None /\ ~memories[m].mapped
  /\ memories' = [memories EXCEPT ![m].materialized = TRUE, ![m].mapped = TRUE, ![m].hostWritten = TRUE]
  /\ uploaded' = Mapped(m)
  /\ UNCHANGED <<dedicated, buffers, images, truth, spent, objectVars>>

UnmapMemory(m) ==
  /\ Idle /\ memories[m] # None /\ memories[m].mapped
  /\ memories' = [memories EXCEPT ![m].mapped = FALSE]
  /\ UNCHANGED <<dedicated, buffers, images, uploaded, truth, spent, objectVars>>

\* Cells of m that the recording at work reads, and that it may write.
Reading(m) == UNION {Place(r.buffer, r.cells) : r \in {x \in work.reads : buffers[x.buffer].bound.memory = m}}
Writing(m) == UNION {Place(r.buffer, r.cells) : r \in {x \in work.readback : buffers[x.buffer].bound.memory = m}}
WrittenCells(m) == UNION {Place(r.buffer, r.cells) : r \in {x \in work.written : buffers[x.buffer].bound.memory = m}}

\* The application, on its own thread, through the mapped pointer.  It does
\* not touch what the device uses at that time.
HostWrite(m, c) ==
  /\ ~memoryLost /\ memories[m] # None /\ memories[m].mapped
  /\ writes + (IF work = None THEN 0 ELSE Len(work.cmds)) < MaxWrites
  /\ work # None => c \notin Reading(m) \cup (IF HostRaces THEN WrittenCells(m) ELSE Writing(m))
  /\ memories' = [memories EXCEPT ![m].bytes[c] = writes + 1]
  /\ truth' = [truth EXCEPT ![m][c] = writes + 1]
  /\ writes' = writes + 1
  /\ UNCHANGED <<dedicated, buffers, images, uploaded, work, accepted, storage, memoryLost, spent>>

-----------------------------------------------------------------------------
(* What a recording uses.  A command is a record of the buffer and the      *)
(* cells it is about; `from` is the source of a copy and `touched` what a   *)
(* shader really reads and writes of its storage range.                     *)

Use(b, cells) == [buffer |-> b, cells |-> cells]
WholeUse(b) == Use(b, CellsOf(b))

BoundWith(b, use) == buffers[b] # None /\ buffers[b].bound # None /\ use \in Usage[b]

Ranges(b) == {l..h : l \in CellsOf(b), h \in CellsOf(b)} \ {{}}

Command(k, b, cells, touched) ==
  [k |-> k, buffer |-> b, cells |-> cells, touched |-> touched, from |-> None, origin |-> 0]

\* The recorder refuses a copy within one SGFX buffer.
Copies(b) ==
  UNION {{[Command("copy", b, {c}, {c}) EXCEPT !.from = s, !.origin = o] : c \in CellsOf(b), o \in CellsOf(s)}
         : s \in {x \in Buffers : BoundWith(x, "src") /\ buffers[x].id # buffers[b].id}}

CommandsOn(b) ==
     (IF BoundWith(b, "dst") THEN {Command("fill", b, r, r) : r \in Ranges(b)} \cup Copies(b) ELSE {})
  \cup (IF BoundWith(b, "vertex") THEN {Command("vertex", b, CellsOf(b), {})} ELSE {})
  \cup (IF BoundWith(b, "uniform") THEN {Command("uniform", b, r, {}) : r \in Ranges(b)} ELSE {})
  \cup (IF BoundWith(b, "storage")
         THEN UNION {{Command("storage", b, r, w) : w \in SUBSET r} : r \in Ranges(b)} ELSE {})

Commands == UNION {CommandsOn(b) : b \in Buffers}

\* One command, or a write and a use of it in one recording.
Recordings ==
  {<<c>> : c \in Commands}
  \cup ({c \in Commands : c.k = "fill"} \X {c \in Commands : c.k \in {"copy", "vertex"}})

\* collect: whole uses, sources of copies, ranges of descriptors.
Uploads(cmd) ==
  CASE cmd.k \in {"fill", "vertex"} -> {WholeUse(cmd.buffer)}
    [] cmd.k = "copy" -> {Use(cmd.from, {cmd.origin})}
    [] OTHER -> {Use(cmd.buffer, cmd.cells)}

Readbacks(cmd) == IF cmd.k \in {"fill", "copy", "storage"} THEN {Use(cmd.buffer, cmd.cells)} ELSE {}

Reads(cmd) ==
  CASE cmd.k = "fill" -> {}
    [] cmd.k = "copy" -> {Use(cmd.from, {cmd.origin})}
    [] cmd.k = "storage" -> {Use(cmd.buffer, cmd.touched)}
    [] OTHER -> {Use(cmd.buffer, cmd.cells)}

-----------------------------------------------------------------------------
(* execute: upload, submit, wait, read back.                                *)

UploadedBy(cmds) == UNION {Uploads(cmds[n]) : n \in DOMAIN cmds}
Collected(cmds, b) == UNION {u.cells : u \in {x \in UploadedBy(cmds) : x.buffer = b}}

MemoryOf(b) == memories[buffers[b].bound.memory]

(* Mutant: unmapped memory is taken for uploaded without looking.           *)
MutantSkipped(b) == ~MemoryOf(b).hostWritten \/ ~MemoryOf(b).mapped

Skipped(b) == ~MemoryOf(b).hostWritten \/ (~MemoryOf(b).mapped /\ b \in uploaded)

IsFull(b, cells) == cells = CellsOf(b)

SnapshotOf(cmds) == {b \in Buffers : Collected(cmds, b) # {} /\ ~Skipped(b)}
Fresh(cmds) ==
  {b \in SnapshotOf(cmds) : ~MemoryOf(b).mapped /\ IsFull(b, Collected(cmds, b))}

\* An operation of the device: what it reads, with the value one memory would
\* give, and what it writes.
UploadOp(b, cells) ==
  [id |-> buffers[b].id, from |-> None, origin |-> 0, reads |-> {}, expect |-> <<>>,
   cells |-> cells, value |-> [c \in cells |-> MemoryOf(b).bytes[buffers[b].bound.offset + c]]]

TruthAt(t, b, cells) == [c \in cells |-> t[buffers[b].bound.memory][buffers[b].bound.offset + c]]

CommandOp(t, cmd, new) ==
  LET source == IF cmd.k = "copy" THEN cmd.from ELSE cmd.buffer
      cells  == UNION {r.cells : r \in Reads(cmd)}
  IN  [id |-> buffers[cmd.buffer].id,
       from |-> IF cmd.k = "copy" THEN buffers[cmd.from].id ELSE None, origin |-> cmd.origin,
       reads |-> {buffers[source].id} \X cells, expect |-> TruthAt(t, source, cells),
       cells |-> cmd.touched, value |-> [c \in cmd.touched |-> new]]

TruthAfter(t, cmd, new) ==
  LET at(c) == buffers[cmd.buffer].bound.offset + c
      value(c) == IF cmd.k = "copy" THEN TruthAt(t, cmd.from, {cmd.origin})[cmd.origin] ELSE new
  IN  [t EXCEPT ![buffers[cmd.buffer].bound.memory] =
         [x \in AllCells |-> IF \E c \in cmd.touched : at(c) = x
                             THEN value(CHOOSE c \in cmd.touched : at(c) = x) ELSE @[x]]]

Begin(cmds) ==
  /\ Idle /\ Len(accepted) <= MaxAccepted /\ writes + Len(cmds) <= MaxWrites
  /\ work' = [cmds |-> cmds, pc |-> "upload", fresh |-> {},
              reads |-> UNION {Reads(cmds[n]) : n \in DOMAIN cmds},
              readback |-> UNION {Readbacks(cmds[n]) : n \in DOMAIN cmds},
              written |-> {Use(cmds[n].buffer, cmds[n].touched) : n \in DOMAIN cmds}]
  /\ UNCHANGED <<memories, dedicated, buffers, images, uploaded, accepted, storage, memoryLost, truth, writes, spent>>

\* buffer_uploads::for_recording
Snapshot ==
  /\ work # None /\ work.pc = "upload"
  /\ accepted' = accepted \o SetToSeq({UploadOp(b, Collected(work.cmds, b)) : b \in SnapshotOf(work.cmds)})
  /\ work' = [work EXCEPT !.pc = "submit", !.fresh = Fresh(work.cmds)]
  /\ UNCHANGED <<memories, dedicated, buffers, images, uploaded, storage, memoryLost, truth, writes, spent>>

\* submit_owned: every operation in order; Busy is retried until accepted.
SubmitWork ==
  /\ work # None /\ work.pc = "submit"
  /\ LET n == Len(work.cmds)
         t[i \in 0..n] == IF i = 0 THEN truth ELSE TruthAfter(t[i-1], work.cmds[i], writes + i)
     IN  /\ accepted' = accepted \o [i \in 1..n |-> CommandOp(t[i-1], work.cmds[i], writes + i)]
         /\ truth' = t[n]
         /\ writes' = writes + n
  /\ work' = [work EXCEPT !.pc = "readback"]
  /\ UNCHANGED <<memories, dedicated, buffers, images, uploaded, storage, memoryLost, spent>>

\* One operation on the contents of the SGFX buffers.
Perform(s, op) ==
  [s EXCEPT ![op.id] = [c \in 1..MaxSize |->
     IF c \notin op.cells THEN s[op.id][c]
     ELSE IF op.from # None THEN s[op.from][op.origin] ELSE op.value[c]]]

\* The device catches up; when it does is only visible to a readback.
GpuStep ==
  /\ accepted # <<>>
  /\ storage' = FoldLeft(Perform, storage, accepted)
  /\ accepted' = <<>>
  /\ UNCHANGED <<memories, dedicated, buffers, images, uploaded, work, memoryLost, truth, writes, spent>>

\* Cache::read_buffer: native mirrors commit at acceptance, others at retirement.
ReadBuffer(id) == IF Immediate THEN FoldLeft(Perform, storage, accepted)[id] ELSE storage[id]

Readable == work.readback # {} /\ ~Immediate => accepted = <<>>

\* Uploads that the bytes read back make stale; the buffer read is current.
StaleUploads(done) ==
  {u \in done : \E r \in work.readback :
     /\ u # r.buffer /\ buffers[u].bound.memory = buffers[r.buffer].bound.memory
     /\ Place(u, CellsOf(u)) \cap Place(r.buffer, r.cells) # {}}

\* What the bytes of m become: every range read back at its place.
ReadInto(m) ==
  [c \in DOMAIN memories[m].bytes |->
     LET rs == {r \in work.readback : buffers[r.buffer].bound.memory = m /\ c \in Place(r.buffer, r.cells)}
     IN  IF rs = {} THEN memories[m].bytes[c]
         ELSE LET b == (CHOOSE r \in rs : TRUE).buffer
              IN  ReadBuffer(buffers[b].id)[c - buffers[b].bound.offset]]

FinishWork ==
  /\ work # None /\ work.pc = "readback" /\ Readable
  /\ memories' = [m \in Memories |-> IF memories[m] = None THEN None
                                     ELSE [memories[m] EXCEPT !.bytes = ReadInto(m)]]
  /\ LET done == uploaded \cup work.fresh IN uploaded' = done \ StaleUploads(done)
  /\ work' = None
  /\ UNCHANGED <<dedicated, buffers, images, accepted, storage, memoryLost, truth, writes, spent>>

\* A failing step: what was accepted is drained, nothing counts as uploaded.
FailWork ==
  /\ work # None /\ work.pc = "submit"
  /\ storage' = FoldLeft(Perform, storage, accepted)
  /\ accepted' = <<>>
  /\ uploaded' = {}
  /\ memoryLost' = TRUE
  /\ work' = None
  /\ UNCHANGED <<memories, dedicated, buffers, images, truth, writes, spent>>

-----------------------------------------------------------------------------
MemoryInit ==
  /\ memories = [m \in Memories |-> None]
  /\ dedicated = [m \in Memories |-> None]
  /\ buffers = [b \in Buffers |-> None]
  /\ images = [i \in Images |-> [bound |-> None]]
  /\ uploaded = {}
  /\ work = None
  /\ accepted = <<>>
  /\ storage = [id \in Buffers |-> [c \in 1..MaxSize |-> Garbage]]
  /\ memoryLost = FALSE
  /\ truth = [m \in Memories |-> [c \in AllCells |-> Unwritten]]
  /\ writes = 0
  /\ spent = {}

MemoryNext ==
  \/ \E b \in Buffers : CreateBuffer(b) \/ DestroyBuffer(b)
  \/ \E i \in Images : DestroyImage(i)
  \/ \E m \in Memories, t \in Targets : AllocateMemory(m, t)
  \/ \E m \in Memories : FreeMemory(m) \/ MapMemory(m) \/ UnmapMemory(m)
  \/ \E b \in Buffers, m \in Memories, o \in BindOffsets : BindBufferMemory(b, m, o)
  \/ \E i \in Images, m \in Memories, o \in BindOffsets : BindImageMemory(i, m, o)
  \/ \E m \in Memories : \E c \in 1..MemorySize[m] : HostWrite(m, c)
  \/ \E cmds \in Recordings : Begin(cmds)
  \/ Snapshot \/ SubmitWork \/ GpuStep \/ FinishWork \/ FailWork

MemorySpec == MemoryInit /\ [][MemoryNext]_memoryVars

-----------------------------------------------------------------------------
(* Properties.                                                              *)

\* Whatever buffer, alias, mapping or cached upload it goes through, a device
\* operation reads what was last written to the memory by host or device.
DeviceReadsMemory ==
  \A n \in DOMAIN accepted :
    LET op  == accepted[n]
        now == FoldLeft(Perform, storage, SubSeq(accepted, 1, n - 1))
    IN  \A r \in op.reads : op.expect[r[2]] # Unwritten => now[r[1]][r[2]] = op.expect[r[2]]

\* Between submissions the bytes the host sees are the memory: results of the
\* device have arrived and no write of the host was undone by a readback.
HostSeesMemory ==
  Idle => \A m \in Memories :
    memories[m] # None /\ memories[m].materialized =>
      \A c \in DOMAIN memories[m].bytes :
        truth[m][c] # Unwritten => memories[m].bytes[c] = truth[m][c]
=============================================================================
