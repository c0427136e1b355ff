------------------------------- MODULE Recorder -------------------------------
(***************************************************************************)
(* The command encoder of the IR (crates/sgfx-core/src/ir/command.rs and   *)
(* command/programmable_commands.rs) over the resource table.              *)
(*                                                                         *)
(* A call is validated against the table, the pass under way and the       *)
(* shader writes not yet covered by a barrier; a refused call changes      *)
(* nothing, so it is a guard here.  What is recorded is kept as the access *)
(* each command makes: the subresources it touches, the ones its shaders   *)
(* write and the ones a barrier orders.  The caller may drop the encoder   *)
(* at any time, and define and release resources between two calls.        *)
(***************************************************************************)
EXTENDS ResourceTable

CONSTANTS
    MaxCommands,    \* MAX_COMMANDS
    MaxTrace,       \* bound: commands that access resources
    MaxTableOps     \* bound: table operations between the calls

ASSUME RecorderAssumption == MaxCommands \in Nat

VARIABLES
    pass,       \* pass_open and the encoder: "none", "render", "compute",
                \* "finished", "dropped"
    count,      \* command_count
    pending,    \* pending_writes: subresources
    announced,  \* announced_accesses: subresource and access
    bound,      \* state of the pass encoder
    trace,      \* commands, as the accesses they make
    tableOps    \* bound: table operations so far

encoderVars == <<pass, count, pending, announced, bound, trace>>
recorderVars == <<tableVars, encoderVars, tableOps>>

(* A buffer, or one mip level of a texture.                                *)
Sub(id, mip) == [id |-> id, mip |-> mip]
Whole(id) ==
    IF id.kind = "buffer" THEN {Sub(id, 0)} ELSE {Sub(id, m) : m \in 0..(Desc(id).mips - 1)}
Everything == Sub(None, 0)

NothingBound ==
    [colors |-> <<>>, depth |-> None, readOnly |-> FALSE,
     fixed |-> 0, program |-> None, compute |-> None, group |-> None,
     vertex |-> None, index |-> None, texture |-> None, sampler |-> FALSE,
     uniforms |-> FALSE, used |-> {}]

-----------------------------------------------------------------------------
(* push: a slot is reserved for the end of an open pass; the accesses of   *)
(* the command consume the announcements of their resources.               *)

InPass == pass \in {"render", "compute"}
Room == count < MaxCommands - (IF InPass THEN 1 ELSE 0)

Entry(access, written, ordered, inPass) ==
    [access |-> access, written |-> written, ordered |-> ordered, pass |-> inPass]
Record(e) == trace' = Append(trace, e)
Consumed(ids) == {a \in announced : a.sub.id \notin ids}

Push == Room /\ count' = count + 1
Access(subs, ids) ==
    /\ Push
    /\ Len(trace) < MaxTrace
    /\ Record(Entry(subs, {}, {}, pass))
    /\ announced' = Consumed(ids)

(* check_buffer_access, check_texture_mip_access.                          *)
Allowed(sub, access) ==
    /\ sub \notin pending
    /\ \A a \in announced : a.sub = sub => a.access = access
AllAllowed(subs, access) == \A s \in subs : Allowed(s, access)

Usable(id, usage) == Resolves(id) /\ usage \in Desc(id).usage

-----------------------------------------------------------------------------
(* Commands outside passes.                                                *)

WriteBuffer ==
    /\ pass = "none"
    /\ \E id \in LiveIds("buffer"), length \in 1..2 :
        /\ Usable(id, "COPY_DST")
        /\ length <= Desc(id).size
        /\ Allowed(Sub(id, 0), "CopyDestination")
        /\ Access({Sub(id, 0)}, {id})
    /\ UNCHANGED <<pass, pending, bound>>

WriteTexture ==
    /\ pass = "none"
    /\ \E id \in LiveIds("texture"), mip \in 0..1, width \in 1..2 :
        /\ Usable(id, "COPY_DST")
        /\ HasMip(Desc(id), mip) /\ width <= MipExtent(Desc(id), mip)
        /\ Allowed(Sub(id, mip), "CopyDestination")
        /\ Access({Sub(id, mip)}, {id})
    /\ UNCHANGED <<pass, pending, bound>>

(* The announcements of the two mip levels are left as they are.           *)
BlitTexture ==
    /\ pass = "none"
    /\ \E s, d \in LiveIds("texture"), sm, dm \in 0..1 :
        /\ Usable(s, "COPY_SRC") /\ Usable(d, "COPY_DST")
        /\ HasMip(Desc(s), sm) /\ HasMip(Desc(d), dm)
        /\ Desc(s).format = "rgba8" /\ Desc(d).format = "rgba8"
        /\ Desc(s).layers = 1 /\ Desc(d).layers = 1
        /\ <<s, sm>> # <<d, dm>>
        /\ Allowed(Sub(s, sm), "CopySource") /\ Allowed(Sub(d, dm), "CopyDestination")
        /\ Access({Sub(s, sm), Sub(d, dm)}, {})
    /\ UNCHANGED <<pass, pending, bound>>

CopyTextureToTexture ==
    /\ pass = "none"
    /\ \E s, d \in LiveIds("texture"), overlap \in BOOLEAN :
        /\ Usable(s, "COPY_SRC") /\ Usable(d, "COPY_DST")
        /\ Desc(s).format = Desc(d).format
        /\ Desc(s).layers = 1 /\ Desc(d).layers = 1
        /\ ~(s = d /\ overlap)
        /\ Allowed(Sub(s, 0), "CopySource") /\ Allowed(Sub(d, 0), "CopyDestination")
        /\ Access({Sub(s, 0), Sub(d, 0)}, {s, d})
    /\ UNCHANGED <<pass, pending, bound>>

(* References to buffers are compared without their generation.            *)
CopyBufferToBuffer ==
    /\ pass = "none"
    /\ \E s, d \in LiveIds("buffer") :
        /\ Usable(s, "COPY_SRC") /\ Usable(d, "COPY_DST")
        /\ s.index # d.index
        /\ Allowed(Sub(s, 0), "CopySource") /\ Allowed(Sub(d, 0), "CopyDestination")
        /\ Access({Sub(s, 0), Sub(d, 0)}, {s, d})
    /\ UNCHANGED <<pass, pending, bound>>

(* BufferAccess::usage and TextureAccess::usage.                           *)
UsageOf(access) ==
    CASE access = "CopyDestination" -> "COPY_DST"
      [] access = "CopySource" -> "COPY_SRC"
      [] access = "Vertex" -> "VERTEX"
      [] access = "Index" -> "INDEX"
      [] access = "Uniform" -> "UNIFORM"
      [] access = "Sampled" -> "SAMPLED"
      [] access = "RenderAttachment" -> "RENDER_ATTACHMENT"
      [] OTHER -> "STORAGE"
BufferAccesses == {"CopyDestination", "CopySource", "Vertex", "Index", "Uniform",
                   "StorageRead", "StorageReadWrite"}
TextureAccesses == {"CopyDestination", "CopySource", "Sampled", "RenderAttachment",
                    "StorageWrite"}

(* validate_texture_transition, and the same checks on a buffer.           *)
Transition(sub, write, before, after) ==
    /\ UsageOf(before) \in Desc(sub.id).usage
    /\ UsageOf(after) \in Desc(sub.id).usage
    /\ sub \in pending => before = write
    /\ \A a \in announced : a.sub = sub => a.access = before

GlobalBarrier ==
    /\ pass = "none" /\ Push /\ Len(trace) < MaxTrace
    /\ pending' = {} /\ announced' = {}
    /\ Record(Entry({}, {}, {Everything}, "none"))
    /\ UNCHANGED <<pass, bound>>

(* Mutant: a barrier on one mip level clears the writes to all of them.    *)
MutantBarrier(subs, write, before, after) ==
    /\ pass = "none" /\ Len(trace) < MaxTrace
    /\ \A s \in subs : Transition(s, write, before, after)
    /\ Push
    /\ pending' = {p \in pending : \A s \in subs : p.id # s.id}
    /\ announced' = {a \in announced : a.sub \notin subs}
                        \cup {[sub |-> s, access |-> after] : s \in subs}
    /\ Record(Entry({}, {}, subs, "none"))
    /\ UNCHANGED <<pass, bound>>

Barrier(subs, write, before, after) ==
    /\ pass = "none" /\ Len(trace) < MaxTrace
    /\ \A s \in subs : Transition(s, write, before, after)
    /\ Push
    /\ pending' = pending \ subs
    /\ announced' = {a \in announced : a.sub \notin subs}
                        \cup {[sub |-> s, access |-> after] : s \in subs}
    /\ Record(Entry({}, {}, subs, "none"))
    /\ UNCHANGED <<pass, bound>>

ResourceBarrier ==
    \/ GlobalBarrier
    \/ \E id \in LiveIds("buffer"), before, after \in BufferAccesses :
        Barrier(Whole(id), "StorageReadWrite", before, after)
    \/ \E id \in LiveIds("texture"), before, after \in TextureAccesses :
        \/ Barrier(Whole(id), "StorageWrite", before, after)
        \/ \E mip \in 0..(Desc(id).mips - 1) :
            Barrier({Sub(id, mip)}, "StorageWrite", before, after)

-----------------------------------------------------------------------------
(* Passes.                                                                 *)

(* reserve_pass_begin: room for the begin and the end of the pass.         *)
RoomForPass == count <= MaxCommands - 2

(* RenderPassDesc::new, with_color_attachment and with_depth_attachment.   *)
ColorTarget(id) ==
    /\ Usable(id, "RENDER_ATTACHMENT")
    /\ Desc(id).format # "depth" /\ Desc(id).layers = 1
DepthTarget(id) ==
    /\ Usable(id, "RENDER_ATTACHMENT")
    /\ Desc(id).format = "depth" /\ Desc(id).layers = 1
ColorTargets ==
    LET one == {id \in LiveIds("texture") : ColorTarget(id)} IN
    {<<id>> : id \in one}
        \cup {p \in one \X one : p[1] # p[2] /\ Desc(p[1]).extent = Desc(p[2]).extent}

BeginRenderPass ==
    /\ pass = "none" /\ RoomForPass
    /\ \E colors \in ColorTargets,
          depth \in {None} \cup {id \in LiveIds("texture") : DepthTarget(id)},
          readOnly \in BOOLEAN :
        LET targets == {colors[i] : i \in 1..Len(colors)}
            all == targets \cup (IF depth = None THEN {} ELSE {depth}) IN
        /\ depth # None => Desc(depth).extent = Desc(colors[1]).extent
        /\ readOnly => depth # None
        /\ AllAllowed({Sub(t, 0) : t \in targets}, "RenderAttachment")
        /\ depth # None =>
            Allowed(Sub(depth, 0), IF readOnly THEN "Sampled" ELSE "RenderAttachment")
        /\ Access({Sub(t, 0) : t \in all}, all)
        /\ bound' = [NothingBound EXCEPT !.colors = colors, !.depth = depth,
                                         !.readOnly = readOnly]
    /\ pass' = "render"
    /\ UNCHANGED pending

BeginComputePass ==
    /\ pass = "none" /\ RoomForPass /\ Push
    /\ pass' = "compute" /\ bound' = NothingBound
    /\ UNCHANGED <<pending, announced, trace>>

EndPass ==
    /\ InPass /\ count < MaxCommands
    /\ count' = count + 1
    /\ pass' = "none" /\ bound' = NothingBound
    /\ UNCHANGED <<pending, announced, trace>>

(* State settings are validated and recorded only when they change.        *)
Set(to) ==
    /\ bound # to
    /\ Push
    /\ bound' = to
    /\ UNCHANGED <<pass, pending, announced, trace>>

SetPipeline ==
    /\ pass = "render"
    /\ \E p \in 1..Len(lists["fixed"]) :
        LET depth == lists["fixed"][p].depth IN
        /\ Len(bound.colors) = 1
        /\ ~(bound.readOnly /\ depth = "write")
        /\ depth # "none" => bound.depth # None
        /\ bound.fixed # p
        /\ Push
        /\ bound' = [bound EXCEPT !.fixed = p, !.program = None]
        /\ UNCHANGED <<pass, pending, announced, trace>>

SetProgrammablePipeline ==
    /\ pass = "render"
    /\ \E p \in LiveIds("program") :
        /\ Desc(p).targets = Len(bound.colors)
        /\ ~(bound.readOnly /\ Desc(p).depth = "write")
        /\ Desc(p).depth # "none" => bound.depth # None
        /\ bound.program # p
        /\ Push
        /\ bound' = [bound EXCEPT !.program = p, !.fixed = 0]
        /\ UNCHANGED <<pass, pending, announced, trace>>

SetComputePipeline ==
    /\ pass = "compute"
    /\ \E p \in LiveIds("compute") : Set([bound EXCEPT !.compute = p])

SetBindGroup ==
    /\ InPass
    /\ \E g \in LiveIds("group") : Set([bound EXCEPT !.group = g])

SetVertexBuffer ==
    /\ pass = "render"
    /\ \E b \in LiveIds("buffer") : Usable(b, "VERTEX") /\ Set([bound EXCEPT !.vertex = b])

SetIndexBuffer ==
    /\ pass = "render"
    /\ \E b \in LiveIds("buffer") : Usable(b, "INDEX") /\ Set([bound EXCEPT !.index = b])

(* set_texture refuses the first color target only.                        *)
SetTexture ==
    /\ pass = "render"
    /\ \E t \in LiveIds("texture") :
        /\ Usable(t, "SAMPLED") /\ Desc(t).layers = 1 /\ Desc(t).format # "depth"
        /\ Resolves(bound.colors[1]) /\ t # bound.colors[1]
        /\ Set([bound EXCEPT !.texture = t])

SetSampler ==
    /\ pass = "render"
    /\ \E s \in 1..Len(lists["sampler"]) : ~lists["sampler"][s].compare
    /\ Set([bound EXCEPT !.sampler = TRUE])

SetUniforms == pass = "render" /\ Set([bound EXCEPT !.uniforms = TRUE])

(* Scissor, viewport, draw index and push constants: only a command.       *)
SetDynamicState ==
    /\ InPass /\ Push
    /\ UNCHANGED <<pass, pending, announced, bound, trace>>

-----------------------------------------------------------------------------
(* Draws and dispatches.                                                   *)

(* The subresources of a binding and the access its type makes.            *)
BindingSubs(b) ==
    IF b.id.kind = "buffer" THEN {Sub(b.id, 0)}
    ELSE {Sub(b.id, m) : m \in b.base..(b.base + b.count - 1)}
AccessOf(type) ==
    CASE type = "uniform" -> "Uniform"
      [] type = "storage_read" -> "StorageRead"
      [] type = "storage" -> "StorageReadWrite"
      [] type = "storage_texture" -> "StorageWrite"
      [] OTHER -> "Sampled"

(* validate_groups: every binding of the pipeline's layout is live, may be *)
(* accessed, is no attachment, and no written one is fetched from.         *)
ValidGroups(layout, attachments, fetched) ==
    \/ layout = <<>>
    \/ /\ Resolves(bound.group)
       /\ Desc(bound.group).layout = layout
       /\ LET entries == Desc(bound.group).entries IN
          \A i \in 1..Len(layout) :
            /\ Resolves(entries[i].id)
            /\ AllAllowed(BindingSubs(entries[i]), AccessOf(layout[i]))
            /\ entries[i].id \notin attachments
            /\ Writes(layout[i]) => entries[i].id \notin fetched
            /\ \A j \in 1..(i - 1) :
                Alias(entries[i], entries[j]) => ~Writes(layout[i]) /\ ~Writes(layout[j])

GroupSubs(layout, only) ==
    IF bound.group = None THEN {}
    ELSE LET entries == Desc(bound.group).entries IN
         UNION {BindingSubs(entries[i]) : i \in {j \in 1..Len(layout) : only => Writes(layout[j])}}

(* record_with_writes.  A whole sampled texture or a buffer consumes its   *)
(* announcements, a view those of its mip levels: the same subresources.   *)
RecordWithWrites(layout, fetched) ==
    LET used == GroupSubs(layout, FALSE) \cup {Sub(id, 0) : id \in fetched}
        written == GroupSubs(layout, TRUE) IN
    /\ Push /\ Len(trace) < MaxTrace
    /\ Record(Entry(used, written, {}, pass))
    /\ announced' = {a \in announced : a.sub \notin used}
    /\ pending' = pending \cup written

Dispatch ==
    /\ pass = "compute"
    /\ Resolves(bound.compute)
    /\ LET layout == Desc(bound.compute).layout IN
       ValidGroups(layout, {}, {}) /\ RecordWithWrites(layout, {})
    /\ UNCHANGED <<pass, bound>>

(* The buffers a programmable draw fetches from, when they are all bound   *)
(* and may be fetched from.                                                *)
Fetched(indexed) ==
    (IF Desc(bound.program).buffers = 1 THEN {bound.vertex} ELSE {})
        \cup (IF indexed THEN {bound.index} ELSE {})
Fetchable(indexed) ==
    /\ Desc(bound.program).buffers = 1 =>
        Resolves(bound.vertex) /\ Allowed(Sub(bound.vertex, 0), "Vertex")
    /\ indexed => Resolves(bound.index) /\ Allowed(Sub(bound.index, 0), "Index")

Attachments ==
    {bound.colors[i] : i \in 1..Len(bound.colors)}
        \cup (IF bound.depth = None \/ bound.readOnly THEN {} ELSE {bound.depth})

(* validate_cumulative_accesses: no write to what the pass already used.   *)
DrawProgrammable ==
    /\ pass = "render"
    /\ Resolves(bound.program)
    /\ \E indexed \in BOOLEAN :
        LET layout == Desc(bound.program).layout
            fetched == Fetched(indexed) IN
        /\ Fetchable(indexed)
        /\ ValidGroups(layout, Attachments, fetched)
        /\ \A s \in GroupSubs(layout, TRUE) : s.id \notin bound.used
        /\ RecordWithWrites(layout, fetched)
        /\ bound' = [bound EXCEPT !.used = @ \cup fetched
                        \cup {s.id : s \in GroupSubs(layout, FALSE)}]
    /\ UNCHANGED pass

(* draw and draw_indexed with a fixed pipeline.                            *)
DrawFixed ==
    /\ pass = "render" /\ bound.program = None /\ bound.fixed # 0
    /\ bound.uniforms
    /\ \E indexed \in BOOLEAN :
        LET textured == lists["fixed"][bound.fixed].textured
            fetched == {bound.vertex} \cup (IF indexed THEN {bound.index} ELSE {})
            used == fetched \cup (IF textured THEN {bound.texture} ELSE {}) IN
        /\ textured => bound.sampler /\ Resolves(bound.texture)
                        /\ AllAllowed(Whole(bound.texture), "Sampled")
        /\ Resolves(bound.vertex) /\ Allowed(Sub(bound.vertex, 0), "Vertex")
        /\ indexed => Resolves(bound.index) /\ Allowed(Sub(bound.index, 0), "Index")
        /\ Access(UNION {Whole(id) : id \in used}, used)
        /\ bound' = [bound EXCEPT !.used = @ \cup used]
    /\ UNCHANGED <<pass, pending>>

-----------------------------------------------------------------------------
(* finish consumes an encoder outside a pass; one that is dropped inside a *)
(* pass is lost.                                                           *)

Finish ==
    /\ pass = "none" /\ count > 0
    /\ pass' = "finished" /\ bound' = NothingBound
    /\ UNCHANGED <<count, pending, announced, trace>>
DropEncoder ==
    /\ pass \in {"render", "compute"}
    /\ pass' = "dropped" /\ bound' = NothingBound
    /\ UNCHANGED <<count, pending, announced, trace>>

Call ==
    \/ WriteBuffer \/ WriteTexture \/ BlitTexture
    \/ CopyTextureToTexture \/ CopyBufferToBuffer \/ ResourceBarrier
    \/ BeginRenderPass \/ BeginComputePass \/ EndPass
    \/ SetPipeline \/ SetProgrammablePipeline \/ SetComputePipeline
    \/ SetBindGroup \/ SetVertexBuffer \/ SetIndexBuffer \/ SetTexture
    \/ SetSampler \/ SetUniforms \/ SetDynamicState
    \/ Dispatch \/ DrawProgrammable \/ DrawFixed
    \/ Finish \/ DropEncoder

RecorderInit ==
    /\ pass = "none" /\ count = 0
    /\ pending = {} /\ announced = {} /\ trace = <<>>
    /\ bound = NothingBound /\ tableOps = 0

TableStep ==
    /\ tableOps < MaxTableOps
    /\ TableNext
    /\ tableOps' = tableOps + 1
    /\ UNCHANGED encoderVars

RecorderNext == (Call /\ UNCHANGED <<tableVars, tableOps>>) \/ TableStep
RecorderSpec == TableInit /\ RecorderInit /\ [][RecorderNext]_recorderVars

-----------------------------------------------------------------------------
(* Properties.                                                             *)

Covers(e, sub) == sub \in e.ordered \/ Everything \in e.ordered

(* Between a shader's write and the next access to the same buffer or mip  *)
(* level in the recording there is a barrier that covers it ("Storage      *)
(* writes must be followed by this command before another access").        *)
ShaderWritesAreOrdered ==
    \A i, j \in 1..Len(trace) : i < j =>
        \A s \in trace[i].written \cap trace[j].access :
            \E k \in (i + 1)..(j - 1) : Covers(trace[k], s)

(* Within a render pass no draw writes what an earlier draw of the pass    *)
(* used, whole textures compared, nor an attachment of the pass: the       *)
(* command before the draws of a pass is the one that begins it.           *)
PassesDoNotOverwrite ==
    \A i, j \in 1..Len(trace) :
        (i < j /\ \A k \in (i + 1)..j : trace[k].pass = "render") =>
            {s.id : s \in trace[i].access} \cap {s.id : s \in trace[j].written} = {}

(* An open pass can always be ended: the command limit keeps its slot.     *)
PassCanEnd == InPass => count < MaxCommands

(* A buffer has an announced access exactly while nothing accessed it      *)
(* since the last barrier on it: the destination of a barrier describes    *)
(* the first following access, no later one and not none.                  *)
AnnouncedIsNext(sub) ==
    (\E a \in announced : a.sub = sub) <=>
        \E k \in 1..Len(trace) :
            /\ sub \in trace[k].ordered
            /\ \A m \in (k + 1)..Len(trace) :
                sub \notin trace[m].access /\ Everything \notin trace[m].ordered
BufferAnnouncements == \A id \in LiveIds("buffer") : AnnouncedIsNext(Sub(id, 0))

(* The same of every mip level of a texture: docs/ir-reference.md says "A  *)
(* barrier's destination describes the first actual following access".     *)
TextureAnnouncements ==
    \A id \in LiveIds("texture") : \A s \in Whole(id) : AnnouncedIsNext(s)

(* What the recorder keeps: identities of the kind each binding is for,    *)
(* and subresources of resources.                                          *)
OneOf(kind) == {None} \cup [kind : {kind}, index : Nat, gen : 0..MaxGeneration]
Subs == [id : Ids \cup {None}, mip : Nat]
Entries == [access : SUBSET Subs, written : SUBSET Subs, ordered : SUBSET Subs,
            pass : {"none", "render", "compute"}]
Bounds ==
    [colors : Seq(Ids), depth : OneOf("texture"), readOnly : BOOLEAN, fixed : Nat,
     program : OneOf("program"), compute : OneOf("compute"), group : OneOf("group"),
     vertex : OneOf("buffer"), index : OneOf("buffer"), texture : OneOf("texture"),
     sampler : BOOLEAN, uniforms : BOOLEAN, used : SUBSET Ids]
RecorderTypeOK ==
    /\ pass \in {"none", "render", "compute", "finished", "dropped"}
    /\ count \in Nat
    /\ pending \subseteq Subs
    /\ announced \subseteq [sub : Subs, access : BufferAccesses \cup TextureAccesses]
    /\ bound \in Bounds
    /\ trace \in Seq(Entries)

(* A shader's write is pending until a barrier covers it.                  *)
UncoveredIsPending ==
    \A i \in 1..Len(trace) : \A s \in trace[i].written :
        s \in pending \/ \E k \in (i + 1)..Len(trace) : Covers(trace[k], s)

(* The pass encoder knows what the open render pass used: its attachments  *)
(* and what its draws added.  A depth attachment is a depth texture.       *)
PassUses == bound.used \cup {bound.colors[c] : c \in 1..Len(bound.colors)} \cup {bound.depth}
PassKnowsItsUses ==
    pass = "render" =>
        /\ \A i \in 1..Len(trace) :
            (\A k \in (i + 1)..Len(trace) : trace[k].pass = "render") =>
                {s.id : s \in trace[i].access} \subseteq PassUses
        /\ bound.depth # None /\ Resolves(bound.depth) => Desc(bound.depth).format = "depth"

(* What a recording names was live at some time, so that no identity the   *)
(* table hands out later is mistaken for it.                               *)
Named(id) == id \in Ids /\ Known(id)
NamesAreKnown ==
    /\ \A a \in announced : Named(a.sub.id)
    /\ \A i \in 1..Len(trace) : \A s \in trace[i].ordered : s = Everything \/ Named(s.id)
    /\ bound.depth # None => Named(bound.depth)

(* The invariant of a recording: shader writes are ordered, passes neither *)
(* overwrite what they use nor run out of room, announcements are next;    *)
(* with what the encoder has to remember for that.                         *)
RecordingInvariant ==
    /\ RecorderTypeOK
    /\ ShaderWritesAreOrdered /\ UncoveredIsPending
    /\ PassesDoNotOverwrite /\ PassKnowsItsUses
    /\ PassCanEnd
    /\ BufferAnnouncements /\ NamesAreKnown

=============================================================================
