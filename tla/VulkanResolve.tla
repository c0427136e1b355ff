--------------------------- MODULE VulkanResolve ----------------------------
(* What the device worker makes of a recorded command buffer.               *)
(*                                                                          *)
(* RecordedCommand::apply turns the Vulkan commands, one after the other,   *)
(* into SGFX commands (`ops`) and into insertions that name a position in   *)
(* them: bind groups, deferred barriers, image readbacks, control points.   *)
(* execute splices the insertions into the commands, cuts the stream at the *)
(* control points and hands the pieces to the queue in upload batches.      *)
(* SGFX state lives in one render pass and Vulkan state across them, so the *)
(* resolver repeats what a pass lacks and suppresses what it has seen.      *)
(* Objects are handles; bytes, formats and rectangles are left out, except  *)
(* whether a scissor leaves anything of the render area.                    *)
EXTENDS Naturals, Sequences, FiniteSets, FiniteSetsExt, SequencesExt, Functions, Absent

CONSTANTS
  Images, Buffers, MemoryOf,      \* [Buffers -> memory the buffer is bound to]
  BoundSets, SetLayout, SetWrites, \* layout of a set, the buffer its storage binding writes
  SetInput,                       \* the attachment its input binding views
  Pipelines,                      \* name -> [point, layout, groups, push, slots, depthWrite, inputs, pass, subpass]
  Passes,                         \* name -> [dynamic, kind, load, store, initial, final, subpasses, mips]
  DrawParameters,                 \* capabilities.supports_shader_draw_parameters
  ImplicitBarriers,               \* capabilities.supports_implicit_resource_barriers
  GlobalBarriers,                 \* capabilities.supports_global_resource_barriers
  Budget                          \* UPLOAD_BATCH_BYTES

UsedBy(s, i) == i \in ToSet(s.colors) \/ s.depth = i \/ i \in s.inputs

\* render_pass::parse: what a render pass may say.  An attachment whose first
\* use reads it is not cleared, and nothing is read that the subpass writes.
Parsed(pass) ==
  /\ pass.subpasses # <<>>
  /\ \A i \in Images : pass.load[i] = "load" => pass.initial[i] # None
  /\ \A n \in DOMAIN pass.subpasses :
       LET s == pass.subpasses[n]
           FirstUse(i) == \A m \in 1..n-1 : ~UsedBy(pass.subpasses[m], i)
           ReadOnly == s.inputs \cup (IF s.readOnly THEN {s.depth} ELSE {})
       IN  /\ IsInjective(s.colors)
           /\ s.inputs \cap (ToSet(s.colors) \cup (IF s.readOnly THEN {} ELSE {s.depth})) = {}
           /\ \A i \in ReadOnly : FirstUse(i) => pass.load[i] # "clear"
           /\ ~pass.dynamic => s.colors # <<>> /\ pass.mips = {}

\* dynamic_rendering::begin: one subpass without inputs, colors and depth.
Rendered(pass) ==
  pass.dynamic => /\ Len(pass.subpasses) = 1
                  /\ pass.subpasses[1].inputs = {}
                  /\ pass.subpasses[1].colors # <<>> \/ pass.subpasses[1].depth # None
                  /\ pass.initial = pass.final

ASSUME ResolveAssumption ==
  /\ {DrawParameters, ImplicitBarriers, GlobalBarriers} \subseteq BOOLEAN
  /\ Budget \in Nat \ {0}
  /\ \A p \in DOMAIN Passes : Parsed(Passes[p]) /\ Rendered(Passes[p])

Points == {"graphics", "compute"}
Groups == 1..2
Texture(i) == <<"image", i>>
MipTarget(i) == <<"mip", i>>
Discard == <<"discarded", None>>

VARIABLES
  commands,  \* RecordedCommand values resolved so far
  rec,       \* ResolvedRecording
  meaning    \* what Vulkan says the same commands do (history)

resolveVars == <<commands, rec, meaning>>

-----------------------------------------------------------------------------
(* ResolvedRecording.                                                       *)

EmptyGroup == [set |-> None, offset |-> 0]
NothingEmitted ==
  [viewport |-> None, scissor |-> None, pipeline |-> None, push |-> None,
   vertex |-> None, index |-> None, descriptors |-> [g \in Groups |-> None]]

NewResolved ==
  [failed |-> FALSE, order |-> 0, ops |-> <<>>, descriptors |-> <<>>, copies |-> <<>>,
   barriers |-> <<>>, syncs |-> <<>>, written |-> {}, readbacks |-> {},
   pipeline |-> [p \in Points |-> None],
   sets |-> [p \in Points |-> [g \in Groups |-> None]],
   push |-> None, revision |-> 0, vertex |-> None, index |-> None,
   viewport |-> None, scissor |-> None, active |-> None, emitted |-> NothingEmitted]

Refused == [failed |-> TRUE]
Unless(r, ok, next(_)) == IF ~r.failed /\ ok THEN next(r) ELSE Refused

Op(r, k, v) == [k |-> k, v |-> v, order |-> r.order]
Emit(r, k, v) == [r EXCEPT !.ops = Append(@, Op(r, k, v))]
Insertion(r, v) == [position |-> Len(r.ops), order |-> r.order, v |-> v]
Synchronize(r, action) == [r EXCEPT !.syncs = Append(@, Insertion(r, action))]

EmitChanged(r, field, value, k) ==
  IF r.emitted[field] = value THEN r
  ELSE [Emit(r, k, value) EXCEPT !.emitted[field] = value]

InPass(r) == r.active # None
PassOf(a) == Passes[a.pass]
SubpassOf(a) == PassOf(a).subpasses[a.subpass]

-----------------------------------------------------------------------------
(* Render passes.                                                           *)

Target(a, i) == IF i \in PassOf(a).mips THEN MipTarget(i) ELSE Texture(i)

TextureBarrier(r, texture, before, after) ==
  IF before = after THEN r
  ELSE Emit(r, "textureBarrier", [texture |-> texture, before |-> before, after |-> after])

\* ActiveRenderPass::access, and the attachment counts as used.
Access(r, i, after) ==
  LET a      == r.active
      before == IF a.access[i] # None THEN a.access[i]
                ELSE IF i \in PassOf(a).mips THEN None ELSE PassOf(a).initial[i]
      moved  == IF before = None THEN r ELSE TextureBarrier(r, Target(a, i), before, after)
  IN  [moved EXCEPT !.active.access[i] = after, !.active.used = @ \cup {i}]

(* Mutant: the second part of a split pass loads like the first.            *)
MutantLoad(a, i) == PassOf(a).load[i]
Load(a, i) == IF i \in a.used THEN "load" ELSE PassOf(a).load[i]

Store(a, i) ==
  IF \/ \E n \in a.subpass + 1 .. Len(PassOf(a).subpasses) : UsedBy(PassOf(a).subpasses[n], i)
     \/ PassOf(a).store[i] = "store"
  THEN "store" ELSE "dontcare"

Attachment(a, i) == [target |-> Target(a, i), load |-> Load(a, i), store |-> Store(a, i)]

\* A pass without colors renders to a private one: clear::discarded_color.
Hidden == [target |-> Discard, load |-> "dontcare", store |-> "dontcare"]

\* ActiveRenderPass::emit: one SGFX pass for the current subpass.
EmitPass(r) ==
  LET a  == r.active
      s  == SubpassOf(a)
      colors == [n \in 1..Len(s.colors) |-> Attachment(a, s.colors[n])]
      Colors(x) == FoldLeft(LAMBDA y, i : Access(y, i, "attachment"), x, s.colors)
      Depth(x)  == IF s.depth = None THEN x
                   ELSE Access(x, s.depth, IF s.readOnly THEN "sampled" ELSE "attachment")
      Inputs(x) == FoldLeft(LAMBDA y, i : Access(y, i, "sampled"), x, SetToSeq(s.inputs))
  IN  [Emit(Inputs(Depth(Colors(r))), "begin",
            [colors   |-> IF colors # <<>> THEN colors
                          ELSE <<Hidden>>,
             depth    |-> IF s.depth = None THEN None ELSE Attachment(a, s.depth),
             readOnly |-> s.readOnly, whole |-> TRUE])
       EXCEPT !.emitted = NothingEmitted]

LastBegin(ops) == Max({n \in DOMAIN ops : ops[n].k = "begin"})
Kept(attachment) == [attachment EXCEPT !.store = "store"]
RetainCurrentPass(r) ==
  LET n == LastBegin(r.ops)
      v == r.ops[n].v
  IN  [r EXCEPT !.ops[n].v.colors = [c \in DOMAIN v.colors |-> Kept(v.colors[c])],
                !.ops[n].v.depth  = IF v.depth = None THEN None ELSE Kept(v.depth)]

\* The part of begin_owned that serves a view of a mip level above zero.
LoadMip(r, p, i) ==
  LET target == MipTarget(i)
      source == Texture(i)
      was    == Passes[p].initial[i]
  IN  IF Passes[p].load[i] = "load"
      THEN LET r1 == TextureBarrier(TextureBarrier(r, source, was, "source"), target, "source", "destination")
               r2 == Emit(r1, "blit", [from |-> source, to |-> target])
           IN  TextureBarrier(TextureBarrier(r2, source, "source", was), target, "destination", "attachment")
      ELSE TextureBarrier(r, target, "source", "attachment")

BeginPass(r, p) ==
  LET pass == Passes[p]
      mips == \/ pass.mips = {}
              \/ pass.dynamic /\ Len(pass.subpasses) = 1 /\ pass.mips \subseteq ToSet(pass.subpasses[1].colors)
      Begun(x) ==
        EmitPass([FoldLeft(LAMBDA y, i : LoadMip(y, p, i), x, SetToSeq(pass.mips))
                  EXCEPT !.active = [pass |-> p, subpass |-> 1, used |-> {},
                                     access |-> [i \in Images |-> None]]])
  IN  Unless(r, ~InPass(r) /\ mips, Begun)

NextSubpass(r) ==
  LET Next1(x) == EmitPass([Emit(x, "end", None) EXCEPT !.active.subpass = @ + 1])
  IN  Unless(r, InPass(r) /\ r.active.subpass < Len(PassOf(r.active).subpasses), Next1)

\* What end emits for one attachment after the last SGFX pass.
StoreAttachment(r, a, i) ==
  LET pass == PassOf(a)
      target == Target(a, i)
      back == TextureBarrier(TextureBarrier(r, target, "attachment", "source"),
                             Texture(i), pass.initial[i], "destination")
  IN  CASE i \in pass.mips /\ pass.store[i] = "store" ->
             TextureBarrier(Emit(back, "blit", [from |-> target, to |-> Texture(i)]),
                            Texture(i), "destination", pass.final[i])
        [] i \notin pass.mips /\ a.access[i] # None /\ pass.final[i] # None ->
             TextureBarrier(r, Texture(i), a.access[i], pass.final[i])
        [] OTHER -> r

EndPass(r) ==
  LET a == r.active
      Ended(x) == [FoldLeft(LAMBDA y, i : StoreAttachment(y, a, i), Emit(x, "end", None),
                            SetToSeq(Images))
                   EXCEPT !.active = None]
  IN  Unless(r, InPass(r) /\ a.subpass = Len(PassOf(a).subpasses), Ended)

Suspend(r) == Emit(RetainCurrentPass(r), "end", None)

\* Clears become passes of their own between two parts of the current one.
ClearRect(r, i) ==
  Emit(Emit(r, "begin", [colors |-> <<[target |-> Target(r.active, i), load |-> "clear", store |-> "store"]>>,
                         depth |-> None, readOnly |-> FALSE, whole |-> FALSE]), "end", None)
ClearAttachments(r, images) ==
  LET Clear1(x) ==
        IF images = {} THEN x
        ELSE RetainCurrentPass(EmitPass(FoldLeft(ClearRect, Suspend(x), SetToSeq(images))))
  IN  Unless(r, InPass(r) /\ images \subseteq ToSet(SubpassOf(r.active).colors), Clear1)

-----------------------------------------------------------------------------
(* Draws and dispatches.                                                    *)

\* active_sets, and the layout each set must have.
ActiveSetsFit(r, p) ==
  \A g \in Pipelines[p].groups :
    /\ r.sets[Pipelines[p].point][g] # None
    /\ SetLayout[r.sets[Pipelines[p].point][g].set] = Pipelines[p].layout

MarkWritable(r, p) ==
  LET sets == {r.sets[Pipelines[p].point][g].set : g \in Pipelines[p].groups}
      bs   == {SetWrites[s] : s \in sets} \ {None}
  IN  [r EXCEPT !.written = @ \cup bs, !.readbacks = @ \cup bs]

\* PushConstants::snapshot: bytes another layout pushed refuse the draw.
Snapshot(r, p) ==
  LET Emitted(x) == IF Pipelines[p].push
                    THEN Emit(x, "push", IF x.push = None THEN "zero" ELSE x.push.value)
                    ELSE x
  IN  Unless(r, ~Pipelines[p].push \/ r.push = None \/ r.push.layout = Pipelines[p].layout, Emitted)

Describe(r, p, g) ==
  [r EXCEPT !.descriptors = Append(@, Insertion(r, [index |-> g, bound |-> r.sets[Pipelines[p].point][g]]))]
DescribeOnce(r, p, g) ==
  IF r.emitted.descriptors[g] = r.sets.graphics[g] THEN r
  ELSE [Describe(r, p, g) EXCEPT !.emitted.descriptors[g] = r.sets.graphics[g]]

InOrder(S) == SetToSortSeq(S, <)

\* validate_bindings: the pass, the subpass and the input attachments fit.
ValidateBindings(r, p) ==
  LET a == r.active
  IN  /\ Pipelines[p].subpass = a.subpass
      /\ Pipelines[p].pass = PassOf(a).kind
      /\ \A g \in Pipelines[p].inputs :
           /\ r.sets.graphics[g] # None
           /\ SetInput[r.sets.graphics[g].set] \in SubpassOf(a).inputs

Visible(r) == r.scissor # "outside"

(* Mutant: a pipeline of another layout keeps the bind groups it found.     *)
MutantSetPipeline(r, p) ==
  LET r2 == EmitChanged(r, "pipeline", p, "pipeline")
  IN  IF r.emitted.pipeline = p THEN r2
      ELSE FoldLeft(LAMBDA x, g : Emit(x, "group", [index |-> g, bound |-> EmptyGroup]),
                    r2, InOrder(Groups \ Pipelines[p].groups))
SetPipeline(r, p) ==
  LET was == r.emitted.pipeline
      r1  == IF was # None /\ was # p /\ Pipelines[was].layout # Pipelines[p].layout
             THEN [r EXCEPT !.emitted.descriptors = [g \in Groups |-> None]] ELSE r
      r2  == EmitChanged(r1, "pipeline", p, "pipeline")
  IN  IF was = p THEN r2
      ELSE FoldLeft(LAMBDA x, g : Emit(x, "group", [index |-> g, bound |-> EmptyGroup]),
                    r2, InOrder(Groups \ Pipelines[p].groups))

PushSnapshot(r, p) ==
  IF r.emitted.push = <<p, r.revision>> THEN r
  ELSE LET Pushed(x) == [x EXCEPT !.emitted.push = <<p, r.revision>>]
       IN  Unless(Snapshot(r, p), TRUE, Pushed)

GraphicsBindings(r) ==
  LET p == r.pipeline.graphics
      State(x) ==
        LET r1 == EmitChanged(x, "viewport", x.viewport, "viewport")
            r2 == IF Visible(x) THEN EmitChanged(r1, "scissor", x.scissor, "scissor") ELSE r1
        IN  PushSnapshot(SetPipeline(r2, p), p)
      Vertices(x) == IF Pipelines[p].slots THEN EmitChanged(x, "vertex", x.vertex, "vertex") ELSE x
      Descriptors(x) ==
        MarkWritable(FoldLeft(LAMBDA y, g : DescribeOnce(y, p, g), x, InOrder(Pipelines[p].groups)), p)
      ready == /\ InPass(r) /\ p # None /\ r.viewport # None /\ r.scissor # None
               /\ ValidateBindings(r, p)
               /\ ~(SubpassOf(r.active).readOnly /\ Pipelines[p].depthWrite)
      bound == Unless(Unless(r, ready, State), ~Pipelines[p].slots \/ r.vertex # None, Vertices)
  IN  IF p = None THEN Refused ELSE Unless(bound, ActiveSetsFit(r, p), Descriptors)

SetIndex(r) ==
  LET Indexed(x) == EmitChanged(x, "index", x.index, "index")
  IN  Unless(r, r.index # None, Indexed)

BoundForDraw(r) == GraphicsBindings(IF DrawParameters THEN Emit(r, "drawIndex", 0) ELSE r)
Draw(r, c) ==
  LET Drawn(x) == IF Visible(x) /\ ~c.empty THEN Emit(x, "draw", [indexed |-> FALSE]) ELSE x
  IN  Unless(BoundForDraw(r), TRUE, Drawn)
DrawIndexed(r, c) ==
  LET Drawn(x) == IF Visible(x) /\ ~c.empty THEN Emit(x, "draw", [indexed |-> TRUE]) ELSE x
      Indexed(x) == SetIndex(x)
  IN  Unless(Unless(BoundForDraw(r), TRUE, Indexed), TRUE, Drawn)

\* Readbacks::may_write: some buffer of the same memory was written before.
MayWrite(r, b) == \E w \in r.readbacks : MemoryOf[w] = MemoryOf[b]

DrawIndirect(r, c) ==
  LET read == [k |-> "read", buffer |-> c.buffer, hostPrefix |-> ~c.counted /\ ~MayWrite(r, c.buffer),
               indexed |-> c.indexed]
      Suspended(x) == GraphicsBindings(EmitPass(Synchronize(Suspend(x), read)))
      Indexed(x) == IF c.indexed THEN SetIndex(x) ELSE x
      Drawn(x) == IF Visible(x) THEN Synchronize(x, [read EXCEPT !.k = "drawRead"]) ELSE x
  IN  IF c.empty THEN r ELSE Unless(Unless(Unless(r, InPass(r), Suspended), TRUE, Indexed), TRUE, Drawn)

Dispatch(r, c) ==
  LET p == r.pipeline.compute
      Begun(x) == Snapshot(Emit(Emit(x, "beginCompute", None), "computePipeline", p), p)
      Bound(x) ==
        LET r1 == MarkWritable(FoldLeft(LAMBDA y, g : Describe(y, p, g), x,
                                        InOrder(Pipelines[p].groups)), p)
            r2 == IF c.empty THEN r1 ELSE Emit(r1, "dispatch", None)
        IN  Emit(r2, "endCompute", None)
  IN  IF p = None THEN Refused
      ELSE Unless(Unless(r, ~InPass(r), Begun), ActiveSetsFit(r, p), Bound)

PushConstants(r, c) ==
  LET new == [value |-> c.value, layout |-> c.layout]
  IN  IF r.push = new THEN r ELSE [r EXCEPT !.push = new, !.revision = @ + 1]

SetViewport(r, c) == [r EXCEPT !.viewport = c.viewport]
SetScissor(r, c) == [r EXCEPT !.scissor = c.scissor]
BindVertexBuffer(r, c) == [r EXCEPT !.vertex = c.buffer]
BindIndexBuffer(r, c) == [r EXCEPT !.index = c.buffer]
BindPipeline(r, c) == [r EXCEPT !.pipeline[Pipelines[c.pipeline].point] = c.pipeline]

BindDescriptorSets(r, c) ==
  LET Bound(x) == [x EXCEPT !.sets[c.point][c.group] = [set |-> c.set, offset |-> c.offset]]
  IN  Unless(r, SetLayout[c.set] = c.layout, Bound)

-----------------------------------------------------------------------------
(* Transfers, barriers and control points.                                  *)

Outside(r, Next1(_)) == Unless(r, ~InPass(r), Next1)

\* transfer::copy_image and transfer::blit; the regions are left out.
CopyCommand(r, c) ==
  LET Copied(x) == Emit(x, "copy", [from |-> Texture(c.from), to |-> Texture(c.to)])
  IN  Unless(r, c.from # c.to, Copied)
BlitCommand(r, c) ==
  LET Blitted(x) == Emit(x, "blit", [from |-> Texture(c.from), to |-> Texture(c.to)])
  IN  Unless(r, c.from # c.to, Blitted)
CopyImage(r, c) == LET Copied(x) == CopyCommand(x, c) IN Outside(r, Copied)
BlitImage(r, c) == LET Blitted(x) == BlitCommand(x, c) IN Outside(r, Blitted)

\* depth_commands and color_commands: a pass whose load clears the image.
\* A color clear does not look at the pass; the recorder refuses one in a pass.
ClearPass(r, i, colors, depth) ==
  LET r1 == Emit(TextureBarrier(r, Texture(i), "destination", "attachment"), "begin",
                 [colors |-> colors, depth |-> depth, readOnly |-> FALSE, whole |-> TRUE])
  IN  TextureBarrier(Emit(r1, "end", None), Texture(i), "attachment", "destination")
Cleared(i) == [target |-> Texture(i), load |-> "clear", store |-> "store"]
DepthCommands(r, i) == ClearPass(r, i, <<Hidden>>, Cleared(i))
ColorCommands(r, i) == ClearPass(r, i, <<Cleared(i)>>, None)
ClearDepthImage(r, c) == LET Clear1(x) == DepthCommands(x, c.image) IN Outside(r, Clear1)
ClearColorImage(r, c) == LET Clear1(x) == ColorCommands(x, c.image) IN Outside(r, Clear1)

CopyImageToBuffer(r, c) ==
  LET Copied(x) == [x EXCEPT !.copies = Append(@, Insertion(x, [image |-> c.image, buffer |-> c.buffer])),
                             !.readbacks = @ \cup {c.buffer}]
  IN  Outside(r, Copied)

\* vkCmdUpdateBuffer and vkCmdFillBuffer.
ApplyWrite(r, c) ==
  LET Written(x) == [Emit(x, "writeBuffer", [buffer |-> c.buffer])
                     EXCEPT !.readbacks = @ \cup {c.buffer}, !.written = @ \cup {c.buffer}]
  IN  Outside(r, Written)

ResolveCopy(r, c) ==
  LET Copied(x) == [Emit(x, "copyBuffer", [from |-> c.from, to |-> c.to])
                    EXCEPT !.readbacks = @ \cup {c.to}]
  IN  Outside(r, Copied)

\* The pixels are those of the host mirror at resolution.
UploadCommand(r, c) == Emit(r, "writeTexture", [image |-> c.image, source |-> c.buffer, size |-> c.size])
CopyBufferToImage(r, c) ==
  LET Uploaded(x) == UploadCommand(x, c)
  IN  Unless(r, ~InPass(r) /\ c.buffer \notin r.readbacks, Uploaded)

PipelineBarrier(r, c) ==
  LET Deferred(x) ==
        IF c.memory # "write" THEN x
        ELSE [x EXCEPT !.barriers = Append(@, Insertion(x, x.written)), !.written = {}]
      Named(x) ==
        LET r1 == IF c.buffer = None THEN x ELSE Emit(x, "bufferBarrier", [buffer |-> c.buffer, storage |-> c.storage])
        IN  IF c.image = None THEN r1
            ELSE Emit(r1, "textureBarrier", [texture |-> Texture(c.image), before |-> "sampled", after |-> "source"])
      fifoOnly == ImplicitBarriers /\ c.memory = "none" /\ (c.buffer = None \/ ~c.storage)
      Control(x) == IF (c.full \/ c.memory # "none") /\ ~fifoOnly
                    THEN Synchronize(x, [k |-> "barrier"]) ELSE x
      Barred(x) == Control(Named(Deferred(x)))
  IN  Outside(r, Barred)

SynchronizeEvent(r, c) == LET Synced(x) == Synchronize(x, [k |-> c.event]) IN Outside(r, Synced)

\* A query in a pass splits it, as an indirect draw does.
ResolveQuery(r, c) ==
  LET action == [k |-> "query", action |-> c.action, buffer |-> c.buffer]
      Put(x) == Synchronize(x, action)
      Copied(x) == [Put(x) EXCEPT !.readbacks = @ \cup {c.buffer}]
  IN  IF c.action = "copy" THEN Outside(r, Copied)
      ELSE IF c.action = "reset" THEN Outside(r, Put)
      ELSE IF InPass(r) THEN EmitPass(Put(Suspend(r))) ELSE Put(r)

-----------------------------------------------------------------------------
(* RecordedCommand::apply and resolve_recording.                            *)

Applied(before, c) ==
  LET r == [before EXCEPT !.order = @ + 1]
  IN  CASE c.k = "BeginRenderPass"    -> BeginPass(r, c.pass)
        [] c.k = "NextSubpass"        -> NextSubpass(r)
        [] c.k = "EndRenderPass"      -> EndPass(r)
        [] c.k = "ClearAttachments"   -> ClearAttachments(r, c.images)
        [] c.k = "BindPipeline"       -> BindPipeline(r, c)
        [] c.k = "BindDescriptorSets" -> BindDescriptorSets(r, c)
        [] c.k = "PushConstants"      -> PushConstants(r, c)
        [] c.k = "SetViewport"        -> SetViewport(r, c)
        [] c.k = "SetScissor"         -> SetScissor(r, c)
        [] c.k = "BindVertexBuffer"   -> BindVertexBuffer(r, c)
        [] c.k = "BindIndexBuffer"    -> BindIndexBuffer(r, c)
        [] c.k = "InertDynamicState"  -> r
        [] c.k = "Draw"               -> IF c.indexed THEN DrawIndexed(r, c) ELSE Draw(r, c)
        [] c.k = "DrawIndirect"       -> DrawIndirect(r, c)
        [] c.k = "Dispatch"           -> Dispatch(r, c)
        [] c.k = "CopyImage"          -> CopyImage(r, c)
        [] c.k = "BlitImage"          -> BlitImage(r, c)
        [] c.k = "ClearDepthImage"    -> ClearDepthImage(r, c)
        [] c.k = "ClearColorImage"    -> ClearColorImage(r, c)
        [] c.k = "CopyImageToBuffer"  -> CopyImageToBuffer(r, c)
        [] c.k = "UpdateBuffer"       -> ApplyWrite(r, c)
        [] c.k = "CopyBuffer"         -> ResolveCopy(r, c)
        [] c.k = "CopyBufferToImage"  -> CopyBufferToImage(r, c)
        [] c.k = "PipelineBarrier"    -> PipelineBarrier(r, c)
        [] c.k = "Synchronize"        -> SynchronizeEvent(r, c)
        [] c.k = "Query"              -> ResolveQuery(r, c)

-----------------------------------------------------------------------------
(* execute: the insertions go into the commands, position by position.      *)

Placed(seq, position) == SelectSeq(seq, LAMBDA x : x.position = position)
Item(x, k) == [k |-> k, v |-> x.v, order |-> x.order]

\* A readback first runs the control points recorded before it.
ReadbacksAt(r, position) ==
  LET Read(acc, copy) ==
        [due  |-> SelectSeq(acc.due, LAMBDA s : s.order > copy.order),
         done |-> acc.done \o SelectSeq(acc.due, LAMBDA s : s.order <= copy.order)
                           \o <<Item(copy, "readImage")>>]
      all == FoldLeft(Read, [due |-> Placed(r.syncs, position), done |-> <<>>],
                      Placed(r.copies, position))
  IN  all.done \o all.due

Announced(x) == [n \in 1..Cardinality(x.v) |->
  [k |-> "announce", v |-> SetToSeq(x.v)[n], order |-> x.order]]
Synced(x) == IF "k" \in DOMAIN x THEN x ELSE Item(x, x.v.k)

AtPosition(r, position) ==
  LET groups  == Placed(r.descriptors, position)
      waiting == ReadbacksAt(r, position)
  IN  [n \in DOMAIN groups |-> Item(groups[n], "group")]
      \o FlattenSeq([n \in DOMAIN Placed(r.barriers, position) |->
                      Announced(Placed(r.barriers, position)[n])])
      \o [n \in DOMAIN waiting |-> Synced(waiting[n])]
      \o (IF position < Len(r.ops) THEN <<r.ops[position + 1]>> ELSE <<>>)

Spliced(r) == FlattenSeq([n \in 1..Len(r.ops) + 1 |-> AtPosition(r, n - 1)])

\* Which items of the stream end a submission.
IsBoundary(x) ==
  \/ x.k \in {"readImage", "query", "set", "reset", "wait"}
  \/ x.k = "read" /\ ~x.v.hostPrefix
  \/ x.k = "barrier" /\ ~GlobalBarriers

\* The streams execute submits one after the other.
Submissions(stream) ==
  LET Grown(parts, x) == IF IsBoundary(x) THEN Append(parts, <<>>)
                         ELSE [parts EXCEPT ![Len(parts)] = Append(@, x)]
  IN  FoldLeft(Grown, <<<<>>>>, stream)

-----------------------------------------------------------------------------
(* upload_batches::split: uploads are paced, plans are kept apart.          *)

UploadBytes(x) == IF x.k = "writeTexture" THEN x.v.size ELSE 0
Rendering(x) == x.k = "begin"
Computing(x) == x.k = "beginCompute"
RequiresSplit(s, x) ==
  \/ (x.k \in {"writeBuffer", "copyBuffer"} \/ Computing(x)) /\ s.rendered
  \/ Rendering(x) /\ s.computed
Cut(s) == [s EXCEPT !.batches = Append(@, s.batch), !.batch = <<>>, !.bytes = 0,
                    !.rendered = FALSE, !.computed = FALSE]
Put(s, x) == [s EXCEPT !.batch = Append(@, x), !.bytes = @ + UploadBytes(x)]
PushPaced(s, x) ==
  Put(IF s.bytes + UploadBytes(x) > Budget /\ s.batch # <<>> THEN Cut(s) ELSE s, x)
RowChunks(x) ==
  [n \in 1..((UploadBytes(x) + Budget - 1) \div Budget) |->
     [x EXCEPT !.v.size = IF n * Budget <= UploadBytes(x) THEN Budget ELSE UploadBytes(x) % Budget]]
SplitStep(s0, x) ==
  LET s == IF ~s0.inPass /\ RequiresSplit(s0, x) THEN Cut(s0) ELSE s0
  IN  CASE Rendering(x) \/ Computing(x) ->
             LET t == IF s.bytes >= Budget /\ s.batch # <<>> THEN Cut(s) ELSE s
             IN  [Put(t, x) EXCEPT !.inPass = TRUE, !.rendered = @ \/ Rendering(x),
                                   !.computed = @ \/ Computing(x)]
        [] x.k \in {"end", "endCompute"} -> [Put(s, x) EXCEPT !.inPass = FALSE]
        [] s.inPass -> [s EXCEPT !.batch = Append(@, x)]
        [] OTHER -> IF UploadBytes(x) <= Budget THEN PushPaced(s, x)
                    ELSE FoldLeft(PushPaced, s, RowChunks(x))
NeedsBatches(stream) ==
  \/ FoldLeft(LAMBDA n, x : n + UploadBytes(x), 0, stream) > Budget
  \/ \E m, n \in DOMAIN stream :
       /\ m < n
       /\ \/ Rendering(stream[m]) /\ (stream[n].k \in {"writeBuffer", "copyBuffer"} \/ Computing(stream[n]))
          \/ Computing(stream[m]) /\ Rendering(stream[n])
Split(stream) ==
  LET s == FoldLeft(SplitStep, [batches |-> <<>>, batch |-> <<>>, bytes |-> 0, inPass |-> FALSE,
                                rendered |-> FALSE, computed |-> FALSE], stream)
  IN  IF ~NeedsBatches(stream) THEN <<stream>>
      ELSE IF s.batch = <<>> THEN s.batches ELSE Append(s.batches, s.batch)
-----------------------------------------------------------------------------
(* The same commands as Vulkan defines them (reference).                    *)

\* Contents are the marks left in them, oldest first.
Undefined == <<<<"undefined", 0>>>>
AtStart(where) == <<<<where, 0>>>>
Mark(what, order) == <<<<what, order>>>>

NewMeaning ==
  [order |-> 0, pipeline |-> [p \in Points |-> None],
   sets |-> [p \in Points |-> [g \in Groups |-> None]], push |-> "zero",
   vertex |-> None, index |-> None, viewport |-> None, scissor |-> None, pass |-> None,
   images |-> [i \in Images |-> AtStart(i)],
   memory |-> [m \in {MemoryOf[b] : b \in Buffers} |-> AtStart(m)], draws |-> <<>>]

\* The attachments the subpass uses first get what their load operation says.
EnterSubpass(m, p, n, used) ==
  LET s == Passes[p].subpasses[n]
      Loaded(i) == CASE Passes[p].load[i] = "clear" -> Mark("clear", m.order)
                     [] Passes[p].load[i] = "load" -> m.images[i]
                     [] OTHER -> Undefined
  IN  [m EXCEPT !.pass = [pass |-> p, subpass |-> n, used |-> used \cup {i \in Images : UsedBy(s, i)}],
                !.images = [i \in Images |-> IF UsedBy(s, i) /\ i \notin used THEN Loaded(i) ELSE @[i]]]

LeavePass(m) ==
  [m EXCEPT !.pass = None,
            !.images = [i \in Images |-> IF i \in m.pass.used /\ Passes[m.pass.pass].store[i] # "store"
                                         THEN Undefined ELSE @[i]]]

WrittenSets(groups, sets) ==
  {SetWrites[sets[g].set] : g \in {g \in groups : sets[g] \notin {None, EmptyGroup}}} \ {None}

\* What a draw sees, and what it leaves behind.
Reads(s) == s.inputs \cup ToSet(s.colors) \cup ({s.depth} \ {None})
Seen(order, p, s, args, inputs) ==
  [order |-> order, pipeline |-> p, viewport |-> s.viewport, scissor |-> s.scissor,
   groups |-> [g \in Groups |-> IF g \in Pipelines[p].groups THEN s.groups[g] ELSE EmptyGroup],
   push |-> IF Pipelines[p].push THEN s.push ELSE None,
   vertex |-> IF Pipelines[p].slots THEN s.vertex ELSE None, index |-> s.index,
   args |-> args, inputs |-> inputs]
DrawnOn(subpass, p, i) ==
  i \in ToSet(subpass.colors) \/ (i = subpass.depth /\ Pipelines[p].depthWrite)

MeantDraw(m, c) ==
  LET p == m.pipeline.graphics
      s == SubpassOf(m.pass)
      bound == [viewport |-> m.viewport, scissor |-> m.scissor, groups |-> m.sets.graphics,
                push |-> m.push, vertex |-> m.vertex, index |-> IF c.indexed THEN m.index ELSE None]
      args == IF c.k = "DrawIndirect" THEN m.memory[MemoryOf[c.buffer]] ELSE None
      ws == {MemoryOf[b] : b \in WrittenSets(Pipelines[p].groups, m.sets.graphics)}
  IN  IF c.empty \/ m.scissor = "outside" THEN m
      ELSE [m EXCEPT !.draws  = Append(@, Seen(m.order, p, bound, args, [i \in Reads(s) |-> m.images[i]])),
                     !.images = [i \in Images |-> IF DrawnOn(s, p, i) THEN @[i] \o Mark("draw", m.order) ELSE @[i]],
                     !.memory = [x \in DOMAIN @ |-> IF x \in ws THEN @[x] \o Mark("shader", m.order) ELSE @[x]]]

Meant(before, c) ==
  LET m == [before EXCEPT !.order = @ + 1]
      a == m.pass
      ws == {MemoryOf[b] : b \in WrittenSets(Pipelines[m.pipeline.compute].groups, m.sets.compute)}
  IN  CASE c.k = "BeginRenderPass"    -> EnterSubpass(m, c.pass, 1, {})
        [] c.k = "NextSubpass"        -> EnterSubpass(m, a.pass, a.subpass + 1, a.used)
        [] c.k = "EndRenderPass"      -> LeavePass(m)
        [] c.k = "ClearAttachments"   ->
             [m EXCEPT !.images = [i \in Images |-> IF i \in c.images THEN @[i] \o Mark("rect", m.order) ELSE @[i]]]
        [] c.k = "BindPipeline"       -> [m EXCEPT !.pipeline[Pipelines[c.pipeline].point] = c.pipeline]
        [] c.k = "BindDescriptorSets" -> [m EXCEPT !.sets[c.point][c.group] = [set |-> c.set, offset |-> c.offset]]
        [] c.k = "PushConstants"      -> [m EXCEPT !.push = c.value]
        [] c.k = "SetViewport"        -> [m EXCEPT !.viewport = c.viewport]
        [] c.k = "SetScissor"         -> [m EXCEPT !.scissor = c.scissor]
        [] c.k = "BindVertexBuffer"   -> [m EXCEPT !.vertex = c.buffer]
        [] c.k = "BindIndexBuffer"    -> [m EXCEPT !.index = c.buffer]
        [] c.k \in {"Draw", "DrawIndirect"} -> MeantDraw(m, c)
        [] c.k = "Dispatch" /\ ~c.empty ->
             [m EXCEPT !.memory = [x \in DOMAIN @ |-> IF x \in ws THEN @[x] \o Mark("shader", m.order) ELSE @[x]]]
        [] c.k \in {"CopyImage", "BlitImage"} -> [m EXCEPT !.images[c.to] = m.images[c.from]]
        [] c.k \in {"ClearDepthImage", "ClearColorImage"} -> [m EXCEPT !.images[c.image] = Mark("clear", m.order)]
        [] c.k = "CopyImageToBuffer"  -> [m EXCEPT !.memory[MemoryOf[c.buffer]] = m.images[c.image]]
        [] c.k = "UpdateBuffer"       -> [m EXCEPT !.memory[MemoryOf[c.buffer]] = Mark("write", m.order)]
        [] c.k = "CopyBuffer"         -> [m EXCEPT !.memory[MemoryOf[c.to]] = m.memory[MemoryOf[c.from]]]
        [] c.k = "CopyBufferToImage"  -> [m EXCEPT !.images[c.image] = m.memory[MemoryOf[c.buffer]]]
        [] c.k = "Query" /\ c.action = "copy" -> [m EXCEPT !.memory[MemoryOf[c.buffer]] = Mark("query", m.order)]
        [] OTHER -> m

-----------------------------------------------------------------------------
(* What the backend does with the spliced stream.                           *)

NothingBound == [viewport |-> None, scissor |-> None, groups |-> [g \in Groups |-> None],
                 push |-> None, vertex |-> None, index |-> None, pipeline |-> None]
Targets == ({"image", "mip"} \X Images) \cup {Discard}

NewReplay ==
  [state |-> NothingBound, pass |-> None, args |-> None,
   images |-> [t \in Targets |-> IF t[1] = "image" THEN AtStart(t[2]) ELSE Undefined],
   buffers |-> [b \in Buffers |-> AtStart(MemoryOf[b])], draws |-> <<>>, announced |-> {}]

Attached(v) == ToSet(v.colors) \cup (IF v.depth = None THEN {} ELSE {v.depth})
AttachedAt(v, t) == {a \in Attached(v) : a.target = t}
LoadInto(v, t, old, order) ==
  LET a == CHOOSE a \in AttachedAt(v, t) : TRUE
  IN  CASE AttachedAt(v, t) = {} -> old
        [] AttachedAt(v, t) # {} /\ a.load = "load" -> old
        [] AttachedAt(v, t) # {} /\ a.load = "clear" ->
             IF v.whole THEN Mark("clear", order) ELSE old \o Mark("rect", order)
        [] OTHER -> Undefined

ReplayDraw(st, x, args) ==
  LET p == st.state.pipeline
      v == st.pass
      Colored(t) == \/ \E a \in ToSet(v.colors) : a.target = t
                    \/ v.depth # None /\ v.depth.target = t /\ Pipelines[p].depthWrite
      pass == CHOOSE q \in DOMAIN Passes : Passes[q].kind = Pipelines[p].pass
      a == [pass |-> pass, subpass |-> Pipelines[p].subpass]
      ws == WrittenSets(Pipelines[p].groups, st.state.groups)
  IN  [st EXCEPT !.draws = Append(@, [Seen(x.order, p, [st.state EXCEPT !.index = IF x.v.indexed THEN @ ELSE None],
                                           args, [i \in Reads(SubpassOf(a)) |-> st.images[Target(a, i)]])
                                      EXCEPT !.groups = st.state.groups]),
                 !.images = [t \in Targets |-> IF Colored(t) THEN @[t] \o Mark("draw", x.order) ELSE @[t]],
                 !.buffers = [b \in Buffers |-> IF b \in ws THEN @[b] \o Mark("shader", x.order) ELSE @[b]]]

ReplayStep(st, x) ==
  LET ws == WrittenSets(Pipelines[st.state.pipeline].groups, st.state.groups)
  IN  CASE x.k = "begin" ->
             [st EXCEPT !.state = NothingBound, !.pass = x.v,
                        !.images = [t \in Targets |-> LoadInto(x.v, t, @[t], x.order)]]
        [] x.k = "end" ->
             [st EXCEPT !.pass = None,
                        !.images = [t \in Targets |->
                          IF \E a \in AttachedAt(st.pass, t) : a.store = "dontcare" THEN Undefined ELSE @[t]]]
        [] x.k = "beginCompute" -> [st EXCEPT !.state = NothingBound]
        [] x.k \in {"pipeline", "computePipeline"} -> [st EXCEPT !.state.pipeline = x.v]
        [] x.k = "group"    -> [st EXCEPT !.state.groups[x.v.index] = x.v.bound]
        [] x.k \in {"viewport", "scissor", "push", "vertex", "index"} -> [st EXCEPT !.state[x.k] = x.v]
        [] x.k = "draw"     -> ReplayDraw(st, x, None)
        [] x.k = "read"     -> [st EXCEPT !.args = IF x.v.hostPrefix THEN AtStart(MemoryOf[x.v.buffer])
                                                   ELSE st.buffers[x.v.buffer]]
        [] x.k = "drawRead" -> ReplayDraw(st, x, st.args)
        [] x.k = "dispatch" -> [st EXCEPT !.buffers = [b \in Buffers |->
                                  IF b \in ws THEN @[b] \o Mark("shader", x.order) ELSE @[b]]]
        [] x.k \in {"copy", "blit"} -> [st EXCEPT !.images[x.v.to] = st.images[x.v.from]]
        [] x.k = "writeTexture" -> [st EXCEPT !.images[Texture(x.v.image)] = AtStart(MemoryOf[x.v.source])]
        [] x.k = "readImage"    -> [st EXCEPT !.buffers[x.v.buffer] = st.images[Texture(x.v.image)]]
        [] x.k = "writeBuffer"  -> [st EXCEPT !.buffers[x.v.buffer] = Mark("write", x.order)]
        [] x.k = "copyBuffer"   -> [st EXCEPT !.buffers[x.v.to] = st.buffers[x.v.from]]
        [] x.k = "query" /\ x.v.action = "copy" -> [st EXCEPT !.buffers[x.v.buffer] = Mark("query", x.order)]
        [] OTHER -> st

Replay(stream) == FoldLeft(ReplayStep, NewReplay, stream)

-----------------------------------------------------------------------------
(* Steps.                                                                   *)

ResolveInit(prefix) ==
  /\ commands = prefix
  /\ rec = FoldLeft(Applied, NewResolved, prefix)
  /\ meaning = FoldLeft(Meant, NewMeaning, prefix)

Resolve(c) ==
  /\ ~rec.failed
  /\ commands' = Append(commands, c)
  /\ rec' = Applied(rec, c)
  /\ meaning' = IF rec'.failed THEN meaning ELSE Meant(meaning, c)

-----------------------------------------------------------------------------
(* Properties.                                                              *)

\* An attachment nobody has to preserve may hold more than Vulkan promises.
Agrees(real, promised) ==
  IF Head(promised) = Undefined[1] THEN IsSuffix(Tail(promised), real) ELSE real = promised

SameDraw(real, promised) ==
  /\ [real EXCEPT !.inputs = None] = [promised EXCEPT !.inputs = None]
  /\ \A i \in DOMAIN promised.inputs : Agrees(real.inputs[i], promised.inputs[i])

\* Every draw runs, once and in order, with the pipeline, sets, offsets,
\* constants, buffers and arguments Vulkan has bound for it and over the contents
\* Vulkan gives its attachments, although the resolver suppresses repeated state (EmittedGraphics), splits
\* passes and leaves bind groups and indirect draws to be spliced in by execute.
DrawsSeeBoundState ==
  ~rec.failed =>
    LET real == Replay(Spliced(rec)).draws
    IN  /\ Len(real) = Len(meaning.draws)
        /\ \A n \in DOMAIN real : SameDraw(real[n], meaning.draws[n])

\* Between passes, images and buffers hold what the commands left in them:
\* load and store operations, clears inside a pass, subpasses, mip targets,
\* readbacks and control points of execute lose nothing that was to be kept.
ContentsAreKept ==
  ~rec.failed /\ rec.active = None =>
    LET real == Replay(Spliced(rec))
    IN  /\ \A i \in Images : Agrees(real.images[Texture(i)], meaning.images[i])
        /\ \A b \in Buffers : Agrees(real.buffers[b], meaning.memory[MemoryOf[b]])

\* A backend plans one submission at a time: split never leaves a buffer
\* update or a compute pass behind a render pass of the same batch, or a render
\* pass behind a compute pass, never cuts a pass and paces its uploads.
BatchesAreOnePlan ==
  LET Kinds(s) == [n \in DOMAIN s |-> <<s[n].k, s[n].order>>]
      Others(s) == SelectSeq(Kinds(s), LAMBDA x : x[1] # "writeTexture")
      Opens(s) == Cardinality({n \in DOMAIN s : Rendering(s[n]) \/ Computing(s[n])})
      Closes(s) == Cardinality({n \in DOMAIN s : s[n].k \in {"end", "endCompute"}})
      OnePlan(batch) ==
        /\ ~(\E m, n \in DOMAIN batch : m < n /\ Computing(batch[m]) /\ Rendering(batch[n]))
        /\ ~(\E m, n \in DOMAIN batch :
               /\ m < n /\ Rendering(batch[m])
               /\ batch[n].k \in {"writeBuffer", "copyBuffer"} \/ Computing(batch[n]))
        /\ Opens(batch) = Closes(batch)
        /\ FoldLeft(LAMBDA b, x : b + UploadBytes(x), 0, batch) <= Budget
  IN  ~rec.failed /\ rec.active = None =>
        LET streams == Submissions(Spliced(rec))
        IN  \A k \in DOMAIN streams :
              LET batches == Split(streams[k])
              IN  /\ \A n \in DOMAIN batches : OnePlan(batches[n])
                  /\ Others(FlattenSeq(batches)) = Others(streams[k])

\* What leaves the resolver keeps contents and can be planned batch by batch.
BatchesInvariant == ContentsAreKept /\ BatchesAreOnePlan

=============================================================================
