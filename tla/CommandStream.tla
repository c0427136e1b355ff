---------------------------- MODULE CommandStream ----------------------------
(***************************************************************************)
(* From an owned recording to the reader of a backend in another library   *)
(* (crates/sgfx-core/src/ir/owned.rs, command.rs and abi/commands.rs).     *)
(*                                                                         *)
(* A frontend keeps commands that name resources by identity.  Replaying   *)
(* them resolves every identity against a table and goes through the       *)
(* encoder; the result is a command buffer, kept as commands or, once the  *)
(* table's ABI is enabled, as words that were encoded as they were         *)
(* recorded.  A batch borrows those words for one call, and the backend    *)
(* reads commands from them one at a time against its own table, in which  *)
(* a resource may have been released since.                                *)
(*                                                                         *)
(* What the encoder refuses for other reasons than the limit (usage,       *)
(* bounds, bindings) is the module Recorder's; here any command may be     *)
(* refused.  Upload bytes are an address and a length.                     *)
(***************************************************************************)
EXTENDS IrCodec

CONSTANTS
    MaxWords,       \* MAX_WORDS, of one command
    MaxCommands,    \* MAX_COMMANDS, scaled down
    MaxOwned,       \* bound: commands of an owned recording
    Alphabet,       \* bound: operations an owned recording may go on with
    Tables          \* identities of resource tables, the first the writer's

VARIABLES
    owned,      \* OwnedCommandBuffer: commands by identity
    enabled,    \* abi.enabled of the table
    recorded,   \* what the replay gave: its commands, or None
    replayed,   \* the table's identities and the verdict of the last replay
    storage,    \* Storage of the command buffer
    batch,      \* the batch handed over, or None
    reader      \* the reader over it, or None

streamVars == <<owned, enabled, recorded, replayed, storage, batch, reader>>
commandVars == <<tableVars, streamVars>>

Op(op, fields) == [op |-> op] @@ fields

-----------------------------------------------------------------------------
(* Render passes.                                                          *)

(* RenderPassDesc::new, with_color_attachment, with_depth_attachment and   *)
(* with_read_only_depth, over the descriptors of the reader's table.       *)
AreaWithin(area, extent) ==
    area.x + area.width <= extent.width /\ area.y + area.height <= extent.height
Attaches(id, area, depth) ==
    LET t == textures[id] IN
    /\ id \in live["texture"]
    /\ (t.format = "Depth32Float") = depth
    /\ t.layers = 1 /\ "RENDER_ATTACHMENT" \in t.usage /\ AreaWithin(area, t.extent)
NewPass(area, target, load, store) ==
    If(Attaches(target, area, FALSE),
       [area |-> area, colors |-> <<[target |-> target, load |-> load, store |-> store]>>,
        depth |-> None])
WithColor(d, target, load, store) ==
    If(/\ d # None
       /\ NewPass(d.area, target, load, store) # None
       /\ textures[target].extent = textures[d.colors[1].target].extent
       /\ \A i \in 1..Len(d.colors) : d.colors[i].target # target
       /\ Len(d.colors) < MaxColors,
       [d EXCEPT !.colors = Append(@, [target |-> target, load |-> load, store |-> store])])
WithDepth(d, target, load, store) ==
    If(/\ d # None
       /\ Attaches(target, d.area, TRUE)
       /\ textures[target].extent = textures[d.colors[1].target].extent
       /\ load.tag = "Clear" => Finite(load.depth) /\ Normal(load.depth) \in {0, 1},
       [d EXCEPT !.depth = [target |-> target, load |-> load, store |-> store,
                            read_only |-> FALSE]])
WithReadOnlyDepth(d) ==
    If(d # None /\ d.depth # None /\ d.depth.load.tag # "Clear",
       [d EXCEPT !.depth.read_only = TRUE])

-----------------------------------------------------------------------------
(* OwnedCommandBuffer::record_with.                                        *)

(* The identities a command names, each with its kind.                     *)
Named(c) ==
    {<<k, c[k]>> : k \in DOMAIN c \cap {"buffer", "texture", "sampler", "bind_group"}}
        \cup {<<IF c.op = "CopyBufferToBuffer" THEN "buffer" ELSE "texture", c[k]>> :
                k \in DOMAIN c \cap {"source", "destination"}}
        \cup (IF c.op = "SetPipeline" THEN {<<"fixed", c.pipeline>>}
              ELSE IF c.op = "SetProgrammablePipeline" THEN {<<"program", c.pipeline>>}
              ELSE IF c.op = "SetComputePipeline" THEN {<<"compute", c.pipeline>>} ELSE {})
        \cup (IF c.op = "ResourceBarrier" /\ c.barrier.tag # "Global"
              THEN {IF c.barrier.tag = "Buffer" THEN <<"buffer", c.barrier.buffer>>
                    ELSE <<"texture", c.barrier.texture>>} ELSE {})
        \cup (IF c.op = "BeginRenderPass"
              THEN {<<"texture", c.colors[i].target>> : i \in 1..Len(c.colors)}
                    \cup (IF c.depth = None THEN {} ELSE {<<"texture", c.depth.target>>})
              ELSE {})
KindOf(k) == IF k = "bind_group" THEN "group" ELSE k
NamesLive(c) == \A n \in Named(c) : n[2] \in live[KindOf(n[1])]

(* OwnedRenderPassDesc::resolve and the attachments added to it: the depth *)
(* is attached before the other colours.                                   *)
ResolvePass(c) ==
    LET first == NewPass(c.area, c.colors[1].target, c.colors[1].load, c.colors[1].store)
        deep == IF c.depth = None THEN first
                ELSE WithDepth(first, c.depth.target, c.depth.load, c.depth.store)
        all == FoldLeft(LAMBDA d, a : WithColor(d, a.target, a.load, a.store), deep,
                        Tail(c.colors)) IN
    IF c.depth # None /\ c.depth.read_only THEN WithReadOnlyDepth(all) ELSE all

(* What the encoder is called with: the three texture writes are one       *)
(* command, and a blit of whole mip levels is a blit of their rectangles.  *)
MipRect(id, mip) ==
    LET e == textures[id].extent
        side(n) == IF n \div 2^mip = 0 THEN 1 ELSE n \div 2^mip IN
    PixelRect(0, 0, side(e.width), side(e.height))
Resolved(c) ==
    CASE c.op = "BeginRenderPass" ->
           LET d == ResolvePass(c) IN If(d # None, Op("BeginRenderPass", d))
      [] c.op \in {"WriteTexture", "WriteTextureMip", "WriteTextureLayer"} ->
           [c EXCEPT !.op = "WriteTexture"] @@ [mip_level |-> 0, array_layer |-> 0]
      [] c.op = "BlitTextureRegion" -> [c EXCEPT !.op = "BlitTexture"]
      [] c.op = "BlitTexture" ->
           c @@ [source_rect |-> MipRect(c.source, c.source_mip),
                 destination_rect |-> MipRect(c.destination, c.destination_mip),
                 flips |-> <<FALSE, FALSE>>]
      [] OTHER -> c
Transfers == {"WriteBuffer", "WriteTexture", "WriteTextureMip", "WriteTextureLayer", "BlitTexture",
              "BlitTextureRegion", "CopyBufferToBuffer", "CopyTextureToTexture", "ResourceBarrier"}
RenderOps == {"SetPipeline", "SetProgrammablePipeline", "SetBindGroup", "SetVertexBuffer",
              "SetVertexBufferSlot", "SetIndexBuffer", "SetTexture", "SetSampler", "SetDrawIndex",
              "SetUniforms", "SetScissor", "SetViewport", "SetPushConstants", "Draw",
              "DrawIndexed", "DrawInstanced", "DrawIndexedInstanced"}
ComputeOps == {"SetComputePipeline", "SetBindGroup", "Dispatch", "SetPushConstants"}

(* CommandEncoder: the pass that is open, and the room left for its end.   *)
Encoder == [pass |-> "none", out |-> <<>>, ok |-> TRUE]
Push(e, c) ==
    IF c # None /\ Len(e.out) < MaxCommands - (IF e.pass = "none" THEN 0 ELSE 1)
    THEN [e EXCEPT !.out = Append(@, c)] ELSE [e EXCEPT !.ok = FALSE]
BeginPass(e, pass, c) ==
    IF c # None /\ Len(e.out) <= MaxCommands - 2
    THEN [e EXCEPT !.out = Append(@, c), !.pass = pass] ELSE [e EXCEPT !.ok = FALSE]
EndPass(e, c) == [e EXCEPT !.out = Append(@, c), !.pass = "none"]

RecordOne(e, c) ==
    CASE ~e.ok \/ ~NamesLive(c) -> [e EXCEPT !.ok = FALSE]
      [] e.pass = "none" /\ c.op \in Transfers -> Push(e, Resolved(c))
      [] e.pass = "none" /\ c.op = "BeginRenderPass" -> BeginPass(e, "render", Resolved(c))
      [] e.pass = "none" /\ c.op = "BeginComputePass" -> BeginPass(e, "compute", c)
      [] e.pass = "render" /\ c.op \in RenderOps -> Push(e, c)
      [] e.pass = "render" /\ c.op = "EndRenderPass" -> EndPass(e, c)
      [] e.pass = "compute" /\ c.op \in ComputeOps -> Push(e, c)
      [] e.pass = "compute" /\ c.op = "EndComputePass" -> EndPass(e, c)
      [] OTHER -> [e EXCEPT !.ok = FALSE]
Finished(e) == If(e.ok /\ e.pass = "none", e.out)
record_with(commands) == Finished(FoldLeft(RecordOne, Encoder, commands))

-----------------------------------------------------------------------------
(* encode: the operands of each command, in the order they are put.        *)

BufferId == Id("buffer", TRUE)
TextureId == Id("texture", TRUE)
Rect == Rec("PixelRect")
Encoding(opcode, fields) == [opcode |-> opcode, fields |-> fields]
Operands ==
    [WriteBuffer |-> Encoding(1, <<F("buffer", BufferId), F("offset", U64), F("data", Rec("Span"))>>),
     WriteTexture |->
        Encoding(2, <<F("texture", TextureId), F("rect", Rect), F("bytes_per_row", U32),
                      F("mip_level", U32), F("array_layer", U32), F("data", Rec("Span"))>>),
     CopyTextureToTexture |->
        Encoding(3, <<F("source", TextureId), F("source_rect", Rect), F("destination", TextureId),
                      F("destination_rect", Rect)>>),
     EndRenderPass |-> Encoding(5, <<>>),
     SetPipeline |-> Encoding(6, <<F("pipeline", Id("fixed", TRUE))>>),
     SetVertexBuffer |-> Encoding(7, <<F("buffer", BufferId), F("offset", U64)>>),
     SetIndexBuffer |->
        Encoding(8, <<F("buffer", BufferId), F("offset", U64), F("format", Enum("IndexFormat"))>>),
     SetTexture |-> Encoding(9, <<F("texture", TextureId)>>),
     SetSampler |-> Encoding(10, <<F("sampler", Id("sampler", TRUE))>>),
     SetUniforms |-> Encoding(11, <<F("uniforms", Rec("DrawUniforms"))>>),
     SetScissor |-> Encoding(12, <<F("scissor", Opt(Rect))>>),
     Draw |-> Encoding(13, <<F("vertex_count", U32), F("first_vertex", U32)>>),
     DrawIndexed |->
        Encoding(14, <<F("index_count", U32), F("first_index", U32), F("base_vertex", I32)>>),
     BlitTexture |->
        Encoding(15, <<F("source", TextureId), F("source_mip", U32), F("destination", TextureId),
                       F("destination_mip", U32), F("source_rect", Rect),
                       F("destination_rect", Rect), F("filter", Enum("FilterMode")),
                       F("flips", Pair(Bool))>>),
     CopyBufferToBuffer |->
        Encoding(16, <<F("source", BufferId), F("source_offset", U64), F("destination", BufferId),
                       F("destination_offset", U64), F("size", U64)>>),
     SetProgrammablePipeline |-> Encoding(17, <<F("pipeline", Id("program", TRUE))>>),
     SetBindGroup |-> Encoding(18, <<F("index", U32), F("bind_group", Id("group", TRUE))>>),
     BeginComputePass |-> Encoding(19, <<>>),
     EndComputePass |-> Encoding(20, <<>>),
     SetComputePipeline |-> Encoding(21, <<F("pipeline", Id("compute", TRUE))>>),
     Dispatch |-> Encoding(22, <<F("x", U32), F("y", U32), F("z", U32)>>),
     ResourceBarrier |-> Encoding(23, <<F("barrier", Union("ResourceBarrier"))>>),
     SetVertexBufferSlot |->
        Encoding(24, <<F("slot", U32), F("buffer", BufferId), F("offset", U64)>>),
     SetViewport |-> Encoding(25, <<F("viewport", Floats(6))>>),
     SetPushConstants |->
        Encoding(26, <<F("stages", Flags("ShaderStages")), F("offset", U32), F("data", Rec("Span"))>>),
     DrawInstanced |->
        Encoding(27, <<F("vertex_count", U32), F("first_vertex", U32), F("instance_count", U32),
                       F("first_instance", U32)>>),
     DrawIndexedInstanced |->
        Encoding(28, <<F("index_count", U32), F("first_index", U32), F("base_vertex", I32),
                       F("instance_count", U32), F("first_instance", U32)>>),
     SetDrawIndex |-> Encoding(29, <<F("draw_index", U32)>>)]

PutAttachment(a, load) ==
    Put(TextureId, a.target) \o Put(Union(load), a.load) \o Put(Enum("StoreOp"), a.store)
PutPass(c) ==
    Concat(<<Put(Rect, c.area), <<Len(c.colors)>>,
             Concat([i \in 1..Len(c.colors) |-> PutAttachment(c.colors[i], "LoadOp")]),
             Put(Bool, c.depth # None),
             IF c.depth = None THEN <<>>
             ELSE PutAttachment(c.depth, "DepthLoadOp") \o Put(Bool, c.depth.read_only)>>)

(* A command is a header, its opcode and its length, and its operands.     *)
encode(c) ==
    LET body == IF c.op = "BeginRenderPass" THEN PutPass(c) ELSE PutFields(Operands[c.op].fields, c)
        opcode == IF c.op = "BeginRenderPass" THEN 4 ELSE Operands[c.op].opcode IN
    <<opcode + (Len(body) + 1) * Half>> \o body

-----------------------------------------------------------------------------
(* decode_into: the commands without resources.                            *)

Decoding(op, fields) == [op |-> op, fields |-> fields]
ScalarCommands ==
    5 :> Decoding("EndRenderPass", <<>>)
    @@ 29 :> Decoding("SetDrawIndex", <<F("draw_index", U32)>>)
    @@ 11 :> Decoding("SetUniforms", <<F("uniforms", Rec("DrawUniforms"))>>)
    @@ 12 :> Decoding("SetScissor", <<F("scissor", Opt(Rect))>>)
    @@ 13 :> Decoding("Draw", <<F("vertex_count", U32), F("first_vertex", U32)>>)
    @@ 14 :> Decoding("DrawIndexed",
                      <<F("index_count", U32), F("first_index", U32), F("base_vertex", I32)>>)
    @@ 19 :> Decoding("BeginComputePass", <<>>)
    @@ 20 :> Decoding("EndComputePass", <<>>)
    @@ 22 :> Decoding("Dispatch", <<F("x", U32), F("y", U32), F("z", U32)>>)
    @@ 25 :> Decoding("SetViewport", <<F("viewport", Floats(6))>>)
    @@ 27 :> Decoding("DrawInstanced",
                      <<F("vertex_count", U32), F("first_vertex", U32), F("instance_count", U32),
                        F("first_instance", U32)>>)
    @@ 28 :> Decoding("DrawIndexedInstanced",
                      <<F("index_count", U32), F("first_index", U32), F("base_vertex", I32),
                        F("instance_count", U32), F("first_instance", U32)>>)
(* decode_resource_command: every identity must resolve.                   *)
ResourceCommands ==
    1 :> Decoding("WriteBuffer", <<F("buffer", BufferId), F("offset", U64), F("data", Rec("Span"))>>)
    @@ 2 :> Decoding("WriteTexture",
                     <<F("texture", TextureId), F("rect", Rect), F("bytes_per_row", U32),
                       F("mip_level", U32), F("array_layer", U32), F("data", Rec("Span"))>>)
    @@ 3 :> Decoding("CopyTextureToTexture",
                     <<F("source", TextureId), F("source_rect", Rect), F("destination", TextureId),
                       F("destination_rect", Rect)>>)
    @@ 6 :> Decoding("SetPipeline", <<F("pipeline", Id("fixed", TRUE))>>)
    @@ 7 :> Decoding("SetVertexBuffer", <<F("buffer", BufferId), F("offset", U64)>>)
    @@ 8 :> Decoding("SetIndexBuffer",
                     <<F("buffer", BufferId), F("offset", U64), F("format", Enum("IndexFormat"))>>)
    @@ 9 :> Decoding("SetTexture", <<F("texture", TextureId)>>)
    @@ 10 :> Decoding("SetSampler", <<F("sampler", Id("sampler", TRUE))>>)
    @@ 15 :> Decoding("BlitTexture",
                      <<F("source", TextureId), F("source_mip", U32), F("destination", TextureId),
                        F("destination_mip", U32), F("source_rect", Rect),
                        F("destination_rect", Rect), F("filter", Enum("FilterMode")),
                        F("flips", Pair(Bool))>>)
    @@ 16 :> Decoding("CopyBufferToBuffer",
                      <<F("source", BufferId), F("source_offset", U64), F("destination", BufferId),
                        F("destination_offset", U64), F("size", U64)>>)
    @@ 17 :> Decoding("SetProgrammablePipeline", <<F("pipeline", Id("program", TRUE))>>)
    @@ 18 :> Decoding("SetBindGroup", <<F("index", U32), F("bind_group", Id("group", TRUE))>>)
    @@ 21 :> Decoding("SetComputePipeline", <<F("pipeline", Id("compute", TRUE))>>)
    @@ 23 :> Decoding("ResourceBarrier", <<F("barrier", Union("ResourceBarrier"))>>)
    @@ 24 :> Decoding("SetVertexBufferSlot",
                      <<F("slot", U32), F("buffer", BufferId), F("offset", U64)>>)
    @@ 26 :> Decoding("SetPushConstants",
                      <<F("stages", Flags("ShaderStages")), F("offset", U32),
                        F("data", Rec("Span"))>>)

(* The attachments of a render pass: the colours, then the depth.          *)
RECURSIVE GetColors(_, _, _)
GetColors(n, d, ws) ==
    IF n = 0 THEN Built(d, ws)
    ELSE Then(GetAll(<<TextureId, Union("LoadOp"), Enum("StoreOp")>>, ws), LAMBDA a, rest :
            GetColors(n - 1, WithColor(d, a[1], a[2], a[3]), rest))
GetDepth(d, ws) ==
    Then(GetAll(<<TextureId, Union("DepthLoadOp"), Enum("StoreOp"), Bool>>, ws), LAMBDA a, rest :
        LET deep == WithDepth(d, a[1], a[2], a[3]) IN
        Built(IF a[4] THEN WithReadOnlyDepth(deep) ELSE deep, rest))
(* Mutant: the limit of the colours is off by one.                         *)
MutantGetPass(ws) ==
    Then(GetAll(<<Rect, U64>>, ws), LAMBDA h, w1 :
    IF h[2] = 0 \/ h[2] >= MaxColors THEN Fail
    ELSE Then(GetAll(<<TextureId, Union("LoadOp"), Enum("StoreOp")>>, w1), LAMBDA a, w2 :
         Then(GetColors(h[2] - 1, NewPass(h[1], a[1], a[2], a[3]), w2), LAMBDA d, w3 :
         Then(Get(Bool, w3), LAMBDA some, w4 :
              IF some THEN GetDepth(d, w4) ELSE Got(d, w4)))))
GetPass(ws) ==
    Then(GetAll(<<Rect, U64>>, ws), LAMBDA h, w1 :
    IF h[2] = 0 \/ h[2] > MaxColors THEN Fail
    ELSE Then(GetAll(<<TextureId, Union("LoadOp"), Enum("StoreOp")>>, w1), LAMBDA a, w2 :
         Then(GetColors(h[2] - 1, NewPass(h[1], a[1], a[2], a[3]), w2), LAMBDA d, w3 :
         Then(Get(Bool, w3), LAMBDA some, w4 :
              IF some THEN GetDepth(d, w4) ELSE Got(d, w4)))))

GetOperands(fields, ws) == GetAll([i \in 1..Len(fields) |-> fields[i].t], ws)
WithOperands(d, values) ==
    Op(d.op, [n \in {d.fields[i].name : i \in 1..Len(d.fields)} |->
                values[CHOOSE i \in 1..Len(d.fields) : d.fields[i].name = n]])
Viewable(c) == c.op = "SetViewport" => Viewport(c.viewport) # None
decode_into(opcode, ws) ==
    LET table == ScalarCommands @@ ResourceCommands IN
    CASE opcode = 4 -> Then(GetPass(ws), LAMBDA d, rest : Got(Op("BeginRenderPass", d), rest))
      [] opcode \in DOMAIN table ->
           Then(GetOperands(table[opcode].fields, ws), LAMBDA v, rest :
                LET c == WithOperands(table[opcode], v) IN IF Viewable(c) THEN Got(c, rest) ELSE Fail)
      [] OTHER -> Fail

(* read_next: one framed command.  After an error nothing more is read.    *)
Stopped == [words |-> <<>>, remaining |-> 0]
Frame(r) ==
    Then(Word(r.words), LAMBDA header, rest :
        LET count == header \div Half IN
        IF count = 0 \/ count > MaxWords THEN Fail
        ELSE Then(Take(rest, count - 1), LAMBDA fields, left :
                Then(decode_into(header % Half, fields), LAMBDA c, extra :
                    IF extra = <<>> THEN Got(c, left) ELSE Fail)))
scan_compute(ws, count) ==
    LET step(s, i) ==
            LET h == Word(s.words)
                length == h.v \div Half
                opcode == h.v % Half
                body == Take(h.rest, length - 1) IN
            IF ~s.ok \/ ~h.ok THEN [s EXCEPT !.ok = FALSE]
            ELSE IF length \notin 1..MaxWords \/ opcode \notin 1..29 \/ ~body.ok
            THEN [s EXCEPT !.ok = FALSE]
            ELSE [s EXCEPT !.words = body.rest, !.found = @ \/ opcode \in 19..22]
        end == FoldLeft(step, [words |-> ws, ok |-> TRUE, found |-> FALSE],
                        [i \in 1..count |-> i]) IN
    If(end.ok /\ end.words = <<>>, [found |-> end.found])

-----------------------------------------------------------------------------
(* The frontend.                                                           *)

(* OwnedCommandBuffer::new over one more command.                          *)
Retain(c) ==
    /\ Len(owned) < MaxOwned /\ replayed = None
    /\ Len(owned) > 1 => c.op \in Alphabet
    /\ owned' = Append(owned, c)
    /\ UNCHANGED <<tableVars, enabled, recorded, replayed, storage, batch, reader>>

(* enable_abi_commands.                                                    *)
EnableAbi ==
    /\ ~enabled
    /\ enabled' = TRUE
    /\ UNCHANGED <<tableVars, owned, recorded, replayed, storage, batch, reader>>

(* Storage::new and push: the words are encoded as commands are recorded.  *)
Stored(commands) ==
    IF enabled
    THEN [kind |-> "Abi", words |-> Concat([i \in 1..Len(commands) |-> encode(commands[i])]),
          count |-> Len(commands)]
    ELSE [kind |-> "Rust", words |-> <<>>, count |-> Len(commands)]
record ==
    /\ owned # <<>> /\ replayed = None
    /\ LET commands == record_with(owned) IN
        /\ recorded' = commands
        /\ storage' = If(commands # None, Stored(commands))
        /\ replayed' = [live |-> live, ok |-> commands # None]
    /\ UNCHANGED <<tableVars, owned, enabled, batch, reader>>

(* A resource is released, here and in the mirror of the reader.  Bound:   *)
(* one of those a recording names.                                         *)
Release(k, id) ==
    /\ recorded # None /\ live = replayed.live
    /\ <<k, id>> \in UNION {{<<KindOf(n[1]), n[2]>> : n \in Named(recorded[i])} : i \in 1..Len(recorded)}
    /\ id \in live[k] /\ k \notin Unversioned
    /\ live' = [live EXCEPT ![k] = @ \ {id}]
    /\ UNCHANGED <<textures, legacy, streamVars>>

(* CommandBuffer::abi_batch, and from_abi in the backend.                  *)
abi_batch ==
    /\ storage # None /\ batch = None /\ storage.kind = "Abi"
    /\ \E table \in Tables :
        batch' = [table |-> table, words |-> storage.words, count |-> storage.count]
    /\ UNCHANGED <<tableVars, owned, enabled, recorded, replayed, storage, reader>>
from_abi(source) ==
    /\ batch # None /\ reader = None
    /\ batch.table = source
    /\ batch.count <= MaxCommands /\ Len(batch.words) <= MaxCommands * MaxWords
    /\ reader' = [words |-> batch.words, remaining |-> batch.count, got |-> <<>>,
                  state |-> "reading"]
    /\ UNCHANGED <<tableVars, owned, enabled, recorded, replayed, storage, batch>>

(* CommandReader::next_command and the iterator.                           *)
next_command ==
    /\ reader # None /\ reader.state = "reading"
    /\ LET end == reader.remaining = 0
           g == Frame(reader) IN
        reader' = IF end THEN [reader EXCEPT !.state = IF reader.words = <<>> THEN "end" ELSE "error"]
                  ELSE IF g.ok
                  THEN [reader EXCEPT !.words = g.rest, !.remaining = @ - 1, !.got = Append(@, g.v)]
                  ELSE Stopped @@ [got |-> reader.got, state |-> "error"]
    /\ UNCHANGED <<tableVars, owned, enabled, recorded, replayed, storage, batch>>

StreamInit ==
    /\ owned = <<>> /\ enabled = FALSE /\ recorded = None /\ replayed = None
    /\ storage = None /\ batch = None /\ reader = None
StreamNext(Commands) ==
    \/ \E c \in Commands : Retain(c)
    \/ EnableAbi \/ record \/ abi_batch \/ next_command
    \/ \E k \in DOMAIN live : \E id \in live[k] : Release(k, id)
    \/ \E source \in Tables : from_abi(source)

-----------------------------------------------------------------------------
(* Properties.                                                             *)

(* A command that names only live resources and whose pass, if it is one,  *)
(* can be built.                                                           *)
Sound(c) == NamesLive(c) /\ (c.op = "BeginRenderPass" => ResolvePass(c) # None)

(* What a backend reads from the words is what was recorded, command for   *)
(* command and in order; it stops early only at a command that names a     *)
(* resource released since; and the scan of the headers alone finds the    *)
(* compute commands that are there.                                        *)
StreamReadsBack ==
    /\ reader # None =>
        /\ reader.got = SubSeq(recorded, 1, Len(reader.got))
        /\ reader.state = "end" => reader.got = recorded
        /\ reader.state = "error" => ~Sound(recorded[Len(reader.got) + 1])
    /\ batch # None =>
        scan_compute(batch.words, batch.count) =
            [found |-> \E i \in 1..Len(recorded) :
                        recorded[i].op \in {"BeginComputePass", "EndComputePass",
                                            "SetComputePipeline", "Dispatch"}]

(* A replay takes the whole recording or nothing: it is accepted exactly   *)
(* when every pass is ended by its own end before another command that     *)
(* does not belong in it, everything named resolves and it fits, and then  *)
(* it holds every command once, in order.                                  *)
Begins(op) == CASE op = "BeginRenderPass" -> "EndRenderPass"
                [] op = "BeginComputePass" -> "EndComputePass"
                [] OTHER -> "none"
Inside(op) == IF op = "BeginRenderPass" THEN RenderOps ELSE ComputeOps
InPass(i) ==    \* the place of the pass command i lies in, or 0
    LET b == {j \in 1..(i - 1) : Begins(owned[j].op) # "none"
                /\ \A k \in (j + 1)..(i - 1) : owned[k].op # Begins(owned[j].op)} IN
    IF b = {} THEN 0 ELSE CHOOSE j \in b : \A k \in b : j >= k
WellNested ==
    \A i \in 1..Len(owned) :
        LET p == InPass(i) IN
        IF p = 0 THEN /\ owned[i].op \in Transfers \/ Begins(owned[i].op) # "none"
                      /\ Begins(owned[i].op) # "none" =>
                            \E k \in (i + 1)..Len(owned) : owned[k].op = Begins(owned[i].op)
        ELSE owned[i].op \in Inside(owned[p].op) \cup {Begins(owned[p].op)}
ReplayIsWhole ==
    (replayed # None /\ live = replayed.live) =>
        /\ replayed.ok <=> /\ WellNested
                           /\ \A i \in 1..Len(owned) : Sound(owned[i])
                           /\ Len(owned) <= MaxCommands
        /\ replayed.ok => recorded = [i \in 1..Len(owned) |-> Resolved(owned[i])]

(* Words and owned streams give back the recording, whole and in order.    *)
StreamInvariant == StreamReadsBack /\ ReplayIsWhole

=============================================================================
