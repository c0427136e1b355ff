---------------------------- MODULE DescriptorRows ----------------------------
(***************************************************************************)
(* A descriptor on its way to a backend in another library                 *)
(* (crates/sgfx-core/src/ir/abi/codec.rs over the builders of the ir       *)
(* modules).                                                               *)
(*                                                                         *)
(* The program builds a descriptor with a constructor and any sequence of  *)
(* builder calls; it is put in a row of the snapshot, and the reader       *)
(* builds it again with its own sequence of builder calls.  A row has its  *)
(* length, so a reader knows where it ends.  What was added to a row since *)
(* the first version is a tail that is put only when it is needed, so that *)
(* a library built before the addition reads every row it can express and  *)
(* refuses the others.                                                     *)
(***************************************************************************)
EXTENDS IrCodec

CONSTANT
    MaxBuilders         \* bound: builder calls on one descriptor

VARIABLES
    kind,       \* the kind of descriptor under way
    desc,       \* the descriptor, or None
    builders,   \* bound: builder calls so far
    row,        \* the words of its row, or None
    read,       \* what the reader got from it
    oldRead     \* what a reader without tails got from it

rowVars == <<kind, desc, builders, row, read, oldRead>>
descriptorVars == <<tableVars, rowVars>>

Replace == [color |-> [source_factor |-> "One", destination_factor |-> "Zero", operation |-> "Add"],
            alpha |-> [source_factor |-> "SourceAlpha", destination_factor |-> "OneMinusSourceAlpha",
                       operation |-> "Subtract"]]
Raster == NewRaster("Back", "CounterClockwise")

-----------------------------------------------------------------------------
(* Rows.                                                                   *)

(* Codec for TextureDesc: the dimension has no place in the row.           *)
PutTexture(d) ==
    Put(Enum("TextureFormat"), d.format) \o Put(Rec("Extent2D"), d.extent)
        \o Put(Flags("TextureUsage"), d.usage) \o <<d.mips, d.layers>> \o Put(Bool, d.cube)
GetTexture(ws) ==
    Construct(<<Enum("TextureFormat"), Rec("Extent2D"), Flags("TextureUsage"), U32, U32, Bool>>, ws,
        LAMBDA a : WithCubeCompatible(WithArrayLayerCount(
                        WithMipLevelCount(NewTexture(a[1], a[2], a[3]), a[4]), a[5]), a[6]))

(* Codec for SamplerDesc: the anisotropy is a tail.                        *)
PutSampler(d) ==
    Concat(<<Put(Enum("FilterMode"), d.min_filter), Put(Enum("FilterMode"), d.mag_filter),
             Put(Enum("AddressMode"), d.address_u), Put(Enum("AddressMode"), d.address_v),
             Put(Enum("FilterMode"), d.mip_filter), <<d.min_lod, d.max_lod>>,
             Put(Opt(Enum("CompareFunction")), d.compare)>>)
        \o (IF d.anisotropy > 1 THEN <<d.anisotropy>> ELSE <<>>)
GetSamplerHead(ws) ==
    Construct(<<Enum("FilterMode"), Enum("FilterMode"), Enum("AddressMode"), Enum("AddressMode"),
                Enum("FilterMode"), F32, F32, Opt(Enum("CompareFunction"))>>, ws,
        LAMBDA a : WithCompare(WithMipFilter(NewSampler(a[1], a[2], a[3], a[4]), a[5], a[6], a[7]),
                               a[8]))
GetSampler(ws) ==
    Then(GetSamplerHead(ws), LAMBDA d, rest :
        IF rest = <<>> THEN Got(d, rest)
        ELSE Construct(<<U8>>, rest, LAMBDA a : WithAnisotropy(d, a[1])))

(* Codec for VertexBufferLayout: the stride and the attributes.            *)
PutVertexLayout(d) == <<d.stride>> \o Put(Vec(Rec("VertexAttribute")), d.attributes)
GetVertexLayout(ws) ==
    Construct(<<U32, Vec(Rec("VertexAttribute"))>>, ws, LAMBDA a : NewVertexBufferLayout(a[1], a[2]))
RECURSIVE GetVertexLayouts(_, _)
GetVertexLayouts(n, ws) ==
    IF n = 0 THEN Got(<<>>, ws)
    ELSE Then(GetVertexLayout(ws), LAMBDA d, rest :
            Then(GetVertexLayouts(n - 1, rest), LAMBDA ds, left : Got(<<d>> \o ds, left)))

(* RasterState as a record, and put_bias and get_bias: the depth bias is a *)
(* marked tail.                                                            *)
PutRaster(r) == Put(Enum("CullMode"), r.cull_mode) \o Put(Enum("FrontFace"), r.front_face)
STEP == Half + 1
DIVS == Half + 2
BIAS == Half + 3
(* Mutant: only the constant bias is looked at.                            *)
MutantPutBias(r) == IF IsZero(r.bias[1]) THEN <<>> ELSE <<BIAS>> \o r.bias
PutBias(r) == IF \A i \in 1..2 : IsZero(r.bias[i]) THEN <<>> ELSE <<BIAS>> \o r.bias
GetBias(r, ws) ==
    Then(Word(ws), LAMBDA w, rest :
        IF w # BIAS THEN Fail
        ELSE Construct(<<F32, F32>>, rest, LAMBDA a : WithDepthBias(r, a[1], a[2])))
GetBiasTail(d, ws) ==
    IF ws = <<>> THEN Got(d, ws)
    ELSE Then(GetBias(d.raster, ws), LAMBDA r, rest : Built(WithRasterState(d, r), rest))

(* Codec for RenderPipelineDesc.                                           *)
PutFixed(d) ==
    Concat(<<Put(Enum("TextureFormat"), d.target_format),
             Put(Enum("PrimitiveTopology"), d.topology), PutVertexLayout(d.vertex_buffer),
             Put(Union("FragmentProgram"), d.fragment), Put(Rec("BlendState"), d.blend),
             PutRaster(d.raster), Put(Opt(Rec("DepthState")), d.depth), PutBias(d.raster)>>)
GetFixedHead(ws) ==
    Then(GetAll(<<Enum("TextureFormat"), Enum("PrimitiveTopology")>>, ws), LAMBDA a, w1 :
    Then(GetVertexLayout(w1), LAMBDA layout, w2 :
    Then(GetAll(<<Union("FragmentProgram"), Rec("BlendState"), Enum("CullMode"), Enum("FrontFace"),
                  Opt(Rec("DepthState"))>>, w2), LAMBDA b, rest :
        LET d == NewRenderPipeline(a[1], a[2], layout, b[1], b[2], NewRaster(b[3], b[4])) IN
        Built(IF b[5] = None THEN d ELSE WithDepthState(d, b[5]), rest))))
GetFixed(ws) == Then(GetFixedHead(ws), LAMBDA d, rest : GetBiasTail(d, rest))

(* Codec for the layouts and for bind groups.                              *)
PutGroupLayout(d) == Put(Vec(Rec("BindGroupLayoutEntry")), d.entries)
GetGroupLayout(ws) ==
    Construct(<<Vec(Rec("BindGroupLayoutEntry"))>>, ws, LAMBDA a : NewBindGroupLayout(a[1]))
PutGroup(d) == PutGroupLayout(d.layout) \o Put(Vec(Rec("BindGroupEntry")), d.entries)
GetGroup(ws) ==
    Then(GetGroupLayout(ws), LAMBDA layout, rest :
        Construct(<<Vec(Rec("BindGroupEntry"))>>, rest, LAMBDA a : GroupFromAbi(layout, a[1])))
PutPipelineLayout(d) ==
    <<Len(d.groups)>> \o Concat([i \in 1..Len(d.groups) |-> PutGroupLayout(d.groups[i])])
        \o Put(Vec(Rec("PushConstantRange")), d.ranges)
RECURSIVE GetGroupLayouts(_, _)
GetGroupLayouts(n, ws) ==
    IF n = 0 THEN Got(<<>>, ws)
    ELSE Then(GetGroupLayout(ws), LAMBDA d, rest :
            Then(GetGroupLayouts(n - 1, rest), LAMBDA ds, left : Got(<<d>> \o ds, left)))
GetPipelineLayout(ws) ==
    Then(Word(ws), LAMBDA n, w1 :
        IF n > Len(w1) THEN Fail
        ELSE Then(GetGroupLayouts(n, w1), LAMBDA groups, rest :
                Construct(<<Vec(Rec("PushConstantRange"))>>, rest,
                          LAMBDA a : WithPushConstantRanges(NewPipelineLayout(groups), a[1]))))

(* Codec for ComputePipelineDesc and ProgrammableRenderPipelineDesc.       *)
PutCompute(d) == Put(Rec("ShaderEntryPoint"), d.shader) \o PutPipelineLayout(d.layout)
GetCompute(ws) ==
    Then(Get(Rec("ShaderEntryPoint"), ws), LAMBDA shader, w1 :
        Then(GetPipelineLayout(w1), LAMBDA layout, rest :
            Built(NewComputePipeline(shader, layout), rest)))

Marked(mark, needed, t, values) == IF needed THEN <<mark>> \o Put(Vec(t), values) ELSE <<>>
StepTail(d) ==
    LET b == d.vertex_buffers IN
    Marked(STEP, \E i \in 1..Len(b) : b[i].step # "Vertex", Enum("VertexStepMode"),
           [i \in 1..Len(b) |-> b[i].step])
DivisorTail(d) ==
    LET b == d.vertex_buffers IN
    Marked(DIVS, \E i \in 1..Len(b) : b[i].divisor # 1, U32, [i \in 1..Len(b) |-> b[i].divisor])
PutProgrammable(d) ==
    Concat(<<Put(Rec("ShaderEntryPoint"), d.vertex), Put(Rec("ShaderEntryPoint"), d.fragment),
             PutPipelineLayout(d.layout), Put(Enum("TextureFormat"), d.target_format),
             Put(Enum("PrimitiveTopology"), d.topology), Put(Rec("BlendState"), d.blend),
             PutRaster(d.raster),
             <<Len(d.vertex_buffers)>>
                \o Concat([i \in 1..Len(d.vertex_buffers) |-> PutVertexLayout(d.vertex_buffers[i])]),
             Put(Opt(Rec("DepthState")), d.depth), Put(Vec(Rec("ColorTargetState")), ColorTargets(d)),
             StepTail(d), DivisorTail(d), PutBias(d.raster)>>)

GetProgrammableHead(ws) ==
    Then(GetAll(<<Rec("ShaderEntryPoint"), Rec("ShaderEntryPoint")>>, ws), LAMBDA s, w1 :
    Then(GetPipelineLayout(w1), LAMBDA layout, w2 :
    Then(GetAll(<<Enum("TextureFormat"), Enum("PrimitiveTopology"), Rec("BlendState"),
                  Enum("CullMode"), Enum("FrontFace"), U32>>, w2), LAMBDA a, w3 :
    Then(GetVertexLayouts(a[6], w3), LAMBDA buffers, w4 :
    Then(GetAll(<<Opt(Rec("DepthState")), Vec(Rec("ColorTargetState"))>>, w4), LAMBDA b, rest :
        LET d == WithVertexBuffers(NewProgrammable(s[1], s[2], layout, a[1], a[2], a[3],
                                                   NewRaster(a[4], a[5])), buffers) IN
        Built(WithColorTargets(IF b[1] = None THEN d ELSE WithDepthState(d, b[1]), b[2]),
              rest))))))

(* A marked tail of one value for each vertex buffer.                      *)
EachBuffer(d, values, With(_, _)) ==
    LET b == d.vertex_buffers
        new == [i \in 1..Len(b) |-> With(b[i], values[i])] IN
    If(/\ Len(values) = Len(b)
       /\ \A i \in 1..Len(b) : new[i] # None, WithVertexBuffers(d, new))
GetTail(mark, t, d, ws, With(_, _)) ==
    IF ws = <<>> \/ Head(ws) # mark THEN Got(d, ws)
    ELSE Construct(<<Vec(t)>>, Tail(ws), LAMBDA a : EachBuffer(d, a[1], With))
GetStepTail(d, ws) == GetTail(STEP, Enum("VertexStepMode"), d, ws, WithStepMode)
GetDivisorTail(d, ws) == GetTail(DIVS, U32, d, ws, WithInstanceDivisor)
GetProgrammable(ws) ==
    Then(GetProgrammableHead(ws), LAMBDA d, w1 :
    Then(GetStepTail(d, w1), LAMBDA e, w2 :
    Then(GetDivisorTail(e, w2), LAMBDA g, rest : GetBiasTail(g, rest))))

(* One row of a snapshot: all of its words must be used.                   *)
PutRow(k, d) ==
    CASE k = "texture" -> PutTexture(d)
      [] k = "buffer" -> Put(Rec("BufferDesc"), d)
      [] k = "sampler" -> PutSampler(d)
      [] k = "fixed" -> PutFixed(d)
      [] k = "shader" -> Put(Union("ShaderModuleDesc"), d)
      [] k = "group" -> PutGroup(d)
      [] k = "compute" -> PutCompute(d)
      [] k = "program" -> PutProgrammable(d)
GetRow(k, ws) ==
    CASE k = "texture" -> GetTexture(ws)
      [] k = "buffer" -> Get(Rec("BufferDesc"), ws)
      [] k = "sampler" -> GetSampler(ws)
      [] k = "fixed" -> GetFixed(ws)
      [] k = "shader" -> Get(Union("ShaderModuleDesc"), ws)
      [] k = "group" -> GetGroup(ws)
      [] k = "compute" -> GetCompute(ws)
      [] k = "program" -> GetProgrammable(ws)
(* The readers of the rows before their tails.                             *)
GetOldRow(k, ws) ==
    CASE k = "sampler" -> GetSamplerHead(ws)
      [] k = "fixed" -> GetFixedHead(ws)
      [] k = "program" -> GetProgrammableHead(ws)
      [] OTHER -> GetRow(k, ws)
Whole(g) == IF g.ok /\ g.rest = <<>> THEN g.v ELSE None

-----------------------------------------------------------------------------
(* The program: a constructor, builders in any order, and the row.         *)

Start(k, d) ==
    /\ kind = "none" /\ d # None
    /\ kind' = k /\ desc' = d
    /\ UNCHANGED <<tableVars, builders, row, read, oldRead>>
Build(k, d) ==
    /\ kind = k /\ row = None /\ builders < MaxBuilders
    /\ d # None
    /\ desc' = d /\ builders' = builders + 1
    /\ UNCHANGED <<tableVars, kind, row, read, oldRead>>

BuildTexture ==
    \/ \E format \in {"Rgba8Unorm", "Depth32Float", "Nv12"}, w \in {1, 2, 8}, h \in {1, 8},
          usage \in {{"SAMPLED"}, {"COPY_DST", "STORAGE"}, {"PRESENT", "RENDER_ATTACHMENT"}} :
        Start("texture", NewTexture(format, Extent2D(w, h), usage))
    \/ /\ kind = "texture"
       /\ \/ \E n \in 0..4 : Build("texture", WithMipLevelCount(desc, n))
          \/ \E n \in {1, 2, 6} : Build("texture", WithArrayLayerCount(desc, n))
          \/ \E cube \in BOOLEAN : Build("texture", WithCubeCompatible(desc, cube))
          \/ \E one \in BOOLEAN : Build("texture", WithDimension1d(desc, one))
BuildBuffer ==
    \E size \in {0, 4, Half}, usage \in SUBSET {"COPY_SRC", "VERTEX", "STORAGE"} :
        Start("buffer", NewBuffer(size, usage))
BuildSampler ==
    \/ \E min, mag \in {"Nearest", "Linear"} :
        Start("sampler", NewSampler(min, mag, "Repeat", "ClampToBorder"))
    \/ /\ kind = "sampler"
       /\ \/ \E lo, hi \in {0, 2, MinusZero, Half - 1} :
                Build("sampler", WithMipFilter(desc, "Linear", lo, hi))
          \/ \E n \in {0, 1, 2, 16, 17} : Build("sampler", WithAnisotropy(desc, n))
          \/ \E c \in {None, "Less"} : Build("sampler", WithCompare(desc, c))

(* Vertex buffer layouts of one or two attributes.                         *)
Attribute(location, format, offset) ==
    [location |-> location, format |-> format, offset |-> offset]
VertexLayouts ==
    {NewVertexBufferLayout(16, <<Attribute(0, "Float32x2", 0), Attribute(1, "Float32x2", 8)>>),
     NewVertexBufferLayout(16, <<Attribute(0, "Float32x4", 0)>>),
     NewVertexBufferLayout(8, <<Attribute(2, "Float32", 4)>>)}
Depth == [format |-> "Depth32Float", compare |-> "LessEqual", write_enabled |-> TRUE]
Biases(raster) ==
    {WithDepthBias(raster, c, s) : c \in {0, MinusZero, 3, Half - 1}, s \in {0, 5}}
BuildFixed ==
    \/ \E layout \in VertexLayouts,
          fragment \in {[tag |-> "Solid"], [tag |-> "Texture", mode |-> "AlphaMask"]},
          raster \in Biases(Raster) :
        Start("fixed", NewRenderPipeline("Rgba8Unorm", "TriangleFan", layout, fragment, Replace,
                                         raster))
    \/ /\ kind = "fixed"
       /\ \/ Build("fixed", WithDepthState(desc, Depth))
          \/ \E r \in Biases(desc.raster) : Build("fixed", WithRasterState(desc, r))

BuildShader ==
    \E d \in {[tag |-> "SpirV", words |-> <<3, 1, 4>>], [tag |-> "Wgsl", text |-> <<1, 5, 2>>],
              [tag |-> "Wgsl", text |-> <<7, 0>>]} : Start("shader", d)

LayoutEntries ==
    {[binding |-> 3, visibility |-> {"VERTEX"}, ty |-> [tag |-> "UniformBuffer"]],
     [binding |-> 1, visibility |-> {"FRAGMENT", "COMPUTE"},
      ty |-> [tag |-> "SampledTextureView", dimension |-> "D2Array", depth |-> FALSE]],
     [binding |-> 0, visibility |-> {"COMPUTE"},
      ty |-> [tag |-> "StorageTexture", format |-> "Rgba8Unorm", access |-> "WriteOnly"]],
     [binding |-> 2, visibility |-> {"COMPUTE"}, ty |-> [tag |-> "StorageBuffer", read_only |-> TRUE]]}
GroupLayouts ==
    {NewBindGroupLayout(s) : s \in {<<>>} \cup {<<a, b>> : a, b \in LayoutEntries}} \ {None}
ResourceFor(ty) ==
    CASE ty.tag \in {"UniformBuffer", "StorageBuffer"} ->
           {[tag |-> "Buffer", buffer |-> id, offset |-> 16, size |-> 4] : id \in live["buffer"]}
      [] ty.tag = "SampledTextureView" ->
           {[tag |-> "TextureView", texture |-> id,
             view |-> [format |-> "Rgba8Unorm", dimension |-> "D2Array", base_mip |-> 1, mips |-> 1,
                       base_layer |-> 0, layers |-> 2]] : id \in live["texture"]}
      [] OTHER -> {[tag |-> "Texture", texture |-> id] : id \in live["texture"]}
BuildGroup ==
    \E layout \in GroupLayouts :
        \E r \in [1..Len(layout.entries) -> UNION {ResourceFor(e.ty) : e \in LayoutEntries}] :
            /\ \A i \in 1..Len(layout.entries) : r[i] \in ResourceFor(layout.entries[i].ty)
            /\ Start("group", NewBindGroup(layout, Reverse([i \in 1..Len(layout.entries) |->
                        [binding |-> layout.entries[i].binding, resource |-> r[i]]])))

Entry(stage) == [module |-> CHOOSE id \in live["shader"] : TRUE, stage |-> stage,
                 entry_point |-> <<2, 3, 1>>]
Ranges == {NewPushConstantRange({"VERTEX"}, 8, 4), NewPushConstantRange({"FRAGMENT"}, 0, 16),
           NewPushConstantRange({"VERTEX", "COMPUTE"}, 0, 8)}
Layout ==
    {WithPushConstantRanges(NewPipelineLayout(g), r) :
        g \in {<<>>} \cup {<<a, b>> : a, b \in {NewBindGroupLayout(<<e>>) : e \in LayoutEntries}},
        r \in {<<>>} \cup {<<a, b>> : a, b \in Ranges}} \ {None}
BuildCompute ==
    /\ live["shader"] # {}
    /\ \E stage \in {"Compute", "Vertex"}, layout \in Layout :
        Start("compute", NewComputePipeline(Entry(stage), layout))

BuildProgrammable ==
    /\ live["shader"] # {}
    /\ \/ \E layout \in {NewPipelineLayout(<<>>)}, bias \in Biases(Raster) :
            Start("program", NewProgrammable(Entry("Vertex"), Entry("Fragment"), layout,
                                             "Bgra8Unorm", "LineList", Replace, bias))
       \/ /\ kind = "program"
          /\ \/ \E buffers \in {<<>>} \cup {<<a>> : a \in VertexLayouts}
                                \cup {<<a, b>> : a, b \in VertexLayouts} :
                    Build("program", WithVertexBuffers(desc, buffers))
             \/ \E i \in 1..Len(desc.vertex_buffers) :
                    LET b == desc.vertex_buffers
                        steps == {WithStepMode(b[i], s) : s \in {"Vertex", "Instance"}}
                        divisors == {WithInstanceDivisor(b[i], n) : n \in {0, 1, 3}} IN
                    \E new \in (steps \cup divisors) \ {None} :
                        Build("program", WithVertexBuffers(desc, [b EXCEPT ![i] = new]))
             \/ Build("program", WithDepthState(desc, Depth))
             \/ \E n \in {0, 1, 3} :
                    Build("program", WithColorTargets(desc, [i \in 1..n |->
                        NewColorTarget("Rgba8Unorm", Replace, AllMask - i)]))
             \/ \E r \in Biases(desc.raster) : Build("program", WithRasterState(desc, r))

(* The row is put, and read by this library and by one without tails.      *)
PutTheRow ==
    /\ kind # "none" /\ row = None
    /\ row' = PutRow(kind, desc)
    /\ UNCHANGED <<tableVars, kind, desc, builders, read, oldRead>>
ReadTheRow ==
    /\ row # None /\ read = None
    /\ read' = [d |-> Whole(GetRow(kind, row))]
    /\ oldRead' = [d |-> Whole(GetOldRow(kind, row))]
    /\ UNCHANGED <<tableVars, kind, desc, builders, row>>

DescriptorInit ==
    /\ kind = "none" /\ desc = None /\ builders = 0
    /\ row = None /\ read = None /\ oldRead = None

DescriptorNext ==
    \/ BuildTexture \/ BuildBuffer \/ BuildSampler \/ BuildFixed \/ BuildShader \/ BuildGroup
    \/ BuildCompute \/ BuildProgrammable \/ PutTheRow \/ ReadTheRow

-----------------------------------------------------------------------------
(* Properties.                                                             *)

(* Every descriptor the constructors and builders can give, in whatever    *)
(* order they were called, is read back as it was: the reader's own order  *)
(* of builder calls refuses none of them and loses nothing of them but the *)
(* dimension of a texture, the subject of DimensionIsKept.                 *)
Carried == IF kind = "texture" THEN [desc EXCEPT !.dimension_1d = FALSE] ELSE desc
DescriptorsRoundTrip == read # None => read.d = Carried

(* A one-dimensional texture is one for the reader too: a representation   *)
(* must not reinterpret what the frontend meant (docs/1.0-contract.md, "IR *)
(* meaning and resource identity").                                        *)
DimensionIsKept == read # None /\ kind = "texture" => read.d = desc

(* A library that does not know the tails reads a row as it was meant or   *)
(* refuses it ("older consumers reject the additional tail rather than     *)
(* misfetch"), and refuses none that has nothing to say in a tail          *)
(* ("Preserve the exact historical encoding").                             *)
NeedsTail ==
    CASE kind = "sampler" -> desc.anisotropy > 1
      [] kind = "fixed" -> desc.raster.bias # <<0, 0>>
      [] kind = "program" ->
           \/ desc.raster.bias # <<0, 0>>
           \/ \E i \in 1..Len(desc.vertex_buffers) :
                desc.vertex_buffers[i].step # "Vertex" \/ desc.vertex_buffers[i].divisor # 1
      [] OTHER -> FALSE
OldReadersNeverMisread ==
    oldRead # None => oldRead.d = (IF NeedsTail THEN None ELSE Carried)

(* Readers of the present and of the past format agree with the writer.    *)
RowsInvariant == DescriptorsRoundTrip /\ OldReadersNeverMisread

=============================================================================
