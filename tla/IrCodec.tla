------------------------------- MODULE IrCodec -------------------------------
(***************************************************************************)
(* The words in which descriptors and commands cross a library boundary    *)
(* (crates/sgfx-core/src/ir/abi/codec.rs).                                 *)
(*                                                                         *)
(* A value is put as a sequence of words and got back by a reader that     *)
(* consumes words and builds the value with the constructors of            *)
(* IrDescriptors.  The fields of a record are put in the order of its      *)
(* getters and got in the order of its constructor's arguments: the two    *)
(* are separate tables here because they are separate code.  Rows that     *)
(* grew since the first version carry their additions in a tail.           *)
(***************************************************************************)
EXTENDS IrDescriptors, SequencesExt

CONSTANT ByteChunk      \* the bytes of a word, 8

VARIABLES
    live,       \* the identities that resolve in the reader's table
    textures,   \* the texture descriptors of that table
    legacy      \* legacy_program_ids: the snapshot is of the old format

tableVars == <<live, textures, legacy>>

-----------------------------------------------------------------------------
(* Types.                                                                  *)

UInt(limit) == [k |-> "int", limit |-> limit]
U8 == UInt(32)
U32 == UInt(Half)
U64 == UInt(Half * Half)
I32 == [k |-> "i32"]
F32 == [k |-> "int", limit |-> Half]
Bool == [k |-> "bool"]
Enum(name) == [k |-> "enum", name |-> name]
Flags(name) == [k |-> "flags", name |-> name]
Opt(t) == [k |-> "opt", of |-> t]
Vec(t) == [k |-> "vec", of |-> t]
Floats(n) == [k |-> "floats", n |-> n]
Pair(t) == [k |-> "pair", of |-> t]
Bytes == [k |-> "bytes"]
Rec(name) == [k |-> "rec", name |-> name]
Union(name) == [k |-> "union", name |-> name]
Id(kind, resolves) == [k |-> "id", kind |-> kind, resolves |-> resolves]
F(name, t) == [name |-> name, t |-> t]

(* Enumerations and flags: their numbers are the places in the lists.      *)
Numbers ==
    [TextureFormat |-> <<"Bgra8Unorm", "Bgra8UnormSrgb", "Rgba8Unorm", "Rgba8UnormSrgb",
                         "R8Unorm", "Nv12", "Depth32Float", "Rg8Unorm", "Rgba16Float",
                         "Rgba32Float">>,
     FilterMode |-> <<"Nearest", "Linear">>,
     AddressMode |-> <<"ClampToEdge", "Repeat", "MirrorRepeat", "ClampToBorder">>,
     CompareFunction |-> <<"Never", "Less", "Equal", "LessEqual", "Greater", "NotEqual",
                           "GreaterEqual", "Always">>,
     VertexFormat |-> <<"Sint32", "Uint32", "Float16x2", "Float16x4", "Sint16x4",
                        "Snorm10_10_10_2", "Float32x2", "Float32x3", "Float32x4", "Unorm8x4",
                        "Uint16x2", "Float32", "Snorm8x4", "Sint16x2", "Uint32x2", "Uint32x3",
                        "Uint32x4", "Sint32x2", "Sint32x3", "Sint32x4">>,
     VertexStepMode |-> <<"Vertex", "Instance">>,
     PrimitiveTopology |-> <<"TriangleList", "TriangleStrip", "TriangleFan", "LineList",
                             "LineStrip", "PointList">>,
     IndexFormat |-> <<"Uint16", "Uint32">>,
     TextureSampleMode |-> <<"Rgba", "RgbIgnoreAlpha", "AlphaMask">>,
     BlendFactor |-> <<"Zero", "One", "SourceAlpha", "OneMinusSourceAlpha", "DestinationAlpha",
                       "OneMinusDestinationAlpha", "SourceColor", "OneMinusSourceColor",
                       "DestinationColor", "OneMinusDestinationColor">>,
     BlendOp |-> <<"Add", "Subtract", "ReverseSubtract", "Min", "Max">>,
     CullMode |-> <<"None", "Front", "Back">>,
     FrontFace |-> <<"Clockwise", "CounterClockwise">>,
     StorageTextureAccess |-> <<"WriteOnly">>,
     BufferAccess |-> <<"CopyDestination", "CopySource", "Vertex", "Index", "Uniform",
                        "StorageRead", "StorageReadWrite">>,
     TextureAccess |-> <<"CopyDestination", "CopySource", "Sampled", "RenderAttachment",
                         "StorageWrite">>,
     ShaderStage |-> <<"Vertex", "Fragment", "Compute">>,
     TextureViewDimension |-> <<"D2", "D2Array", "Cube", "D1", "D1Array">>,
     StoreOp |-> <<"Store", "DontCare">>]

FlagList ==
    [TextureUsage |-> <<"COPY_SRC", "COPY_DST", "SAMPLED", "RENDER_ATTACHMENT", "PRESENT",
                        "STORAGE">>,
     BufferUsage |-> <<"COPY_SRC", "COPY_DST", "VERTEX", "INDEX", "UNIFORM", "STORAGE">>,
     ShaderStages |-> <<"VERTEX", "FRAGMENT", "COMPUTE">>]

(* record!: the getters, in the order they are put.                        *)
Getters ==
    [Extent2D |-> <<F("width", U32), F("height", U32)>>,
     PixelRect |-> <<F("x", U32), F("y", U32), F("width", U32), F("height", U32)>>,
     BufferDesc |-> <<F("size", U64), F("usage", Flags("BufferUsage"))>>,
     DepthState |-> <<F("format", Enum("TextureFormat")), F("compare", Enum("CompareFunction")),
                      F("write_enabled", Bool)>>,
     VertexAttribute |-> <<F("location", U32), F("format", Enum("VertexFormat")),
                           F("offset", U32)>>,
     BlendComponent |-> <<F("source_factor", Enum("BlendFactor")),
                          F("destination_factor", Enum("BlendFactor")),
                          F("operation", Enum("BlendOp"))>>,
     BlendState |-> <<F("color", Rec("BlendComponent")), F("alpha", Rec("BlendComponent"))>>,
     DrawUniforms |-> <<F("transform", Floats(16)), F("color", Floats(4))>>,
     Span |-> <<F("ptr", U64), F("len", U64)>>,
     PushConstantRange |-> <<F("stages", Flags("ShaderStages")), F("offset", U32),
                             F("size", U32)>>,
     BindGroupLayoutEntry |-> <<F("binding", U32), F("visibility", Flags("ShaderStages")),
                                F("ty", Union("BindingType"))>>,
     BindGroupEntry |-> <<F("binding", U32), F("resource", Union("BindingResource"))>>,
     ColorTargetState |-> <<F("format", Enum("TextureFormat")), F("blend", Rec("BlendState")),
                            F("write_mask", U8)>>,
     ShaderEntryPoint |-> <<F("module", Id("shader", TRUE)), F("stage", Enum("ShaderStage")),
                            F("entry_point", Bytes)>>,
     TextureViewDesc |-> <<F("format", Enum("TextureFormat")),
                           F("dimension", Enum("TextureViewDimension")), F("base_mip", U32),
                           F("mips", U32), F("base_layer", U32), F("layers", U32)>>]

(* The tagged unions as they are put: tag, number and fields.              *)
V(tag, number, fields) == [tag |-> tag, number |-> number, fields |-> fields]
Variants ==
    [LoadOp |-> <<V("Load", 0, <<>>), V("Clear", 1, <<F("color", Floats(4))>>),
                  V("DontCare", 2, <<>>)>>,
     DepthLoadOp |-> <<V("Load", 0, <<>>), V("Clear", 1, <<F("depth", F32)>>),
                       V("DontCare", 2, <<>>)>>,
     FragmentProgram |-> <<V("Solid", 0, <<>>), V("VertexColor", 1, <<>>),
                           V("Texture", 2, <<F("mode", Enum("TextureSampleMode"))>>),
                           V("TextureVertexColor", 3, <<F("mode", Enum("TextureSampleMode"))>>)>>,
     ShaderModuleDesc |-> <<V("SpirV", 0, <<F("words", Vec(U32))>>),
                            V("Wgsl", 1, <<F("text", Bytes)>>)>>,
     BindingType |-> <<V("UniformBuffer", 0, <<>>),
                       V("StorageBuffer", 1, <<F("read_only", Bool)>>),
                       V("SampledTexture", 2, <<>>),
                       V("SampledTextureView", 3, <<F("dimension", Enum("TextureViewDimension")),
                                                    F("depth", Bool)>>),
                       V("Sampler", 4, <<>>), V("ComparisonSampler", 5, <<>>),
                       V("StorageTexture", 6, <<F("format", Enum("TextureFormat")),
                                                F("access", Enum("StorageTextureAccess"))>>)>>,
     BindingResource |-> <<V("Buffer", 0, <<F("buffer", Id("buffer", FALSE)), F("offset", U64),
                                            F("size", U64)>>),
                           V("Texture", 1, <<F("texture", Id("texture", FALSE))>>),
                           V("Sampler", 2, <<F("sampler", Id("sampler", TRUE))>>),
                           V("TextureView", 3, <<F("texture", Id("texture", FALSE)),
                                                 F("view", Rec("TextureViewDesc"))>>)>>,
     ResourceBarrier |-> <<V("Global", 3, <<>>),
                           V("Buffer", 0, <<F("buffer", Id("buffer", TRUE)),
                                            F("before", Enum("BufferAccess")),
                                            F("after", Enum("BufferAccess"))>>),
                           V("Texture", 1, <<F("texture", Id("texture", TRUE)),
                                             F("before", Enum("TextureAccess")),
                                             F("after", Enum("TextureAccess"))>>),
                           V("TextureMip", 2, <<F("texture", Id("texture", TRUE)), F("mip_level", U32),
                                                F("before", Enum("TextureAccess")),
                                                F("after", Enum("TextureAccess"))>>)>>]

-----------------------------------------------------------------------------
(* Codec::put.                                                             *)

Concat(s) == FoldLeft(LAMBDA a, b : a \o b, <<>>, s)
At(name, v) == (CHOOSE n \in 1..Len(Numbers[name]) : Numbers[name][n] = v) - 1
Bits(name, v) ==
    FoldLeft(LAMBDA a, i : a + (IF FlagList[name][i] \in v THEN 2^(i - 1) ELSE 0), 0,
             [i \in 1..Len(FlagList[name]) |-> i])

(* put_floats: two floats share a word.                                    *)
PutFloats(v) ==
    [i \in 1..((Len(v) + 1) \div 2) |->
        v[2 * i - 1] + (IF 2 * i <= Len(v) THEN v[2 * i] * Half ELSE 0)]

(* put_bytes: a length and whole words, the last one padded.               *)
ByteBase == 8
PutBytes(v) ==
    LET word(i) == FoldLeft(LAMBDA a, j : a + (IF i + j <= Len(v) THEN v[i + j] * ByteBase^(j - 1) ELSE 0),
                            0, [j \in 1..ByteChunk |-> j]) IN
    <<Len(v)>> \o [i \in 1..((Len(v) + ByteChunk - 1) \div ByteChunk) |-> word(ByteChunk * (i - 1))]

(* The identities: samplers and fixed pipelines have no generation, and a  *)
(* library of the old format put none for programs either.                 *)
Unversioned == {"sampler", "fixed"}
PutId(kind, v) == IF kind \in Unversioned \/ (legacy /\ kind \in {"shader", "compute", "program"})
                  THEN <<v.index>> ELSE <<v.index, v.gen>>

RECURSIVE Put(_, _)
PutFields(fields, v) == Concat([i \in 1..Len(fields) |-> Put(fields[i].t, v[fields[i].name])])
PutVariant(name, v) ==
    LET c == CHOOSE i \in 1..Len(Variants[name]) : Variants[name][i].tag = v.tag IN
    <<Variants[name][c].number>> \o PutFields(Variants[name][c].fields, v)
Put(t, v) ==
    CASE t.k = "int" -> <<v>>
      [] t.k = "i32" -> <<v % Half>>
      [] t.k = "bool" -> <<IF v THEN 1 ELSE 0>>
      [] t.k = "enum" -> <<At(t.name, v)>>
      [] t.k = "flags" -> <<Bits(t.name, v)>>
      [] t.k = "opt" -> IF v = None THEN <<0>> ELSE <<1>> \o Put(t.of, v)
      [] t.k = "vec" -> <<Len(v)>> \o Concat([i \in 1..Len(v) |-> Put(t.of, v[i])])
      [] t.k = "pair" -> Put(t.of, v[1]) \o Put(t.of, v[2])
      [] t.k = "floats" -> PutFloats(v)
      [] t.k = "bytes" -> PutBytes(v)
      [] t.k = "id" -> PutId(t.kind, v)
      [] t.k = "rec" -> PutFields(Getters[t.name], v)
      [] t.k = "union" -> PutVariant(t.name, v)

-----------------------------------------------------------------------------
(* Codec::get.  A reader gives a value and the words left, or fails.       *)

Fail == [ok |-> FALSE, v |-> None, rest |-> <<>>]
Got(v, rest) == [ok |-> TRUE, v |-> v, rest |-> rest]
Built(v, rest) == IF v = None THEN Fail ELSE Got(v, rest)
Word(ws) == IF ws = <<>> THEN Fail ELSE Got(Head(ws), Tail(ws))
Take(ws, n) == IF n > Len(ws) THEN Fail ELSE Got(SubSeq(ws, 1, n), SubSeq(ws, n + 1, Len(ws)))
Then(g, Next(_, _)) == IF g.ok THEN Next(g.v, g.rest) ELSE Fail

GetFloats(n, ws) ==
    Then(Take(ws, (n + 1) \div 2), LAMBDA w, rest :
        Got([i \in 1..n |-> IF i % 2 = 1 THEN w[(i + 1) \div 2] % Half ELSE w[i \div 2] \div Half],
            rest))
GetBytes(ws) ==
    Then(Word(ws), LAMBDA len, after :
        Then(Take(after, (len + ByteChunk - 1) \div ByteChunk), LAMBDA w, rest :
            Got([i \in 1..len |->
                    (w[(i + ByteChunk - 1) \div ByteChunk] \div ByteBase^((i - 1) % ByteChunk)) % ByteBase],
                rest)))
FromBits(name, w) ==
    LET n == Len(FlagList[name]) IN
    IF w >= 2^n THEN None
    ELSE {FlagList[name][i] : i \in {j \in 1..n : (w \div 2^(j - 1)) % 2 = 1}}

(* identity!, program_identity! and the identities that resolve when used. *)
GetId(kind, resolves, ws) ==
    LET short == kind \in Unversioned \/ (legacy /\ kind \in {"shader", "compute", "program"})
        id(w) == [index |-> w[1], gen |-> IF short THEN 0 ELSE w[2]] IN
    Then(Take(ws, IF short THEN 1 ELSE 2), LAMBDA w, rest :
        IF resolves /\ id(w) \notin live[kind] THEN Fail ELSE Got(id(w), rest))

RECURSIVE Get(_, _), GetAll(_, _), GetMany(_, _, _)
(* The arguments of a constructor, in their order.                         *)
GetAll(types, ws) ==
    IF types = <<>> THEN Got(<<>>, ws)
    ELSE Then(Get(Head(types), ws), LAMBDA v, rest :
            Then(GetAll(Tail(types), rest), LAMBDA vs, left : Got(<<v>> \o vs, left)))
GetMany(n, t, ws) ==
    IF n = 0 THEN Got(<<>>, ws)
    ELSE Then(Get(t, ws), LAMBDA v, rest :
            Then(GetMany(n - 1, t, rest), LAMBDA vs, left : Got(<<v>> \o vs, left)))
Construct(types, ws, New(_)) ==
    Then(GetAll(types, ws), LAMBDA a, rest : Built(New(a), rest))

GetVec(t, ws) ==
    Then(Word(ws), LAMBDA n, rest : IF n > Len(rest) THEN Fail ELSE GetMany(n, t, rest))
GetOption(t, ws) ==
    Then(Get(Bool, ws), LAMBDA some, rest : IF some THEN Get(t, rest) ELSE Got(None, rest))

(* record!: the constructor and its arguments.                             *)
GetRecord(name, ws) ==
    CASE name = "Extent2D" -> Construct(<<U32, U32>>, ws, LAMBDA a : Extent2D(a[1], a[2]))
      [] name = "PixelRect" ->
           Construct(<<U32, U32, U32, U32>>, ws, LAMBDA a : PixelRect(a[1], a[2], a[3], a[4]))
      [] name = "BufferDesc" ->
           Construct(<<U64, Flags("BufferUsage")>>, ws, LAMBDA a : NewBuffer(a[1], a[2]))
      [] name = "DepthState" ->
           Construct(<<Enum("TextureFormat"), Enum("CompareFunction"), Bool>>, ws,
                     LAMBDA a : [format |-> a[1], compare |-> a[2], write_enabled |-> a[3]])
      [] name = "VertexAttribute" ->
           Construct(<<U32, Enum("VertexFormat"), U32>>, ws,
                     LAMBDA a : [location |-> a[1], format |-> a[2], offset |-> a[3]])
      [] name = "BlendComponent" ->
           Construct(<<Enum("BlendFactor"), Enum("BlendFactor"), Enum("BlendOp")>>, ws,
                     LAMBDA a : [source_factor |-> a[1], destination_factor |-> a[2],
                                 operation |-> a[3]])
      [] name = "BlendState" ->
           Construct(<<Rec("BlendComponent"), Rec("BlendComponent")>>, ws,
                     LAMBDA a : [color |-> a[1], alpha |-> a[2]])
      [] name = "DrawUniforms" ->
           Construct(<<Floats(16), Floats(4)>>, ws,
                     LAMBDA a : If(Transform(a[1]) # None /\ Color(a[2]) # None,
                                   [transform |-> a[1], color |-> a[2]]))
      [] name = "Span" ->
           Construct(<<U64, U64>>, ws,
                     LAMBDA a : If(a[2] > 0 => a[1] # 0, [ptr |-> a[1], len |-> a[2]]))
      [] name = "PushConstantRange" ->
           Construct(<<Flags("ShaderStages"), U32, U32>>, ws,
                     LAMBDA a : NewPushConstantRange(a[1], a[2], a[3]))
      [] name = "BindGroupLayoutEntry" ->
           Construct(<<U32, Flags("ShaderStages"), Union("BindingType")>>, ws,
                     LAMBDA a : [binding |-> a[1], visibility |-> a[2], ty |-> a[3]])
      [] name = "BindGroupEntry" ->
           Construct(<<U32, Union("BindingResource")>>, ws,
                     LAMBDA a : [binding |-> a[1], resource |-> a[2]])
      [] name = "ColorTargetState" ->
           Construct(<<Enum("TextureFormat"), Rec("BlendState"), U8>>, ws,
                     LAMBDA a : If(a[3] <= AllMask, NewColorTarget(a[1], a[2], a[3])))
      [] name = "ShaderEntryPoint" ->
           Construct(<<Id("shader", TRUE), Enum("ShaderStage"), Bytes>>, ws,
                     LAMBDA a : [module |-> a[1], stage |-> a[2], entry_point |-> a[3]])

(* A view is built against the descriptor of its texture, which must       *)
(* resolve.                                                                *)
GetTextureView(ws) ==
    Construct(<<Id("texture", TRUE), Enum("TextureFormat"), Enum("TextureViewDimension"),
                U32, U32, U32, U32>>, ws,
        LAMBDA a :
            LET view == NewView(textures[a[1]],
                            [format |-> a[2], dimension |-> a[3], base_mip |-> a[4], mips |-> a[5],
                             base_layer |-> a[6], layers |-> a[7]]) IN
            If(view # None, [tag |-> "TextureView", texture |-> a[1], view |-> view]))

(* The tagged unions as they are got: the number selects the fields.       *)
Tag1(tag, field, t, ws) == Construct(<<t>>, ws, LAMBDA a : ("tag" :> tag) @@ (field :> a[1]))
GetUnion(name, ws) ==
    Then(Word(ws), LAMBDA n, rest :
        CASE name \in {"LoadOp", "DepthLoadOp"} /\ n = 0 -> Got([tag |-> "Load"], rest)
          [] name \in {"LoadOp", "DepthLoadOp"} /\ n = 2 -> Got([tag |-> "DontCare"], rest)
          [] name = "LoadOp" /\ n = 1 ->
               Construct(<<Floats(4)>>, rest,
                         LAMBDA a : If(Color(a[1]) # None, [tag |-> "Clear", color |-> a[1]]))
          [] name = "DepthLoadOp" /\ n = 1 -> Tag1("Clear", "depth", F32, rest)
          [] name = "FragmentProgram" /\ n = 0 -> Got([tag |-> "Solid"], rest)
          [] name = "FragmentProgram" /\ n = 1 -> Got([tag |-> "VertexColor"], rest)
          [] name = "FragmentProgram" /\ n = 2 ->
               Tag1("Texture", "mode", Enum("TextureSampleMode"), rest)
          [] name = "FragmentProgram" /\ n = 3 ->
               Tag1("TextureVertexColor", "mode", Enum("TextureSampleMode"), rest)
          [] name = "ShaderModuleDesc" /\ n = 0 -> Tag1("SpirV", "words", Vec(U32), rest)
          [] name = "ShaderModuleDesc" /\ n = 1 -> Tag1("Wgsl", "text", Bytes, rest)
          [] name = "BindingType" /\ n = 0 -> Got([tag |-> "UniformBuffer"], rest)
          [] name = "BindingType" /\ n = 1 -> Tag1("StorageBuffer", "read_only", Bool, rest)
          [] name = "BindingType" /\ n = 2 -> Got([tag |-> "SampledTexture"], rest)
          [] name = "BindingType" /\ n = 3 ->
               Construct(<<Enum("TextureViewDimension"), Bool>>, rest,
                         LAMBDA a : [tag |-> "SampledTextureView", dimension |-> a[1],
                                     depth |-> a[2]])
          [] name = "BindingType" /\ n = 4 -> Got([tag |-> "Sampler"], rest)
          [] name = "BindingType" /\ n = 5 -> Got([tag |-> "ComparisonSampler"], rest)
          [] name = "BindingType" /\ n = 6 ->
               Construct(<<Enum("TextureFormat"), Enum("StorageTextureAccess")>>, rest,
                         LAMBDA a : [tag |-> "StorageTexture", format |-> a[1], access |-> a[2]])
          [] name = "BindingResource" /\ n = 0 ->
               Construct(<<Id("buffer", FALSE), U64, U64>>, rest,
                         LAMBDA a : [tag |-> "Buffer", buffer |-> a[1], offset |-> a[2],
                                     size |-> a[3]])
          [] name = "BindingResource" /\ n = 1 ->
               Tag1("Texture", "texture", Id("texture", FALSE), rest)
          [] name = "BindingResource" /\ n = 2 ->
               Tag1("Sampler", "sampler", Id("sampler", TRUE), rest)
          [] name = "BindingResource" /\ n = 3 -> GetTextureView(rest)
          [] name = "ResourceBarrier" /\ n = 3 -> Got([tag |-> "Global"], rest)
          [] name = "ResourceBarrier" /\ n = 0 ->
               Construct(<<Id("buffer", TRUE), Enum("BufferAccess"), Enum("BufferAccess")>>, rest,
                         LAMBDA a : [tag |-> "Buffer", buffer |-> a[1], before |-> a[2],
                                     after |-> a[3]])
          [] name = "ResourceBarrier" /\ n = 1 ->
               Construct(<<Id("texture", TRUE), Enum("TextureAccess"), Enum("TextureAccess")>>,
                         rest,
                         LAMBDA a : [tag |-> "Texture", texture |-> a[1], before |-> a[2],
                                     after |-> a[3]])
          [] name = "ResourceBarrier" /\ n = 2 ->
               Construct(<<Id("texture", TRUE), U32, Enum("TextureAccess"),
                           Enum("TextureAccess")>>, rest,
                         LAMBDA a : [tag |-> "TextureMip", texture |-> a[1], mip_level |-> a[2],
                                     before |-> a[3], after |-> a[4]])
          [] OTHER -> Fail)

Below(limit, w, rest) == IF w < limit THEN Got(w, rest) ELSE Fail
Get(t, ws) ==
    CASE t.k = "int" -> Then(Word(ws), LAMBDA w, rest : Below(t.limit, w, rest))
      [] t.k = "i32" ->
           Then(Word(ws), LAMBDA w, rest :
                Then(Below(Half, w, rest), LAMBDA n, left :
                     Got(IF n >= Half \div 2 THEN n - Half ELSE n, left)))
      [] t.k = "bool" ->
           Then(Word(ws), LAMBDA w, rest : IF w \in {0, 1} THEN Got(w = 1, rest) ELSE Fail)
      [] t.k = "enum" ->
           Then(Word(ws), LAMBDA w, rest :
                IF w < Len(Numbers[t.name]) THEN Got(Numbers[t.name][w + 1], rest) ELSE Fail)
      [] t.k = "flags" -> Then(Word(ws), LAMBDA w, rest : Built(FromBits(t.name, w), rest))
      [] t.k = "opt" -> GetOption(t.of, ws)
      [] t.k = "vec" -> GetVec(t.of, ws)
      [] t.k = "pair" -> GetMany(2, t.of, ws)
      [] t.k = "floats" -> GetFloats(t.n, ws)
      [] t.k = "bytes" -> GetBytes(ws)
      [] t.k = "id" -> GetId(t.kind, t.resolves, ws)
      [] t.k = "rec" -> GetRecord(t.name, ws)
      [] t.k = "union" -> GetUnion(t.name, ws)
=============================================================================
