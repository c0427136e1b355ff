------------------------------ MODULE MCBackends ------------------------------
(* The WGPU backend: one thread encodes recordings with a small device, or  *)
(* two threads submit, read back and wait on a device with Limit slots.     *)
(* The VirGL backend: the buffers its streams upload.  A behaviour is about *)
(* one of them.                                                             *)
EXTENDS WgpuEncode, WgpuCompletion, BufferShadow

-----------------------------------------------------------------------------
(* "deltas": one buffer of several words.  "pair": two buffers of one word,  *)
(* which may hold a value that is no vertex record, over fewer revisions.    *)
CONSTANTS b1, b2

Pair == INSTANCE BufferShadow WITH
            Words <- 1, Values <- Values \cup Invalid, MaxRevision <- MaxRevision - 1

BufferSubjects == {"deltas", "pair"}
ShadowStart(s) == IF s = "pair" THEN Pair!ShadowInit ELSE ShadowInit
ShadowStep(s) ==
  \/ s = "deltas" /\ CallsOn({b1})
  \/ s = "pair" /\ Pair!ShadowNext

-----------------------------------------------------------------------------
(* A small WGPU device: a presented texture with two images, two sampled    *)
(* textures of different formats, two buffers.                              *)
TexturesDef == {"screen", "color", "mask"}
LogicalBuffersDef == {"vertices", "data"}
ImagesDef == {"front", "back"}
FormatDef == [screen |-> "bgra", color |-> "bgra", mask |-> "r8", front |-> "bgra", back |-> "bgra"]
BindsDef == [g1 |-> {"screen", "data"}, g2 |-> {"mask"}]
DepthDef == [solid |-> FALSE, image |-> FALSE]
SlotsDef == [list |-> {0, 1}, strip |-> {0}, kernel |-> {0}]
EmptyDef == [list |-> {1}, strip |-> {}, kernel |-> {}]
VerticesDef == [list |-> {0}, strip |-> {}, kernel |-> {}]
TopologyDef == [list |-> "list", strip |-> "strip"]
ShadersDef == [list |-> {"s1"}, strip |-> {"s1"}, kernel |-> {"s2"}]
SizeDef == [front |-> 1, back |-> 2]

Pass(target, area, clear) ==
  [op |-> "BeginRenderPass", colors |-> <<target>>, depth |-> None, area |-> area, clear |-> clear]
End == [op |-> "EndRenderPass"]
Pipe(p) == [op |-> "SetPipeline", pipeline |-> p]
Program(p) == [op |-> "SetProgrammablePipeline", pipeline |-> p]
Vertices(b) == [op |-> "SetVertexBuffer", buffer |-> b, slot |-> 0]
Index(b) == [op |-> "SetIndexBuffer", buffer |-> b]
Tex(t) == [op |-> "SetTexture", texture |-> t]
Bind(k, g) == [op |-> "SetBindGroup", slot |-> k, group |-> g]
Uniforms(v) == [op |-> "SetUniforms", value |-> v]
Sampled == [op |-> "SetSampler", sampler |-> "linear"]
DrawOne == [op |-> "Draw"]
DrawIndex == [op |-> "DrawIndexed"]
Write(x) == [op |-> "Write", uses |-> <<x>>]
Copy(x, y) == [op |-> "Copy", uses |-> <<x, y>>]
Blit(x, y) == [op |-> "Blit", uses |-> <<x, y>>]

StreamsDef ==
  { \* fixed pipelines, a texture of another format, a program between them
    <<Write("vertices"), Write("mask"), Pass("color", "full", TRUE), Tex("mask"), Pipe("image"), Sampled, Uniforms(1),
      Vertices("vertices"), DrawOne, Tex("screen"), DrawOne, Program("list"), Bind(0, "g2"), DrawOne,
      Pipe("solid"), Uniforms(2), DrawOne, Pipe("image"), DrawOne, End>>,
    \* groups over the presented texture, kernels
    <<Copy("data", "vertices"), [op |-> "ResourceBarrier"],
      [op |-> "BeginComputePass"], [op |-> "SetComputePipeline", pipeline |-> "kernel"], Bind(0, "g1"),
      [op |-> "Dispatch"], [op |-> "EndComputePass"],
      Pass("color", "part", TRUE), Program("list"), Vertices("vertices"), Index("data"), Bind(0, "g1"), Bind(1, "g2"), DrawIndex,
      Bind(0, "g2"), DrawOne, End>>,
    \* a pass to the screen, then a blit
    <<Pass("screen", "part", FALSE), Program("list"), Vertices("data"), Bind(0, "g2"), DrawOne, End, Blit("color", "mask")>>,
    \* refused as a whole
    <<Pass("color", "full", TRUE), Program("strip"), Index("data"), Bind(0, "g2"), DrawIndex, End>> }

-----------------------------------------------------------------------------

CONSTANTS
  MaxChanges,   \* bound: cache, query and window calls between submissions
  MaxCount      \* bound: passes and draws counted by a query

VARIABLES subject, changes
backendVars == <<encodeVars, completionVars, shadowVars, subject, changes>>

BackendsInit ==
  /\ subject \in {"encoding", "completion"} \cup BufferSubjects /\ changes = 0
  /\ EncodeInit /\ CompletionInit /\ ShadowStart(subject)
  /\ subject # "encoding" => window = CHOOSE size \in Sizes : TRUE

BackendsNext ==
  /\ UNCHANGED subject
  /\ \/ /\ subject = "encoding" /\ UNCHANGED <<completionVars, shadowVars>>
        /\ \/ Maintain /\ changes < MaxChanges /\ changes' = changes + 1
           \/ Encoding /\ UNCHANGED changes
     \/ subject = "completion" /\ CompletionNext /\ UNCHANGED <<encodeVars, shadowVars, changes>>
     \/ subject \in BufferSubjects /\ ShadowStep(subject)
        /\ UNCHANGED <<encodeVars, completionVars, changes>>
BackendsSpec == BackendsInit /\ [][BackendsNext]_backendVars

Counted(k) == queries[k] # None => queries[k].assembly <= MaxCount /\ queries[k].pending <= MaxCount
Bounded == \A k \in Kinds : Counted(k)
=============================================================================
