------------------------------ MODULE MCLibrary ------------------------------
(* A backend in another library: how it is found and opened, the mirror it   *)
(* keeps of the resource table with the calls that pass through it, and the  *)
(* words descriptors and recordings cross in.  A behaviour is about one.     *)
EXTENDS DriverFacade, DriverLoader, DescriptorRows, CommandStream

-----------------------------------------------------------------------------
(***************************************************************************)
(* What crosses to a backend in another library: descriptors, over a table *)
(* with one identity of each kind, or a recording, over a table with eight *)
(* colour textures and a depth texture.                                    *)
(***************************************************************************)
exchangeVars == <<tableVars, rowVars, streamVars>>

At0(n) == [index |-> n, gen |-> 1]
Flat(n) == [index |-> n, gen |-> 0]
Colors == {At0(n) : n \in 0..7}
DepthTexture == At0(8)
Texel == [format |-> "Rgba8Unorm", extent |-> [width |-> 8, height |-> 4],
          usage |-> {"RENDER_ATTACHMENT"}, mips |-> 2, layers |-> 1, cube |-> FALSE,
          dimension_1d |-> FALSE]

RectA == [x |-> 0, y |-> 1, width |-> 2, height |-> 3]
RectB == [x |-> 4, y |-> 0, width |-> 3, height |-> 2]
Span == [ptr |-> 77, len |-> 12]
Clear(n) == [target |-> At0(n), load |-> [tag |-> "Clear", color |-> <<n, 2, 3, 4>>], store |-> "Store"]
LoadColor(n) == [target |-> At0(n), load |-> [tag |-> "Load"], store |-> "DontCare"]
DepthAttachment(how, readOnly) ==
    [target |-> DepthTexture, load |-> how, store |-> "Store", read_only |-> readOnly]
Pass(colors, depth) ==
    Op("BeginRenderPass", [area |-> RectA, colors |-> colors, depth |-> depth])
Passes ==
    {Pass([i \in 1..8 |-> Clear(i - 1)], DepthAttachment([tag |-> "Clear", depth |-> 1], FALSE)),
     Pass(<<LoadColor(1)>>, None),
     Pass(<<LoadColor(2), Clear(1)>>, DepthAttachment([tag |-> "Load"], TRUE)),
     Pass(<<Clear(2)>>, DepthAttachment([tag |-> "Clear", depth |-> 0], TRUE))}
Barriers ==
    {[tag |-> "Global"],
     [tag |-> "Buffer", buffer |-> At0(0), before |-> "CopyDestination", after |-> "Vertex"],
     [tag |-> "Texture", texture |-> At0(1), before |-> "Sampled", after |-> "CopySource"],
     [tag |-> "TextureMip", texture |-> At0(1), mip_level |-> 1, before |-> "StorageWrite",
      after |-> "Sampled"]}
Commands ==
    Passes \cup {Op("ResourceBarrier", [barrier |-> b]) : b \in Barriers}
    \cup {Op(op, [x \in {} |-> 0]) : op \in {"EndRenderPass", "BeginComputePass", "EndComputePass"}}
    \cup {Op("WriteBuffer", [buffer |-> At0(0), offset |-> 3, data |-> Span]),
          Op("WriteTexture", [texture |-> At0(1), rect |-> RectA, bytes_per_row |-> 32, data |-> Span]),
          Op("WriteTextureMip", [texture |-> At0(1), rect |-> RectB, bytes_per_row |-> 32,
                                 data |-> Span, mip_level |-> 1]),
          Op("WriteTextureLayer", [texture |-> At0(1), rect |-> RectB, bytes_per_row |-> 32,
                                   data |-> Span, mip_level |-> 0, array_layer |-> 2]),
          Op("CopyTextureToTexture", [source |-> At0(1), source_rect |-> RectA,
                                      destination |-> At0(2), destination_rect |-> RectB]),
          Op("BlitTexture", [source |-> At0(1), source_mip |-> 0, destination |-> At0(2),
                             destination_mip |-> 1, filter |-> "Linear"]),
          Op("BlitTextureRegion", [source |-> At0(1), source_mip |-> 0, source_rect |-> RectA,
                                   destination |-> At0(2), destination_mip |-> 1,
                                   destination_rect |-> RectB, filter |-> "Nearest",
                                   flips |-> <<TRUE, FALSE>>]),
          Op("CopyBufferToBuffer", [source |-> At0(0), source_offset |-> 4, destination |-> At0(1),
                                    destination_offset |-> 8, size |-> 16]),
          Op("SetPipeline", [pipeline |-> Flat(0)]),
          Op("SetProgrammablePipeline", [pipeline |-> At0(1)]),
          Op("SetComputePipeline", [pipeline |-> At0(1)]),
          Op("SetBindGroup", [index |-> 2, bind_group |-> At0(1)]),
          Op("SetVertexBuffer", [buffer |-> At0(1), offset |-> 4]),
          Op("SetVertexBufferSlot", [slot |-> 2, buffer |-> At0(1), offset |-> 4]),
          Op("SetIndexBuffer", [buffer |-> At0(0), offset |-> 6, format |-> "Uint32"]),
          Op("SetTexture", [texture |-> At0(3)]), Op("SetSampler", [sampler |-> Flat(0)]),
          Op("SetDrawIndex", [draw_index |-> 5]),
          Op("SetUniforms", [uniforms |-> [transform |-> [i \in 1..16 |-> i],
                                           color |-> <<1, 2, 3, 4>>]]),
          Op("SetScissor", [scissor |-> None]), Op("SetScissor", [scissor |-> RectB]),
          Op("SetViewport", [viewport |-> <<1, 2, 3, 4, 0, 1>>]),
          Op("SetPushConstants", [stages |-> {"VERTEX", "COMPUTE"}, offset |-> 4, data |-> Span]),
          Op("Draw", [vertex_count |-> 3, first_vertex |-> 1]),
          Op("DrawIndexed", [index_count |-> 3, first_index |-> 6, base_vertex |-> -2]),
          Op("DrawInstanced", [vertex_count |-> 3, first_vertex |-> 1, instance_count |-> 2,
                               first_instance |-> 7]),
          Op("DrawIndexedInstanced", [index_count |-> 3, first_index |-> 6, base_vertex |-> -1,
                                      instance_count |-> 2, first_instance |-> 7]),
          Op("Dispatch", [x |-> 1, y |-> 2, z |-> 3])}

IrKinds == {"texture", "buffer", "sampler", "fixed", "shader", "group", "compute", "program"}
One == [index |-> 0, gen |-> 0]
RowTable ==
    /\ live = [k \in IrKinds |-> {One}]
    /\ textures = [id \in {One} |->
            [format |-> "Rgba8Unorm", extent |-> Extent2D(8, 8), usage |-> {"SAMPLED"},
             mips |-> 2, layers |-> 2, cube |-> FALSE, dimension_1d |-> FALSE]]
    /\ legacy \in BOOLEAN
StreamTable ==
    /\ live = [k \in IrKinds |->
                CASE k = "texture" -> Colors \cup {DepthTexture}
                  [] k = "buffer" -> {At0(0), At0(1)}
                  [] k \in Unversioned -> {Flat(0)}
                  [] OTHER -> {At0(1)}]
    /\ textures = [id \in Colors \cup {DepthTexture} |->
                    IF id = DepthTexture THEN [Texel EXCEPT !.format = "Depth32Float"] ELSE Texel]
    /\ legacy = FALSE
ExchangeStart(s) ==
    /\ DescriptorInit /\ StreamInit
    /\ IF s = "rows" THEN RowTable ELSE StreamTable
ExchangeStep(s) ==
    \/ s = "rows" /\ DescriptorNext /\ UNCHANGED streamVars
    \/ s = "stream" /\ StreamNext(Commands) /\ UNCHANGED rowVars

-----------------------------------------------------------------------------

\* Manifest files differ in nothing but their name.
Symmetry == Permutations(Files)

VARIABLE subject
libraryVars == <<facadeVars, loaderVars, exchangeVars, subject>>

\* The state of the parts a behaviour is not about.
FacadeAtRest == flavour = "session" /\ backend = "dynamic"
LoaderAtRest ==
  /\ disk = CHOOSE d \in [Libraries -> {i \in Images : i.sound /\ i.driver}] : TRUE
  /\ gpu = CHOOSE g \in Devices : g.ready

LibraryInit ==
  /\ subject \in {"calls", "loading", "rows", "stream"}
  /\ FacadeInit /\ LoaderInit /\ ExchangeStart(subject)
  /\ subject # "calls" => FacadeAtRest
  /\ subject # "loading" => LoaderAtRest

LibraryNext ==
  /\ UNCHANGED subject
  /\ \/ subject = "calls" /\ FacadeNext /\ UNCHANGED <<loaderVars, exchangeVars>>
     \/ subject = "loading" /\ LoaderNext /\ UNCHANGED <<facadeVars, exchangeVars>>
     \/ subject \in {"rows", "stream"} /\ ExchangeStep(subject) /\ UNCHANGED <<facadeVars, loaderVars>>

LibrarySpec == LibraryInit /\ [][LibraryNext]_libraryVars
=============================================================================
