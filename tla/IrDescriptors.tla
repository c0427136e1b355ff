---------------------------- MODULE IrDescriptors ----------------------------
(***************************************************************************)
(* The descriptors of the IR as their constructors build them              *)
(* (crates/sgfx-core/src/ir: types.rs, resource.rs, pipeline.rs,           *)
(* programmable.rs, render_target.rs, texture_view.rs).                    *)
(*                                                                         *)
(* A constructor or a builder gives a descriptor or None, the refusal; a   *)
(* builder of a refused descriptor is refused.  Numbers are scaled: Half   *)
(* stands for 2^32, a u32 is below Half and a word of 64 bits below        *)
(* Half * Half.  A float is its bit pattern, of which Half - 1 stands for  *)
(* the values that are not finite and Half \div 2 for minus zero.          *)
(***************************************************************************)
EXTENDS Integers, Sequences, FiniteSets, TLC, Absent

CONSTANTS
    Half,               \* 2^32, scaled
    MaxColors,          \* MAX_COLOR_ATTACHMENTS
    MaxAttributes,      \* MAX_VERTEX_ATTRIBUTES
    MaxVertexBuffers,   \* MAX_VERTEX_BUFFERS
    MaxBindings,        \* MAX_BINDINGS_PER_GROUP
    MaxGroups           \* MAX_BIND_GROUPS

ASSUME DescriptorAssumption == Half \in Nat /\ Half > 100

If(condition, d) == IF condition THEN d ELSE None

(* Floats.                                                                 *)
MinusZero == Half \div 2
Finite(f) == f # Half - 1
IsZero(f) == f = 0 \/ f = MinusZero
Normal(f) == IF IsZero(f) THEN 0 ELSE f

-----------------------------------------------------------------------------
(* Values: Color::rgba, Transform::from_columns, Viewport::new.            *)

Color(c) == If(\A i \in 1..4 : Finite(c[i]), c)
Transform(c) == If(\A i \in 1..16 : Finite(c[i]), c)
Viewport(c) ==
    If(/\ \A i \in 1..6 : Finite(c[i])
       /\ ~IsZero(c[3])
       /\ Normal(c[5]) \in {0, 1} /\ Normal(c[6]) \in {0, 1}, c)
Extent2D(w, h) == If(w # 0 /\ h # 0, [width |-> w, height |-> h])
PixelRect(x, y, w, h) ==
    If(/\ w # 0 /\ h # 0 /\ x + w < Half /\ y + h < Half,
       [x |-> x, y |-> y, width |-> w, height |-> h])

-----------------------------------------------------------------------------
(* Resources.                                                              *)

NewTexture(format, extent, usage) ==
    If(/\ format = "Nv12" => usage = {"SAMPLED"}
       /\ usage # {}
       /\ "STORAGE" \in usage => format = "Rgba8Unorm"
       /\ format = "Depth32Float" => usage \cap {"STORAGE", "PRESENT"} = {},
       [format |-> format, extent |-> extent, usage |-> usage,
        mips |-> 1, layers |-> 1, cube |-> FALSE, dimension_1d |-> FALSE])
Largest(e) == IF e.width > e.height THEN e.width ELSE e.height
WithMipLevelCount(d, count) ==
    If(/\ d # None
       /\ count # 0 /\ 2^(count - 1) <= Largest(d.extent)
       /\ count > 1 => d.format \notin {"Depth32Float", "Nv12"} /\ "PRESENT" \notin d.usage,
       [d EXCEPT !.mips = count])
WithArrayLayerCount(d, count) ==
    If(/\ d # None
       /\ count # 0
       /\ count # 1 => "PRESENT" \notin d.usage /\ d.format # "Nv12"
       /\ d.cube => count >= 6,
       [d EXCEPT !.layers = count])
WithCubeCompatible(d, cube) ==
    If(/\ d # None
       /\ cube => ~d.dimension_1d /\ d.layers >= 6 /\ d.extent.width = d.extent.height,
       [d EXCEPT !.cube = cube])
WithDimension1d(d, one) ==
    If(/\ d # None
       /\ one => d.extent.height = 1 /\ ~d.cube /\ d.format # "Nv12" /\ "PRESENT" \notin d.usage,
       [d EXCEPT !.dimension_1d = one])

NewBuffer(size, usage) == If(size # 0 /\ usage # {}, [size |-> size, usage |-> usage])

NewSampler(min, mag, u, v) ==
    [min_filter |-> min, mag_filter |-> mag, address_u |-> u, address_v |-> v,
     mip_filter |-> "Nearest", min_lod |-> 0, max_lod |-> 0,
     compare |-> None, anisotropy |-> 1]
WithMipFilter(d, filter, min, max) ==
    If(d # None /\ Finite(min) /\ Finite(max) /\ Normal(max) >= Normal(min),
       [d EXCEPT !.mip_filter = filter, !.min_lod = Normal(min), !.max_lod = Normal(max)])
WithAnisotropy(d, maximum) == If(d # None /\ maximum \in 1..16, [d EXCEPT !.anisotropy = maximum])
WithCompare(d, compare) == If(d # None, [d EXCEPT !.compare = compare])

(* TextureViewDesc::new and validate, for a texture of descriptor t.       *)
NewView(t, v) ==
    If(/\ t # None
       /\ t.dimension_1d <=> v.dimension \in {"D1", "D1Array"}
       /\ v.mips # 0 /\ v.layers # 0
       /\ v.base_mip + v.mips <= t.mips /\ v.base_layer + v.layers <= t.layers
       /\ v.dimension \in {"D1", "D2"} => v.layers = 1
       /\ v.dimension = "Cube" => v.layers = 6 /\ t.extent.width = t.extent.height, v)

-----------------------------------------------------------------------------
(* Pipeline state.                                                         *)

ByteSize == [Float32x2 |-> 8, Float32x4 |-> 16, Float32 |-> 4]
NewVertexBufferLayout(stride, attributes) ==
    If(/\ stride # 0
       /\ Len(attributes) \in 1..MaxAttributes
       /\ \A i \in 1..Len(attributes) :
            /\ attributes[i].offset + ByteSize[attributes[i].format] <= stride
            /\ \A j \in 1..(i - 1) : attributes[j].location # attributes[i].location,
       [stride |-> stride, attributes |-> attributes, step |-> "Vertex", divisor |-> 1])
WithStepMode(d, step) ==
    If(d # None, [d EXCEPT !.step = step, !.divisor = IF step = "Vertex" THEN 1 ELSE @])
WithInstanceDivisor(d, divisor) ==
    If(d # None /\ divisor # 0 /\ (d.step = "Vertex" => divisor = 1),
       [d EXCEPT !.divisor = divisor])

NewRaster(cull, front) == [cull_mode |-> cull, front_face |-> front, bias |-> <<0, 0>>]
WithDepthBias(r, constant, slope) ==
    If(r # None /\ Finite(constant) /\ Finite(slope),
       [r EXCEPT !.bias = <<Normal(constant), Normal(slope)>>])

FormatAt(layout, location) ==
    {layout.attributes[i].format :
        i \in {j \in 1..Len(layout.attributes) : layout.attributes[j].location = location}}
NewRenderPipeline(format, topology, layout, fragment, blend, raster) ==
    If(/\ layout # None /\ raster # None
       /\ format # "Depth32Float"
       /\ layout.step = "Vertex"
       /\ FormatAt(layout, 0) \in {{"Float32x2"}, {"Float32x4"}}
       /\ fragment.tag = "Texture" => FormatAt(layout, 1) = {"Float32x2"},
       [target_format |-> format, topology |-> topology, vertex_buffer |-> layout,
        fragment |-> fragment, blend |-> blend, raster |-> raster, depth |-> None])
WithDepthState(d, depth) ==
    If(d # None /\ depth.format = "Depth32Float", [d EXCEPT !.depth = depth])
WithRasterState(d, raster) == If(d # None /\ raster # None, [d EXCEPT !.raster = raster])

-----------------------------------------------------------------------------
(* Programmable pipelines and their layouts.                               *)

NewPushConstantRange(stages, offset, size) ==
    If(/\ stages # {} /\ size # 0 /\ offset % 4 = 0 /\ size % 4 = 0
       /\ offset + size <= 128,
       [stages |-> stages, offset |-> offset, size |-> size])

(* The constructors sort what they are given: by binding, by offset.       *)
SortedBy(s, Key(_)) == SortSeq(s, LAMBDA a, b : Key(a) < Key(b))

NewBindGroupLayout(entries) ==
    LET sorted == SortedBy(entries, LAMBDA e : e.binding) IN
    If(/\ Len(entries) <= MaxBindings
       /\ \A i \in 1..Len(sorted) :
            /\ sorted[i].binding < MaxBindings
            /\ sorted[i].visibility # {}
            /\ i > 1 => sorted[i - 1].binding # sorted[i].binding
            /\ sorted[i].ty.tag = "StorageTexture" => sorted[i].ty.format = "Rgba8Unorm",
       [entries |-> sorted])

NewPipelineLayout(groups) == If(Len(groups) <= MaxGroups, [groups |-> groups, ranges |-> <<>>])
WithPushConstantRanges(d, ranges) ==
    If(/\ d # None
       /\ Len(ranges) <= 3
       /\ \A i, j \in 1..Len(ranges) : i < j => ranges[i].stages \cap ranges[j].stages = {},
       [d EXCEPT !.ranges = SortedBy(ranges, LAMBDA r : r.offset * Half + r.size)])

(* BindGroupDesc::from_abi: the bindings of the entries are the layout's.  *)
GroupFromAbi(layout, entries) ==
    If(/\ layout # None
       /\ Len(entries) = Len(layout.entries)
       /\ \A i \in 1..Len(entries) : entries[i].binding = layout.entries[i].binding,
       [layout |-> layout, entries |-> entries])
(* BindGroupDesc::new sorts the entries; their validation is ValidGroup.   *)
NewBindGroup(layout, entries) ==
    GroupFromAbi(layout, SortedBy(entries, LAMBDA e : e.binding))

NewComputePipeline(shader, layout) ==
    If(shader.stage = "Compute" /\ layout # None, [shader |-> shader, layout |-> layout])

AllMask == 15
NewColorTarget(format, blend, mask) ==
    If(format # "Depth32Float", [format |-> format, blend |-> blend, write_mask |-> mask])
NewProgrammable(vertex, fragment, layout, format, topology, blend, raster) ==
    If(/\ vertex.stage = "Vertex" /\ fragment.stage = "Fragment"
       /\ layout # None /\ raster # None /\ format # "Depth32Float",
       [vertex |-> vertex, fragment |-> fragment, layout |-> layout,
        target_format |-> format, vertex_buffers |-> <<>>, topology |-> topology,
        blend |-> blend, raster |-> raster, depth |-> None,
        write_mask |-> AllMask, additional |-> <<>>])
WithColorTargets(d, targets) ==
    If(d # None /\ Len(targets) \in 1..MaxColors,
       [d EXCEPT !.target_format = targets[1].format, !.blend = targets[1].blend,
                 !.write_mask = targets[1].write_mask, !.additional = Tail(targets)])
ColorTargets(d) ==
    <<NewColorTarget(d.target_format, d.blend, d.write_mask)>> \o d.additional
WithVertexBuffers(d, buffers) ==
    LET attribute == {<<b, a>> \in (1..Len(buffers)) \X (1..MaxAttributes) :
                        a <= Len(buffers[b].attributes)}
        location(p) == buffers[p[1]].attributes[p[2]].location IN
    If(/\ d # None
       /\ Len(buffers) <= MaxVertexBuffers
       /\ \A p \in attribute : location(p) < MaxAttributes
       /\ \A p, q \in attribute : p # q => location(p) # location(q),
       [d EXCEPT !.vertex_buffers = buffers])
=============================================================================
