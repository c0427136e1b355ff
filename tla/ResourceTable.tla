----------------------------- MODULE ResourceTable -----------------------------
(***************************************************************************)
(* The logical resource table of the IR                                    *)
(* (crates/sgfx-core/src/ir/resource.rs, programmable.rs, texture_view.rs). *)
(*                                                                         *)
(* Textures, buffers, bind groups, shader modules and programmable         *)
(* pipelines live in slots that are reused: a released slot gets the next  *)
(* generation and goes on a list of free slots threaded through the slots  *)
(* themselves.  Samplers and fixed pipelines are only ever appended.  An   *)
(* identity names a table, a slot and a generation.  Every method takes    *)
(* the table by shared reference, so all of this happens between the       *)
(* calls of a recording that holds references into the table.              *)
(***************************************************************************)
EXTENDS Integers, Sequences, FiniteSets, Absent

CONSTANTS
    Capacity,       \* MAX_TEXTURES, MAX_BUFFERS, ..., by kind
    MaxGeneration,  \* u64::MAX, the last generation of a slot
    TextureDescs,   \* the texture descriptors a program asks for
    BufferDescs,    \* the buffer descriptors
    Layouts,        \* the bind group layouts: sequences of binding types
    Programs        \* programmable pipelines: layout, depth, targets, buffers

SlotKinds == {"texture", "buffer", "group", "shader", "compute", "program"}
ListKinds == {"sampler", "fixed"}

BindingTypes ==
    {"uniform", "storage", "storage_read", "sampled", "sampled_view", "storage_texture"}

ASSUME TableAssumption ==
    /\ MaxGeneration \in Nat
    /\ Layouts \subseteq Seq(BindingTypes)
    /\ Programs \subseteq [layout : Seq(BindingTypes), depth : {"none", "test", "write"},
                           targets : Nat, buffers : Nat]
    /\ \A d \in TextureDescs : d.mips \in Nat
    /\ \A k \in SlotKinds \cup ListKinds : Capacity[k] \in Nat

VARIABLES
    slots,      \* by kind, the slots: descriptor, generation, next_free
    free,       \* by kind, free_texture, free_buffer, ...: 0 for none
    lists,      \* samplers and fixed pipelines
    retired     \* history: the identities released so far

tableVars == <<slots, free, lists, retired>>

-----------------------------------------------------------------------------
(* Descriptors.                                                            *)

(* TextureDesc::new and its builders.                                      *)
ValidTexture(d) ==
    /\ d.usage # {}
    /\ d.format = "nv12" => d.usage = {"SAMPLED"}
    /\ "STORAGE" \in d.usage => d.format = "rgba8"
    /\ d.format = "depth" => d.usage \cap {"STORAGE", "PRESENT"} = {}
    /\ d.mips \in 1..(CHOOSE n \in 1..d.extent : 2^(n - 1) <= d.extent /\ 2^n > d.extent)
    /\ d.mips > 1 => d.format = "rgba8" /\ "PRESENT" \notin d.usage
    /\ d.layers # 0
    /\ d.layers > 1 => d.format # "nv12" /\ "PRESENT" \notin d.usage

ValidBuffer(d) == d.size # 0 /\ d.usage # {}

(* mip_extent, for a mip level the texture has.                            *)
HasMip(d, mip) == mip < d.mips
MipExtent(d, mip) == LET e == d.extent \div 2^mip IN IF e = 0 THEN 1 ELSE e

(* TextureViewDesc::validate: a range of mip levels of one layer.          *)
ValidView(d, v) == v.count # 0 /\ v.base + v.count <= d.mips

-----------------------------------------------------------------------------
(* Identities and slots.                                                   *)

Id(kind, index, gen) == [kind |-> kind, index |-> index, gen |-> gen]
LiveIds(kind) ==
    {Id(kind, i, slots[kind][i].gen) :
        i \in {j \in 1..Len(slots[kind]) : slots[kind][j].desc # None}}

(* texture_ref, texture and their likes: an identity resolves while its    *)
(* slot holds a descriptor of its own generation.                          *)
Resolves(id) ==
    /\ id # None
    /\ id.index \in 1..Len(slots[id.kind])
    /\ slots[id.kind][id.index].gen = id.gen
    /\ slots[id.kind][id.index].desc # None
Desc(id) == slots[id.kind][id.index].desc

(* A released slot is taken first, a new one is appended below the limit.  *)
Define(kind, desc) ==
    /\ UNCHANGED <<lists, retired>>
    /\ \/ /\ free[kind] # 0
          /\ LET i == free[kind] IN
               /\ slots' = [slots EXCEPT ![kind][i] =
                                [desc |-> desc, gen |-> slots[kind][i].gen, next |-> 0]]
               /\ free' = [free EXCEPT ![kind] = slots[kind][i].next]
       \/ /\ free[kind] = 0
          /\ Len(slots[kind]) < Capacity[kind]
          /\ slots' = [slots EXCEPT ![kind] =
                           Append(@, [desc |-> desc, gen |-> 0, next |-> 0])]
          /\ UNCHANGED free

(* Mutant: a released slot keeps its generation.                           *)
MutantRelease(id) ==
    /\ Resolves(id)
    /\ id.gen < MaxGeneration
    /\ slots' = [slots EXCEPT ![id.kind][id.index] =
                     [desc |-> None, gen |-> id.gen, next |-> free[id.kind]]]
    /\ free' = [free EXCEPT ![id.kind] = id.index]
    /\ retired' = retired \cup {id}
    /\ UNCHANGED lists

Release(id) ==
    /\ Resolves(id)
    /\ id.gen < MaxGeneration
    /\ slots' = [slots EXCEPT ![id.kind][id.index] =
                     [desc |-> None, gen |-> id.gen + 1, next |-> free[id.kind]]]
    /\ free' = [free EXCEPT ![id.kind] = id.index]
    /\ retired' = retired \cup {id}
    /\ UNCHANGED lists

-----------------------------------------------------------------------------
(* Operations.                                                             *)

DefineTexture == \E d \in TextureDescs : ValidTexture(d) /\ Define("texture", d)
ReleaseTexture == \E id \in LiveIds("texture") : Release(id)
DefineBuffer == \E d \in BufferDescs : ValidBuffer(d) /\ Define("buffer", d)
ReleaseBuffer == \E id \in LiveIds("buffer") : Release(id)

(* push.                                                                   *)
AppendTo(kind, d) ==
    /\ Len(lists[kind]) < Capacity[kind]
    /\ lists' = [lists EXCEPT ![kind] = Append(@, d)]
    /\ UNCHANGED <<slots, free, retired>>
DefineSampler == \E compare \in BOOLEAN : AppendTo("sampler", [compare |-> compare])
DefineRenderPipeline ==
    \E textured \in BOOLEAN, depth \in {"none", "test", "write"} :
        AppendTo("fixed", [textured |-> textured, depth |-> depth])

(* resource_alias and binding_writes.                                      *)
Writes(type) == type \in {"storage", "storage_texture"}
Alias(a, b) == a.id = b.id

(* BindGroupDesc::validate, one entry against its type in the layout.      *)
Binding(id, base, count) == [id |-> id, base |-> base, count |-> count]
ValidBinding(type, b) ==
    /\ Resolves(b.id)
    /\ LET d == Desc(b.id) IN
       CASE type = "uniform" -> b.id.kind = "buffer" /\ "UNIFORM" \in d.usage
         [] type \in {"storage", "storage_read"} ->
              b.id.kind = "buffer" /\ "STORAGE" \in d.usage
         [] type = "sampled" ->
              /\ b.id.kind = "texture" /\ "SAMPLED" \in d.usage
              /\ d.format # "depth" /\ d.layers = 1
              /\ b.base = 0 /\ b.count = d.mips
         [] type = "sampled_view" ->
              b.id.kind = "texture" /\ ValidView(d, b) /\ "SAMPLED" \in d.usage
         [] type = "storage_texture" ->
              /\ b.id.kind = "texture" /\ ValidView(d, b)
              /\ "STORAGE" \in d.usage /\ b.count = 1

ValidGroup(g) ==
    /\ Len(g.entries) = Len(g.layout)
    /\ \A i \in 1..Len(g.entries) : ValidBinding(g.layout[i], g.entries[i])
    /\ \A i, j \in 1..Len(g.entries) :
        i < j /\ Alias(g.entries[i], g.entries[j])
            => ~Writes(g.layout[i]) /\ ~Writes(g.layout[j])

(* The bindings a program can name: live identities and mip ranges.        *)
Bindings ==
    {Binding(id, 0, 1) : id \in LiveIds("buffer")}
        \cup {Binding(id, base, count) : id \in LiveIds("texture"), base \in 0..1, count \in 1..2}
DefineBindGroup ==
    \E layout \in Layouts : \E entries \in [1..Len(layout) -> Bindings] :
        LET g == [layout |-> layout, entries |-> entries] IN
        ValidGroup(g) /\ Define("group", g)
ReleaseBindGroup == \E id \in LiveIds("group") : Release(id)

DefineShaderModule == Define("shader", [code |-> "module"])

(* A pipeline names its shader modules by identity: they must resolve.     *)
DefineComputePipeline ==
    \E shader \in LiveIds("shader"), layout \in Layouts :
        Define("compute", [shaders |-> {shader}, layout |-> layout])
DefineProgrammableRenderPipeline ==
    \E vertex, fragment \in LiveIds("shader"), p \in Programs :
        Define("program", [shaders |-> {vertex, fragment}, layout |-> p.layout,
                           depth |-> p.depth, targets |-> p.targets, buffers |-> p.buffers])
ReleaseComputePipeline == \E id \in LiveIds("compute") : Release(id)
ReleaseProgrammableRenderPipeline == \E id \in LiveIds("program") : Release(id)

(* A shader module outlives the pipelines that name it.                    *)
ShaderInUse(id) ==
    \E kind \in {"compute", "program"} :
        \E p \in LiveIds(kind) : id \in Desc(p).shaders
ReleaseShaderModule == \E id \in LiveIds("shader") : ~ShaderInUse(id) /\ Release(id)

TableInit ==
    /\ slots = [k \in SlotKinds |-> <<>>]
    /\ free = [k \in SlotKinds |-> 0]
    /\ lists = [k \in ListKinds |-> <<>>]
    /\ retired = {}

TableNext ==
    \/ DefineTexture \/ ReleaseTexture \/ DefineBuffer \/ ReleaseBuffer
    \/ DefineSampler \/ DefineRenderPipeline
    \/ DefineBindGroup \/ ReleaseBindGroup
    \/ DefineShaderModule \/ ReleaseShaderModule
    \/ DefineComputePipeline \/ ReleaseComputePipeline
    \/ DefineProgrammableRenderPipeline \/ ReleaseProgrammableRenderPipeline

TableSpec == TableInit /\ [][TableNext]_tableVars

-----------------------------------------------------------------------------
(* Properties.                                                             *)

(* What a slot may hold, by kind; the descriptors of groups and pipelines  *)
(* name others by identity.                                                *)
Ids == [kind : SlotKinds, index : Nat, gen : 0..MaxGeneration]
AnyBinding == [id : Ids, base : 0..1, count : 1..2]
GroupDescs == [layout : Layouts, entries : Seq(AnyBinding)]
ComputeDescs == [shaders : SUBSET Ids, layout : Layouts]
ProgramDescs ==
    [shaders : SUBSET Ids, layout : Seq(BindingTypes), depth : {"none", "test", "write"},
     targets : Nat, buffers : Nat]
DescsOf(kind) ==
    CASE kind = "texture" -> TextureDescs
      [] kind = "buffer"  -> BufferDescs
      [] kind = "group"   -> GroupDescs
      [] kind = "shader"  -> {[code |-> "module"]}
      [] kind = "compute" -> ComputeDescs
      [] kind = "program" -> ProgramDescs

(* The absence of an identity or a descriptor is neither.                  *)
ASSUME AbsenceAssumption ==
    /\ None \notin Ids
    /\ \A kind \in SlotKinds : None \notin DescsOf(kind)

SlotsOf(kind) == [desc : DescsOf(kind) \cup {None}, gen : 0..MaxGeneration, next : Nat]
TableTypeOK ==
    /\ slots = [kind \in SlotKinds |-> slots[kind]]
    /\ \A kind \in SlotKinds : slots[kind] \in Seq(SlotsOf(kind))
    /\ free \in [SlotKinds -> Nat]
    /\ retired \subseteq Ids

(* c visits every released slot exactly once, in the order of the list,    *)
(* and no slot in use.                                                     *)
IsFreeList(kind, n, c) ==
    /\ free[kind] = IF n = 0 THEN 0 ELSE c[1]
    /\ \A i \in 1..n : slots[kind][c[i]].next = IF i = n THEN 0 ELSE c[i + 1]
    /\ \A i, j \in 1..n : c[i] = c[j] => i = j
    /\ \A x \in 1..Len(slots[kind]) :
          slots[kind][x].desc = None <=> \E i \in 1..n : c[i] = x

(* Every kind has its free list, so a definition never takes a live slot   *)
(* and a released slot is never lost (define_* and release_* of every      *)
(* kind).                                                                  *)
FreeListSound ==
    \A kind \in SlotKinds :
        \E n \in 0..Len(slots[kind]) : \E c \in [1..n -> 1..Len(slots[kind])] :
            IsFreeList(kind, n, c)

(* An identity that was released never resolves again, whatever reused its *)
(* slot since ("References from an earlier generation no longer resolve"): *)
(* its slot has gone on to a later generation.                             *)
Old(id) == id.index \in 1..Len(slots[id.kind]) /\ id.gen < slots[id.kind][id.index].gen
RetiredNeverResolves == \A id \in retired : Old(id) /\ ~Resolves(id)

(* An identity that is live, or was: the table does not hand it out again. *)
Known(id) == Resolves(id) \/ Old(id)

(* The shader modules of every live pipeline are live: a module is only    *)
(* retired after the pipelines that name it.                               *)
PipelinesKeepShaders ==
    \A kind \in {"compute", "program"} :
        \A p \in LiveIds(kind) : Desc(p).shaders \subseteq LiveIds("shader")

(* A texture of the table passed TextureDesc::new, and the bindings of a   *)
(* group that still resolve are what its layout asks for: an identity      *)
(* keeps its descriptor, so what was valid when the group was defined is   *)
(* valid when it is used.                                                  *)
DescriptorsStayValid ==
    /\ \A id \in LiveIds("texture") : ValidTexture(Desc(id))
    /\ \A g \in LiveIds("group") :
        /\ Len(Desc(g).entries) = Len(Desc(g).layout)
        /\ \A i \in 1..Len(Desc(g).layout) :
            LET b == Desc(g).entries[i] IN
            Known(b.id) /\ (Resolves(b.id) => ValidBinding(Desc(g).layout[i], b))

(* The invariant of the table: slots are free or in use, retired           *)
(* identities are gone, pipelines have their modules and what was checked  *)
(* by a definition stays so.                                               *)
TableInvariant ==
    /\ TableTypeOK
    /\ FreeListSound
    /\ RetiredNeverResolves
    /\ PipelinesKeepShaders
    /\ DescriptorsStayValid

(* An identity that resolves names the same descriptor until it is         *)
(* released, whatever is defined and released meanwhile.                   *)
IdentitiesAreStable ==
    \A id \in UNION {LiveIds(kind) : kind \in SlotKinds} :
        \/ Resolves(id)' /\ Desc(id)' = Desc(id)
        \/ id \in retired' \ retired

=============================================================================
