-------------------------- MODULE VulkanDescriptors --------------------------
(* Descriptor pools, sets and the bind groups made from them.               *)
(*                                                                          *)
(* A descriptor set is only a table of handles.  When a packet executes, the *)
(* bindings a shader really uses become an immutable IR bind group.  Groups  *)
(* are shared by contents, remembered by the sets and evicted in order of    *)
(* their last use.  Everything runs on the device worker: one API call or    *)
(* one packet at a time, but a packet takes several steps here because       *)
(* definitions, evictions and uses follow each other inside it.              *)
EXTENDS Naturals, Sequences, FiniteSets, FiniteSetsExt, SequencesExt, Functions, TLC, Absent

CONSTANTS
  Pools, Sets, SetLayouts, Resources,   \* Vulkan handles
  RealIds,              \* IR identities of buffers and textures
  GroupIds,             \* IR identities of bind groups
  Types,                \* descriptor types: "buffer", "dynamic", "combined"
  Declared,             \* [SetLayouts -> [binding numbers -> Types]]
  PushLayouts,          \* push_set_layouts
  Kind,                 \* [Resources -> {"buffer", "view"}]
  PoolCapacity,         \* [Pools -> [Types -> Nat]]
  PoolSets,             \* [Pools -> Nat], max_sets
  FreeablePools,        \* pools created with FREE_DESCRIPTOR_SET
  Pairs,                \* MAX_BINDINGS_PER_GROUP / 2
  SetLimit,             \* MAX_DESCRIPTOR_SETS
  DefinitionLimit,      \* MAX_BIND_GROUP_DEFINITIONS
  Kept,                 \* CACHED_DESCRIPTOR_GROUPS
  MaxUses               \* bound: descriptor uses of a packet

ASSUME DescriptorsAssumption ==
  /\ {Pairs, SetLimit, DefinitionLimit, Kept, MaxUses} \subseteq Nat
  /\ \A l \in SetLayouts : /\ DOMAIN Declared[l] \subseteq Nat
                        /\ Cardinality(DOMAIN Declared[l]) <= Pairs

VARIABLES
  layouts,    \* set_layouts
  pools,      \* descriptor_pools: remaining descriptors, None when absent
  sets,       \* descriptor_sets
  owned,      \* pushed_set_owners whose recordings still exist
  real,       \* handle -> IR identity
  groups,     \* the IR table's bind groups
  cached,     \* bind_group_cache: identity -> descriptor
  recency,    \* bind_group_recency, oldest first
  packet      \* the packet on the worker, None between packets
descriptorVars == <<layouts, pools, sets, owned, real, groups, cached, recency, packet>>
poolVars == <<layouts, owned, real, groups, cached, recency, packet>>

Offsets == {0, 1}      \* dynamic offsets, in units of their alignment
Sampler == 0
NoGroup == [layout |-> {}, entries |-> <<>>]

Quiet == packet = None

-----------------------------------------------------------------------------
(* Layouts.  Binding numbers are labels; IR slots come in pairs.            *)

Slots == {2 * i : i \in 0..Pairs - 1}

\* Small labels keep their own pair, the others take the first free one.
DescriptorBindingMap(types) ==
  LET low == {b \in DOMAIN types : b < Pairs}
      Pack(map, b) == map @@ (b :> Min(Slots \ Range(map)))
  IN  FoldLeft(Pack, [b \in low |-> 2 * b], SetToSortSeq(DOMAIN types \ low, <))

\* Both halves of a pair lead back to the label.
IrToSource(types, slot) ==
  CHOOSE b \in DOMAIN types : DescriptorBindingMap(types)[b] = slot - (slot % 2)

\* Slots a layout declares: a combined image sampler has two.
DeclaredSlots(types) ==
  LET map == DescriptorBindingMap(types)
  IN  UNION {{map[b]} \cup (IF types[b] = "combined" THEN {map[b] + 1} ELSE {}) : b \in DOMAIN types}

\* specialized_layout_matches: a shader may leave out declared entries.
Reflected(types) == SUBSET DeclaredSlots(types)

CreateDescriptorSetLayout(l) ==
  /\ Quiet /\ l \notin layouts
  /\ layouts' = layouts \cup {l}
  /\ UNCHANGED <<pools, sets, owned, real, groups, cached, recency, packet>>

DestroyDescriptorSetLayout(l) ==
  /\ Quiet /\ l \in layouts
  /\ layouts' = layouts \ {l}
  /\ UNCHANGED <<pools, sets, owned, real, groups, cached, recency, packet>>

-----------------------------------------------------------------------------
(* Pools and sets.                                                          *)

NewSet(p, l) ==
  [pool |-> p, types |-> Declared[l], bindings |-> [b \in DOMAIN Declared[l] |-> None],
   group |-> None, invalid |-> FALSE]

LiveSets == {s \in Sets : sets[s] # None}
SetsOf(p) == {s \in LiveSets : sets[s].pool = p}
Uses(types, t) == Cardinality({b \in DOMAIN types : types[b] = t})
Without(p) == [s \in Sets |-> IF s \in SetsOf(p) THEN None ELSE sets[s]]

CreateDescriptorPool(p) ==
  /\ Quiet /\ pools[p] = None
  /\ pools' = [pools EXCEPT ![p] = PoolCapacity[p]]
  /\ UNCHANGED <<sets, poolVars>>

DestroyDescriptorPool(p) ==
  /\ Quiet /\ pools[p] # None
  /\ pools' = [pools EXCEPT ![p] = None]
  /\ sets' = Without(p)
  /\ UNCHANGED poolVars

ResetDescriptorPool(p) ==
  /\ Quiet /\ pools[p] # None
  /\ pools' = [pools EXCEPT ![p] = PoolCapacity[p]]
  /\ sets' = Without(p)
  /\ UNCHANGED poolVars

\* What the pool has left once every requested layout is served, None when one
\* of them asks for more than there is.
Remaining(p, wanted) ==
  LET need(t) == FoldSeq(LAMBDA l, n : n + Uses(Declared[l], t), 0, wanted)
  IN  IF \E t \in Types : need(t) > pools[p][t] THEN None
      ELSE [t \in Types |-> pools[p][t] - need(t)]

\* wanted: the layouts of the call, new: the handles it makes.
AllocateDescriptorSets(p, wanted, new) ==
  /\ Quiet /\ pools[p] # None
  /\ Cardinality(LiveSets) + Len(wanted) <= SetLimit
  /\ Range(wanted) \subseteq layouts \ PushLayouts
  /\ Cardinality(SetsOf(p)) + Len(wanted) <= PoolSets[p]
  /\ Remaining(p, wanted) # None
  /\ pools' = [pools EXCEPT ![p] = Remaining(p, wanted)]
  /\ sets' = [s \in Sets |-> IF s \in Range(new)
                             THEN NewSet(p, wanted[CHOOSE i \in DOMAIN new : new[i] = s])
                             ELSE sets[s]]
  /\ UNCHANGED poolVars

\* Every handle is checked before the first one is freed.
FreeDescriptorSets(p, freed) ==
  /\ Quiet /\ pools[p] # None /\ p \in FreeablePools
  /\ freed \subseteq SetsOf(p)
  /\ sets' = [s \in Sets |-> IF s \in freed THEN None ELSE sets[s]]
  /\ pools' = [pools EXCEPT ![p] =
       [t \in Types |-> @[t] + MapThenSumSet(LAMBDA s : Uses(sets[s].types, t), freed)]]
  /\ UNCHANGED poolVars

-----------------------------------------------------------------------------
(* Updates.                                                                 *)

\* descriptor_write_binding: an update may run on over the bindings that follow,
\* as long as they have the same type.
DescriptorWriteBinding(types, first, element) ==
  LET following == SetToSortSeq({b \in DOMAIN types : b >= first}, <)
      reached == SubSeq(following, 1, Min({element + 1, Len(following)}))
  IN  IF /\ first \in DOMAIN types /\ element < Len(following)
         /\ \A b \in Range(reached) : types[b] = types[first]
      THEN following[element + 1] ELSE None

Accepts(t, h) == h \in Resources /\ real[h] # None
                 /\ (t = "combined") = (Kind[h] = "view")

\* A set that was updated wrongly is refused from then on: its bindings are
\* never read again.
Spoiled(set) ==
  [set EXCEPT !.group = None, !.invalid = TRUE, !.bindings = [b \in DOMAIN set.types |-> None]]

\* One element of a write; h = None stands for a value the frontend refuses.
Written(set, first, element, h) ==
  LET b == DescriptorWriteBinding(set.types, first, element)
  IN  IF b # None /\ ~set.invalid /\ Accepts(set.types[first], h)
      THEN [set EXCEPT !.group = None, !.bindings[b] = h]
      ELSE Spoiled(set)

UpdateDescriptorSets(s, first, element, h) ==
  /\ Quiet /\ sets[s] # None /\ sets[s].pool # None
  /\ sets' = [sets EXCEPT ![s] = Written(@, first, element, h)]
  /\ UNCHANGED <<pools, poolVars>>

CopyDescriptorSet(from, b, to, c) ==
  LET source == sets[from]
      usable == /\ source # None => ~source.invalid /\ b \in DOMAIN source.types
                /\ source # None
      same == /\ source.bindings[b] # None
              /\ c \in DOMAIN sets[to].types => sets[to].types[c] = source.types[b]
              /\ c \in DOMAIN sets[to].types
  IN  /\ Quiet /\ sets[to] # None /\ sets[to].pool # None
      /\ sets' = [sets EXCEPT ![to] =
           IF usable /\ ~@.invalid THEN IF same THEN [@ EXCEPT !.group = None, !.bindings[c] = source.bindings[b]]
                                          ELSE Spoiled(@)
           ELSE Spoiled(@)]
      /\ UNCHANGED <<pools, poolVars>>

\* A template made for other bindings spoils the set; a matching one performs
\* the writes of UpdateDescriptorSets.
UpdateWithTemplate(s, l) ==
  /\ Quiet /\ sets[s] # None /\ sets[s].pool # None /\ sets[s].types # Declared[l]
  /\ sets' = [sets EXCEPT ![s] = Spoiled(@)]
  /\ UNCHANGED <<pools, poolVars>>

-----------------------------------------------------------------------------
(* Resources.  A destroyed buffer's identity may serve the next buffer.     *)

\* A handle some set still names is never given out again.
Unnamed(h) == \A s \in LiveSets : h \notin Range(sets[s].bindings)

CreateBufferObject(h, id) ==
  /\ Quiet /\ Kind[h] = "buffer" /\ real[h] = None /\ Unnamed(h)
  /\ \A x \in Resources : real[x] # id
  /\ real' = [real EXCEPT ![h] = id]
  /\ UNCHANGED <<layouts, pools, sets, owned, groups, cached, recency, packet>>

\* A view of an image with a texture; several views may share it.
CreateImageView(h, id) ==
  /\ Quiet /\ Kind[h] = "view" /\ real[h] = None /\ Unnamed(h)
  /\ \A x \in Resources : real[x] = id => Kind[x] = "view"
  /\ real' = [real EXCEPT ![h] = id]
  /\ UNCHANGED <<layouts, pools, sets, owned, groups, cached, recency, packet>>

DestroyResource(h) ==
  /\ Quiet /\ real[h] # None
  /\ real' = [real EXCEPT ![h] = None]
  /\ UNCHANGED <<layouts, pools, sets, owned, groups, cached, recency, packet>>

-----------------------------------------------------------------------------
(* Bind groups.                                                             *)

\* An identity nothing refers to is as good as one of a new generation.
FreshGroup == {g \in GroupIds : /\ groups[g] = None /\ cached[g] = None
                                /\ \A s \in LiveSets : sets[s].group # g}

\* define_bind_group has room.
TableHasRoom == Cardinality({g \in GroupIds : groups[g] # None}) < DefinitionLimit

Touched(order, g) == Append(SelectSeq(order, LAMBDA x : x # g), g)

\* The descriptor of the entries a shader uses; None when one of them cannot be
\* resolved to a live resource.
Resolvable(set, slots) ==
  \A slot \in slots : LET h == set.bindings[IrToSource(set.types, slot)]
                      IN  h # None => real[h] # None

Bound(set, slots) == \A slot \in slots : set.bindings[IrToSource(set.types, slot)] # None

GroupDesc(set, slots, offset) ==
  [layout |-> slots,
   entries |-> [slot \in slots |->
     LET b == IrToSource(set.types, slot)
     IN  IF slot % 2 = 1 THEN <<Sampler, 0>>
         ELSE <<real[set.bindings[b]], IF set.types[b] = "dynamic" THEN offset ELSE 0>>]]

HasDynamic(set) == \E b \in DOMAIN set.types : set.types[b] = "dynamic"

\* The group the set itself remembers, when it is exactly what is asked for.
Remembered(set, desc) ==
  IF ~HasDynamic(set) /\ set.group # None /\ groups[set.group] = desc THEN set.group ELSE None

CachedBindGroup(desc) == {g \in GroupIds : cached[g] = desc}

-----------------------------------------------------------------------------
(* A packet.                                                                *)

\* What the packet will do: uses of sets, and whether a pipeline layout has a
\* set without bindings.
BeginPacket(uses, empty) ==
  /\ Quiet
  /\ packet' = [uses |-> uses, empty |-> empty, emitted |-> {}, stage |-> "resolve", failed |-> FALSE]
  /\ UNCHANGED <<layouts, pools, sets, owned, real, groups, cached, recency>>

Defined(g, desc) ==
  /\ groups' = [groups EXCEPT ![g] = desc]
  /\ cached' = [cached EXCEPT ![g] = desc]
  /\ recency' = Touched(recency, g)

Emitted(g, desc, wants) == [id |-> g, desc |-> desc, wants |-> wants]

\* The device is lost: nothing runs again.
Lost == [uses |-> <<>>, empty |-> FALSE, emitted |-> {}, stage |-> "lost", failed |-> TRUE]

Failed == [packet EXCEPT !.stage = "trim", !.failed = TRUE]

\* push_descriptors::resolve: a recording's own set, made once and never changed.
ResolvePush(s, l, prior, first, h) ==
  LET history == prior # None
      base == IF history THEN [NewSet(None, l) EXCEPT !.bindings = sets[prior].bindings] ELSE NewSet(None, l)
      made == Written(base, first, 0, h)
  IN  /\ ~Quiet /\ packet.stage = "resolve"
      /\ sets[s] = None /\ l \in layouts \cap PushLayouts
      /\ prior # None => /\ prior \in owned /\ sets[prior] # None /\ sets[prior].pool = None
                         /\ sets[prior].types = Declared[l]
      /\ sets' = [sets EXCEPT ![s] = made]
      /\ owned' = owned \cup {s}
      /\ packet' = IF made.invalid THEN Failed
                   ELSE [packet EXCEPT !.uses = Append(@, [set |-> s, slots |-> DeclaredSlots(made.types), offset |-> 0])]
      /\ UNCHANGED <<layouts, pools, real, groups, cached, recency>>

\* empty_bind_group, embedded in the resolved commands.
ResolveEmpty ==
  /\ ~Quiet /\ packet.stage = "resolve" /\ packet.empty
  /\ LET known == CachedBindGroup(NoGroup)
     IN  \/ /\ known # {}
            /\ packet' = [packet EXCEPT !.empty = FALSE, !.emitted = @ \cup {Emitted(g, NoGroup, <<>>) : g \in known}]
            /\ UNCHANGED <<groups, cached, recency>>
         \/ /\ known = {} /\ TableHasRoom
            /\ \E g \in FreshGroup :
                 /\ Defined(g, NoGroup)
                 /\ packet' = [packet EXCEPT !.empty = FALSE, !.emitted = @ \cup {Emitted(g, NoGroup, <<>>)}]
         \/ /\ known = {} /\ ~TableHasRoom
            /\ packet' = Failed
            /\ UNCHANGED <<groups, cached, recency>>
  /\ UNCHANGED <<layouts, pools, sets, owned, real>>

\* Identities of cached groups with entries: only they are evicted.
Evictable == {g \in GroupIds : cached[g] # None /\ cached[g] # NoGroup}

Oldest(keep) ==
  LET order == SelectSeq(recency, LAMBDA g : g \in Evictable)
      n == Cardinality(Evictable)
  IN  IF n <= keep THEN {} ELSE Range(SubSeq(order, 1, n - keep))

\* Groups whose backend release was refused stay cached and defined.
Trimmed(evict, refused) ==
  LET released == evict \ refused
      Drop(f) == [g \in GroupIds |-> IF g \in released THEN None ELSE f[g]]
  IN  /\ groups' = Drop(groups)
      /\ cached' = Drop(cached)
      /\ recency' = SelectSeq(recency, LAMBDA g : g \notin released)

(* Mutant: sets keep groups that were evicted. *)
MutantForgotten(released) == sets

Forgotten(released) ==
  [s \in Sets |-> IF sets[s] # None THEN IF sets[s].group \in released
                                         THEN [sets[s] EXCEPT !.group = None] ELSE sets[s]
                  ELSE None]

\* descriptor_groups_need_capacity
NeedsCapacity ==
  Cardinality({g \in GroupIds : cached[g] # None}) + Len(packet.uses) > DefinitionLimit

\* release_descriptor_groups before the first recording executes.
ReleaseGroups(refused) ==
  /\ ~Quiet /\ packet.stage = "resolve" /\ ~packet.empty /\ NeedsCapacity
  /\ refused \subseteq Oldest(0)
  /\ Trimmed(Oldest(0), refused)
  /\ sets' = [s \in Sets |-> IF sets[s] # None THEN [sets[s] EXCEPT !.group = None] ELSE None]
  /\ packet' = IF refused = {} THEN [packet EXCEPT !.stage = "execute"] ELSE Failed
  /\ UNCHANGED <<layouts, pools, owned, real>>

KeepGroups ==
  /\ ~Quiet /\ packet.stage = "resolve" /\ ~packet.empty /\ ~NeedsCapacity
  /\ packet' = [packet EXCEPT !.stage = "execute"]
  /\ UNCHANGED <<layouts, pools, sets, owned, real, groups, cached, recency>>

\* The set can be used as the shader wants it.
Bindable(use) ==
  /\ sets[use.set] # None
  /\ sets[use.set] # None =>
       /\ ~sets[use.set].invalid
       /\ use.slots \in Reflected(sets[use.set].types)
       /\ Bound(sets[use.set], use.slots)
       /\ Resolvable(sets[use.set], use.slots)

\* Labels the shader uses, and what the application bound to them.
Wants(set, use) ==
  LET map == DescriptorBindingMap(set.types)
  IN  [b \in {x \in DOMAIN set.types : map[x] \in use.slots} |->
        [slot |-> map[b],
         is |-> <<real[set.bindings[b]], IF set.types[b] = "dynamic" THEN use.offset ELSE 0>>]]

Emit(use, g, desc) ==
  packet' = [packet EXCEPT !.uses = Tail(@),
                           !.emitted = @ \cup {Emitted(g, desc, Wants(sets[use.set], use))}]

Remember(s, g) ==
  sets' = IF HasDynamic(sets[s]) THEN sets ELSE [sets EXCEPT ![s].group = g]

\* descriptor_group_with_layout for the next use.
UseSet ==
  /\ ~Quiet /\ packet.stage = "execute" /\ packet.uses # <<>>
  /\ LET use == Head(packet.uses)
         set == sets[use.set]
     IN  /\ Bindable(use)
         /\ LET desc == GroupDesc(set, use.slots, use.offset)
                own == Remembered(set, desc)
                known == CachedBindGroup(desc)
            IN  \/ /\ own # None
                   /\ recency' = Touched(recency, own)
                   /\ Emit(use, own, desc)
                   /\ UNCHANGED <<sets, groups, cached>>
                \/ /\ own = None /\ known # {}
                   /\ \E g \in known :
                        recency' = Touched(recency, g) /\ Emit(use, g, desc) /\ Remember(use.set, g)
                   /\ UNCHANGED <<groups, cached>>
                \/ /\ own = None /\ known = {} /\ TableHasRoom
                   /\ \E g \in FreshGroup :
                        Defined(g, desc) /\ Emit(use, g, desc) /\ Remember(use.set, g)
                \/ /\ own = None /\ known = {} /\ ~TableHasRoom
                   /\ packet' = Failed
                   /\ UNCHANGED <<sets, groups, cached, recency>>
  /\ UNCHANGED <<layouts, pools, owned, real>>

\* A set that cannot be used ends the packet, and so may the recorded commands.
RefuseUse ==
  /\ ~Quiet /\ packet.stage = "execute" /\ packet.uses # <<>>
  /\ ~Bindable(Head(packet.uses))
  /\ packet' = Failed
  /\ UNCHANGED <<layouts, pools, sets, owned, real, groups, cached, recency>>

Executed ==
  /\ ~Quiet /\ packet.stage = "execute" /\ packet.uses = <<>>
  /\ packet' = [packet EXCEPT !.stage = "trim"]
  /\ UNCHANGED <<layouts, pools, sets, owned, real, groups, cached, recency>>

\* trim_descriptor_groups; the packet is lowered and owns its bindings.  A
\* failed packet or a refused release loses the device: nothing runs again.
TrimGroups(refused) ==
  LET evict == Oldest(Kept)
  IN  /\ ~Quiet /\ packet.stage = "trim"
      /\ refused \subseteq evict
      /\ Trimmed(evict, refused)
      /\ sets' = Forgotten(evict \ refused)
      /\ packet' = IF packet.failed \/ refused # {} THEN Lost ELSE None
      /\ UNCHANGED <<layouts, pools, owned, real>>

-----------------------------------------------------------------------------
(* The idle epoch.                                                          *)

\* A recording with a pushed set is reset or freed.
DropOwner(s) ==
  /\ Quiet /\ s \in owned
  /\ owned' = owned \ {s}
  /\ UNCHANGED <<layouts, pools, sets, real, groups, cached, recency, packet>>

Abandoned == {s \in LiveSets : sets[s].pool = None /\ s \notin owned}

\* reclaim_idle_resources: sets of dropped recordings go, and when no object is
\* left the whole table does.
ReclaimIdle ==
  LET left == [s \in Sets |-> IF s \in Abandoned THEN None ELSE sets[s]]
      live == \/ layouts # {}
              \/ \E s \in Sets : left[s] # None
              \/ \E h \in Resources : real[h] # None
  IN  /\ Quiet
      /\ sets' = left
      /\ IF live THEN UNCHANGED <<groups, cached, recency>>
         ELSE /\ groups' = [g \in GroupIds |-> None]
              /\ cached' = [g \in GroupIds |-> None]
              /\ recency' = <<>>
      /\ UNCHANGED <<layouts, pools, owned, real, packet>>

-----------------------------------------------------------------------------
DescriptorsInit ==
  /\ layouts = {}
  /\ pools = [p \in Pools |-> None]
  /\ sets = [s \in Sets |-> None]
  /\ owned = {}
  /\ real = [h \in Resources |-> None]
  /\ groups = [g \in GroupIds |-> None] /\ cached = [g \in GroupIds |-> None]
  /\ recency = <<>> /\ packet = None

\* Uses an application may record: any live set through any shader's view of it.
UsesOf(s) == [set : {s}, slots : Reflected(sets[s].types) \ {{}}, offset : IF HasDynamic(sets[s]) THEN Offsets ELSE {0}]
AnyUse == UNION {UsesOf(s) : s \in LiveSets}
Free == {s \in Sets : sets[s] = None}
NewHandles == UNION {{q \in [1..n -> Free] : \A i, j \in 1..n : i # j => q[i] # q[j]} : n \in 1..2}

DescriptorsNext ==
  \/ \E l \in SetLayouts : CreateDescriptorSetLayout(l) \/ DestroyDescriptorSetLayout(l)
  \/ \E p \in Pools : CreateDescriptorPool(p) \/ DestroyDescriptorPool(p) \/ ResetDescriptorPool(p)
  \/ \E p \in Pools : \E new \in NewHandles : \E wanted \in [DOMAIN new -> SetLayouts] :
       AllocateDescriptorSets(p, wanted, new)
  \/ \E p \in Pools : \E freed \in SUBSET SetsOf(p) \ {{}} : FreeDescriptorSets(p, freed)
  \/ \E s \in LiveSets, h \in Resources \cup {None}, e \in {0, 1} :
       \E first \in DOMAIN sets[s].types : UpdateDescriptorSets(s, first, e, h)
  \/ \E s, t \in LiveSets : \E b \in DOMAIN sets[s].types, c \in DOMAIN sets[t].types : CopyDescriptorSet(s, b, t, c)
  \/ \E s \in LiveSets, l \in SetLayouts : UpdateWithTemplate(s, l)
  \/ \E h \in Resources, id \in RealIds : CreateBufferObject(h, id) \/ CreateImageView(h, id)
  \/ \E h \in Resources : DestroyResource(h)
  \/ Quiet /\ \E uses \in UNION {[1..n -> AnyUse] : n \in 0..MaxUses}, e \in BOOLEAN : BeginPacket(uses, e)
  \/ \E s \in Free, l \in PushLayouts, prior \in owned \cup {None}, h \in Resources \cup {None} :
       \E first \in DOMAIN Declared[l] : ResolvePush(s, l, prior, first, h)
  \/ ResolveEmpty \/ KeepGroups \/ UseSet \/ RefuseUse \/ Executed
  \/ \E refused \in SUBSET GroupIds : ReleaseGroups(refused) \/ TrimGroups(refused)
  \/ \E s \in Sets : DropOwner(s)
  \/ ReclaimIdle

-----------------------------------------------------------------------------
(* Properties.                                                              *)

(* A pool's remaining descriptors and those of its live sets are its capacity, *)
(* whatever was allocated, freed one by one or together, reset or refused: a   *)
(* descriptor lost would make a pool refuse what it promised, one too many     *)
(* would let it exceed it.                                                     *)
PoolsBalance ==
  \A p \in Pools : pools[p] # None =>
    /\ Cardinality(SetsOf(p)) <= PoolSets[p]
    /\ \A t \in Types :
         pools[p][t] + MapThenSumSet(LAMBDA s : Uses(sets[s].types, t), SetsOf(p)) = PoolCapacity[p][t]

(* What a packet's commands read is what the application bound: every group   *)
(* the packet has emitted holds, under the slot of each label the shader uses, *)
(* the resource and offset of that label at that moment, and it stays defined  *)
(* until the packet is lowered.  A group remembered from another shader's view *)
(* of the set, two labels sharing a slot, or an eviction before or within the  *)
(* packet would break it.                                                      *)
PacketsReadTheirBindings ==
  packet # None =>
    \A e \in packet.emitted :
      /\ groups[e.id] = e.desc
      /\ \A b \in DOMAIN e.wants : e.desc.entries[e.wants[b].slot] = e.wants[b].is

(* A set that remembers a group remembers a live one: otherwise its next use    *)
(* would fail although the set is valid, and the device would be lost.          *)
RememberedGroupsLive ==
  \A s \in LiveSets : sets[s].group # None => groups[sets[s].group] # None /\ cached[sets[s].group] = groups[sets[s].group]

(* The invariant of descriptor sets, from their pool to the groups a packet    *)
(* uses (DescriptorPool, descriptor_group, GroupCache).                        *)
DescriptorsInvariant == PoolsBalance /\ PacketsReadTheirBindings /\ RememberedGroupsLive

==============================================================================
