------------------------------ MODULE WgpuEncode ------------------------------
(* The WGPU backend: materialization of logical resources, lowering of a    *)
(* recording to one WGPU command encoder, query scopes, mapped images.      *)
(*                                                                          *)
(* A Resources cache belongs to one thread, so a submission is encoded      *)
(* without interruption; it is one step per command here because an error   *)
(* at any command abandons the encoder and keeps the caches as they are by  *)
(* then.  Native objects are numbered; a pipeline or a sampler is named by  *)
(* its cache key.  Pixels, sizes, alignments and WGPU's own validation are  *)
(* left out: where they refuse a command, the step FailEncode is possible.  *)
EXTENDS Naturals, Sequences, FiniteSets, SequencesExt, Absent

CONSTANTS
  Textures, LogicalBuffers, Images,   \* Images: caller's WGPU images
  FormatOf,                    \* [Textures \cup Images -> formats]
  Presented,                   \* textures with the PRESENT usage
  Groups, Binds,               \* [Groups -> SUBSET (Textures \cup LogicalBuffers)]
  Fixed, Samples, DepthOf,     \* fixed pipelines, those that sample, those with depth
  Programs, Computes,
  SlotsOf, EmptySlots,         \* bind group slots of a program, and the empty ones
  VerticesOf, TopologyOf,
  ShadersOf,
  Streams,                     \* recordings, sequences of commands
  Sizes, SizeOf,               \* of images and the window surface
  MaxNatives                   \* bound

ASSUME WgpuEncodeAssumption ==
  /\ Presented \subseteq Textures /\ Samples \subseteq Fixed
  /\ \A g \in Groups : Binds[g] \subseteq Textures \cup LogicalBuffers
  /\ \A p \in Programs \cup Computes : EmptySlots[p] \subseteq SlotsOf[p]

VARIABLES
  res,      \* Resources
  enc,      \* Queue::encode_commands under way, or None
  sent,     \* the last command buffer on the WGPU queue
  queries,  \* queries::State: [{"occlusion", "statistics"} -> Scope or None]
  answer,   \* what the last end_query returned
  window    \* WindowContext

encodeVars == <<res, enc, sent, queries, answer, window>>
Kinds == {"occlusion", "statistics"}

-----------------------------------------------------------------------------
(* Materialization: each lookup returns the cache and a native object.      *)

EmptyCache ==
  [textures |-> [t \in Textures |-> None], mapped |-> [t \in Textures |-> None],
   buffers |-> [b \in LogicalBuffers |-> None], groups |-> [g \in Groups |-> None],
   fixed |-> {}, render |-> {}, compute |-> {}, shaders |-> {}, layouts |-> {},
   clear |-> {}, blit |-> {}, samplers |-> {}, fresh |-> 1]

Found(r, n) == [r |-> r, n |-> n, ok |-> TRUE]
Missing(r) == [r |-> r, n |-> None, ok |-> FALSE]

\* A presentation mapping first, then the cache, then a new allocation.
CreateTexture(r, t) == Found([r EXCEPT !.textures[t] = r.fresh, !.fresh = @ + 1], r.fresh)
Texture(r, t) ==
  CASE r.mapped[t] # None   -> Found(r, r.mapped[t])
    [] r.mapped[t] = None /\ t \in Presented -> Missing(r)
    [] r.mapped[t] = None /\ t \notin Presented /\ r.textures[t] # None -> Found(r, r.textures[t])
    [] OTHER -> CreateTexture(r, t)
Buffer(r, b) ==
  IF r.buffers[b] # None THEN Found(r, r.buffers[b])
  ELSE Found([r EXCEPT !.buffers[b] = r.fresh, !.fresh = @ + 1], r.fresh)
Native(r, x) == IF x \in Textures THEN Texture(r, x) ELSE Buffer(r, x)

\* Several lookups in order; the caches filled before a failure stay filled.
NativeStep(acc, x) ==
  LET f == Native(acc.r, x)
  IN  IF ~acc.ok THEN acc
      ELSE [r |-> f.r, ok |-> f.ok, n |-> [y \in DOMAIN acc.n \cup {x} |-> IF y = x THEN f.n ELSE acc.n[y]]]
Natives(r, xs) == FoldLeft(NativeStep, [r |-> r, ok |-> TRUE, n |-> [y \in {} |-> None]], xs)

\* programmable_bind_group: an immutable descriptor keeps its physical group.
BindGroup(r, g) ==
  LET all == Natives(r, SetToSeq(Binds[g]))
  IN  CASE r.groups[g] # None -> Found(r, r.groups[g])
        [] r.groups[g] = None /\ all.ok ->
             Found([all.r EXCEPT !.groups[g] = all.n, !.layouts = @ \cup {g}], all.n)
        [] OTHER -> Missing([all.r EXCEPT !.layouts = @ \cup {g}])

\* The specialization of a fixed pipeline that a pass needs.
CreatePipeline(r, key) == [r EXCEPT !.fixed = @ \cup {key}]
FixedPipeline(r, p, sampled) ==
  LET key == <<p, IF p \in Samples THEN sampled ELSE None>>
  IN  Found(CreatePipeline(r, key), key)
Shader(r, s) == [r EXCEPT !.shaders = @ \cup {s}]
ProgrammablePipeline(r, p, target, depth) ==
  Found([FoldLeft(Shader, r, SetToSeq(ShadersOf[p])) EXCEPT !.render = @ \cup {<<p, target, depth>>},
                                                           !.layouts = @ \cup {p}], p)
ComputePipeline(r, p) ==
  Found([FoldLeft(Shader, r, SetToSeq(ShadersOf[p])) EXCEPT !.compute = @ \cup {p}, !.layouts = @ \cup {p}], p)
CreateClearPipeline(r, key) == [r EXCEPT !.clear = @ \cup {key}]
ClearPipeline(r, target, depth) == CreateClearPipeline(r, <<target, depth>>)
Sampler(r, s) == [r EXCEPT !.samplers = @ \cup {s}]
BlitPipeline(r, format) == [r EXCEPT !.blit = @ \cup {format}]

-----------------------------------------------------------------------------
(* Calls on a Resources cache, while nothing is encoded with it.            *)

Idle == enc = None
OnlyCache(r) == res' = r /\ UNCHANGED <<enc, sent, queries, answer, window>>
NoGroups == [g \in Groups |-> None]

ReleaseTexture(t) ==
  /\ Idle
  /\ OnlyCache([res EXCEPT !.textures[t] = None, !.mapped[t] = None, !.groups = NoGroups])
ReleaseBuffer(b) ==
  /\ Idle
  /\ OnlyCache([res EXCEPT !.buffers[b] = None, !.groups = NoGroups])
ReleaseBindGroup(g) == Idle /\ OnlyCache([res EXCEPT !.groups[g] = None])
ReleaseShader(s) == Idle /\ OnlyCache([res EXCEPT !.shaders = @ \ {s}])
ReleaseCompute(p) == Idle /\ OnlyCache([res EXCEPT !.compute = @ \ {p}, !.layouts = {}])
ReleaseProgram(p) ==
  Idle /\ OnlyCache([res EXCEPT !.render = {k \in @ : k[1] # p}, !.layouts = {}])

ValidateShader(s) == Idle /\ OnlyCache(Shader(res, s))
ValidateCompute(p) == Idle /\ OnlyCache(ComputePipeline(res, p).r)
ValidateProgram(p, format, depth) == Idle /\ OnlyCache(ProgrammablePipeline(res, p, format, depth).r)

\* map_image: the same format, an image of at most one texture; mapping again
\* replaces the image and with it every cached group.
Mappable(r, t, i) ==
  /\ t \in Presented /\ FormatOf[t] = FormatOf[i]
  /\ \A u \in Textures \ {t} : r.mapped[u] # i
(* Mutant: a remapped image leaves the cached groups alone.                 *)
MutantMapped(r, t, i) == [r EXCEPT !.mapped[t] = i]
Mapped(r, t, i) == IF r.mapped[t] = i THEN r ELSE [r EXCEPT !.mapped[t] = i, !.groups = NoGroups]
MapImage(t, i) == Idle /\ Mappable(res, t, i) /\ OnlyCache(Mapped(res, t, i))
UnmapImage(t) == Idle /\ OnlyCache([res EXCEPT !.mapped[t] = None, !.groups = NoGroups])

\* create_mapped_target_session: a new cache with an image for every target.
CreateSession(pairs) ==
  LET Step(r, x) == Mapped(r, x[1], x[2])
  IN  /\ Idle
      /\ IsInjective([n \in DOMAIN pairs |-> pairs[n][1]])
      /\ \A n \in DOMAIN pairs : Mappable(EmptyCache, pairs[n][1], pairs[n][2])
      /\ IsInjective([n \in DOMAIN pairs |-> pairs[n][2]])
      /\ OnlyCache(FoldLeft(Step, [EmptyCache EXCEPT !.fresh = res.fresh], pairs))

\* readback.rs: the copy goes through the cache like a command would.
ReadBack(x) ==
  /\ Idle /\ Native(res, x).ok
  /\ res' = Native(res, x).r
  /\ sent' = <<[kind |-> "read", n |-> Native(res, x).n]>>
  /\ UNCHANGED <<enc, queries, answer, window>>

\* WindowContext: an image of the configured size goes to the surface.
Resize(size) ==
  window # size /\ window' = size /\ UNCHANGED <<res, enc, sent, queries, answer>>
PresentImage(i) ==
  /\ Idle /\ SizeOf[i] = window
  /\ sent' = <<[kind |-> "present", n |-> i]>>
  /\ UNCHANGED <<res, enc, queries, answer, window>>

-----------------------------------------------------------------------------
(* Query scopes.                                                            *)

BeginQuery(k) ==
  /\ Idle /\ queries[k] = None
  /\ queries' = [queries EXCEPT ![k] = [pending |-> 0, assembly |-> 0, submitted |-> 0]]
  /\ UNCHANGED <<res, enc, sent, answer, window>>
EndQuery(k) ==
  /\ Idle /\ queries[k] # None
  /\ answer' = [assembly |-> queries[k].assembly, submitted |-> queries[k].submitted]
  /\ queries' = [queries EXCEPT ![k] = None]
  /\ UNCHANGED <<res, enc, sent, window>>

\* query_sets: which sets a pass is given.
QuerySets(compute) ==
  {k \in Kinds : queries[k] # None /\ (k = "occlusion" => ~compute)}
\* resolve_queries: a result buffer for each, read by end_query.
ResolveQueries(sets) ==
  [k \in Kinds |-> IF k \in sets THEN [queries[k] EXCEPT !.pending = @ + 1] ELSE queries[k]]
\* assembly_query, by each draw.
AssemblyQuery ==
  IF queries["statistics"] = None THEN queries
  ELSE [queries EXCEPT !["statistics"].assembly = @ + 1]

-----------------------------------------------------------------------------
(* Queue::submit and encode_commands.                                       *)

Command == enc.stream[enc.at]
IsPass(c) == c.op \in {"BeginRenderPass", "BeginComputePass"}
IsDraw(c) == c.op \in {"Draw", "DrawIndexed"}

\* validate_indexed_topologies, before anything is encoded.
Topology(s, n) ==
  LET Resets == {m \in 1..n - 1 :
                   s[m].op \in {"BeginRenderPass", "EndRenderPass", "SetPipeline", "SetProgrammablePipeline"}}
      m == CHOOSE m \in Resets : \A l \in Resets : l <= m
  IN  IF Resets = {} \/ s[m].op # "SetProgrammablePipeline" THEN None ELSE TopologyOf[s[m].pipeline]
IndexedTopologiesFit(s) ==
  \A n \in DOMAIN s :
    /\ s[n].op = "SetProgrammablePipeline" => TopologyOf[s[n].pipeline] # "fan"
    /\ s[n].op = "DrawIndexed" => Topology(s, n) # "strip"

Submit(s) ==
  /\ Idle /\ IndexedTopologiesFit(s)
  /\ res.fresh + Cardinality(Textures) + Cardinality(LogicalBuffers) <= MaxNatives
  /\ enc' = [stream |-> s, at |-> 1, pass |-> None, ops |-> <<>>, counted |-> 0]
  /\ UNCHANGED <<res, sent, queries, answer, window>>

AtCommand(op) == enc # None /\ enc.at <= Len(enc.stream) /\ Command.op = op

\* One command done: the cache, the pass and an encoded operation or nothing.
Encoded(r, pass, ops) ==
  /\ res' = r
  /\ enc' = [enc EXCEPT !.at = @ + 1, !.pass = pass, !.ops = @ \o ops]
  /\ UNCHANGED <<sent, queries, answer, window>>
Operation(kind, n) == <<[kind |-> kind, at |-> enc.at, n |-> n]>>

\* WriteBuffer, WriteTexture, the copies and the blit, outside a pass.
Transfer ==
  /\ enc # None /\ enc.at <= Len(enc.stream)
  /\ Command.op \in {"Write", "Copy", "Blit"}
  /\ enc.pass = None
  /\ LET all == Natives(res, Command.uses)
     IN  /\ all.ok
         /\ Encoded(IF Command.op = "Blit" THEN BlitPipeline(all.r, FormatOf[Command.uses[2]]) ELSE all.r,
                    None, Operation("transfer", all.n))
\* WGPU inserts the transitions itself.
ResourceBarrier == AtCommand("ResourceBarrier") /\ Encoded(res, enc.pass, <<>>)

NewPass(compute, target, depth) ==
  [compute |-> compute, target |-> target, depth |-> depth, sets |-> QuerySets(compute),
   native |-> None,            \* what the raw pass has been given
   fixed |-> None, id |-> None, program |-> None,
   vertex |-> [n \in 0..1 |-> None], index |-> None, texture |-> None, uniforms |-> None,
   groups |-> [n \in 0..1 |-> None]]

\* Attachments are looked up; a clear of a part of the target is a draw.
AreaIsFull(c) == c.area # "part"
ColorClear(pass) == [pass EXCEPT !.native = "clear"]
BeginRenderPass ==
  /\ AtCommand("BeginRenderPass")
  /\ LET c == Command
         all == Natives(res, c.colors \o (IF c.depth = None THEN <<>> ELSE <<c.depth>>))
         pass == NewPass(FALSE, FormatOf[Head(c.colors)], c.depth # None)
         clears == ~AreaIsFull(c) /\ c.clear
     IN  /\ all.ok
         /\ ~(clears /\ Len(c.colors) > 1)
         /\ IF clears
            THEN Encoded(ClearPipeline(all.r, pass.target, pass.depth), ColorClear(pass), Operation("clear", all.n))
            ELSE Encoded(all.r, pass, <<>>)

BeginComputePass == AtCommand("BeginComputePass") /\ Encoded(res, NewPass(TRUE, None, FALSE), <<>>)

\* The arms of the command loop in encode_render_pass.
SetPipeline ==
  /\ AtCommand("SetPipeline") /\ DepthOf[Command.pipeline] = enc.pass.depth
  /\ LET t == enc.pass.texture
         f == FixedPipeline(res, Command.pipeline, IF t = None THEN None ELSE t.format)
     IN  Encoded(f.r, [enc.pass EXCEPT !.program = None, !.fixed = f.n, !.id = Command.pipeline, !.native = f.n], <<>>)

SetProgrammablePipeline ==
  /\ AtCommand("SetProgrammablePipeline")
  /\ LET f == ProgrammablePipeline(res, Command.pipeline, enc.pass.target, enc.pass.depth)
     IN  Encoded(f.r, [enc.pass EXCEPT !.program = f.n, !.fixed = None, !.id = None, !.native = f.n], <<>>)

SetComputePipeline ==
  /\ AtCommand("SetComputePipeline")
  /\ LET f == ComputePipeline(res, Command.pipeline)
     IN  Encoded(f.r, [enc.pass EXCEPT !.program = f.n, !.native = f.n], <<>>)

SetBindGroup ==
  /\ AtCommand("SetBindGroup")
  /\ LET f == BindGroup(res, Command.group)
     IN  f.ok /\ Encoded(f.r, [enc.pass EXCEPT !.groups[Command.slot] = f.n], <<>>)

SetVertexBuffer ==
  /\ AtCommand("SetVertexBuffer")
  /\ LET f == Buffer(res, Command.buffer)
     IN  Encoded(f.r, [enc.pass EXCEPT !.vertex[Command.slot] = f.n], <<>>)
SetIndexBuffer ==
  /\ AtCommand("SetIndexBuffer")
  /\ LET f == Buffer(res, Command.buffer) IN Encoded(f.r, [enc.pass EXCEPT !.index = f.n], <<>>)

\* A sampling fixed pipeline is chosen again for the format of the texture.
Respecialized(r, pass, format) ==
  LET f == FixedPipeline(r, pass.id, format)
  IN  IF pass.fixed = None \/ pass.id \notin Samples THEN Found(r, pass)
      ELSE Found(f.r, [pass EXCEPT !.fixed = f.n, !.native = f.n])
SetTexture ==
  /\ AtCommand("SetTexture")
  /\ LET f == Texture(res, Command.texture)
         format == FormatOf[Command.texture]
         g == Respecialized(f.r, [enc.pass EXCEPT !.texture = [n |-> f.n, format |-> format]], format)
     IN  f.ok /\ Encoded(g.r, g.n, <<>>)
SetSampler == AtCommand("SetSampler") /\ Encoded(Sampler(res, Command.sampler), enc.pass, <<>>)
SetUniforms == AtCommand("SetUniforms") /\ Encoded(res, [enc.pass EXCEPT !.uniforms = Command.value], <<>>)

\* prepare_programmable_draw and the loop of Dispatch: every slot of the layout
\* has a group, or is empty.
GroupsFor(pass, p) == [n \in SlotsOf[p] |-> IF pass.groups[n] = None /\ n \in EmptySlots[p] THEN "empty" ELSE pass.groups[n]]
Ready(pass, p) ==
  /\ \A n \in VerticesOf[p] : pass.vertex[n] # None
  /\ \A n \in SlotsOf[p] : GroupsFor(pass, p)[n] # None
\* create_bind_group: the texture and the uniforms of a fixed pipeline.
FixedGroup(pass) == [texture |-> IF pass.id \in Samples THEN pass.texture.n ELSE None, uniforms |-> pass.uniforms]
Drawn(pass, indexed) ==
  IF pass.program # None
  THEN [pipeline |-> pass.native, groups |-> GroupsFor(pass, pass.program), texture |-> None, uniforms |-> None,
        vertex |-> [n \in VerticesOf[pass.program] |-> pass.vertex[n]], index |-> IF indexed THEN pass.index ELSE None]
  ELSE [pipeline |-> pass.native, groups |-> <<>>, uniforms |-> FixedGroup(pass).uniforms, vertex |-> [n \in {0} |-> pass.vertex[0]],
        texture |-> FixedGroup(pass).texture, index |-> IF indexed THEN pass.index ELSE None]

\* encode_draw and encode_indexed_draw, then assembly_query.
Draw ==
  /\ enc # None /\ enc.at <= Len(enc.stream) /\ IsDraw(Command)
  /\ LET pass == enc.pass
         indexed == Command.op = "DrawIndexed"
     IN  /\ IF pass.program # None THEN Ready(pass, pass.program)
            ELSE /\ pass.fixed # None /\ pass.vertex[0] # None /\ pass.uniforms # None
                 /\ pass.id \in Samples => pass.texture # None
         /\ indexed => pass.index # None
         /\ enc' = [enc EXCEPT !.at = @ + 1, !.ops = @ \o Operation("draw", Drawn(pass, indexed)),
                               !.counted = IF queries["statistics"] # None THEN @ + 1 ELSE @]
  /\ queries' = AssemblyQuery
  /\ UNCHANGED <<res, sent, answer, window>>

Dispatch ==
  /\ AtCommand("Dispatch")
  /\ enc.pass.program # None /\ Ready(enc.pass, enc.pass.program)
  /\ Encoded(res, enc.pass, Operation("dispatch", Drawn(enc.pass, FALSE)))

EndPass ==
  /\ AtCommand("EndRenderPass") \/ AtCommand("EndComputePass")
  /\ queries' = ResolveQueries(enc.pass.sets)
  /\ enc' = [enc EXCEPT !.at = @ + 1, !.pass = None]
  /\ UNCHANGED <<res, sent, answer, window>>

\* The encoder is finished and submitted under one validation scope.
Finish ==
  /\ enc # None /\ enc.at > Len(enc.stream)
  /\ sent' = enc.ops
  /\ enc' = None
  /\ queries' = IF queries["statistics"] = None THEN queries
                ELSE [queries EXCEPT !["statistics"].submitted = @ + enc.counted]
  /\ UNCHANGED <<res, answer, window>>

\* A lookup fails, WGPU reports an error, a size or an alignment is refused:
\* the encoder is dropped.
FailEncode ==
  /\ enc # None
  /\ enc' = None
  /\ UNCHANGED <<res, sent, queries, answer, window>>

-----------------------------------------------------------------------------
EncodeInit ==
  /\ res = EmptyCache /\ enc = None /\ sent = <<>>
  /\ queries = [k \in Kinds |-> None] /\ answer = None
  /\ window \in Sizes

Maintain ==
  \/ \E t \in Textures : ReleaseTexture(t) \/ UnmapImage(t) \/ \E i \in Images : MapImage(t, i)
  \/ \E b \in LogicalBuffers : ReleaseBuffer(b)
  \/ \E g \in Groups : ReleaseBindGroup(g)
  \/ \E p \in Computes : ReleaseCompute(p) \/ ValidateCompute(p)
  \/ \E p \in Programs : ReleaseProgram(p) \/ \E d \in BOOLEAN, i \in Images : ValidateProgram(p, FormatOf[i], d)
  \/ \E p \in Programs \cup Computes : \E s \in ShadersOf[p] : ReleaseShader(s) \/ ValidateShader(s)
  \/ \E t \in Textures, i \in Images : CreateSession(<<<<t, i>>>>)
  \/ \E x \in Textures \cup LogicalBuffers : ReadBack(x)
  \/ \E k \in Kinds : BeginQuery(k) \/ EndQuery(k)
  \/ \E i \in Images : PresentImage(i)
  \/ \E z \in Sizes : Resize(z)

Encoding ==
  \/ \E s \in Streams : Submit(s)
  \/ Transfer \/ ResourceBarrier \/ BeginRenderPass \/ BeginComputePass \/ EndPass
  \/ SetPipeline \/ SetProgrammablePipeline \/ SetComputePipeline \/ SetBindGroup
  \/ SetVertexBuffer \/ SetIndexBuffer \/ SetTexture \/ SetSampler \/ SetUniforms
  \/ Draw \/ Dispatch \/ Finish \/ FailEncode

EncodeNext == Maintain \/ Encoding

-----------------------------------------------------------------------------
(* Properties.                                                              *)

\* What the logical resource is in WGPU at this moment.
Physical(x) == IF x \in Textures THEN (IF res.mapped[x] # None THEN res.mapped[x] ELSE res.textures[x])
               ELSE res.buffers[x]

\* The last command of these kinds in the pass that the n-th command is in.
Latest(s, n, Fits(_)) ==
  LET begin == CHOOSE b \in 1..n : IsPass(s[b]) /\ \A m \in b + 1..n : ~IsPass(s[m])
      hits  == {m \in begin..n - 1 : Fits(s[m])}
  IN  IF hits = {} THEN None ELSE s[CHOOSE m \in hits : \A l \in hits : l <= m]

AsRecorded(s, op) ==
  LET Set(name) == Latest(s, op.at, LAMBDA c : c.op = name)
      InSlot(name, k) == Latest(s, op.at, LAMBDA c : c.op = name /\ c.slot = k)
      last == Latest(s, op.at, LAMBDA c : c.op \in {"SetPipeline", "SetProgrammablePipeline", "SetComputePipeline"})
      texture == Set("SetTexture")
      samples == last.op = "SetPipeline" /\ last.pipeline \in Samples
  IN  /\ op.n.pipeline = IF last.op # "SetPipeline" THEN last.pipeline
                         ELSE <<last.pipeline, IF samples THEN FormatOf[texture.texture] ELSE None>>
      /\ samples => op.n.texture = Physical(texture.texture)
      /\ last.op = "SetPipeline" => op.n.uniforms = Set("SetUniforms").value
      /\ s[op.at].op = "DrawIndexed" => op.n.index = Physical(Set("SetIndexBuffer").buffer)
      /\ \A k \in DOMAIN op.n.vertex : op.n.vertex[k] = Physical(InSlot("SetVertexBuffer", k).buffer)
      /\ \A k \in DOMAIN op.n.groups :
           LET set == InSlot("SetBindGroup", k)
           IN  IF set = None THEN op.n.groups[k] = "empty"
               ELSE \A x \in Binds[set.group] : op.n.groups[k][x] = Physical(x)

\* Every draw and dispatch that was encoded uses exactly the pipeline, the
\* buffers, the texture and the groups that the recording has set at that
\* point, in their present physical form, whatever was cached, remapped,
\* released or abandoned before.
EncodedAsRecorded ==
  enc # None =>
    \A n \in DOMAIN enc.ops : enc.ops[n].kind \in {"draw", "dispatch"} => AsRecorded(enc.stream, enc.ops[n])

\* queries.rs: "These two IA counters are exact submitted work counts."
AssemblyCountsAreExact == answer # None => answer.assembly = answer.submitted

=============================================================================
