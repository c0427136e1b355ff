--------------------------- MODULE VulkanPipelines ---------------------------
(* Shader modules, their specialized variants and pipelines of the Vulkan    *)
(* frontend.                                                                 *)
(*                                                                           *)
(* A Vulkan shader module owns source words.  Each specialization a pipeline *)
(* asks for becomes an IR module, kept while a live pipeline uses it; views  *)
(* with component maps make further variants of a pipeline when it is used.  *)
(* The IR table refuses to release a module a pipeline still names, and any  *)
(* refused release loses the device.  A creation call runs on the worker in  *)
(* one go; its steps are separate here because each of them may fail.        *)
EXTENDS Naturals, Sequences, FiniteSets, FiniteSetsExt, SequencesExt, Functions, Absent

CONSTANTS
  Shaders, Pipelines,   \* Vulkan handles
  Keys,                 \* specialization, input and binding keys of a variant
  Maps,                 \* component maps of the views bound to a pipeline, not the identity
  ModuleIds, PipeIds,   \* IR identities, numbers
  PipelineLimit,        \* 256 pipelines
  MaxBatch              \* bound: pipelines of a compute batch

ASSUME PipelinesAssumption == PipelineLimit \in Nat /\ MaxBatch \in Nat \ {0}

VARIABLES
  shaders,     \* handle -> sequence of variants, None when absent
  orphaned,    \* orphaned_shader_modules
  pipelines,   \* handle -> IR identity
  swizzles,    \* graphics_swizzles and compute_swizzles
  depthOnly,   \* depth_only_fragment
  modules,     \* the IR table's live modules
  pipes,       \* the IR table's live pipelines: identity -> modules, None when absent
  call,        \* the creation or destruction on the worker
  pipelinesLost, \* Runtime::lost
  refusal      \* history: the backend refused a release
pipelineVars == <<shaders, orphaned, pipelines, swizzles, depthOnly, modules, pipes,
                  call, pipelinesLost, refusal>>
handleVars == <<shaders, pipelines>>

Ready == call = None /\ ~pipelinesLost

\* An identity nothing refers to is as good as one of a new generation.
FreshModule == {m \in ModuleIds : m \notin modules \cup orphaned}
FreshPipe == {p \in PipeIds : pipes[p] = None}

-----------------------------------------------------------------------------
(* Shader modules: source words without an IR identity.                      *)

CreateShaderModule(s) ==
  /\ Ready /\ shaders[s] = None
  /\ shaders' = [shaders EXCEPT ![s] = <<>>]
  /\ UNCHANGED <<orphaned, pipelines, swizzles, depthOnly, modules, pipes, call, pipelinesLost, refusal>>

-----------------------------------------------------------------------------
(* Creation.  A compute call publishes its whole batch or nothing; graphics  *)
(* pipelines are created one by one.                                         *)

\* A stage of a pipeline: a variant of a shader, or the fragment stage that
\* stands in for none.
Stage(s, k) == [shader |-> s, key |-> k]
NoFragment == Stage(None, None)
Compute == {<<Stage(s, k)>> : s \in Shaders, k \in Keys}
Graphics == {<<Stage(s, k), f>> : s \in Shaders, k \in Keys, f \in {Stage(t, l) : t \in Shaders, l \in Keys} \cup {NoFragment}}

Requested(requests) == {st.shader : st \in UNION {Range(r) : r \in Range(requests)}} \ {None}

\* shader_variant_checkpoints: how many variants each named shader had.
Checkpoints(requests) ==
  [s \in {x \in Requested(requests) : shaders[x] # None} |-> Len(shaders[s])]

BeginBatch(kind, requests) ==
  /\ Ready
  /\ kind = "compute" => Cardinality({p \in Pipelines : pipelines[p] # None}) + Len(requests) <= PipelineLimit
  /\ call' = [kind |-> kind, step |-> "variants", todo |-> requests, stage |-> <<>>,
              marks |-> Checkpoints(requests), descs |-> <<>>, made |-> <<>>, owner |-> None]
  /\ UNCHANGED <<shaders, orphaned, pipelines, swizzles, depthOnly, modules, pipes, pipelinesLost, refusal>>

Abort == [call EXCEPT !.step = "retire"]

VariantsOf(s, k) == {v \in Range(shaders[s]) : v.key = k}

\* The stage is done: the next one, or the descriptor of the pipeline.
Resolved(m) ==
  LET stages == Append(call.stage, m)
  IN  IF Len(stages) = Len(Head(call.todo))
      THEN [call EXCEPT !.stage = <<>>, !.todo = Tail(@), !.descs = Append(@, stages)]
      ELSE [call EXCEPT !.stage = stages]

Wanted == Head(call.todo)[Len(call.stage) + 1]

Resolving == call # None => call.step = "variants" /\ call.todo # <<>>

\* Shader::variant_for_layout: a known variant, or a new IR module.
VariantForLayout ==
  /\ call # None /\ Resolving /\ Wanted # NoFragment
  /\ shaders[Wanted.shader] # None
  /\ \/ /\ VariantsOf(Wanted.shader, Wanted.key) # {}
        /\ \E v \in VariantsOf(Wanted.shader, Wanted.key) : call' = Resolved(v.id)
        /\ UNCHANGED <<shaders, modules>>
     \/ /\ VariantsOf(Wanted.shader, Wanted.key) = {}
        /\ FreshModule # {}
        /\ LET m == Min(FreshModule) IN
             /\ modules' = modules \cup {m}
             /\ shaders' = [shaders EXCEPT ![Wanted.shader] = Append(@, [key |-> Wanted.key, id |-> m])]
             /\ call' = Resolved(m)
  /\ UNCHANGED <<orphaned, pipelines, swizzles, depthOnly, pipes, pipelinesLost, refusal>>

\* The fragment stage of a depth-only pipeline, made once and never released.
DepthOnlyFragment ==
  /\ call # None /\ Resolving /\ Wanted = NoFragment
  /\ \/ /\ depthOnly # None
        /\ call' = Resolved(depthOnly)
        /\ UNCHANGED <<depthOnly, modules>>
     \/ /\ depthOnly = None
        /\ FreshModule # {}
        /\ LET m == Min(FreshModule) IN
             /\ modules' = modules \cup {m}
             /\ depthOnly' = m
             /\ call' = Resolved(m)
  /\ UNCHANGED <<shaders, orphaned, pipelines, swizzles, pipes, pipelinesLost, refusal>>

\* The words cannot be normalized, the layout does not fit, a descriptor is
\* refused, the table is full, or the shader handle is unknown.
RefuseStage ==
  /\ call # None /\ call.step = "variants"
  /\ call' = Abort
  /\ UNCHANGED <<shaders, orphaned, pipelines, swizzles, depthOnly, modules, pipes, pipelinesLost, refusal>>

DescriptorsMade ==
  /\ call # None /\ call.step = "variants" /\ call.todo = <<>>
  /\ call' = [call EXCEPT !.step = "define"]
  /\ UNCHANGED <<shaders, orphaned, pipelines, swizzles, depthOnly, modules, pipes, pipelinesLost, refusal>>

\* Define the next pipeline; the backend accepts it, or it is retired with
\* everything the call has made.
DefinePipeline(valid) ==
  /\ call # None /\ call.step = "define" /\ call.descs # <<>>
  /\ FreshPipe # {}
  /\ LET p == Min(FreshPipe) IN
       /\ pipes' = [pipes EXCEPT ![p] = Range(Head(call.descs))]
       /\ call' = [call EXCEPT !.descs = Tail(@), !.made = Append(@, p),
                               !.step = IF valid THEN "define" ELSE "retire"]
  /\ UNCHANGED <<shaders, orphaned, pipelines, swizzles, depthOnly, modules, pipelinesLost, refusal>>

\* Handles are published once every pipeline of the call is valid.
Publish ==
  /\ call # None /\ call.step = "define" /\ call.descs = <<>>
  /\ \E new \in [1..Len(call.made) -> {p \in Pipelines : pipelines[p] = None}] :
       /\ IsInjective(new)
       /\ pipelines' = [p \in Pipelines |-> IF p \in Range(new)
                                            THEN call.made[CHOOSE i \in DOMAIN new : new[i] = p]
                                            ELSE pipelines[p]]
  /\ call' = None
  /\ UNCHANGED <<shaders, orphaned, swizzles, depthOnly, modules, pipes, pipelinesLost, refusal>>

-----------------------------------------------------------------------------
(* Retirement.                                                              *)

Lose(by) ==
  /\ pipelinesLost' = TRUE
  /\ refusal' = (refusal \/ by = "backend")

\* retire_ir_pipeline for each pipeline the call made or destroys: backend
\* first, then the table.
RetirePipeline(accepted) ==
  /\ call # None /\ ~pipelinesLost /\ call.step = "retire" /\ call.made # <<>>
  /\ IF accepted
     THEN /\ pipes' = [pipes EXCEPT ![Head(call.made)] = None]
          /\ call' = [call EXCEPT !.made = Tail(@)]
          /\ UNCHANGED <<pipelinesLost, refusal>>
     ELSE /\ Lose("backend")
          /\ call' = [call EXCEPT !.made = <<>>]
          /\ UNCHANGED pipes
  /\ UNCHANGED <<shaders, orphaned, pipelines, swizzles, depthOnly, modules>>

(* Mutant: variants of a failed creation stay with their shader. *)
MutantRollBack ==
  /\ call # None /\ call.step = "retire" /\ call.made = <<>> /\ call.kind # "destroy"
  /\ call' = None
  /\ UNCHANGED <<shaders, orphaned, pipelines, swizzles, depthOnly, modules, pipes, pipelinesLost, refusal>>

\* rollback_shader_variants: variants younger than the checkpoint are no longer
\* their shader's.
RollBack ==
  LET young(s) == {shaders[s][i].id : i \in call.marks[s] + 1..Len(shaders[s])}
  IN  /\ call # None /\ call.step = "retire" /\ call.made = <<>> /\ call.kind # "destroy"
      /\ orphaned' = orphaned \cup UNION {young(s) : s \in DOMAIN call.marks}
      /\ shaders' = [s \in Shaders |-> IF s \in DOMAIN call.marks
                                       THEN SubSeq(shaders[s], 1, call.marks[s]) ELSE shaders[s]]
      /\ call' = IF pipelinesLost THEN None ELSE [call EXCEPT !.step = "sweep"]
      /\ UNCHANGED <<pipelines, swizzles, depthOnly, modules, pipes, pipelinesLost, refusal>>

\* retire_vk_pipeline: the pipeline and what views made of it.
DestroyPipeline(h) ==
  LET own == {w \in swizzles : w.owner = h}
      ids == {w.id : w \in own} \cup {pipelines[h]}
  IN  /\ Ready /\ pipelines[h] # None
      /\ call' = [kind |-> "destroy", step |-> "retire", todo |-> <<>>, stage |-> <<>>, marks |-> <<>>,
                  descs |-> <<>>, made |-> SetToSeq(ids), owner |-> h]
      /\ UNCHANGED <<shaders, orphaned, pipelines, swizzles, depthOnly, modules, pipes, pipelinesLost, refusal>>

Retired ==
  /\ call # None /\ call.step = "retire" /\ call.made = <<>> /\ call.kind = "destroy"
  /\ IF pipelinesLost
     THEN call' = None /\ UNCHANGED <<pipelines, swizzles>>
     ELSE /\ call' = [call EXCEPT !.step = "sweep"]
          /\ pipelines' = [pipelines EXCEPT ![call.owner] = None]
          /\ swizzles' = {w \in swizzles : w.owner # call.owner}
  /\ UNCHANGED <<shaders, orphaned, depthOnly, modules, pipes, pipelinesLost, refusal>>

\* retire_vk_shader_module: used variants outlive their shader.
DestroyShaderModule(s) ==
  /\ Ready /\ shaders[s] # None
  /\ orphaned' = orphaned \cup {v.id : v \in Range(shaders[s])}
  /\ shaders' = [shaders EXCEPT ![s] = None]
  /\ call' = [kind |-> "destroy", step |-> "sweep", todo |-> <<>>, stage |-> <<>>, marks |-> <<>>,
              descs |-> <<>>, made |-> <<>>, owner |-> None]
  /\ UNCHANGED <<pipelines, swizzles, depthOnly, modules, pipes, pipelinesLost, refusal>>

\* Modules of the pipelines that handles and view variants name.
Retained ==
  UNION {pipes[p] : p \in {pipelines[h] : h \in {x \in Pipelines : pipelines[x] # None}} \cup {w.id : w \in swizzles}}

\* retire_unused_shader_modules: variants nobody retains join the orphans, then
\* the orphans nobody retains are released.
Sweep ==
  LET unused(s) == {v.id : v \in {x \in Range(shaders[s]) : x.id \notin Retained}}
      live == {s \in Shaders : shaders[s] # None}
  IN  /\ call # None /\ call.step = "sweep"
      /\ orphaned' = orphaned \cup UNION {unused(s) : s \in live}
      /\ shaders' = [s \in Shaders |-> IF s \in live THEN SelectSeq(shaders[s], LAMBDA v : v.id \in Retained) ELSE None]
      /\ call' = [call EXCEPT !.step = "release"]
      /\ UNCHANGED <<pipelines, swizzles, depthOnly, modules, pipes, pipelinesLost, refusal>>

\* The table knows the module and no live pipeline names it.
Releasable(m) == m \in modules /\ \A p \in PipeIds : pipes[p] # None => m \notin pipes[p]

ReleaseModule(m, accepted) ==
  /\ call # None /\ call.step = "release" /\ m \in orphaned \ Retained
  /\ IF accepted /\ Releasable(m)
     THEN /\ modules' = modules \ {m}
          /\ orphaned' = orphaned \ {m}
          /\ UNCHANGED <<pipelinesLost, refusal, call>>
     ELSE /\ Lose(IF accepted THEN "table" ELSE "backend")
          /\ call' = None
          /\ UNCHANGED <<modules, orphaned>>
  /\ UNCHANGED <<shaders, pipelines, swizzles, depthOnly, pipes>>

Swept ==
  /\ call # None /\ call.step = "release" /\ orphaned \subseteq Retained
  /\ call' = None
  /\ UNCHANGED <<shaders, orphaned, pipelines, swizzles, depthOnly, modules, pipes, pipelinesLost, refusal>>

-----------------------------------------------------------------------------
(* Views with component maps.                                               *)

\* The pipeline to use with these views; changed are the modules whose words
\* the maps alter, made anew.  The new modules belong to no shader.
PipelineForViews(h, map, changed) ==
  /\ Ready /\ pipelines[h] # None
  /\ \A w \in swizzles : ~(w.owner = h /\ w.key = map)
  /\ changed \subseteq pipes[pipelines[h]] /\ changed # {}
  /\ \E new \in [changed -> FreshModule] : \E p \in {x \in FreshPipe : x = Min(FreshPipe)} :
       /\ IsInjective(new)
       /\ modules' = modules \cup Range(new)
       /\ orphaned' = orphaned \cup Range(new)
       /\ pipes' = [pipes EXCEPT ![p] = (pipes[pipelines[h]] \ changed) \cup Range(new)]
       /\ swizzles' = swizzles \cup {[owner |-> h, key |-> map, id |-> p]}
  /\ UNCHANGED <<shaders, pipelines, depthOnly, call, pipelinesLost, refusal>>

\* Modules that rollback_swizzle_modules finds to be new.
Created(before, after) == after \ before

\* A variant fails after some of its modules were made: rollback_swizzle_modules
\* releases them.  Nothing is left of it unless the table refuses.
FailForViews(h, map, changed) ==
  /\ Ready /\ pipelines[h] # None
  /\ \A w \in swizzles : ~(w.owner = h /\ w.key = map)
  /\ changed \subseteq pipes[pipelines[h]]
  /\ \E new \in [changed -> FreshModule] :
       /\ IsInjective(new)
       /\ modules' = (modules \cup Range(new)) \ Created(orphaned, orphaned \cup Range(new))
       /\ orphaned' = (orphaned \cup Range(new)) \ Created(orphaned, orphaned \cup Range(new))
  /\ UNCHANGED <<shaders, pipelines, swizzles, depthOnly, pipes, call, pipelinesLost, refusal>>

-----------------------------------------------------------------------------
PipelinesInit ==
  /\ shaders = [s \in Shaders |-> None] /\ pipelines = [p \in Pipelines |-> None]
  /\ orphaned = {} /\ swizzles = {} /\ depthOnly = None
  /\ modules = {} /\ pipes = [p \in PipeIds |-> None]
  /\ call = None /\ pipelinesLost = FALSE /\ refusal = FALSE

PipelinesNext ==
  \/ \E s \in Shaders : CreateShaderModule(s) \/ DestroyShaderModule(s)
  \/ \E n \in 1..MaxBatch : \E requests \in [1..n -> Compute] : BeginBatch("compute", requests)
  \/ \E request \in Graphics : BeginBatch("graphics", <<request>>)
  \/ VariantForLayout \/ DepthOnlyFragment \/ RefuseStage \/ DescriptorsMade
  \/ \E valid \in BOOLEAN : DefinePipeline(valid)
  \/ Publish
  \/ \E accepted \in BOOLEAN : RetirePipeline(accepted)
  \/ RollBack \/ Retired \/ Sweep \/ Swept
  \/ \E p \in Pipelines : DestroyPipeline(p)
  \/ \E m \in ModuleIds, accepted \in BOOLEAN : ReleaseModule(m, accepted)
  \/ \E p \in Pipelines, map \in Maps, changed \in SUBSET ModuleIds :
       PipelineForViews(p, map, changed) \/ FailForViews(p, map, changed)

-----------------------------------------------------------------------------
(* Properties.                                                              *)

(* Between calls the table holds exactly what the handles need: its pipelines  *)
(* are those of the handles and of their view variants, and its modules those  *)
(* pipelines' modules and the shared depth-only fragment.  A creation that     *)
(* failed anywhere leaves nothing behind, a destroyed shader or pipeline takes *)
(* what nobody else uses, and nothing in use is released.                      *)
TableMatchesHandles ==
  Ready =>
    LET used == {pipelines[h] : h \in {x \in Pipelines : pipelines[x] # None}} \cup {w.id : w \in swizzles}
    IN  /\ {p \in PipeIds : pipes[p] # None} = used
        /\ modules \ {depthOnly} = UNION {pipes[p] : p \in used} \ {depthOnly}
        /\ modules \ {depthOnly} = orphaned \cup UNION {{v.id : v \in Range(shaders[s])} : s \in {x \in Shaders : shaders[x] # None}}

(* Only the backend can lose the device here: modules are released after the  *)
(* pipelines that name them, and never twice, so the table never refuses.     *)
TableNeverRefuses == pipelinesLost => refusal

(* The invariant of the worker's pipelines and shader modules.                *)
PipelinesInvariant == TableMatchesHandles /\ TableNeverRefuses

==============================================================================
