------------------------------ MODULE MCObjects ------------------------------
(* The IR table with the encoder over it, and the descriptors, pipelines and *)
(* memory of the Vulkan driver.  The last three share the device worker and  *)
(* nothing else, so a behaviour exercises one of the four.                   *)
EXTENDS VulkanDescriptors, VulkanPipelines, VulkanMemory, Recorder, TLC

-----------------------------------------------------------------------------
(* One allocation of three cells; two buffers of two cells that can alias,  *)
(* one of a single cell, and an image as large as the allocation.            *)
CONSTANTS m1, whole, alias, part, i1

MCMemories == {m1}
MCBuffers == {whole, alias, part}
MCImages == {i1}
MCMemorySize == m1 :> 3
MCBufferSize == whole :> 2 @@ alias :> 2 @@ part :> 1
MCImageSize == i1 :> 3
MCTargets == {None, Target("image", i1)}
MCUsage == whole :> {"dst", "vertex", "storage"} @@ alias :> {"vertex"} @@ part :> {"src", "uniform"}

-----------------------------------------------------------------------------
MCTableCapacity ==
    [k \in SlotKinds \cup ListKinds |-> IF k \in {"texture", "buffer", "group"} THEN 2 ELSE 1]

Surface == [format |-> "rgba8", extent |-> 2, mips |-> 1, layers |-> 1,
            usage |-> {"RENDER_ATTACHMENT", "COPY_DST"}]
Image == [format |-> "rgba8", extent |-> 2, mips |-> 2, layers |-> 1,
          usage |-> {"SAMPLED", "STORAGE", "COPY_SRC", "COPY_DST"}]
Depth == [format |-> "depth", extent |-> 2, mips |-> 1, layers |-> 1,
          usage |-> {"RENDER_ATTACHMENT"}]
MCTextureDescs == {Surface, Image, Depth}
Vertices == [size |-> 1, usage |-> {"STORAGE", "VERTEX", "COPY_SRC"}]
Staging == [size |-> 2, usage |-> {"COPY_DST", "STORAGE", "INDEX"}]
MCBufferDescs == {Vertices, Staging}
MCLayouts == {<<"storage">>, <<"storage_texture">>}
MCPrograms == {[layout |-> <<>>, depth |-> "write", targets |-> 2, buffers |-> 1]}

Slot(d) == [desc |-> d, gen |-> 0, next |-> 0]
Group(layout, id, mips) == Slot([layout |-> layout, entries |-> <<Binding(id, 0, mips)>>])
Renderer(layout) ==
    LET s == Id("shader", 1, 0) IN
    /\ slots = [texture |-> <<Slot(Surface), Slot(Image)>>,
                buffer |-> <<Slot(Vertices), Slot(Staging)>>,
                group |-> IF layout = <<"storage">>
                          THEN <<Group(layout, Id("buffer", 1, 0), 1),
                                 Group(layout, Id("buffer", 2, 0), 1)>>
                          ELSE <<Group(layout, Id("texture", 2, 0), 1)>>,
                shader |-> <<Slot([code |-> "module"])>>,
                compute |-> <<Slot([shaders |-> {s}, layout |-> layout])>>,
                program |-> <<Slot([shaders |-> {s}, layout |-> layout, depth |-> "none",
                                    targets |-> 1, buffers |-> 0])>>]
    /\ free = [k \in SlotKinds |-> 0]
    /\ lists = [sampler |-> <<[compare |-> FALSE]>>,
                fixed |-> <<[textured |-> TRUE, depth |-> "none"]>>]
    /\ retired = {}

(* Encoders along a recording, with two commands left to record or, after  *)
(* a dispatch whose writes are pending, with three: outside passes, in a   *)
(* compute pass, after it, in a render pass with a programmable pipeline,  *)
(* in one with all that a fixed pipeline needs.                            *)
Drawn == Id("texture", 1, 0)
Begun == <<Entry({Sub(Drawn, 0)}, {}, {}, "none")>>
Computing == [NothingBound EXCEPT !.compute = Id("compute", 1, 0), !.group = Id("group", 1, 0)]
Recording(p, c, t, b) == pass = p /\ count = c /\ trace = t /\ bound = b
Started(written) ==
    \/ /\ pending = {}
       /\ \/ Recording("none", 6, <<>>, NothingBound)
          \/ Recording("compute", 5, <<>>, Computing)
          \/ Recording("render", 4, Begun,
                [NothingBound EXCEPT !.colors = <<Drawn>>, !.program = Id("program", 1, 0),
                    !.group = Id("group", 1, 0), !.index = Id("buffer", 2, 0)])
          \/ Recording("render", 6, Begun,
                [NothingBound EXCEPT !.colors = <<Drawn>>, !.fixed = 1,
                    !.vertex = Id("buffer", 1, 0), !.uniforms = TRUE,
                    !.texture = Id("texture", 2, 0), !.sampler = TRUE])
    \/ /\ pending = {written}
       /\ Recording("none", 5, <<Entry({written}, {written}, {}, "compute")>>, NothingBound)

EmptyTable ==
    /\ TableInit /\ tableOps = 0 /\ pending = {}
    /\ Recording("finished", 2, <<>>, NothingBound)

(* An empty table, whose operations are explored MaxTableOps deep, and the *)
(* table of a renderer, with one more operation while commands are         *)
(* recorded.                                                               *)
RecorderStart ==
    \/ EmptyTable
    \/ \E layout \in MCLayouts :
         /\ Renderer(layout) /\ tableOps = MaxTableOps - 1
         /\ Started(Sub(Id(IF layout = <<"storage">> THEN "buffer" ELSE "texture",
                           IF layout = <<"storage">> THEN 1 ELSE 2, 0), 0))

-----------------------------------------------------------------------------

\* What the application of a behaviour works with: sets of two buffers, pushed
\* sets, sets of a dynamic buffer and a combined image sampler, pipelines,
\* memory, or the recording of commands.
VARIABLE application
Works == ("static" :> [with |-> {"plain"}, on |-> {"b1", "b2"}])
         @@ ("pushed" :> [with |-> {"pushed"}, on |-> {"b1", "b2"}])
         @@ ("mixed" :> [with |-> {"mixed"}, on |-> {"b1", "v"}])

MCDeclared == ("plain" :> [b \in {0, 7} |-> "buffer"]) @@ ("pushed" :> [b \in {1, 2} |-> "buffer"])
              @@ ("mixed" :> (0 :> "dynamic" @@ 1 :> "combined"))
MCKind == ("b1" :> "buffer") @@ ("b2" :> "buffer") @@ ("v" :> "view")
MCPoolCapacity == [p \in Pools |-> ("buffer" :> 4) @@ ("dynamic" :> 1) @@ ("combined" :> 1)]
MCPoolSets == [p \in Pools |-> 2]

\* Descriptors and pipelines share their sets of model values.
Symmetry == Permutations(Sets) \cup Permutations(RealIds) \cup Permutations(GroupIds)

MCInit ==
  /\ DescriptorsInit /\ PipelinesInit /\ MemoryInit /\ announced = {}
  /\ application \in DOMAIN Works \cup {"pipelines", "memory", "recording"}
  /\ IF application = "recording" THEN RecorderStart ELSE EmptyTable

DescriptorsStep ==
  /\ application \in DOMAIN Works
  /\ DescriptorsNext
  /\ layouts' \subseteq Works[application].with
  /\ {h \in Resources : real'[h] # None} \subseteq Works[application].on
  /\ UNCHANGED <<pipelineVars, memoryVars, recorderVars>>

PipelinesStep ==
  /\ application = "pipelines"
  /\ PipelinesNext
  /\ UNCHANGED <<descriptorVars, memoryVars, recorderVars>>

MemoryStep ==
  /\ application = "memory"
  /\ MemoryNext
  /\ UNCHANGED <<descriptorVars, pipelineVars, recorderVars>>

\* While commands are recorded the table changes inside a pass, where it
\* meets the most state.
RecordingStep ==
  /\ application = "recording"
  /\ \/ Call /\ UNCHANGED <<tableVars, tableOps>>
     \/ (InPass \/ count = 2) /\ TableStep
  /\ UNCHANGED <<descriptorVars, pipelineVars, memoryVars>>

MCNext ==
  /\ DescriptorsStep \/ PipelinesStep \/ MemoryStep \/ RecordingStep
  /\ UNCHANGED application
MCSpec == MCInit /\ [][MCNext]_<<descriptorVars, pipelineVars, memoryVars, recorderVars, application>>
=============================================================================
