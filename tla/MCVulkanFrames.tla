---------------------------- MODULE MCVulkanFrames ----------------------------
(* What a frame of a Vulkan application goes through: its commands are       *)
(* recorded, resolved, and its image presented.  The three share no state,   *)
(* so a behaviour is one scenario of one of them.                            *)
EXTENDS VulkanCommands, VulkanResolve, Swapchain

-----------------------------------------------------------------------------
(* Recording and sharing, in three scenarios.  "recording": inside the       *)
(* recording of the only buffer left, with every command.  "sharing": one    *)
(* buffer from an empty pool, with the commands that refer to descriptor     *)
(* sets, submissions and resets.  "pair": two buffers that have been         *)
(* recorded and may be submitted together.                                   *)
CONSTANT FewCalls

CommandScenarios == {"recording", "sharing", "pair"}

MCKinds == [q \in QueryPools |-> "occlusion"]
SomePool == CHOOSE p \in Pools : TRUE
SomeCmd == CHOOSE c \in Cmds : TRUE
Opened == [NewRecording(SomePool, CHOOSE x \in Addresses : TRUE) EXCEPT
            !.state = "recording", !.begins = MaxBegins]
Recorded(c) ==
  LET of == CHOOSE f \in Injection(Cmds, Addresses) : TRUE IN
  [Opened EXCEPT !.state = "executable", !.oneTime = TRUE, !.commands = of[c]]

CommandsStart(s) ==
  /\ heap = [x \in Addresses |-> <<>>]
  /\ versions = [d \in Sets |-> 0]
  /\ packets = <<>>
  /\ early = {}
  /\ pools = [p \in Pools |-> IF s = "sharing" THEN None ELSE [reset |-> TRUE]]
  /\ CASE s = "recording" ->
            /\ cells = [d \in Cmds |-> IF d = SomeCmd THEN Opened ELSE Freed]
            /\ calls = 0 /\ submits = MaxSubmits
       [] s = "sharing" ->
            /\ cells = [c \in Cmds |-> IF c = SomeCmd THEN None ELSE Freed]
            /\ calls = MaxCalls - FewCalls /\ submits = 0
       [] s = "pair" ->
            /\ cells = [c \in Cmds |-> Recorded(c)]
            /\ calls = MaxCalls /\ submits = MaxSubmits - 1

SharedCommands ==
  \/ Manage \/ Submit \/ QueueWorker \/ InvalidateResourceRecordings
  \/ \E s \in Sets : UpdateDescriptors(s)
  \/ \E c \in Cmds : CmdBindDescriptorSets(c)

-----------------------------------------------------------------------------
(* Recordings for the resolver: what is bound, what a pass keeps, and what   *)
(* transfers and control points do to it.                                    *)
CONSTANTS MaxMore, Scenarios

VARIABLE left     \* commands the recording may still have

MCImages == {"c1", "c2", "z"}
MCBuffers == {"b1", "b2"}
MCMemoryOf == [b \in MCBuffers |-> b]
MCSets == {"s1", "s2", "sc"}
MCSetLayout == [s \in MCSets |-> IF s = "sc" THEN "LC" ELSE "LA"]
MCSetWrites == [s \in MCSets |-> IF s = "sc" THEN "b1" ELSE None]
MCSetInput == [s \in MCSets |-> IF s = "s1" THEN "c1" ELSE None]

GraphicsPipeline(layout, groups, push, inputs, pass, subpass) ==
  [point |-> "graphics", layout |-> layout, groups |-> groups, push |-> push, slots |-> TRUE,
   depthWrite |-> TRUE, inputs |-> inputs, pass |-> pass, subpass |-> subpass]
MCPipelines ==
  "pA" :> GraphicsPipeline("LA", {1, 2}, TRUE, {}, "one", 1) @@
  "pB" :> GraphicsPipeline("LA", {1, 2}, TRUE, {}, "one", 1) @@
  "pC" :> GraphicsPipeline("LC", {1}, FALSE, {}, "one", 1) @@
  "p1" :> GraphicsPipeline("LA", {}, FALSE, {}, "two", 1) @@
  "p2" :> GraphicsPipeline("LA", {1}, FALSE, {1}, "two", 2) @@
  "pM" :> GraphicsPipeline("LA", {}, FALSE, {}, "mip", 1) @@
  "pZ" :> GraphicsPipeline("LA", {}, FALSE, {}, "depth", 1) @@
  "cs" :> [GraphicsPipeline("LC", {1}, TRUE, {}, "none", 1) EXCEPT !.point = "compute"] @@
  None :> GraphicsPipeline("none", {}, FALSE, {}, "none", 1)

Subpass(colors, inputs, depth) == [colors |-> colors, inputs |-> inputs, depth |-> depth, readOnly |-> FALSE]
All(v) == [i \in MCImages |-> v]
Pass(kind, load, store, subpasses) ==
  [kind |-> kind, dynamic |-> FALSE, load |-> load, store |-> store,
   initial |-> All("sampled"), final |-> All("sampled"), subpasses |-> subpasses, mips |-> {}]
MCPasses ==
  "keep" :> Pass("one", All("load"), All("store"), <<Subpass(<<"c1">>, {}, "z")>>) @@
  "drop" :> Pass("one", [All("clear") EXCEPT !["z"] = "dontcare"], [All("store") EXCEPT !["z"] = "dontcare"],
                 <<Subpass(<<"c1">>, {}, "z")>>) @@
  "two"  :> Pass("two", [All("load") EXCEPT !["c1"] = "clear"], [All("store") EXCEPT !["c1"] = "dontcare"],
                 <<Subpass(<<"c1">>, {}, "z"), Subpass(<<"c2">>, {"c1"}, None)>>) @@
  "mip"  :> [Pass("mip", All("load"), All("store"), <<Subpass(<<"c2">>, {}, None)>>)
             EXCEPT !.dynamic = TRUE, !.mips = {"c2"}] @@
  "mipClear" :> [Pass("mip", All("clear"), All("store"), <<Subpass(<<"c2">>, {}, None)>>)
             EXCEPT !.dynamic = TRUE, !.mips = {"c2"}] @@
  "depth" :> [Pass("depth", All("load"), All("store"), <<Subpass(<<>>, {}, "z")>>) EXCEPT !.dynamic = TRUE]

C(k) == [k |-> k]
BeginC(p) == [k |-> "BeginRenderPass", pass |-> p]
PipelineC(p) == [k |-> "BindPipeline", pipeline |-> p]
SetC(point, g, s, o) == [k |-> "BindDescriptorSets", point |-> point, group |-> g, set |-> s, offset |-> o,
                         layout |-> MCSetLayout[s]]
PushC(l, v) == [k |-> "PushConstants", layout |-> l, value |-> v]
DrawC(indexed, empty) == [k |-> "Draw", indexed |-> indexed, empty |-> empty]
IndirectC(b, counted) == [k |-> "DrawIndirect", buffer |-> b, counted |-> counted, indexed |-> FALSE, empty |-> FALSE]
ClearC(is) == [k |-> "ClearAttachments", images |-> is]
BarrierC(memory, buffer, full) ==
  [k |-> "PipelineBarrier", memory |-> memory, buffer |-> buffer, storage |-> TRUE, image |-> None, full |-> full]
QueryC(a) == [k |-> "Query", action |-> a, buffer |-> "b1"]
WriteC(b) == [k |-> "UpdateBuffer", buffer |-> b]

Dynamic == <<[k |-> "SetViewport", viewport |-> "v1"], [k |-> "SetScissor", scissor |-> "in1"],
             [k |-> "BindVertexBuffer", buffer |-> "b1"], [k |-> "BindIndexBuffer", buffer |-> "b1"]>>
Bound == <<SetC("graphics", 1, "s1", 0), SetC("graphics", 2, "s2", 0), PushC("LA", "k1")>>

Prefix(s) ==
  CASE s = "bindings"  -> Dynamic \o Bound \o <<PipelineC("pA"), BeginC("keep")>>
    [] s = "switching" -> Dynamic \o Bound \o <<PipelineC("pA"), BeginC("keep"), DrawC(FALSE, FALSE),
                            SetC("graphics", 1, "sc", 0), PipelineC("pC"), DrawC(FALSE, FALSE)>>
    [] s = "subpasses" -> Dynamic \o Bound \o <<PipelineC("p1"), BeginC("two"), DrawC(FALSE, FALSE)>>
    [] s = "passes"    -> Dynamic \o Bound
    [] s = "transfers" -> Dynamic \o <<SetC("compute", 1, "sc", 0), PipelineC("cs"), PushC("LC", "k1"),
                                       PipelineC("pZ")>>

Candidates(s) ==
  CASE s = "bindings" ->
         {DrawC(FALSE, FALSE), DrawC(TRUE, FALSE), DrawC(FALSE, TRUE), IndirectC("b2", FALSE),
          SetC("graphics", 1, "s2", 0), SetC("graphics", 2, "s2", 1), PushC("LA", "k2"),
          [k |-> "SetScissor", scissor |-> "outside"], ClearC({"c1"}), C("InertDynamicState")}
    [] s = "switching" ->
         {DrawC(FALSE, FALSE), PipelineC("pA"), PipelineC("pB"), PipelineC("pC"), SetC("graphics", 1, "sc", 0),
          SetC("graphics", 1, "s1", 0), PushC("LA", "k2"), IndirectC("b2", FALSE),
          [k |-> "SetScissor", scissor |-> "in2"], [k |-> "SetViewport", viewport |-> "v2"]}
    [] s = "passes" ->
         {BeginC(p) : p \in DOMAIN MCPasses}
         \cup {PipelineC(p) : p \in {"pA", "p1", "p2", "pM"}}
         \cup {C("NextSubpass"), C("EndRenderPass"), DrawC(FALSE, FALSE), IndirectC("b2", FALSE), ClearC({"c1"}),
               ClearC({"c2"}), QueryC("begin")}
    [] s = "subpasses" ->
         {PipelineC("p2"), C("NextSubpass"), C("EndRenderPass"), DrawC(FALSE, FALSE), IndirectC("b2", FALSE),
          ClearC({"c1"}), ClearC({"c2"}), QueryC("begin")}
    [] s = "transfers" ->
         {[k |-> "Dispatch", empty |-> FALSE], BarrierC("write", None, FALSE), BarrierC("none", "b1", TRUE),
          [k |-> "CopyImageToBuffer", image |-> "c1", buffer |-> "b2"], WriteC("b2"),
          [k |-> "CopyBuffer", from |-> "b1", to |-> "b2"],
          [k |-> "CopyBufferToImage", image |-> "c1", buffer |-> "b1", size |-> 3],
          [k |-> "CopyImage", from |-> "c1", to |-> "c2"], [k |-> "BlitImage", from |-> "c2", to |-> "c1"],
          [k |-> "ClearDepthImage", image |-> "z"], [k |-> "ClearColorImage", image |-> "c2"],
          QueryC("copy"), QueryC("reset"), QueryC("timestamp"), [k |-> "Synchronize", event |-> "set"],
          BeginC("depth"), C("EndRenderPass"), IndirectC("b2", FALSE), IndirectC("b1", TRUE)}

ResolveStart(s) ==
  /\ left = IF s \in Scenarios THEN MaxMore[s] ELSE 0
  /\ ResolveInit(IF s \in Scenarios THEN Prefix(s) ELSE <<>>)

ResolveStep(s) ==
  /\ left > 0
  /\ left' = left - 1
  /\ \E c \in Candidates(s) : Resolve(c)

MCMaxMore == [s \in {"bindings", "switching", "passes", "subpasses", "transfers"} |->
                IF s = "subpasses" THEN 5 ELSE 4]

-----------------------------------------------------------------------------
(* One surface of either window system with a swapchain, a few calls of the *)
(* application and a few mishaps.                                           *)
CONSTANTS MaxRequests, MaxMishaps, s1, s2, w1

VARIABLES requests, mishaps     \* that are still to come

MCSystemOf == [s \in Surfaces |-> IF s = s1 THEN "sws" ELSE "wayland"]

SwapStart(s) ==
  /\ surface = [t \in Surfaces |-> IF t = s THEN [NewSurface(1) EXCEPT !.imported = {w1} \X Indices] ELSE None]
  /\ chain = [c \in Chains |-> IF c = w1 THEN NewSwapchain(NewWindow(w1, s, 1)) ELSE None]
  /\ usedChains = {w1} /\ creating = None /\ acquiring = None
  /\ owned = {} /\ presents = <<>> /\ presenting = None
  /\ requests = MaxRequests /\ mishaps = MaxMishaps

SwapStep ==
  \/ requests > 0 /\ Calls /\ requests' = requests - 1 /\ UNCHANGED mishaps
  \/ mishaps > 0 /\ Misfortune /\ mishaps' = mishaps - 1 /\ UNCHANGED requests
  \/ (Worker \/ QueueThread \/ Compositor) /\ UNCHANGED <<requests, mishaps>>

-----------------------------------------------------------------------------

VARIABLE scenario
frameVars == <<commandVars, resolveVars, left, swapVars, requests, mishaps, scenario>>

FrameInit ==
  /\ scenario \in CommandScenarios \cup Scenarios \cup {"sws", "wayland"}
  /\ CommandsStart(IF scenario \in CommandScenarios THEN scenario ELSE "pair")
  /\ ResolveStart(scenario)
  /\ SwapStart(IF scenario = "wayland" THEN s2 ELSE s1)

FrameNext ==
  /\ UNCHANGED scenario
  /\ \/ /\ scenario \in CommandScenarios
        /\ IF scenario = "recording" THEN CommandsNext ELSE SharedCommands
        /\ UNCHANGED <<resolveVars, left, swapVars, requests, mishaps>>
     \/ /\ scenario \in Scenarios
        /\ ResolveStep(scenario)
        /\ UNCHANGED <<commandVars, swapVars, requests, mishaps>>
     \/ /\ scenario \in {"sws", "wayland"}
        /\ SwapStep
        /\ UNCHANGED <<commandVars, resolveVars, left>>

FrameSpec == FrameInit /\ [][FrameNext]_frameVars
=============================================================================
