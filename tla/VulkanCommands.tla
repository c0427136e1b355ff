--------------------------- MODULE VulkanCommands ---------------------------
(* Command pools and command buffers of the Vulkan driver.                  *)
(*                                                                          *)
(* Application threads record into cells that never leave the calling       *)
(* thread; a submission clones the cell, and the clone shares the list of   *)
(* commands with it (an Arc, here an address of `heap`).  The queue thread  *)
(* executes the clones later, marks one-time originals invalid and only     *)
(* then lets the fence observe the packet.  A recorded command is kept as   *)
(* its class: what Recording::push, the descriptor updates and the queue    *)
(* tell apart.  Arguments an entry point refuses are a choice of the caller.*)
EXTENDS Naturals, Sequences, FiniteSets, FiniteSetsExt, SequencesExt, Absent

CONSTANTS
  Pools, Cmds,       \* handles of command pools and command buffers
  Sets,              \* descriptor sets
  QueryPools,        \* query pools of one query each
  KindOf,            \* [QueryPools -> kinds of query]
  Addresses,         \* where lists of commands live
  Capacity,          \* ir::MAX_COMMANDS
  MaxCalls, MaxBegins, MaxUpdates, MaxSubmits   \* bounds of exploration

ASSUME CommandsAssumption ==
  /\ Capacity \in Nat \ {0, 1}
  /\ MaxSubmits \in Nat
  /\ QueryPools \subseteq DOMAIN KindOf
  \* Every cell and every snapshot can have a list of its own, and every cell
  \* a new one.
  /\ IsFiniteSet(Addresses) /\ IsFiniteSet(Cmds)
  /\ Cardinality(Addresses) > Cardinality(Cmds) + 2 * MaxSubmits
  /\ Cardinality(Addresses) >= 2 * Cardinality(Cmds)

VARIABLES
  pools,     \* [Pools -> None or whether single buffers may be reset]
  cells,     \* [Cmds -> None (not yet given out), Freed or the Recording]
  heap,      \* [Addresses -> lists of commands]
  versions,  \* [Sets -> how often the set was updated] (history)
  packets,   \* submitted packets, oldest first
  early,     \* buffers begun or reset while a packet still had them (history)
  calls, submits

commandVars == <<pools, cells, heap, versions, packets, early, calls, submits>>

Kinds == {KindOf[q] : q \in QueryPools}
Freed == [state |-> "freed"]
Live(r) == r # None /\ r # Freed
Command(k, v) == [k |-> k, v |-> v]

\* A query that is open: its pool, and whether it was begun inside a pass.
OpenQueries == [pool : QueryPools, inside : BOOLEAN]
Recordings ==
  [pool : Pools, oneTime : BOOLEAN, state : {"initial", "recording", "executable", "invalid"},
   error : BOOLEAN, renderActive : BOOLEAN, renderDynamic : BOOLEAN,
   active : [Kinds -> OpenQueries \cup {None}], commands : Addresses, refs : SUBSET Sets,
   begins : Nat]
ASSUME AbsentCommandsAssumption == None \notin Recordings \cup OpenQueries \cup {Freed}

-----------------------------------------------------------------------------
(* Shared lists.                                                            *)

SnapshotsOf(p) == IF p.phase = "queued" THEN p.recs ELSE <<>>
CellRefs(cs, a) == {c \in Cmds : Live(cs[c]) /\ cs[c].commands = a}
PacketRefs(ps, a) ==
  {x \in (1..Len(ps)) \X (1..2) :
     /\ x[2] \in DOMAIN SnapshotsOf(ps[x[1]])
     /\ SnapshotsOf(ps[x[1]])[x[2]].commands = a}
Unique(a) == Cardinality(CellRefs(cells, a)) + Cardinality(PacketRefs(packets, a)) = 1
Referenced(cs, ps) == {a \in Addresses : CellRefs(cs, a) # {} \/ PacketRefs(ps, a) # {}}
FreshAddress == CHOOSE a \in Addresses : a \notin Referenced(cells, packets)

\* Lists nobody holds are freed.
Collected(h, cs, ps) ==
  [a \in Addresses |-> IF a \in Referenced(cs, ps) THEN h[a] ELSE <<>>]
PutState(h, cs, ps) ==
  /\ cells' = cs
  /\ packets' = ps
  /\ heap' = Collected(h, cs, ps)

NewRecording(pool, a) ==
  [pool |-> pool, oneTime |-> FALSE, state |-> "initial", error |-> FALSE,
   renderActive |-> FALSE, renderDynamic |-> FALSE,
   active |-> [k \in Kinds |-> None], commands |-> a, refs |-> {}, begins |-> 0]

\* Recording::fail keeps the first error; that there is one is what matters.
WithError(r) == [r EXCEPT !.error = TRUE]

\* Where the commands of a reset recording live: in place when nobody shares
\* the list and it need not be released, else in a new one.
(* Mutant: a list that a queued packet shares is cleared in place. *)
MutantResetAddress(r, release) == IF ~release THEN r.commands ELSE FreshAddress
ResetAddress(r, release) ==
  IF ~release /\ Unique(r.commands) THEN r.commands ELSE FreshAddress

ResetRecording(r, a) ==
  [NewRecording(r.pool, a) EXCEPT !.begins = r.begins]

Pending(c) == \E i \in 1..Len(packets) : \E j \in DOMAIN packets[i].recs :
                packets[i].recs[j].cmd = c

-----------------------------------------------------------------------------
(* Recording::push.                                                         *)

OpenInside(r) == \E k \in Kinds : r.active[k] # None /\ r.active[k].inside
OpenIn(r, q) == \E k \in Kinds : r.active[k] # None /\ r.active[k].pool = q

\* Whether push accepts the command in the state of the recording.
Accepts(r, cmd) ==
  CASE cmd.k \in {"reset query", "copy query"} ->
         ~OpenIn(r, cmd.v) /\ ~r.renderActive
    [] cmd.k = "begin query" -> r.active[KindOf[cmd.v]] = None
    [] cmd.k = "end query" ->
         r.active[KindOf[cmd.v]] = [pool |-> cmd.v, inside |-> r.renderActive]
    [] cmd.k \in {"begin pass", "begin rendering"} -> ~r.renderActive
    [] cmd.k = "end rendering" -> ~OpenInside(r) /\ r.renderActive /\ r.renderDynamic
    [] cmd.k \in {"end pass", "next subpass"} ->
         ~OpenInside(r) /\ ~r.renderDynamic /\ r.renderActive
    [] cmd.k = "draw" -> r.renderActive
    [] cmd.k \in {"control", "transfer"} -> ~r.renderActive
    [] OTHER -> TRUE

\* What an accepted command changes besides the list.
Tracked(r, cmd) ==
  CASE cmd.k = "begin query" ->
         [r EXCEPT !.active[KindOf[cmd.v]] = [pool |-> cmd.v, inside |-> r.renderActive]]
    [] cmd.k = "end query" -> [r EXCEPT !.active[KindOf[cmd.v]] = None]
    [] cmd.k = "begin rendering" -> [r EXCEPT !.renderActive = TRUE, !.renderDynamic = TRUE]
    [] cmd.k = "end rendering" -> [r EXCEPT !.renderActive = FALSE, !.renderDynamic = FALSE]
    [] cmd.k = "begin pass" -> [r EXCEPT !.renderActive = TRUE, !.renderDynamic = FALSE]
    [] cmd.k = "end pass" -> [r EXCEPT !.renderActive = FALSE]
    [] cmd.k = "bind" -> [r EXCEPT !.refs = @ \union {cmd.v.set}]
    [] OTHER -> r

\* The list after make_mut: in place when unique, a clone when shared.
PushAddress(r) == IF Unique(r.commands) THEN r.commands ELSE FreshAddress

\* record: push, whose error stays in the recording.
Record(c, cmd) ==
  LET r == cells[c]
      a == PushAddress(r) IN
  /\ Live(r)
  /\ calls < MaxCalls
  /\ calls' = calls + 1
  /\ IF r.state = "recording" /\ Len(heap[r.commands]) < Capacity /\ Accepts(r, cmd)
       THEN PutState([heap EXCEPT ![a] = Append(heap[r.commands], cmd)],
                  [cells EXCEPT ![c] = [Tracked(r, cmd) EXCEPT !.commands = a]], packets)
       ELSE PutState(heap, [cells EXCEPT ![c] = WithError(r)], packets)
  /\ UNCHANGED <<pools, versions, early, submits>>

\* record_error: the arguments were refused before anything was pushed.
RecordError(c) ==
  /\ Live(cells[c])
  /\ ~cells[c].error
  /\ cells' = [cells EXCEPT ![c] = WithError(@)]
  /\ UNCHANGED <<pools, heap, versions, packets, early, calls, submits>>

-----------------------------------------------------------------------------
(* Entry points that record.                                                *)

Simple(k) == Command(k, None)
CmdBindPipeline(c) == Record(c, Simple("state")) \/ RecordError(c)
CmdPushConstants(c) == Record(c, Simple("state")) \/ RecordError(c)
CmdSetViewport(c) == Record(c, Simple("state")) \/ RecordError(c)
CmdSetScissor(c) == Record(c, Simple("state")) \/ RecordError(c)
CmdBindVertexBuffers(c) == Record(c, Simple("state")) \/ RecordError(c)
CmdBindIndexBuffer(c) == Record(c, Simple("state")) \/ RecordError(c)
CmdInertState(c) == Record(c, Simple("state")) \/ RecordError(c)
CmdStencil(c) == Record(c, Simple("state")) \/ RecordError(c)
CmdBindDescriptorSets(c) ==
  \/ \E s \in Sets : Record(c, Command("bind", [set |-> s, version |-> versions[s]]))
  \/ RecordError(c)
CmdDispatch(c) == Record(c, Simple("control")) \/ RecordError(c)
CmdPipelineBarrier(c) == Record(c, Simple("control")) \/ RecordError(c)
CmdBarrier2(c) == Record(c, Simple("control")) \/ RecordError(c)
CmdResetEvent(c) == Record(c, Simple("control")) \/ RecordError(c)
CmdBeginRenderPass(c) == Record(c, Simple("begin pass")) \/ RecordError(c)
CmdNextSubpass(c) == Record(c, Simple("next subpass")) \/ RecordError(c)
CmdEndRenderPass(c) == Record(c, Simple("end pass"))
CmdBeginRendering(c) == Record(c, Simple("begin rendering")) \/ RecordError(c)
CmdEndRendering(c) == Record(c, Simple("end rendering"))
CmdDraw(c) == Record(c, Simple("draw")) \/ RecordError(c)
CmdDrawIndexed(c) == Record(c, Simple("draw")) \/ RecordError(c)
CmdDrawIndirect(c) == Record(c, Simple("draw")) \/ RecordError(c)
CmdDrawIndirectEntries(c) == CmdDrawIndirect(c)
CmdClearAttachments(c) == Record(c, Simple("draw")) \/ RecordError(c)
CmdClearColorImage(c) == Record(c, Simple("transfer")) \/ RecordError(c)
CmdClearDepthImage(c) == Record(c, Simple("transfer")) \/ RecordError(c)
CmdCopyImageToBuffer(c) == Record(c, Simple("transfer")) \/ RecordError(c)
CmdCopyBuffer(c) == Record(c, Simple("transfer")) \/ RecordError(c)
CmdCopyBufferToImage(c) == Record(c, Simple("transfer")) \/ RecordError(c)
CmdCopyImage(c) == Record(c, Simple("transfer")) \/ RecordError(c)
CmdBlitImage(c) == Record(c, Simple("transfer")) \/ RecordError(c)
CmdUpdateBuffer(c) == Record(c, Simple("transfer")) \/ RecordError(c)
CmdFillBuffer(c) == Record(c, Simple("transfer")) \/ RecordError(c)
CmdResetQueryPool(c, q) == Record(c, Command("reset query", q)) \/ RecordError(c)
CmdWriteTimestamp(c, q) == Record(c, Command("timestamp", q)) \/ RecordError(c)
CmdCopyQueryPoolResults(c, q) == Record(c, Command("copy query", q)) \/ RecordError(c)
CmdBeginQuery(c, q) == Record(c, Command("begin query", q)) \/ RecordError(c)
CmdEndQuery(c, q) == Record(c, Command("end query", q)) \/ RecordError(c)

\* Two commands of one call: each is pushed, and refused, on its own.
RecordBoth(c, first, second) ==
  LET r == cells[c]
      list == heap[r.commands]
      fits(n) == r.state = "recording" /\ Len(list) + n <= Capacity /\ Accepts(r, first)
      a == PushAddress(r) IN
  /\ Live(r)
  /\ calls < MaxCalls
  /\ calls' = calls + 1
  /\ CASE fits(2) /\ Accepts(Tracked(r, first), second) ->
            PutState([heap EXCEPT ![a] = list \o <<first, second>>],
                  [cells EXCEPT ![c] = [Tracked(Tracked(r, first), second) EXCEPT !.commands = a]],
                  packets)
       [] fits(1) /\ ~fits(2) ->
            PutState([heap EXCEPT ![a] = Append(list, first)],
                  [cells EXCEPT ![c] = [WithError(Tracked(r, first)) EXCEPT !.commands = a]], packets)
       [] OTHER -> PutState(heap, [cells EXCEPT ![c] = WithError(r)], packets)
  /\ UNCHANGED <<pools, versions, early, submits>>
CmdSetEvent(c) == RecordBoth(c, Simple("control"), Simple("control")) \/ RecordError(c)
CmdWaitEvents(c) == RecordBoth(c, Simple("control"), Simple("control")) \/ RecordError(c)

\* A push of descriptors is materialized and bound, both or neither.
CmdPushDescriptorSet(c) ==
  \/ /\ Live(cells[c])
     /\ cells[c].state = "recording"
     /\ Len(heap[cells[c].commands]) + 2 <= Capacity
     /\ RecordBoth(c, Simple("push"), Simple("bind pushed"))
  \/ RecordError(c)

-----------------------------------------------------------------------------
(* Pools and buffers.                                                       *)

CreateCommandPool(p) ==
  /\ pools[p] = None
  /\ \E reset \in BOOLEAN : pools' = [pools EXCEPT ![p] = [reset |-> reset]]
  /\ UNCHANGED <<cells, heap, versions, packets, early, calls, submits>>

OfPool(p) == {c \in Cmds : Live(cells[c]) /\ cells[c].pool = p}

DestroyCommandPool(p) ==
  /\ pools[p] # None
  /\ pools' = [pools EXCEPT ![p] = None]
  /\ PutState(heap, [c \in Cmds |-> IF c \in OfPool(p) THEN Freed ELSE cells[c]], packets)
  /\ UNCHANGED <<versions, early, calls, submits>>

\* A handle is given out once (next_id).
AllocateCommandBuffers(p, c) ==
  /\ pools[p] # None
  /\ cells[c] = None
  /\ PutState([heap EXCEPT ![FreshAddress] = <<>>],
           [cells EXCEPT ![c] = NewRecording(p, FreshAddress)], packets)
  /\ UNCHANGED <<pools, versions, early, calls, submits>>

FreeCommandBuffers(p, c) ==
  /\ c \in OfPool(p)
  /\ PutState(heap, [cells EXCEPT ![c] = Freed], packets)
  /\ UNCHANGED <<pools, versions, early, calls, submits>>

\* Buffers the application touches while a packet has them (invalid usage).
Touched(cs) == early' = early \union {c \in cs : Pending(c)}

ResetOne(c, release) ==
  LET a == ResetAddress(cells[c], release) IN
  PutState([heap EXCEPT ![a] = <<>>],
        [cells EXCEPT ![c] = ResetRecording(cells[c], a)], packets)

\* vkResetCommandPool takes the buffers one after another; with one buffer to
\* a step, another thread may come in between, as it may in the code.
ResetCommandPool(p, c) ==
  /\ pools[p] # None
  /\ c \in OfPool(p)
  /\ \E release \in BOOLEAN : ResetOne(c, release)
  /\ Touched({c})
  /\ UNCHANGED <<pools, versions, calls, submits>>

MayReset(c) == pools[cells[c].pool] # None /\ pools[cells[c].pool].reset

ResetCommandBuffer(c) ==
  /\ Live(cells[c])
  /\ MayReset(c)
  /\ \E release \in BOOLEAN : ResetOne(c, release)
  /\ Touched({c})
  /\ UNCHANGED <<pools, versions, calls, submits>>

BeginCommandBuffer(c) ==
  LET r == cells[c]
      a == ResetAddress(r, FALSE) IN
  /\ Live(r)
  /\ r.state # "recording"
  /\ r.state # "initial" => MayReset(c)
  /\ r.begins < MaxBegins
  /\ \E one \in BOOLEAN :
       PutState([heap EXCEPT ![a] = <<>>],
             [cells EXCEPT ![c] = [ResetRecording(r, a) EXCEPT
                !.state = "recording", !.oneTime = one, !.begins = @ + 1]], packets)
  /\ Touched({c})
  /\ UNCHANGED <<pools, versions, calls, submits>>

\* The recording vkEndCommandBuffer leaves.
Ended(r) ==
  IF r.error \/ r.state # "recording" \/ r.renderActive \/ \E k \in Kinds : r.active[k] # None
    THEN [r EXCEPT !.error = TRUE, !.state = "invalid"]
    ELSE [r EXCEPT !.state = "executable"]

EndCommandBuffer(c) ==
  /\ Live(cells[c])
  /\ cells' = [cells EXCEPT ![c] = Ended(@)]
  /\ UNCHANGED <<pools, heap, versions, packets, early, calls, submits>>

-----------------------------------------------------------------------------
(* Invalidation.                                                            *)

\* Mutant: an update spares the recordings that are not finished.
MutantInvalidated(r, s) ==
  IF ~Live(r) \/ s \notin r.refs THEN r
  ELSE [r EXCEPT !.state = IF @ = "executable" THEN "invalid" ELSE @]

\* What an update of the set does to a recording that refers to it.
Invalidated(r, s) ==
  IF ~Live(r) \/ s \notin r.refs THEN r
  ELSE [WithError(r) EXCEPT !.state = IF @ = "executable" THEN "invalid" ELSE @]

\* Descriptor updates invalidate in the call, before the worker sees them.
UpdateDescriptors(s) ==
  /\ versions[s] < MaxUpdates
  /\ versions' = [versions EXCEPT ![s] = @ + 1]
  /\ cells' = [c \in Cmds |-> Invalidated(cells[c], s)]
  /\ UNCHANGED <<pools, heap, packets, early, calls, submits>>

\* The device worker replaces the resource table: recordings made for the old
\* one lose their commands; submitted ones must be gone by then.
InvalidateResourceRecordings ==
  LET hit == {c \in Cmds : Live(cells[c]) /\ heap[cells[c].commands] # <<>>}
      free == Addresses \ Referenced(cells, packets) IN
  /\ packets = <<>>
  /\ hit # {}
  /\ LET to == CHOOSE f \in Injection(hit, free) : TRUE IN
       PutState([a \in Addresses |-> IF a \in {to[c] : c \in hit} THEN <<>> ELSE heap[a]],
             [c \in Cmds |-> IF c \in hit
                THEN [WithError(cells[c]) EXCEPT !.state = "invalid", !.refs = {}, !.commands = to[c]]
                ELSE cells[c]], packets)
  /\ UNCHANGED <<pools, versions, early, calls, submits>>

-----------------------------------------------------------------------------
(* Submission and the queue thread.                                         *)

Submittable(c) == Live(cells[c]) /\ cells[c].state = "executable" /\ ~cells[c].error
SnapshotOf(c) == [cmd |-> c, commands |-> cells[c].commands, begins |-> cells[c].begins]

\* decode clones the recordings of a packet; one that is not executable, or
\* that carries an error, refuses the whole submission.
QueueSubmit(cs) ==
  /\ submits < MaxSubmits
  /\ \A i \in DOMAIN cs : Submittable(cs[i])
  /\ submits' = submits + 1
  /\ packets' = Append(packets,
       [phase |-> "queued", recs |-> [i \in DOMAIN cs |-> SnapshotOf(cs[i])]])
  /\ UNCHANGED <<pools, cells, heap, versions, early, calls>>

\* The worker resolves and executes the snapshots and drops them; a failure
\* loses the device, and with it every packet behind.
ExecutePacket ==
  /\ packets # <<>>
  /\ packets[1].phase = "queued"
  /\ \/ PutState(heap, cells, [packets EXCEPT ![1].phase = "executed"])
     \/ PutState(heap, cells, <<>>)
  /\ UNCHANGED <<pools, versions, early, calls, submits>>

Originals == {packets[1].recs[j].cmd : j \in DOMAIN packets[1].recs}

(* Mutant: every one-time recording is spent, not only the submitted ones. *)
MutantInvalidateOriginals ==
  /\ packets # <<>>
  /\ packets[1].phase = "executed"
  /\ cells' = [c \in Cmds |->
       IF Live(cells[c]) /\ cells[c].oneTime THEN [cells[c] EXCEPT !.state = "invalid"] ELSE cells[c]]
  /\ packets' = [packets EXCEPT ![1].phase = "invalidated"]
  /\ UNCHANGED <<pools, heap, versions, early, calls, submits>>

\* One-time originals become invalid after their packet was executed.
InvalidateOriginals ==
  /\ packets # <<>>
  /\ packets[1].phase = "executed"
  /\ cells' = [c \in Cmds |->
       IF c \in Originals /\ Live(cells[c]) /\ cells[c].oneTime
         THEN [cells[c] EXCEPT !.state = "invalid"] ELSE cells[c]]
  /\ packets' = [packets EXCEPT ![1].phase = "invalidated"]
  /\ UNCHANGED <<pools, heap, versions, early, calls, submits>>

\* The receipts go to the completion thread: from here the fence may signal.
ObservePacket ==
  /\ packets # <<>>
  /\ packets[1].phase = "invalidated"
  /\ packets' = Tail(packets)
  /\ UNCHANGED <<pools, cells, heap, versions, early, calls, submits>>

-----------------------------------------------------------------------------
CommandsInit ==
  /\ pools = [p \in Pools |-> None]
  /\ cells = [c \in Cmds |-> None]
  /\ heap = [a \in Addresses |-> <<>>]
  /\ versions = [s \in Sets |-> 0]
  /\ packets = <<>>
  /\ early = {}
  /\ calls = 0
  /\ submits = 0

CmdState(c) ==
  \/ CmdBindPipeline(c) \/ CmdPushConstants(c) \/ CmdSetViewport(c) \/ CmdSetScissor(c)
  \/ CmdBindVertexBuffers(c) \/ CmdBindIndexBuffer(c) \/ CmdInertState(c) \/ CmdStencil(c)
  \/ CmdBindDescriptorSets(c) \/ CmdPushDescriptorSet(c)
CmdOutside(c) ==
  \/ CmdDispatch(c) \/ CmdPipelineBarrier(c) \/ CmdBarrier2(c) \/ CmdResetEvent(c)
  \/ CmdSetEvent(c) \/ CmdWaitEvents(c)
  \/ CmdClearColorImage(c) \/ CmdClearDepthImage(c) \/ CmdCopyImageToBuffer(c)
  \/ CmdCopyBuffer(c) \/ CmdCopyBufferToImage(c) \/ CmdCopyImage(c) \/ CmdBlitImage(c)
  \/ CmdUpdateBuffer(c) \/ CmdFillBuffer(c)
CmdPass(c) ==
  \/ CmdBeginRenderPass(c) \/ CmdNextSubpass(c) \/ CmdEndRenderPass(c)
  \/ CmdBeginRendering(c) \/ CmdEndRendering(c)
  \/ CmdDraw(c) \/ CmdDrawIndexed(c) \/ CmdDrawIndirectEntries(c) \/ CmdClearAttachments(c)
CmdQuery(c) == \E q \in QueryPools :
  \/ CmdResetQueryPool(c, q) \/ CmdWriteTimestamp(c, q) \/ CmdCopyQueryPoolResults(c, q)
  \/ CmdBeginQuery(c, q) \/ CmdEndQuery(c, q)

Manage ==
  \/ \E p \in Pools : CreateCommandPool(p) \/ DestroyCommandPool(p)
  \/ \E p \in Pools, c \in Cmds :
       AllocateCommandBuffers(p, c) \/ FreeCommandBuffers(p, c) \/ ResetCommandPool(p, c)
  \/ \E c \in Cmds : ResetCommandBuffer(c) \/ BeginCommandBuffer(c) \/ EndCommandBuffer(c)
Submit ==
  \/ \E c \in Cmds : QueueSubmit(<<c>>)
  \/ \E c, d \in Cmds : c # d /\ QueueSubmit(<<c, d>>)
QueueWorker == ExecutePacket \/ InvalidateOriginals \/ ObservePacket

CommandsNext ==
  \/ \E c \in Cmds : CmdState(c) \/ CmdOutside(c) \/ CmdPass(c) \/ CmdQuery(c)
  \/ Manage
  \/ \E s \in Sets : UpdateDescriptors(s)
  \/ InvalidateResourceRecordings
  \/ Submit
  \/ QueueWorker

CommandsSpec == CommandsInit /\ [][CommandsNext]_commandVars

-----------------------------------------------------------------------------
(* Properties.                                                              *)

\* The commands of a list walked by Vulkan's own rules: where the walk stands
\* ("out", "pass", "dynamic" or "bad") and which queries are open, with
\* where each was begun.
Step(w, cmd) ==
  LET inside == w.at \in {"pass", "dynamic"}
      closing == \E q \in DOMAIN w.open : w.open[q]
      bad == [w EXCEPT !.at = "bad"]
      to(ok, at) == IF ok THEN [w EXCEPT !.at = at] ELSE bad IN
  CASE w.at = "bad" -> w
    [] cmd.k = "begin pass" -> to(~inside, "pass")
    [] cmd.k = "begin rendering" -> to(~inside, "dynamic")
    [] cmd.k = "next subpass" -> to(w.at = "pass" /\ ~closing, "pass")
    [] cmd.k = "end pass" -> to(w.at = "pass" /\ ~closing, "out")
    [] cmd.k = "end rendering" -> to(w.at = "dynamic" /\ ~closing, "out")
    [] cmd.k = "draw" -> to(inside, w.at)
    [] cmd.k \in {"control", "transfer"} -> to(~inside, w.at)
    [] cmd.k \in {"reset query", "copy query"} ->
         to(~inside /\ cmd.v \notin DOMAIN w.open, w.at)
    [] cmd.k = "begin query" ->
         IF \E q \in DOMAIN w.open : KindOf[q] = KindOf[cmd.v] THEN bad
         ELSE [w EXCEPT !.open = [q \in DOMAIN @ \union {cmd.v} |->
                                    IF q = cmd.v THEN inside ELSE @[q]]]
    [] cmd.k = "end query" ->
         IF cmd.v \notin DOMAIN w.open \/ w.open[cmd.v] # inside THEN bad
         ELSE [w EXCEPT !.open = [q \in DOMAIN @ \ {cmd.v} |-> @[q]]]
    [] OTHER -> w
WalkStart == [at |-> "out", open |-> [q \in {} |-> FALSE]]
Walk(list) ==
  LET walk[n \in 0..Len(list)] == IF n = 0 THEN WalkStart ELSE Step(walk[n - 1], list[n])
  IN  walk[Len(list)]

\* A recording the queue would take is complete: passes and queries are
\* properly nested and closed (Recording::push checks each command against
\* flags, vkEndCommandBuffer the flags once; the worker relies on the list).
ExecutableIsClosed ==
  \A c \in Cmds : Live(cells[c]) /\ Submittable(c) =>
    Walk(heap[cells[c].commands]) = WalkStart

\* A recording the queue would take binds every descriptor set as it is now:
\* each update since the binding has invalidated the recording, whether it
\* came before or after vkEndCommandBuffer.
BindsCurrentSets ==
  \A c \in Cmds : Submittable(c) =>
    \A i \in DOMAIN heap[cells[c].commands] :
      LET cmd == heap[cells[c].commands][i] IN
      cmd.k = "bind" => cmd.v.version = versions[cmd.v.set]

\* A push of descriptors is never recorded by half: the materialization is
\* followed at once by the binding of its set.
PushesAreWhole ==
  \A c \in Cmds : Submittable(c) =>
    LET list == heap[cells[c].commands] IN
    \A i \in DOMAIN list : list[i].k = "push" =>
      i < Len(list) /\ list[i + 1].k = "bind pushed"

\* What was submitted is what runs: no reset, new recording, invalidation or
\* release changes the commands of a queued packet, which shares its lists
\* with the cells.
SnapshotsNeverChange ==
  [][\A i \in DOMAIN packets : packets[i].phase = "queued" =>
       \A j \in DOMAIN packets[i].recs :
         LET a == packets[i].recs[j].commands IN
         heap'[a] = heap[a] \/ a \notin Referenced(cells', packets')]_commandVars

\* The queue thread takes away only the recording that was submitted: an
\* application that waits for the fence before it records a one-time buffer
\* again keeps the new recording.
SpendsOnlyWhatRan ==
  [][\A c \in Cmds :
       (Live(cells[c]) /\ Live(cells'[c]) /\ cells[c].state \in {"recording", "executable"}
        /\ cells'[c].state = "invalid" /\ QueueWorker)
       => c \in early \/ \E j \in DOMAIN packets[1].recs :
            packets[1].recs[j].cmd = c /\ packets[1].recs[j].begins = cells[c].begins]_commandVars

\* The invariant of a recording the queue would take: closed, of the sets as
\* they are now, with whole pushes (Recording::push, vkEndCommandBuffer,
\* vkUpdateDescriptorSets).
RecordingsInvariant == ExecutableIsClosed /\ BindsCurrentSets /\ PushesAreWhole

=============================================================================
