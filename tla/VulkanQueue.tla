------------------------------ MODULE VulkanQueue ------------------------------
(***************************************************************************)
(* Submission, synchronization objects and retirement in the Vulkan driver *)
(* (crates/vulkan-sgfx/src/api.rs, api/queue.rs, api/timeline.rs).         *)
(*                                                                         *)
(* The application's calls put requests on a bounded FIFO.  The queue      *)
(* thread takes them one by one: it waits for semaphores, reserves the     *)
(* ones the packet signals, has the device worker execute the packet and   *)
(* passes its receipts to the completion thread, which waits for the GPU,  *)
(* publishes fences and semaphores and retires the packet.  Waiters sleep  *)
(* on the condition variable of `in_flight'; a store that makes one of     *)
(* them ready is always followed by a notification, as a separate step.    *)
(* Any failure loses the device for good.                                  *)
(***************************************************************************)
EXTENDS Integers, Sequences, FiniteSets

CONSTANTS
    Fences, Binaries, Timelines,
    Templates,    \* the requests the application chooses from (below)
    MaxPending,   \* 4096: admission of InFlight and capacity of the channel
    MaxValue,     \* bound: timeline values explored
    MaxPackets    \* bound: packets submitted

NoFence == "no fence"
NoSemaphore == "no semaphore"

(* A packet waits for binary semaphores and <<timeline, value>> pairs one  *)
(* after the other; it signals binary semaphores and sets timeline values. *)
TimelineValues == Timelines \X (0..MaxValue)
Packets == [waits : Seq(Binaries \cup TimelineValues), signals : SUBSET Binaries,
            values : SUBSET TimelineValues]

(* A request has a packet at least (enqueue adds an empty one), and its    *)
(* packets are numbered from `first' when it is admitted.  A presentation  *)
(* has one packet, which signals nothing.                                  *)
Requests ==
    {r \in [kind : {"submit", "present"}, packets : Seq(Packets),
            fence : Fences \cup {NoFence}, first : Nat] :
        /\ r.packets # << >>
        /\ r.kind = "present" =>
              /\ Len(r.packets) = 1 /\ r.fence = NoFence
              /\ r.packets[1].signals = {} /\ r.packets[1].values = {}}

ASSUME QueueAssumption ==
    /\ MaxPending \in Nat \ {0} /\ MaxValue \in Nat /\ MaxPackets \in Nat
    /\ Templates \subseteq Requests
    /\ NoFence \notin Fences

Stop == [kind |-> "stop", packets |-> << >>, fence |-> NoFence, first |-> 0]
NoPacket == [waits |-> << >>, signals |-> {}, values |-> {}]
NoItem == [packet |-> NoPacket, fence |-> NoFence, id |-> 0, last |-> 0]

VARIABLES
    lost,         \* Driver::lost
    pending,      \* Driver::pending.count
    inFlight,     \* Driver::in_flight.count
    fence,        \* fence states: 0 unsignaled, 1 signaled, 2 pending
    binary,       \* binary semaphore states, likewise
    value,        \* Timeline::value
    reserved,     \* Timeline::pending
    call,         \* queue::enqueue, the submission under way
    channel,      \* Driver::queue_sender
    queue,        \* the queue thread
    observed,     \* Driver::completion_sender
    completion,   \* the completion thread
    waiter,       \* a thread in vkWaitForFences
    notifying,    \* a notification is due from an API or worker thread
    device,       \* where vkDestroyDevice stands
    issued,       \* packets submitted (bound, and their identities)
    gpuDone,      \* packets whose receipts all completed (history)
    certified,    \* last packet of the request a fence stands for (history)
    lastOp,       \* last operation queued on a binary semaphore (history)
    failure       \* a receipt, an execution or the worker failed (history)

counts == <<pending, inFlight>>
objects == <<fence, binary, value, reserved>>
threads == <<call, channel, queue, observed, completion, waiter>>
histories == <<issued, gpuDone, certified, lastOp, failure>>
queueVars == <<lost, counts, objects, threads, notifying, device, histories>>

-----------------------------------------------------------------------------
(* InFlight::notify: whoever sleeps on the condition variable looks again. *)
QueueWoken(q) == IF q.stage = "asleep" THEN [q EXCEPT !.stage = "wait"] ELSE q
WaiterWoken == IF waiter.stage = "asleep"
               THEN [waiter EXCEPT !.stage = "check"] ELSE waiter

Notify ==
    /\ notifying
    /\ notifying' = FALSE
    /\ queue' = QueueWoken(queue)
    /\ waiter' = WaiterWoken
    /\ UNCHANGED <<lost, counts, objects, call, channel, observed, completion,
                   device, histories>>

PacketsOf(request) == {request.packets[i] : i \in 1..Len(request.packets)}
PacketsFrom(q) ==
    {q.request.packets[i] : i \in q.index..Len(q.request.packets)}

Waits(p, s) == \E i \in 1..Len(p.waits) : p.waits[i] = s

ValuesOf(packets) == UNION {p.values : p \in packets}
SignalsOf(packets) == UNION {p.signals : p \in packets}

(* Timeline::cancel.                                                       *)
Without(r, values) ==
    [t \in Timelines |-> {v \in r[t] : <<t, v>> \notin values}]

-----------------------------------------------------------------------------
(* The application's thread: queue::submit and queue::enqueue.             *)

(* Vulkan's rules for binary semaphores (valid usage): the operations      *)
(* queued on one are a signal and a wait in turn, and a packet uses it     *)
(* once.  Position 0 stands for what was queued before the packets.        *)
OpIn(p, s) == IF s \in p.signals THEN "signal" ELSE IF Waits(p, s) THEN "wait" ELSE "none"
OpAt(packets, i, s) == IF i = 0 THEN lastOp[s] ELSE OpIn(packets[i], s)

UsesOnce(p) ==
    \A k \in 1..Len(p.waits) :
        p.waits[k] \in Binaries =>
            /\ p.waits[k] \notin p.signals
            /\ \A l \in 1..Len(p.waits) : p.waits[l] = p.waits[k] => l = k

BinaryValid(packets) ==
    /\ \A i \in 1..Len(packets) : UsesOnce(packets[i])
    /\ \A s \in Binaries, i, j \in 0..Len(packets) :
          i < j /\ OpAt(packets, i, s) = OpAt(packets, j, s) /\ OpAt(packets, j, s) # "none" =>
              \E k \in i + 1..j - 1 : OpAt(packets, k, s) \notin {"none", OpAt(packets, j, s)}

BinaryLast(packets) ==
    [s \in Binaries |->
        LET last == CHOOSE i \in 0..Len(packets) :
                        /\ OpAt(packets, i, s) # "none"
                        /\ \A j \in i + 1..Len(packets) : OpAt(packets, j, s) = "none"
        IN  OpAt(packets, last, s)]

Submit(request) ==
    /\ call.stage = "none"
    /\ device = "open"
    /\ ~lost
    /\ issued + Len(request.packets) <= MaxPackets
    /\ BinaryValid(request.packets)
    /\ call' = [stage |-> "reserve", request |-> request]
    /\ UNCHANGED <<lost, counts, objects, channel, queue, observed, completion,
                   waiter, notifying, device, histories>>

RequestValues == ValuesOf(PacketsOf(call.request))

CallReturns == call' = [stage |-> "none", request |-> Stop]

(* Timeline::reserve of every value, packet by packet: above the counter   *)
(* and above every value already promised.  The fence is looked up before, *)
(* which a lost device refuses.                                            *)
CanReserve ==
    /\ \A x \in RequestValues :
        /\ x[2] > value[x[1]]
        /\ \A v \in reserved[x[1]] : x[2] > v
    /\ \A i, j \in 1..Len(call.request.packets) :
        \A x \in call.request.packets[i].values, y \in call.request.packets[j].values :
            i < j /\ x[1] = y[1] => x[2] < y[2]

ReserveValues ==
    /\ call.stage = "reserve"
    /\ IF CanReserve /\ (call.request.fence = NoFence \/ ~lost)
       THEN /\ reserved' = [t \in Timelines |-> reserved[t] \cup
                               {x[2] : x \in {y \in RequestValues : y[1] = t}}]
            /\ call' = [call EXCEPT !.stage = "fence"]
       ELSE CallReturns /\ UNCHANGED reserved
    /\ UNCHANGED <<lost, counts, fence, binary, value, channel, queue, observed,
                   completion, waiter, notifying, device, histories>>

ClaimFence ==
    /\ call.stage = "fence"
    /\ LET f == call.request.fence IN
       \/ /\ f # NoFence => fence[f] = 0
          /\ fence' = IF f = NoFence THEN fence ELSE [fence EXCEPT ![f] = 2]
          /\ call' = [call EXCEPT !.stage = "admit"]
          /\ UNCHANGED reserved
       \/ /\ f # NoFence /\ fence[f] # 0
          /\ reserved' = Without(reserved, RequestValues)
          /\ CallReturns
          /\ UNCHANGED fence
    /\ UNCHANGED <<lost, counts, binary, value, channel, queue, observed,
                   completion, waiter, notifying, device, histories>>

Unclaim ==
    fence' = IF call.request.fence = NoFence THEN fence
             ELSE [fence EXCEPT ![call.request.fence] = 0]

Admits(n) == pending + n <= MaxPending

(* InFlight::reserve_pending and the send, which finds room.               *)
Admit ==
    /\ call.stage = "admit"
    /\ LET n == Len(call.request.packets) IN
       \/ /\ Admits(n)
          /\ pending' = pending + n
          /\ channel' = Append(channel,
                                [call.request EXCEPT !.first = issued + 1])
          /\ issued' = issued + n
          /\ lastOp' = BinaryLast(call.request.packets)
          /\ UNCHANGED <<fence, reserved>>
       \/ /\ ~Admits(n)
          /\ reserved' = Without(reserved, RequestValues)
          /\ Unclaim
          /\ UNCHANGED <<pending, channel, issued, lastOp>>
    /\ CallReturns
    /\ UNCHANGED <<lost, inFlight, binary, value, queue, observed, completion,
                   waiter, notifying, device, gpuDone, certified, failure>>

-----------------------------------------------------------------------------
(* Other calls of the application.                                         *)

(* vkResetFences refuses a pending fence.                                  *)
ResetFence(f) ==
    /\ device = "open"
    /\ ~lost
    /\ call.stage = "none" \/ call.request.fence # f
    /\ fence[f] = 1
    /\ fence' = [fence EXCEPT ![f] = 0]
    /\ certified' = [certified EXCEPT ![f] = 0]
    /\ UNCHANGED <<lost, counts, binary, value, reserved, threads, notifying,
                   device, issued, gpuDone, lastOp, failure>>

(* Mutant: the host may overtake a promise.                                *)
MutantHostOvertakes(t, v) == v > value[t]

(* Timeline::signal: between the counter and the first promised value.     *)
HostMaySet(t, v) == v > value[t] /\ \A p \in reserved[t] : v < p

SignalTimeline(t, v) ==
    /\ device = "open"
    /\ ~lost
    /\ HostMaySet(t, v)
    /\ value' = [value EXCEPT ![t] = v]
    /\ notifying' = TRUE
    /\ UNCHANGED <<lost, counts, fence, binary, reserved, threads, device,
                   histories>>

(* The packets that are not retired yet.                                   *)
Unretired ==
    (UNION {PacketsOf(channel[i]) : i \in 1..Len(channel)})
    \cup (IF queue.stage = "recv" THEN {} ELSE PacketsFrom(queue))
    \cup {observed[i].packet : i \in 1..Len(observed)}
    \cup {completion.item.packet}

(* Vulkan's rules for an acquisition: no operation on the semaphore is     *)
(* outstanding.                                                            *)
AcquireValid(s) ==
    /\ lastOp[s] = "wait" /\ ~\E p \in Unretired : Waits(p, s)
    /\ call.stage # "none" => ~\E p \in PacketsOf(call.request) :
                                 s \in p.signals \/ Waits(p, s)

(* signal_acquire_sync: an acquired image signals its semaphore, its fence *)
(* or both at once.                                                        *)
AcquireSync(s, f) ==
    /\ device = "open"
    /\ ~lost
    /\ s \in Binaries => AcquireValid(s) /\ binary[s] = 0
    /\ f \in Fences => /\ call.stage = "none" \/ call.request.fence # f
                       /\ fence[f] = 0
    /\ s \in Binaries \/ f \in Fences
    /\ binary' = IF s \in Binaries THEN [binary EXCEPT ![s] = 1] ELSE binary
    /\ fence' = IF f \in Fences THEN [fence EXCEPT ![f] = 1] ELSE fence
    /\ lastOp' = IF s \in Binaries THEN [lastOp EXCEPT ![s] = "signal"]
                 ELSE lastOp
    /\ notifying' = TRUE
    /\ UNCHANGED <<lost, counts, value, reserved, threads, device, issued,
                   gpuDone, certified, failure>>

(* vkWaitForFences: all or any of the fences F.                            *)
WaitForFences(F, all) ==
    /\ waiter.stage = "none"
    /\ device = "open"
    /\ ~lost
    /\ waiter' = [stage |-> "check", fences |-> F, all |-> all]
    /\ UNCHANGED <<lost, counts, objects, call, channel, queue, observed,
                   completion, notifying, device, histories>>

FencesReady ==
    IF waiter.all THEN \A f \in waiter.fences : fence[f] = 1
    ELSE \E f \in waiter.fences : fence[f] = 1

WaiterReturns == waiter' = [waiter EXCEPT !.stage = "none"]

(* InFlight::wait_until: the predicate is read and the thread falls asleep *)
(* under the mutex a notification needs.                                   *)
CheckFences ==
    /\ waiter.stage = "check"
    /\ IF lost \/ FencesReady
       THEN WaiterReturns
       ELSE waiter' = [waiter EXCEPT !.stage = "asleep"]
    /\ UNCHANGED <<lost, counts, objects, call, channel, queue, observed,
                   completion, notifying, device, histories>>

WaitTimesOut ==
    /\ waiter.stage = "asleep"
    /\ WaiterReturns
    /\ UNCHANGED <<lost, counts, objects, call, channel, queue, observed,
                   completion, notifying, device, histories>>

(* The device worker loses the device in some other operation.             *)
WorkerLosesDevice ==
    /\ ~lost
    /\ device = "open"
    /\ lost' = TRUE
    /\ failure' = TRUE
    /\ notifying' = TRUE
    /\ UNCHANGED <<counts, objects, threads, device, issued, gpuDone, certified,
                   lastOp>>

-----------------------------------------------------------------------------
(* The queue thread: queue::start and queue::run.                          *)

QueueOnly == UNCHANGED <<call, channel, observed, completion, waiter, notifying,
                         device>>

Receive ==
    /\ queue.stage = "recv"
    /\ channel # << >>
    /\ channel' = Tail(channel)
    /\ LET r == Head(channel) IN
       queue' =
         IF r.kind = "stop" THEN [queue EXCEPT !.stage = "stopped"]
         ELSE [stage |-> IF r.kind = "present" /\ r.packets[1].waits = << >>
                         THEN "drain" ELSE "wait",
               request |-> r, index |-> 1, toWait |-> r.packets[1].waits]
    /\ UNCHANGED <<lost, counts, objects, call, observed, completion, waiter,
                   notifying, device, histories>>

Ready(w) == IF w \in Binaries THEN binary[w] = 1 ELSE value[w[1]] >= w[2]

Consume(w) ==
    binary' = IF w \in Binaries THEN [binary EXCEPT ![w] = 0] ELSE binary

(* Semaphore::wait: a binary semaphore is consumed.                        *)
WaitSemaphore ==
    /\ queue.stage = "wait"
    /\ queue.toWait # << >>
    /\ LET w == Head(queue.toWait) IN
       \/ /\ lost
          /\ queue' = [queue EXCEPT !.stage = "lose"]
          /\ UNCHANGED binary
       \/ /\ ~lost /\ Ready(w)
          /\ Consume(w)
          /\ queue' = [queue EXCEPT !.toWait = Tail(@)]
       \/ /\ ~lost /\ ~Ready(w)
          /\ queue' = [queue EXCEPT !.stage = "asleep"]
          /\ UNCHANGED binary
    /\ UNCHANGED <<lost, counts, fence, value, reserved, histories>>
    /\ QueueOnly

CurrentPacket == queue.request.packets[queue.index]

(* Reserve the binary semaphores the packet signals.                       *)
ReserveSignals ==
    /\ queue.stage = "wait"
    /\ queue.toWait = << >>
    /\ queue.request.kind = "submit"
    /\ IF \A s \in CurrentPacket.signals : binary[s] = 0
       THEN /\ binary' = [s \in Binaries |-> IF s \in CurrentPacket.signals
                                             THEN 2 ELSE binary[s]]
            /\ queue' = [queue EXCEPT !.stage = "call"]
       ELSE /\ queue' = [queue EXCEPT !.stage = "lose"]
            /\ UNCHANGED binary
    /\ UNCHANGED <<lost, counts, fence, value, reserved, histories>>
    /\ QueueOnly

Begin == inFlight' = inFlight + 1

(* The device worker executes the packet and counts it in flight.          *)
Execute ==
    /\ queue.stage = "call"
    /\ ~lost
    /\ Begin
    /\ queue' = [queue EXCEPT !.stage = "observe"]
    /\ UNCHANGED <<lost, pending, objects, histories>>
    /\ QueueOnly

(* It refuses once the device is lost, and may fail itself.                *)
ExecuteFails ==
    /\ queue.stage = "call"
    /\ failure' = (failure \/ ~lost)
    /\ queue' = [queue EXCEPT !.stage = "lose"]
    /\ UNCHANGED <<lost, counts, objects, issued, gpuDone, certified, lastOp>>
    /\ QueueOnly

(* Mutant: the fence goes with the first packet.                           *)
MutantLastPacket == queue.index = 1
LastPacket == queue.index = Len(queue.request.packets)

(* Hand the receipts to the completion thread, the fence with the last.    *)
Observe ==
    /\ queue.stage = "observe"
    /\ observed' = Append(observed,
          [packet |-> CurrentPacket,
           fence |-> IF LastPacket THEN queue.request.fence ELSE NoFence,
           id |-> queue.request.first + queue.index - 1,
           last |-> queue.request.first + Len(queue.request.packets) - 1])
    /\ queue' = IF queue.index = Len(queue.request.packets)
                THEN [queue EXCEPT !.stage = "recv"]
                ELSE [queue EXCEPT !.stage = "wait", !.index = @ + 1,
                        !.toWait = queue.request.packets[queue.index + 1].waits]
    /\ UNCHANGED <<lost, counts, objects, call, channel, completion, waiter,
                   notifying, device, histories>>

(* mark_lost stores the loss, then notifies.                               *)
LoseDevice ==
    /\ queue.stage = "lose"
    /\ lost' = TRUE
    /\ queue' = [queue EXCEPT !.stage = "fail"]
    /\ UNCHANGED <<counts, objects, histories>>
    /\ QueueOnly

RetiredByFailure == Cardinality(queue.index..Len(queue.request.packets))

(* The failed packet and the ones after it are cancelled and retired.      *)
FailPackets ==
    /\ queue.stage = "fail"
    /\ waiter' = WaiterWoken
    /\ reserved' = Without(reserved, ValuesOf(PacketsFrom(queue)))
    /\ fence' = IF queue.request.fence = NoFence THEN fence
                ELSE [fence EXCEPT ![queue.request.fence] = 0]
    /\ binary' = [s \in Binaries |->
                     IF s \in SignalsOf(PacketsFrom(queue)) /\ binary[s] = 2
                     THEN 0 ELSE binary[s]]
    /\ pending' = pending - RetiredByFailure
    /\ queue' = [queue EXCEPT !.stage = "recv"]
    /\ UNCHANGED <<lost, inFlight, value, call, channel, observed, completion,
                   notifying, device, histories>>

(* A presentation without semaphores waits for everything in flight.       *)
DrainForPresent ==
    /\ queue.stage = "drain"
    /\ inFlight = 0
    /\ queue' = [queue EXCEPT !.stage = "wait"]
    /\ UNCHANGED <<lost, counts, objects, histories>>
    /\ QueueOnly

(* execute_presentation; a failure other than a loss only marks the image. *)
Present ==
    /\ queue.stage = "wait"
    /\ queue.toWait = << >>
    /\ queue.request.kind = "present"
    /\ ~lost
    /\ pending' = pending - 1
    /\ queue' = [queue EXCEPT !.stage = "recv"]
    /\ gpuDone' = gpuDone \cup {queue.request.first}
    /\ UNCHANGED <<lost, inFlight, objects, issued, certified, lastOp, failure>>
    /\ QueueOnly

(* The device is lost, or the presentation loses it.                       *)
PresentFails ==
    /\ queue.stage = "wait"
    /\ queue.toWait = << >>
    /\ queue.request.kind = "present"
    /\ failure' = (failure \/ ~lost)
    /\ queue' = [queue EXCEPT !.stage = "lose"]
    /\ UNCHANGED <<lost, counts, objects, issued, gpuDone, certified, lastOp>>
    /\ QueueOnly

-----------------------------------------------------------------------------
(* The completion thread: finish_submissions.                              *)

CompletionOnly == UNCHANGED <<call, channel, queue, observed, waiter, notifying,
                              device>>

TakeReceipts ==
    /\ completion.stage = "recv"
    /\ observed # << >>
    /\ observed' = Tail(observed)
    /\ completion' = IF Head(observed) = NoItem
                     THEN [completion EXCEPT !.stage = "stopped"]
                     ELSE [stage |-> "drain", item |-> Head(observed)]
    /\ UNCHANGED <<lost, counts, objects, call, channel, queue, waiter,
                   notifying, device, histories>>

(* Every receipt is waited for; success is published only on a device that *)
(* is not lost.                                                            *)
ReceiptsComplete ==
    /\ completion.stage = "drain"
    /\ gpuDone' = gpuDone \cup {completion.item.id}
    /\ completion' = [completion EXCEPT !.stage =
                         IF lost THEN "cancel" ELSE "signal"]
    /\ UNCHANGED <<lost, counts, objects, issued, certified, lastOp, failure>>
    /\ CompletionOnly

ReceiptFails ==
    /\ completion.stage = "drain"
    /\ failure' = TRUE
    /\ completion' = [completion EXCEPT !.stage = "cancel"]
    /\ UNCHANGED <<lost, counts, objects, issued, gpuDone, certified, lastOp>>
    /\ CompletionOnly

ItemFence(state) ==
    IF completion.item.fence = NoFence THEN fence
    ELSE [fence EXCEPT ![completion.item.fence] = state]

ItemSignals(state) ==
    [s \in Binaries |-> IF s \in completion.item.packet.signals THEN state
                        ELSE binary[s]]

(* Timeline::complete of every value: the counter never goes back.         *)
Completed(t) ==
    LET reached == {value[t]} \cup
                   {x[2] : x \in {y \in completion.item.packet.values : y[1] = t}}
    IN  CHOOSE v \in reached : \A w \in reached : w <= v

PublishSignals ==
    /\ completion.stage = "signal"
    /\ value' = [t \in Timelines |-> Completed(t)]
    /\ reserved' = Without(reserved, completion.item.packet.values)
    /\ fence' = ItemFence(1)
    /\ certified' = IF completion.item.fence = NoFence THEN certified
                    ELSE [certified EXCEPT ![completion.item.fence] =
                             completion.item.last]
    /\ binary' = ItemSignals(1)
    /\ completion' = [completion EXCEPT !.stage = "finish"]
    /\ UNCHANGED <<lost, counts, issued, gpuDone, lastOp, failure>>
    /\ CompletionOnly

CancelSignals ==
    /\ completion.stage = "cancel"
    /\ lost' = TRUE
    /\ reserved' = Without(reserved, completion.item.packet.values)
    /\ fence' = ItemFence(0)
    /\ binary' = ItemSignals(0)
    /\ completion' = [completion EXCEPT !.stage = "finish"]
    /\ UNCHANGED <<counts, value, histories>>
    /\ CompletionOnly

(* Mutant: retiring a packet wakes nobody.                                 *)
MutantWakeUp == UNCHANGED <<queue, waiter>>
WakeUp == queue' = QueueWoken(queue) /\ waiter' = WaiterWoken

(* in_flight.finish, which notifies, then pending.finish.                  *)
FinishInFlight ==
    /\ completion.stage = "finish"
    /\ inFlight' = inFlight - 1
    /\ WakeUp
    /\ completion' = [completion EXCEPT !.stage = "retire"]
    /\ UNCHANGED <<lost, pending, objects, call, channel, observed, notifying,
                   device, histories>>

FinishPending ==
    /\ completion.stage = "retire"
    /\ pending' = pending - 1
    /\ completion' = [stage |-> "recv", item |-> NoItem]
    /\ UNCHANGED <<lost, inFlight, objects, histories>>
    /\ CompletionOnly

-----------------------------------------------------------------------------
(* vkDestroyDevice: drain, then stop the threads one after the other.      *)

Destroy ==
    /\ device = "open"
    /\ call.stage = "none"
    /\ device' = "draining"
    /\ UNCHANGED <<lost, counts, objects, threads, notifying, histories>>

StopQueue ==
    /\ device = "draining"
    /\ pending = 0
    /\ channel' = Append(channel, Stop)
    /\ device' = "stopping queue"
    /\ UNCHANGED <<lost, counts, objects, call, queue, observed, completion,
                   waiter, notifying, histories>>

StopCompletion ==
    /\ device = "stopping queue"
    /\ queue.stage = "stopped"
    /\ observed' = Append(observed, NoItem)
    /\ device' = "stopping completion"
    /\ UNCHANGED <<lost, counts, objects, call, channel, queue, completion,
                   waiter, notifying, histories>>

DestroyLosesDevice ==
    /\ device = "stopping completion"
    /\ completion.stage = "stopped"
    /\ lost' = TRUE
    /\ notifying' = TRUE
    /\ device' = "destroyed"
    /\ UNCHANGED <<counts, objects, threads, histories>>

-----------------------------------------------------------------------------
QueueInit ==
    /\ lost = FALSE /\ pending = 0 /\ inFlight = 0
    /\ fence = [f \in Fences |-> 0]
    /\ binary = [s \in Binaries |-> 0]
    /\ value = [t \in Timelines |-> 0]
    /\ reserved = [t \in Timelines |-> {}]
    /\ call = [stage |-> "none", request |-> Stop]
    /\ channel = << >>
    /\ queue = [stage |-> "recv", request |-> Stop, index |-> 1,
                toWait |-> << >>]
    /\ observed = << >>
    /\ completion = [stage |-> "recv", item |-> NoItem]
    /\ waiter = [stage |-> "none", fences |-> {}, all |-> FALSE]
    /\ notifying = FALSE
    /\ device = "open"
    /\ issued = 0 /\ gpuDone = {}
    /\ certified = [f \in Fences |-> 0]
    /\ lastOp = [s \in Binaries |-> "wait"]
    /\ failure = FALSE

CallStep == ReserveValues \/ ClaimFence \/ Admit

ApplicationStep ==
    \/ \E r \in Templates : Submit(r)
    \/ \E f \in Fences : ResetFence(f)
    \/ \E t \in Timelines, v \in 1..MaxValue : SignalTimeline(t, v)
    \/ \E s \in Binaries \cup {NoSemaphore}, f \in Fences \cup {NoFence} :
          AcquireSync(s, f)
    \/ \E F \in (SUBSET Fences) \ {{}}, all \in BOOLEAN : WaitForFences(F, all)
    \/ WaitTimesOut
    \/ Destroy

DestroyStep == StopQueue \/ StopCompletion \/ DestroyLosesDevice

QueueThread ==
    \/ Receive \/ WaitSemaphore \/ ReserveSignals \/ Execute \/ ExecuteFails
    \/ Observe \/ LoseDevice \/ FailPackets \/ DrainForPresent \/ Present
    \/ PresentFails

CompletionThread ==
    \/ TakeReceipts \/ ReceiptsComplete \/ ReceiptFails \/ PublishSignals
    \/ CancelSignals \/ FinishInFlight \/ FinishPending

QueueNext ==
    \/ CallStep \/ ApplicationStep \/ DestroyStep \/ CheckFences \/ Notify
    \/ WorkerLosesDevice \/ QueueThread \/ CompletionThread

QueueSpec == QueueInit /\ [][QueueNext]_queueVars

(* Threads run when they can, and the GPU settles what it accepted.        *)
QueueFairness ==
    /\ WF_queueVars(CallStep)
    /\ WF_queueVars(CheckFences)
    /\ WF_queueVars(Notify)
    /\ WF_queueVars(QueueThread)
    /\ WF_queueVars(CompletionThread)
    /\ WF_queueVars(DestroyStep)

FairQueueSpec == QueueSpec /\ QueueFairness

-----------------------------------------------------------------------------
(* Properties.                                                             *)

(* Packets of the queue thread that nobody else counts yet.                *)
Running == IF queue.stage \in {"recv", "stopped"} THEN 0
           ELSE Cardinality(queue.index..Len(queue.request.packets))

(* Packets of the requests in the channel.                                 *)
PacketsWaiting ==
    LET waiting[i \in 0..Len(channel)] ==
          IF i = 0 THEN 0 ELSE waiting[i - 1] + Len(channel[i].packets)
    IN  waiting[Len(channel)]

(* `pending' counts every packet between admission and retirement exactly  *)
(* once, whichever thread has it, so neither vkDeviceWaitIdle returns      *)
(* early nor admission leaks.                                              *)
PendingCountsPackets ==
    pending =
        PacketsWaiting + Running
        + Cardinality({i \in 1..Len(observed) : observed[i] # NoItem})
        + (IF completion.stage \in {"recv", "stopped"} THEN 0 ELSE 1)

(* Once nothing is pending, nothing is left undone: no fence and no        *)
(* semaphore is in the pending state and no timeline value is promised.    *)
(* This is what vkDeviceWaitIdle and vkDestroyDevice rely on.              *)
IdleMeansSettled ==
    pending = 0 /\ call.stage = "none" =>
        /\ \A f \in Fences : fence[f] # 2
        /\ \A s \in Binaries : binary[s] # 2
        /\ \A t \in Timelines : reserved[t] = {}
        /\ inFlight = 0

(* A fence signaled by a submission certifies every packet of it and every *)
(* packet submitted before: all their receipts completed, although queue,  *)
(* completion and device threads pass the packets on one at a time.        *)
FenceCertifiesPrefix ==
    \A f \in Fences : fence[f] = 1 => 1..certified[f] \subseteq gpuDone

(* A timeline's counter stays below every value promised to it, although   *)
(* the host and the completion thread both advance it.                     *)
PromisesAhead ==
    \A t \in Timelines : \A v \in reserved[t] : value[t] < v

(* With valid use of binary semaphores the device is lost only if a        *)
(* receipt, an execution or the worker failed: the driver's own states     *)
(* never make a reservation fail.                                          *)
LossHasACause == lost /\ device # "destroyed" => failure

(* No wakeup is lost: a thread asleep although it could go on has a        *)
(* notification on its way.                                                *)
NoLostWakeup ==
    LET onTheWay == \/ notifying
                    \/ completion.stage \in {"finish", "cancel"}
                    \/ queue.stage = "fail"
    IN  /\ waiter.stage = "asleep" /\ (lost \/ FencesReady) => onTheWay
        /\ queue.stage = "asleep" /\ (lost \/ Ready(Head(queue.toWait)))
              => onTheWay

(* The queue thread waits for a timeline value that nothing it passed on   *)
(* will set: it is the application's turn.                                 *)
HostOwes ==
    /\ queue.stage = "asleep"
    /\ LET w == Head(queue.toWait)
           sets(item) == \E x \in item.packet.values : x[1] = w[1] /\ x[2] >= w[2]
       IN  /\ w \notin Binaries
           /\ ~Ready(w)
           /\ \A i \in 1..Len(observed) : ~sets(observed[i])
           /\ ~sets(completion.item)

(* A pending fence is signaled or released, unless the application leaves  *)
(* the queue thread waiting for ever.                                      *)
FencesSettle ==
    []<>~HostOwes => \A f \in Fences : fence[f] = 2 ~> fence[f] # 2

(* vkDestroyDevice returns, under the same condition.                      *)
DestroyReturns ==
    []<>~HostOwes => (device = "draining" ~> device = "destroyed")

(* The invariant of the queue's shared state, which four threads update    *)
(* outside one lock (SharedDevice, queue::run, completion::run).           *)
QueueInvariant ==
    PendingCountsPackets /\ IdleMeansSettled /\ PromisesAhead /\ LossHasACause /\ NoLostWakeup

(* Fences settle and the destruction of the device returns.                *)
QueueProgress == FencesSettle /\ DestroyReturns

=============================================================================
