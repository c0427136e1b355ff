------------------------------ MODULE QueueProofs ------------------------------
(* Proofs about submission and retirement in the Vulkan driver, for any      *)
(* semaphores, fences, timelines, limits and requests the application        *)
(* chooses from, with failures at every execution, receipt and presentation. *)
EXTENDS VulkanQueue, NaturalSets, FiniteSetTheorems, TLAPS

-----------------------------------------------------------------------------
(* The inductive invariant.                                                *)

\* Packets that the queue thread has and has not passed on.
BusyStages == {"drain", "wait", "asleep", "call", "observe", "lose", "fail"}
Busy == queue.stage \in BusyStages
\* The queue thread has not passed the waits of its packet yet.
EntryStages == {"drain", "wait", "asleep"}
\* The completion thread has an item.
InHandStages == {"drain", "signal", "cancel", "finish", "retire"}
InHand == completion.stage \in InHandStages

Devices == {"open", "draining", "stopping queue", "stopping completion", "destroyed"}
Semaphores == Binaries \cup TimelineValues
Items == [packet : Packets, fence : Fences \cup {NoFence}, id : Nat \ {0}, last : Nat]

FlagsOK == lost \in BOOLEAN /\ notifying \in BOOLEAN /\ failure \in BOOLEAN

CountersOK ==
  /\ pending \in Int /\ inFlight \in Int /\ issued \in Nat
  /\ device \in Devices
  /\ gpuDone \subseteq Nat

ObjectsOK ==
  /\ fence \in [Fences -> 0..2]
  /\ binary \in [Binaries -> 0..2]
  /\ value \in [Timelines -> 0..MaxValue]
  /\ reserved \in [Timelines -> SUBSET Nat]
  /\ certified \in [Fences -> Nat]
  /\ lastOp \in [Binaries -> {"signal", "wait"}]

CallOK ==
  /\ call \in [stage : {"none", "reserve", "fence", "admit"}, request : Requests \cup {Stop}]
  /\ call.stage # "none" => call.request \in Requests

\* A request on its way has the number of its first packet.
Admitted == {r \in Requests : r.first >= 1}
ChannelOK == channel \in Seq(Admitted \cup {Stop})

QueueStages == BusyStages \cup {"recv", "stopped"}
ThreadOK ==
  /\ queue \in [stage : QueueStages, request : Admitted \cup {Stop},
                index : Nat, toWait : Seq(Semaphores)]
  /\ Busy => queue.request \in Admitted /\ queue.index \in 1..Len(queue.request.packets)
  /\ queue.stage \in {"call", "observe"} => queue.request.kind = "submit"
  /\ queue.stage = "drain" => queue.request.kind = "present"
  /\ queue.stage = "asleep" => queue.toWait # << >>

ObservedOK == observed \in Seq(Items \cup {NoItem})

CompletionStages == InHandStages \cup {"recv", "stopped"}
CompletionOK ==
  /\ completion \in [stage : CompletionStages, item : Items \cup {NoItem}]
  /\ InHand => completion.item \in Items
  /\ ~InHand => completion.item = NoItem

WaiterOK ==
  waiter \in [stage : {"none", "check", "asleep"}, fences : SUBSET Fences, all : BOOLEAN]

QueueTypeOK ==
  /\ FlagsOK /\ CountersOK /\ ObjectsOK /\ CallOK /\ ChannelOK /\ ThreadOK
  /\ ObservedOK /\ CompletionOK /\ WaiterOK

\* vkDestroyDevice stops one thread after the other.
Closing == device \in {"stopping completion", "destroyed"}
Shutdown ==
  /\ device # "open" => call.stage = "none"
  /\ \A i \in 1..Len(channel) :
       channel[i] = Stop => i = Len(channel) /\ device \notin {"open", "draining"}
  /\ queue.stage = "stopped" => device \notin {"open", "draining"}
  /\ \A i \in 1..Len(observed) : observed[i] = NoItem => i = Len(observed) /\ Closing
  /\ Closing => queue.stage = "stopped"
  /\ completion.stage = "stopped" => Closing
  /\ device = "destroyed" => completion.stage = "stopped"

\* Packets are numbered in the order of their admission, and passed on in it.
StartOf(i) == IF i \in 1..Len(channel) /\ channel[i] # Stop THEN channel[i].first ELSE issued + 1
QueueAt == IF Busy THEN queue.request.first + queue.index - 1 ELSE StartOf(1)

ChannelNumbered ==
  /\ \A i \in 1..Len(channel) :
       channel[i] # Stop => channel[i].first + Len(channel[i].packets) = StartOf(i + 1)
  /\ \A i, j \in 1..Len(channel) :
       i < j /\ channel[i] # Stop /\ channel[j] # Stop =>
         channel[i].first + Len(channel[i].packets) <= channel[j].first
  /\ \A i \in 1..Len(channel) :
       channel[i] # Stop => channel[i].first + Len(channel[i].packets) <= issued + 1

ThreadNumbered == Busy => queue.request.first + Len(queue.request.packets) = StartOf(1)

ObservedNumbered ==
  \A i, j \in 1..Len(observed) : i < j /\ observed[j] # NoItem => observed[i].id < observed[j].id

ItemNumbered ==
  InHand => \A i \in 1..Len(observed) : observed[i] # NoItem => completion.item.id < observed[i].id

PassedNumbered ==
  /\ \A i \in 1..Len(observed) : observed[i].id < QueueAt
  /\ InHand => completion.item.id < QueueAt

Numbering == ChannelNumbered /\ ThreadNumbered /\ ObservedNumbered /\ ItemNumbered /\ PassedNumbered

\* The fence of a request goes with its last packet.
FenceIsLast(item) == item.fence # NoFence => item.last = item.id
FencesAreLast ==
  /\ \A i \in 1..Len(observed) : FenceIsLast(observed[i])
  /\ FenceIsLast(completion.item)

\* Until the device is lost the packets before the queue thread's are done or
\* on their way to be.
Passed == {observed[i].id : i \in 1..Len(observed)}
          \cup (IF completion.stage = "drain" THEN {completion.item.id} ELSE {})
Healthy == ~lost /\ completion.stage # "cancel"
Prefix ==
  /\ \A f \in Fences : 1..certified[f] \subseteq gpuDone
  /\ completion.stage = "signal" => 1..completion.item.id \subseteq gpuDone
  /\ Healthy => \A y \in Passed : 1..y - 1 \subseteq gpuDone \cup Passed
  /\ Healthy /\ queue.stage \notin {"lose", "fail"} => 1..QueueAt - 1 \subseteq gpuDone \cup Passed
  /\ queue.stage = "fail" => lost

\* Packets in the counters.
ObservedCount == IF observed # << >> /\ observed[Len(observed)] = NoItem
                 THEN Len(observed) - 1 ELSE Len(observed)
One(b) == IF b THEN 1 ELSE 0
Counts ==
  /\ pending = issued + 1 - QueueAt + ObservedCount + One(InHand)
  /\ inFlight = One(queue.stage = "observe") + ObservedCount
                + One(completion.stage \in {"drain", "signal", "cancel", "finish"})

\* Packet i, which is p, still owes the signals it promised.
InChannel(i, p) ==
  \E c \in 1..Len(channel) : \E k \in 1..Len(channel[c].packets) :
     i = channel[c].first + k - 1 /\ p = channel[c].packets[k]
InQueue(i, p) ==
  Busy /\ \E k \in queue.index..Len(queue.request.packets) :
             i = queue.request.first + k - 1 /\ p = queue.request.packets[k]
InObserved(i, p) == \E o \in 1..Len(observed) : i = observed[o].id /\ p = observed[o].packet
Settling == completion.stage \in {"drain", "signal", "cancel"}
InCompletion(i, p) == Settling /\ i = completion.item.id /\ p = completion.item.packet
Held(i, p) == InChannel(i, p) \/ InQueue(i, p) \/ InObserved(i, p) \/ InCompletion(i, p)

CallPromises == call.stage \in {"fence", "admit"}
Promises ==
  /\ \A t \in Timelines : \A v \in reserved[t] :
       \/ \E i, p : Held(i, p) /\ <<t, v>> \in p.values
       \/ CallPromises /\ <<t, v>> \in RequestValues
  /\ \A i, p : Held(i, p) => \A x \in p.values : x[2] \in reserved[x[1]]
  /\ \A i, p, j, q : Held(i, p) /\ Held(j, q) /\ i < j =>
       \A x \in p.values, y \in q.values : x[1] = y[1] => x[2] < y[2]
  /\ CallPromises =>
       /\ \A x \in RequestValues : x[2] \in reserved[x[1]]
       /\ \A i, p : Held(i, p) => \A x \in p.values, y \in RequestValues : x[1] = y[1] => x[2] < y[2]
       /\ \A i, j \in 1..Len(call.request.packets) :
            \A x \in call.request.packets[i].values, y \in call.request.packets[j].values :
              i < j /\ x[1] = y[1] => x[2] < y[2]
  /\ PromisesAhead

\* Who will settle a pending fence or semaphore.
FenceOwned(f) ==
  \/ call.stage = "admit" /\ call.request.fence = f
  \/ \E c \in 1..Len(channel) : channel[c].fence = f
  \/ Busy /\ queue.request.fence = f
  \/ \E o \in 1..Len(observed) : observed[o].fence = f
  \/ Settling /\ completion.item.fence = f
Owners ==
  /\ \A f \in Fences : fence[f] = 2 => FenceOwned(f)
  /\ \A s \in Binaries : binary[s] = 2 => \E i, p : Held(i, p) /\ s \in p.signals

\* The operations on a binary semaphore that the queue thread has not come to,
\* and at 0 the one that it came to last.
NowDue(waits, p, s, o) ==
  \/ o = "signal" /\ s \in p.signals
  \/ o = "wait" /\ \E k \in 1..Len(waits) : waits[k] = s
InEntry == queue.stage \in EntryStages
DueFirst(s, o) == o = IF binary[s] = 0 THEN "wait" ELSE "signal"
DueInChannel(i, s, o) == \E p : InChannel(i, p) /\ o = OpIn(p, s)
DueInQueue(i, s, o) ==
  \E p : /\ InQueue(i, p)
          /\ IF i = QueueAt THEN InEntry /\ NowDue(queue.toWait, p, s, o) ELSE o = OpIn(p, s)
Due(i, s, o) == (i = 0 /\ DueFirst(s, o)) \/ DueInChannel(i, s, o) \/ DueInQueue(i, s, o)

\* They are a signal and a wait in turn, and the last one is lastOp.
Ops == {"signal", "wait"}
Alternates(s) ==
  \A o \in Ops :
    /\ \A i, j \in 0..issued :
         i < j /\ Due(i, s, o) /\ Due(j, s, o) =>
           \E k \in i + 1..j - 1 : \E u \in Ops \ {o} : Due(k, s, u)
    /\ \A i \in 0..issued :
         Due(i, s, o) /\ o # lastOp[s] => \E k \in i + 1..issued : Due(k, s, lastOp[s])
Alternation == \A s \in Binaries : Alternates(s)

\* Packets whose signals are reserved.
Served(i, p) ==
  \/ queue.stage \in {"call", "observe"} /\ i = QueueAt /\ p = CurrentPacket
  \/ InObserved(i, p)
  \/ completion.stage \in {"drain", "signal"} /\ i = completion.item.id /\ p = completion.item.packet
ServedPending ==
  /\ \A i, p : Served(i, p) => \A s \in p.signals : binary[s] = 2
  /\ \A i, p, j, q : Served(i, p) /\ Served(j, q) /\ p.signals \cap q.signals # {} => i = j

\* A packet uses a binary semaphore once, and the queue thread has some of its
\* waits left.
OnceIn(waits, p) ==
  \A k \in 1..Len(waits) :
    waits[k] \in Binaries =>
      waits[k] \notin p.signals /\ \A l \in 1..Len(waits) : waits[l] = waits[k] => l = k
UsedOnce ==
  /\ \A i, p : InChannel(i, p) \/ InQueue(i, p) => UsesOnce(p)
  /\ InEntry => /\ OnceIn(queue.toWait, CurrentPacket)
                /\ \A k \in 1..Len(queue.toWait) : Waits(CurrentPacket, queue.toWait[k])
  /\ call.stage # "none" => BinaryValid(call.request.packets)

Causes ==
  /\ LossHasACause
  /\ queue.stage \in {"lose", "fail"} => failure
  /\ completion.stage = "cancel" => failure
  /\ ~failure => Alternation /\ ServedPending

\* A notification is due that wakes whoever sleeps.
OnTheWay == notifying \/ completion.stage \in {"finish", "cancel"} \/ queue.stage = "fail"
Sleepers ==
  /\ waiter.stage = "asleep" /\ (lost \/ FencesReady) => OnTheWay
  /\ queue.stage = "asleep" /\ (lost \/ Ready(Head(queue.toWait))) => OnTheWay

-----------------------------------------------------------------------------
(* Records and requests.                                                   *)

\* The marker that stops the queue thread is no request.
LEMMA StopIsNone == Stop \notin Requests /\ Stop.packets = << >>
BY DEF Stop, Requests

\* The marker that stops the completion thread is no item.
LEMMA NoItemIsNone == NoItem \notin Items /\ NoItem.id = 0 /\ NoItem.packet = NoPacket
BY DEF NoItem, Items

\* What joins the end of a sequence.
LEMMA AppendIs ==
  ASSUME NEW S, NEW s \in Seq(S), NEW e \in S
  PROVE  /\ Len(s) \in Nat /\ Len(Append(s, e)) = Len(s) + 1
         /\ Append(s, e)[Len(s) + 1] = e
         /\ \A i \in 1..Len(s) : Append(s, e)[i] = s[i]
OBVIOUS

\* What a request holds; a present has one packet that signals nothing.
LEMMA RequestFields ==
  ASSUME NEW r \in Requests
  PROVE  /\ r.kind \in {"submit", "present"} /\ r.first \in Nat
         /\ r.fence \in Fences \cup {NoFence}
         /\ r.packets \in Seq(Packets) /\ Len(r.packets) \in Nat \ {0}
         /\ \A k \in 1..Len(r.packets) : r.packets[k] \in Packets
         /\ r.kind = "present" =>
              /\ Len(r.packets) = 1 /\ r.fence = NoFence
              /\ r.packets[1].signals = {} /\ r.packets[1].values = {}
BY DEF Requests

\* An admitted request has a number.
LEMMA AdmittedFields ==
  ASSUME NEW r \in Admitted
  PROVE  r \in Requests /\ r.first \in Nat \ {0} /\ Stop \notin Admitted
BY RequestFields, StopIsNone DEF Admitted

\* What a packet holds.
LEMMA PacketFields ==
  ASSUME NEW p \in Packets
  PROVE  /\ p.waits \in Seq(Semaphores) /\ p.signals \subseteq Binaries
         /\ p.values \subseteq TimelineValues
BY DEF Packets, Semaphores

\* What an item for the completion thread holds.
LEMMA ItemFields ==
  ASSUME NEW i \in Items
  PROVE  /\ i.packet \in Packets /\ i.fence \in Fences \cup {NoFence}
         /\ i.id \in Nat \ {0} /\ i.last \in Nat
BY DEF Items

\* A promised value is a pair of a timeline and a value.
LEMMA ValuePairs ==
  ASSUME NEW x \in TimelineValues
  PROVE  x[1] \in Timelines /\ x[2] \in 0..MaxValue /\ x = <<x[1], x[2]>>
BY DEF TimelineValues

\* A step of a thread that only changes its stage.
LEMMA QueueGoes ==
  ASSUME ThreadOK, NEW st \in QueueStages, queue' = [queue EXCEPT !.stage = st]
  PROVE  /\ queue'.stage = st /\ queue'.request = queue.request
         /\ queue'.index = queue.index /\ queue'.toWait = queue.toWait
         /\ queue' \in [stage : QueueStages, request : Admitted \cup {Stop},
                        index : Nat, toWait : Seq(Semaphores)]
BY DEF ThreadOK

\* A step of the completion thread that changes its stage only.
LEMMA CompletionGoes ==
  ASSUME CompletionOK, NEW st \in CompletionStages, completion' = [completion EXCEPT !.stage = st]
  PROVE  /\ completion'.stage = st /\ completion'.item = completion.item
         /\ completion' \in [stage : CompletionStages, item : Items \cup {NoItem}]
BY DEF CompletionOK

\* A notification only moves threads that sleep.
LEMMA QueueWakes ==
  ASSUME ThreadOK, queue' = QueueWoken(queue) \/ queue' = queue
  PROVE  /\ queue'.request = queue.request /\ queue'.index = queue.index
         /\ queue'.toWait = queue.toWait
         /\ queue'.stage = queue.stage \/ (queue.stage = "asleep" /\ queue'.stage = "wait")
         /\ queue' = QueueWoken(queue) => queue'.stage # "asleep"
         /\ ThreadOK'
<1>1. CASE queue' = queue
  BY <1>1 DEF ThreadOK, Busy, QueueWoken
<1>0. queue.stage \in QueueStages
  BY DEF ThreadOK
<1>2. CASE queue' = QueueWoken(queue) /\ queue.stage = "asleep"
  <2>1. "wait" \in QueueStages
    BY DEF QueueStages, BusyStages
  <2>2. queue' = [queue EXCEPT !.stage = "wait"]
    BY <1>2 DEF QueueWoken
  <2>3. /\ queue'.stage = "wait" /\ queue'.request = queue.request
        /\ queue'.index = queue.index /\ queue'.toWait = queue.toWait
        /\ queue' \in [stage : QueueStages, request : Admitted \cup {Stop},
                       index : Nat, toWait : Seq(Semaphores)]
    BY <2>1, <2>2, QueueGoes
  <2>4. QED
    BY <1>2, <2>3 DEF ThreadOK, Busy, BusyStages
<1>3. CASE queue' = QueueWoken(queue) /\ queue.stage # "asleep"
  BY <1>3 DEF ThreadOK, Busy, QueueWoken
<1>4. QED
  BY <1>1, <1>2, <1>3

\* Waking a waiter leaves what it waits for alone.
LEMMA WaiterWakes ==
  ASSUME WaiterOK, waiter' = WaiterWoken \/ waiter' = waiter
  PROVE  WaiterOK' /\ (waiter' = WaiterWoken => waiter'.stage # "asleep")
                   /\ waiter'.fences = waiter.fences /\ waiter'.all = waiter.all
BY DEF WaiterOK, WaiterWoken

-----------------------------------------------------------------------------
(* Types.                                                                  *)

\* The initial state has its types.
LEMMA QueueInitTyped == QueueInit => QueueTypeOK
<1> SUFFICES ASSUME QueueInit PROVE QueueTypeOK
  OBVIOUS
<1>0. MaxValue \in Nat
  BY QueueAssumption
<1>1. FlagsOK
  BY DEF QueueInit, FlagsOK
<1>7. CountersOK
  BY DEF QueueInit, CountersOK, Devices
<1>2. ObjectsOK /\ WaiterOK
  BY <1>0 DEF QueueInit, ObjectsOK, WaiterOK
<1>3. CallOK /\ ChannelOK /\ ObservedOK
  BY DEF QueueInit, CallOK, ChannelOK, ObservedOK
<1>4. ThreadOK
  BY DEF QueueInit, ThreadOK, QueueStages, Busy, BusyStages
<1>5. CompletionOK
  BY DEF QueueInit, CompletionOK, CompletionStages, InHand, InHandStages
<1>6. QED
  BY <1>1, <1>2, <1>3, <1>4, <1>5, <1>7 DEF QueueTypeOK

\* Every step keeps the types of the flags.
LEMMA FlagsStep == FlagsOK /\ [QueueNext]_queueVars => FlagsOK'
<1> SUFFICES ASSUME FlagsOK, [QueueNext]_queueVars PROVE FlagsOK'
  OBVIOUS
<1> USE DEF FlagsOK, queueVars, histories, QueueOnly, CompletionOnly
<1>1. CASE CallStep
  BY <1>1 DEF CallStep, ReserveValues, ClaimFence, Admit
<1>2. CASE ApplicationStep
  BY <1>2 DEF ApplicationStep, Submit, ResetFence, SignalTimeline, AcquireSync, WaitForFences,
              WaitTimesOut, Destroy
<1>3. CASE DestroyStep
  BY <1>3 DEF DestroyStep, StopQueue, StopCompletion, DestroyLosesDevice
<1>4. CASE CheckFences \/ Notify \/ WorkerLosesDevice
  BY <1>4 DEF CheckFences, Notify, WorkerLosesDevice
<1>5. CASE QueueThread
  BY <1>5 DEF QueueThread, Receive, WaitSemaphore, ReserveSignals, Execute,
     ExecuteFails, Observe, LoseDevice, FailPackets, DrainForPresent, Present, PresentFails
<1>6. CASE CompletionThread
  BY <1>6 DEF CompletionThread, TakeReceipts, ReceiptsComplete, ReceiptFails, PublishSignals,
     CancelSignals, FinishInFlight, FinishPending
<1>7. CASE UNCHANGED queueVars
  BY <1>7
<1>8. QED
  BY <1>1, <1>2, <1>3, <1>4, <1>5, <1>6, <1>7 DEF QueueNext

\* Every step keeps the types of the counters.
LEMMA CountersStep == QueueTypeOK /\ [QueueNext]_queueVars /\ ThreadOK' => CountersOK'
<1> SUFFICES ASSUME QueueTypeOK, [QueueNext]_queueVars PROVE CountersOK'
  OBVIOUS
<1>0. CountersOK /\ CallOK /\ ThreadOK /\ CompletionOK
  BY DEF QueueTypeOK
<1> USE DEF CountersOK, queueVars, counts, histories, QueueOnly, CompletionOnly
<1>1. CASE CallStep
  <2>1. CASE Admit
    <3>1. call.request \in Requests
      BY <1>0, <2>1 DEF Admit, CallOK
    <3>2. Len(call.request.packets) \in Nat
      BY <1>0, <3>1, RequestFields
    <3>3. QED
      BY <1>0, <2>1, <3>2 DEF Admit
  <2>2. QED
    BY <1>0, <1>1, <2>1 DEF CallStep, ReserveValues, ClaimFence
<1>2. CASE ApplicationStep
  BY <1>0, <1>2 DEF ApplicationStep, Submit, ResetFence, SignalTimeline, AcquireSync, WaitForFences,
              WaitTimesOut, Destroy, Devices
<1>3. CASE DestroyStep
  BY <1>0, <1>3 DEF DestroyStep, StopQueue, StopCompletion, DestroyLosesDevice, Devices
<1>4. CASE CheckFences \/ Notify \/ WorkerLosesDevice
  BY <1>0, <1>4 DEF CheckFences, Notify, WorkerLosesDevice
<1>5. CASE QueueThread
  <2>1. CASE FailPackets
    <3>1. queue.index \in Nat /\ Len(queue.request.packets) \in Nat
      BY <1>0, <2>1, AdmittedFields, RequestFields DEF FailPackets, ThreadOK, Busy, BusyStages
    <3>0. 1 \in Int /\ queue.index \in Int /\ Len(queue.request.packets) \in Int
      BY <3>1
    <3>2. IsFiniteSet(queue.index..Len(queue.request.packets))
      BY <3>1, FS_Interval, <3>0
    <3>3. RetiredByFailure \in Nat
      BY <1>0, <3>2, FS_CardinalityType DEF RetiredByFailure
    <3>4. QED
      BY <1>0, <2>1, <3>3 DEF FailPackets
  <2>2. CASE Present
    <3>1. queue.request \in Requests
      BY <1>0, <2>2, AdmittedFields DEF Present, ThreadOK, Busy, BusyStages
    <3>2. queue.request.first \in Nat
      BY <1>0, <3>1, RequestFields
    <3>3. QED
      BY <1>0, <2>2, <3>2 DEF Present
  <2>3. QED
    BY <1>0, <1>5, <2>1, <2>2 DEF QueueThread, Receive, WaitSemaphore, ReserveSignals, Execute, Begin,
       ExecuteFails, Observe, LoseDevice, DrainForPresent, PresentFails
<1>6. CASE CompletionThread
  <2>1. CASE ReceiptsComplete
    <3>1. completion.item \in Items
      BY <1>0, <2>1 DEF ReceiptsComplete, CompletionOK, InHand, InHandStages
    <3>2. completion.item.id \in Nat
      BY <1>0, <3>1, ItemFields
    <3>3. QED
      BY <1>0, <2>1, <3>2 DEF ReceiptsComplete
  <2>2. QED
    BY <1>0, <1>6, <2>1 DEF CompletionThread, TakeReceipts, ReceiptFails, PublishSignals, CancelSignals,
       FinishInFlight, FinishPending
<1>7. CASE UNCHANGED queueVars
  BY <1>0, <1>7
<1>8. QED
  BY <1>1, <1>2, <1>3, <1>4, <1>5, <1>6, <1>7 DEF QueueNext

\* A packet signals a semaphore, waits for it or does neither.
LEMMA OpInOps ==
  ASSUME NEW p, NEW s
  PROVE  OpIn(p, s) \in Ops \cup {"none"}
BY DEF OpIn, Ops

\* The last operation of a request on a semaphore is that of the last packet that uses it.
LEMMA LastIs ==
  ASSUME NEW packets, Len(packets) \in Nat, NEW s \in Binaries, lastOp[s] \in Ops
  PROVE  \E l \in 0..Len(packets) :
           /\ BinaryLast(packets)[s] = OpAt(packets, l, s)
           /\ OpAt(packets, l, s) \in Ops
           /\ \A j \in l + 1..Len(packets) : OpAt(packets, j, s) = "none"
<1> DEFINE n == Len(packets)
           Used == {i \in 0..n : OpAt(packets, i, s) # "none"}
           Last(i) == /\ OpAt(packets, i, s) # "none"
                      /\ \A j \in i + 1..n : OpAt(packets, j, s) = "none"
<1>1. n \in Nat /\ Used \in SUBSET Nat /\ \A x \in Used : x <= n
  OBVIOUS
<1>2. 0 \in Used
  BY DEF OpAt, Ops
<1>3. PICK m \in Used : \A x \in Used : x <= m
  <2> HIDE DEF Used, n
  <2>1. Used # {}
    BY <1>2
  <2>2. QED
    BY <1>1, <2>1, GreatestNatural
<1>4. m \in 0..n /\ m \in Nat /\ OpAt(packets, m, s) # "none"
  OBVIOUS
<1>5. \A j \in m + 1..n : OpAt(packets, j, s) = "none"
  <2> SUFFICES ASSUME NEW j \in m + 1..n, OpAt(packets, j, s) # "none" PROVE FALSE
    OBVIOUS
  <2>1. j \in 0..n /\ j > m
    BY <1>1, <1>4
  <2>2. j \in Used
    BY <2>1
  <2>3. j <= m
    BY <1>3, <2>2
  <2>4. QED
    BY <1>4, <2>1, <2>3
<1> DEFINE l == CHOOSE i \in 0..n : Last(i)
<1>6. Last(m)
  BY <1>4, <1>5
<1>7. l \in 0..n /\ Last(l)
  <2> HIDE DEF Last, n
  <2>1. QED
    BY <1>4, <1>6
<1>8. BinaryLast(packets)[s] = OpAt(packets, l, s)
  BY DEF BinaryLast
<1>9. OpAt(packets, l, s) \in Ops
  <2> HIDE DEF l
  <2>1. OpAt(packets, l, s) # "none"
    BY <1>7
  <2>2. QED
    BY <2>1, OpInOps DEF OpAt
<1> HIDE DEF l
<1>10. QED
  BY <1>7, <1>8, <1>9

\* A timeline moves to the greatest value of the packet, and never back.
LEMMA CompletedIs ==
  ASSUME NEW t, value[t] \in 0..MaxValue, completion.item.packet.values \subseteq TimelineValues
  PROVE  /\ Completed(t) \in 0..MaxValue
         /\ value[t] <= Completed(t)
         /\ \A x \in completion.item.packet.values : x[1] = t => x[2] <= Completed(t)
         /\ \/ Completed(t) = value[t]
            \/ \E x \in completion.item.packet.values : x[1] = t /\ Completed(t) = x[2]
<1> DEFINE S == {x[2] : x \in {y \in completion.item.packet.values : y[1] = t}}
           R == {value[t]} \cup S
<1>0. MaxValue \in Nat
  BY QueueAssumption
<1>1. \A x \in completion.item.packet.values : x[2] \in 0..MaxValue
  BY ValuePairs
<1>2. \A v \in S : v \in 0..MaxValue
  BY <1>1
<1>3. R \in SUBSET Nat /\ R # {} /\ (\A v \in R : v <= MaxValue) /\ (\A v \in R : v \in 0..MaxValue)
  <2> HIDE DEF S
  <2>1. QED
    BY <1>0, <1>2
<1>4. \E m \in R : \A w \in R : w <= m
  <2> HIDE DEF R
  <2>1. QED
    BY <1>0, <1>3, GreatestNatural
<1>5. Completed(t) = CHOOSE v \in R : \A w \in R : w <= v
  BY DEF Completed
<1>6. Completed(t) \in R /\ \A w \in R : w <= Completed(t)
  <2> HIDE DEF R
  <2>1. QED
    BY <1>4, <1>5
<1>7. value[t] \in R /\ \A x \in completion.item.packet.values : x[1] = t => x[2] \in R
  OBVIOUS
<1>8. Completed(t) = value[t] \/ Completed(t) \in S
  BY <1>6
<1>9. Completed(t) \in S => \E x \in completion.item.packet.values : x[1] = t /\ Completed(t) = x[2]
  OBVIOUS
<1>10. QED
  <2> HIDE DEF R, S
  <2>1. QED
    BY <1>3, <1>6, <1>7, <1>8, <1>9

\* What a thread has in hand.
LEMMA ItemTyped ==
  ASSUME CompletionOK, InHand
  PROVE  /\ completion.item \in Items /\ completion.item.packet \in Packets
         /\ completion.item.fence \in Fences \cup {NoFence}
         /\ completion.item.id \in Nat \ {0} /\ completion.item.last \in Nat
         /\ completion.item.packet.signals \subseteq Binaries
         /\ completion.item.packet.values \subseteq TimelineValues
<1>1. completion.item \in Items
  BY DEF CompletionOK
<1>2. completion.item.packet \in Packets
  BY <1>1, ItemFields
<1>3. QED
  BY <1>1, <1>2, ItemFields, PacketFields

\* What the queue thread holds while it is at work.
LEMMA RequestTyped ==
  ASSUME ThreadOK, Busy
  PROVE  /\ queue.request \in Requests /\ queue.request \in Admitted /\ queue.index \in 1..Len(queue.request.packets)
         /\ queue.request.kind \in {"submit", "present"}
         /\ queue.request.packets \in Seq(Packets) /\ Len(queue.request.packets) \in Nat \ {0}
         /\ queue.request.fence \in Fences \cup {NoFence} /\ queue.request.first \in Nat \ {0}
         /\ CurrentPacket \in Packets /\ CurrentPacket.waits \in Seq(Semaphores)
         /\ CurrentPacket.signals \subseteq Binaries /\ CurrentPacket.values \subseteq TimelineValues
<1>1. /\ queue.request \in Requests /\ queue.request \in Admitted
      /\ queue.index \in 1..Len(queue.request.packets)
  BY AdmittedFields DEF ThreadOK
<1>2. CurrentPacket \in Packets
  BY <1>1, RequestFields DEF CurrentPacket
<1>3. QED
  BY <1>1, <1>2, AdmittedFields, RequestFields, PacketFields

\* What the calling thread is about to admit.
LEMMA CallTyped ==
  ASSUME CallOK, call.stage # "none"
  PROVE  /\ call.request \in Requests
         /\ call.request.packets \in Seq(Packets) /\ Len(call.request.packets) \in Nat \ {0}
         /\ call.request.fence \in Fences \cup {NoFence}
         /\ \A k \in 1..Len(call.request.packets) : call.request.packets[k] \in Packets
         /\ RequestValues \subseteq TimelineValues
<1>1. call.request \in Requests
  BY DEF CallOK
<1>2. /\ call.request.packets \in Seq(Packets) /\ Len(call.request.packets) \in Nat \ {0}
      /\ call.request.fence \in Fences \cup {NoFence}
      /\ \A k \in 1..Len(call.request.packets) : call.request.packets[k] \in Packets
  BY <1>1, RequestFields
<1>3. \A k \in 1..Len(call.request.packets) : call.request.packets[k].values \subseteq TimelineValues
  BY <1>2, PacketFields
<1>4. RequestValues \subseteq TimelineValues
  BY <1>3 DEF RequestValues, ValuesOf, PacketsOf
<1>5. QED
  BY <1>1, <1>2, <1>4

\* The values that a request promises are those of its packets.
LEMMA RequestValuesOf ==
  \A x : x \in RequestValues <=>
           \E k \in 1..Len(call.request.packets) : x \in call.request.packets[k].values
BY DEF RequestValues, ValuesOf, PacketsOf

\* Every step keeps the types of fences, semaphores and timelines.
LEMMA ObjectsStep == QueueTypeOK /\ [QueueNext]_queueVars => ObjectsOK'
<1> SUFFICES ASSUME QueueTypeOK, [QueueNext]_queueVars PROVE ObjectsOK'
  OBVIOUS
<1>0. ObjectsOK /\ CallOK /\ ThreadOK /\ CompletionOK /\ CountersOK
  BY DEF QueueTypeOK
<1>m. MaxValue \in Nat
  BY QueueAssumption
<1> USE DEF objects, histories, QueueOnly, CompletionOnly
<1>1. CASE CallStep
  <2>1. CASE ReserveValues
    <3>1. RequestValues \subseteq TimelineValues
      BY <1>0, <2>1, CallTyped DEF ReserveValues
    <3>2. \A x \in RequestValues : x[2] \in Nat
      BY <1>m, <3>1, ValuePairs
    <3>3. reserved' \in [Timelines -> SUBSET Nat]
      BY <1>0, <2>1, <3>2 DEF ReserveValues, ObjectsOK
    <3>4. QED
      BY <1>0, <2>1, <3>3 DEF ReserveValues, ObjectsOK
  <2>2. CASE ClaimFence
    <3>1. call.request.fence \in Fences \cup {NoFence}
      BY <1>0, <2>2, CallTyped DEF ClaimFence
    <3>2. fence' \in [Fences -> 0..2]
      BY <1>0, <2>2, <3>1 DEF ClaimFence, ObjectsOK
    <3>3. reserved' \in [Timelines -> SUBSET Nat]
      BY <1>0, <2>2 DEF ClaimFence, ObjectsOK, Without
    <3>4. QED
      BY <1>0, <2>2, <3>2, <3>3 DEF ClaimFence, ObjectsOK
  <2>3. CASE Admit
    <3>1. /\ call.request.fence \in Fences \cup {NoFence}
          /\ Len(call.request.packets) \in Nat
      BY <1>0, <2>3, CallTyped DEF Admit
    <3>2. fence' \in [Fences -> 0..2]
      <4>1. fence' = fence \/ Unclaim
        BY <2>3 DEF Admit
      <4>2. fence \in [Fences -> 0..2]
        BY <1>0 DEF ObjectsOK
      <4>3. QED
        BY <3>1, <4>1, <4>2 DEF Unclaim
    <3>3. reserved' \in [Timelines -> SUBSET Nat]
      BY <1>0, <2>3 DEF Admit, ObjectsOK, Without
    <3>4. lastOp' \in [Binaries -> {"signal", "wait"}]
      <4>1. \A s \in Binaries : lastOp[s] \in Ops
        BY <1>0 DEF ObjectsOK, Ops
      <4>2. \A s \in Binaries : BinaryLast(call.request.packets)[s] \in Ops
        BY <3>1, <4>1, LastIs
      <4>3. BinaryLast(call.request.packets) \in [Binaries -> {"signal", "wait"}]
        <5>1. BinaryLast(call.request.packets) = [s \in Binaries |-> BinaryLast(call.request.packets)[s]]
          BY DEF BinaryLast
        <5>2. QED
          BY <4>2, <5>1 DEF Ops
      <4>4. QED
        BY <1>0, <2>3, <4>3 DEF Admit, ObjectsOK
    <3>5. QED
      BY <1>0, <2>3, <3>2, <3>3, <3>4 DEF Admit, ObjectsOK
  <2>4. QED
    BY <1>1, <2>1, <2>2, <2>3 DEF CallStep
<1>2. CASE ApplicationStep
  <2>1. ASSUME NEW f \in Fences, ResetFence(f) PROVE ObjectsOK'
    BY <1>0, <2>1 DEF ResetFence, ObjectsOK
  <2>2. ASSUME NEW t \in Timelines, NEW v \in 1..MaxValue, SignalTimeline(t, v) PROVE ObjectsOK'
    BY <1>0, <2>2, <1>m DEF SignalTimeline, ObjectsOK
  <2>3. ASSUME NEW s \in Binaries \cup {NoSemaphore}, NEW f \in Fences \cup {NoFence}, AcquireSync(s, f)
        PROVE  ObjectsOK'
    BY <1>0, <2>3 DEF AcquireSync, ObjectsOK
  <2>4. QED
    BY <1>0, <1>2, <2>1, <2>2, <2>3 DEF ApplicationStep, Submit, WaitForFences, WaitTimesOut, Destroy,
       ObjectsOK
<1>3. CASE DestroyStep
  BY <1>0, <1>3 DEF DestroyStep, StopQueue, StopCompletion, DestroyLosesDevice, ObjectsOK
<1>4. CASE CheckFences \/ Notify \/ WorkerLosesDevice
  BY <1>0, <1>4 DEF CheckFences, Notify, WorkerLosesDevice, ObjectsOK
<1>5. CASE QueueThread
  <2>1. CASE WaitSemaphore
    <3>1. binary' \in [Binaries -> 0..2]
      BY <1>0, <2>1 DEF WaitSemaphore, Consume, ObjectsOK
    <3>2. QED
      BY <1>0, <2>1, <3>1 DEF WaitSemaphore, ObjectsOK
  <2>2. CASE ReserveSignals
    <3>1. binary' \in [Binaries -> 0..2]
      BY <1>0, <2>2 DEF ReserveSignals, ObjectsOK
    <3>2. QED
      BY <1>0, <2>2, <3>1 DEF ReserveSignals, ObjectsOK
  <2>3. CASE FailPackets
    <3>1. queue.request.fence \in Fences \cup {NoFence}
      BY <1>0, <2>3, RequestTyped DEF FailPackets, Busy, BusyStages
    <3>2. fence' \in [Fences -> 0..2]
      BY <1>0, <2>3, <3>1 DEF FailPackets, ObjectsOK
    <3>3. binary' \in [Binaries -> 0..2]
      BY <1>0, <2>3 DEF FailPackets, ObjectsOK
    <3>4. reserved' \in [Timelines -> SUBSET Nat]
      BY <1>0, <2>3 DEF FailPackets, ObjectsOK, Without
    <3>5. QED
      BY <1>0, <2>3, <3>2, <3>3, <3>4 DEF FailPackets, ObjectsOK
  <2>4. QED
    BY <1>0, <1>5, <2>1, <2>2, <2>3 DEF QueueThread, Receive, Execute, ExecuteFails, Observe,
       LoseDevice, DrainForPresent, Present, PresentFails, ObjectsOK
<1>6. CASE CompletionThread
  <2>1. CASE PublishSignals
    <3>0. InHand
      BY <2>1 DEF PublishSignals, InHand, InHandStages
    <3>1. /\ completion.item.fence \in Fences \cup {NoFence} /\ completion.item.last \in Nat
          /\ completion.item.packet.values \subseteq TimelineValues
      BY <1>0, <3>0, ItemTyped
    <3>2. fence' \in [Fences -> 0..2]
      BY <1>0, <2>1, <3>1 DEF PublishSignals, ItemFence, ObjectsOK
    <3>3. binary' \in [Binaries -> 0..2]
      BY <1>0, <2>1 DEF PublishSignals, ItemSignals, ObjectsOK
    <3>4. reserved' \in [Timelines -> SUBSET Nat]
      BY <1>0, <2>1 DEF PublishSignals, ObjectsOK, Without
    <3>5. certified' \in [Fences -> Nat]
      BY <1>0, <2>1, <3>1 DEF PublishSignals, ObjectsOK
    <3>6. \A t \in Timelines : Completed(t) \in 0..MaxValue
      <4>1. \A t \in Timelines : value[t] \in 0..MaxValue
        BY <1>0 DEF ObjectsOK
      <4>2. QED
        BY <3>1, <4>1, CompletedIs
    <3>7. value' \in [Timelines -> 0..MaxValue]
      BY <2>1, <3>6 DEF PublishSignals
    <3>8. lastOp' = lastOp
      BY <2>1 DEF PublishSignals
    <3>9. QED
      BY <1>0, <3>2, <3>3, <3>4, <3>5, <3>7, <3>8 DEF ObjectsOK
  <2>2. CASE CancelSignals
    <3>0. InHand
      BY <2>2 DEF CancelSignals, InHand, InHandStages
    <3>1. completion.item.fence \in Fences \cup {NoFence}
      BY <1>0, <3>0, ItemTyped
    <3>2. fence' \in [Fences -> 0..2]
      BY <1>0, <2>2, <3>1 DEF CancelSignals, ItemFence, ObjectsOK
    <3>3. binary' \in [Binaries -> 0..2]
      BY <1>0, <2>2 DEF CancelSignals, ItemSignals, ObjectsOK
    <3>4. reserved' \in [Timelines -> SUBSET Nat]
      BY <1>0, <2>2 DEF CancelSignals, ObjectsOK, Without
    <3>5. QED
      BY <1>0, <2>2, <3>2, <3>3, <3>4 DEF CancelSignals, ObjectsOK
  <2>3. QED
    BY <1>0, <1>6, <2>1, <2>2 DEF CompletionThread, TakeReceipts, ReceiptsComplete, ReceiptFails,
       FinishInFlight, FinishPending, ObjectsOK
<1>7. CASE UNCHANGED queueVars
  BY <1>0, <1>7 DEF queueVars, ObjectsOK
<1>8. QED
  BY <1>1, <1>2, <1>3, <1>4, <1>5, <1>6, <1>7 DEF QueueNext

\* The steps of the queue thread, by what they do with the request.
LEMMA CallTypes == CallOK /\ [QueueNext]_queueVars => CallOK'
<1> SUFFICES ASSUME CallOK, [QueueNext]_queueVars PROVE CallOK'
  OBVIOUS
<1> USE DEF queueVars, threads, QueueOnly, CompletionOnly
<1>1. CASE CallStep
  <2>1. CASE ReserveValues
    <3>1. call' = [call EXCEPT !.stage = "fence"] \/ CallReturns
      BY <2>1 DEF ReserveValues
    <3>2. QED
      BY <2>1, <3>1 DEF ReserveValues, CallOK, CallReturns
  <2>2. CASE ClaimFence
    <3>1. call' = [call EXCEPT !.stage = "admit"] \/ CallReturns
      BY <2>2 DEF ClaimFence
    <3>2. QED
      BY <2>2, <3>1 DEF ClaimFence, CallOK, CallReturns
  <2>3. CASE Admit
    BY <2>3 DEF Admit, CallOK, CallReturns
  <2>4. QED
    BY <1>1, <2>1, <2>2, <2>3 DEF CallStep
<1>2. CASE ApplicationStep
  <2>1. ASSUME NEW r \in Templates, Submit(r) PROVE CallOK'
    <3>1. r \in Requests
      BY QueueAssumption
    <3>2. QED
      BY <2>1, <3>1 DEF Submit, CallOK
  <2>2. QED
    BY <1>2, <2>1 DEF ApplicationStep, ResetFence, SignalTimeline, AcquireSync, WaitForFences,
       WaitTimesOut, Destroy, CallOK
<1>3. CASE DestroyStep
  BY <1>3 DEF DestroyStep, StopQueue, StopCompletion, DestroyLosesDevice, CallOK
<1>4. CASE CheckFences \/ Notify \/ WorkerLosesDevice
  BY <1>4 DEF CheckFences, Notify, WorkerLosesDevice, CallOK
<1>5. CASE QueueThread
  BY <1>5 DEF QueueThread, Receive, WaitSemaphore, ReserveSignals, Execute,
     ExecuteFails, Observe, LoseDevice, FailPackets, DrainForPresent, Present, PresentFails, CallOK
<1>6. CASE CompletionThread
  BY <1>6 DEF CompletionThread, TakeReceipts, ReceiptsComplete, ReceiptFails, PublishSignals,
     CancelSignals, FinishInFlight, FinishPending, CallOK
<1>7. CASE UNCHANGED queueVars
  BY <1>7 DEF CallOK
<1>8. QED
  BY <1>1, <1>2, <1>3, <1>4, <1>5, <1>6, <1>7 DEF QueueNext

\* Every step keeps the type of the channel.
LEMMA ChannelStep == QueueTypeOK /\ [QueueNext]_queueVars => ChannelOK'
<1> SUFFICES ASSUME QueueTypeOK, [QueueNext]_queueVars PROVE ChannelOK'
  OBVIOUS
<1>0. ChannelOK /\ CallOK /\ CountersOK
  BY DEF QueueTypeOK
<1> USE DEF queueVars, threads, QueueOnly, CompletionOnly
<1>1. CASE CallStep
  <2>1. CASE Admit
    <3>1. call.request \in Requests /\ issued \in Nat
      BY <1>0, <2>1, CallTyped DEF Admit, CountersOK
    <3>2. [call.request EXCEPT !.first = issued + 1] \in Admitted
      <4>1. [call.request EXCEPT !.first = issued + 1] \in Requests
        BY <3>1 DEF Requests
      <4>2. [call.request EXCEPT !.first = issued + 1].first = issued + 1
        BY <3>1 DEF Requests
      <4>3. QED
        <5> DEFINE r == [call.request EXCEPT !.first = issued + 1]
        <5> HIDE DEF r
        <5>1. r \in Requests /\ r.first = issued + 1 /\ issued + 1 >= 1
          BY <3>1, <4>1, <4>2 DEF r
        <5>2. r \in Admitted
          BY <5>1 DEF Admitted
        <5>3. QED
          BY <5>2 DEF r
    <3>3. channel' = channel \/ channel' = Append(channel, [call.request EXCEPT !.first = issued + 1])
      BY <2>1 DEF Admit
    <3>4. QED
      BY <1>0, <3>2, <3>3 DEF ChannelOK
  <2>2. QED
    BY <1>0, <1>1, <2>1 DEF CallStep, ReserveValues, ClaimFence, ChannelOK
<1>2. CASE ApplicationStep
  BY <1>0, <1>2 DEF ApplicationStep, Submit, ResetFence, SignalTimeline, AcquireSync, WaitForFences,
     WaitTimesOut, Destroy, ChannelOK
<1>3. CASE DestroyStep
  <2>1. channel' = channel \/ channel' = Append(channel, Stop)
    BY <1>3 DEF DestroyStep, StopQueue, StopCompletion, DestroyLosesDevice
  <2>2. QED
    BY <1>0, <2>1 DEF ChannelOK
<1>4. CASE CheckFences \/ Notify \/ WorkerLosesDevice
  BY <1>0, <1>4 DEF CheckFences, Notify, WorkerLosesDevice, ChannelOK
<1>5. CASE QueueThread
  <2>1. channel' = channel \/ (channel # << >> /\ channel' = Tail(channel))
    BY <1>5 DEF QueueThread, Receive, WaitSemaphore, ReserveSignals, Execute, ExecuteFails, Observe,
       LoseDevice, FailPackets, DrainForPresent, Present, PresentFails
  <2>2. QED
    BY <1>0, <2>1 DEF ChannelOK
<1>6. CASE CompletionThread
  BY <1>0, <1>6 DEF CompletionThread, TakeReceipts, ReceiptsComplete, ReceiptFails, PublishSignals,
     CancelSignals, FinishInFlight, FinishPending, ChannelOK
<1>7. CASE UNCHANGED queueVars
  BY <1>0, <1>7 DEF ChannelOK
<1>8. QED
  BY <1>1, <1>2, <1>3, <1>4, <1>5, <1>6, <1>7 DEF QueueNext

\* What the queue thread takes from the channel.
LEMMA HeadTyped ==
  ASSUME ChannelOK, channel # << >>
  PROVE  /\ Len(channel) \in Nat \ {0} /\ channel[1] = Head(channel)
         /\ Head(channel) \in Admitted \cup {Stop}
         /\ Head(channel).kind = "stop" <=> Head(channel) = Stop
         /\ Head(channel) # Stop => Head(channel) \in Admitted
         /\ Tail(channel) \in Seq(Admitted \cup {Stop}) /\ Len(Tail(channel)) = Len(channel) - 1
         /\ \A i \in 1..Len(channel) - 1 : Tail(channel)[i] = channel[i + 1]
<1>1. /\ Len(channel) \in Nat \ {0} /\ channel[1] = Head(channel)
      /\ Head(channel) \in Admitted \cup {Stop}
      /\ Tail(channel) \in Seq(Admitted \cup {Stop}) /\ Len(Tail(channel)) = Len(channel) - 1
      /\ \A i \in 1..Len(channel) - 1 : Tail(channel)[i] = channel[i + 1]
  BY DEF ChannelOK
<1>2. Stop.kind = "stop" /\ \A r \in Admitted : r.kind # "stop"
  BY AdmittedFields, RequestFields DEF Stop
<1>3. QED
  BY <1>1, <1>2

\* What the queue thread takes from the channel.
LEMMA ReceiveGoes ==
  ASSUME ChannelOK, ThreadOK, Receive
  PROVE  /\ channel # << >> /\ queue.stage = "recv" /\ ~Busy /\ channel' = Tail(channel)
         /\ Head(channel) = Stop =>
              queue'.stage = "stopped" /\ queue'.request = queue.request
         /\ Head(channel) # Stop =>
              /\ Head(channel) \in Admitted
              /\ queue'.stage \in {"drain", "wait"} /\ queue'.request = Head(channel)
              /\ queue'.index = 1 /\ queue'.toWait = Head(channel).packets[1].waits
              /\ queue'.stage = "drain" => Head(channel).kind = "present"
         /\ ThreadOK'
<1>1. channel # << >> /\ queue.stage = "recv" /\ ~Busy /\ channel' = Tail(channel)
  BY DEF Receive, Busy, BusyStages
<1>2. CASE Head(channel) = Stop
  <2>1. Head(channel).kind = "stop"
    BY <1>1, <1>2, HeadTyped
  <2>2. queue' = [queue EXCEPT !.stage = "stopped"] /\ "stopped" \in QueueStages
    BY <2>1 DEF Receive, QueueStages
  <2>3. /\ queue'.stage = "stopped" /\ queue'.request = queue.request
        /\ queue' \in [stage : QueueStages, request : Admitted \cup {Stop},
                       index : Nat, toWait : Seq(Semaphores)]
    BY <2>2, QueueGoes
  <2>4. ThreadOK'
    BY <2>3 DEF ThreadOK, Busy, BusyStages
  <2>5. QED
    BY <1>1, <1>2, <2>3, <2>4
<1>3. CASE Head(channel) # Stop
  <2> DEFINE r == Head(channel)
  <2>1. r \in Admitted /\ r \in Requests /\ r.kind # "stop"
    BY <1>1, <1>3, HeadTyped, AdmittedFields
  <2>2. queue' = [stage |-> IF r.kind = "present" /\ r.packets[1].waits = << >>
                            THEN "drain" ELSE "wait",
                  request |-> r, index |-> 1, toWait |-> r.packets[1].waits]
    BY <2>1 DEF Receive
  <2>3. r.packets[1].waits \in Seq(Semaphores) /\ 1 \in 1..Len(r.packets)
    <3>1. 1 \in 1..Len(r.packets) /\ r.packets[1] \in Packets
      BY <2>1, RequestFields
    <3>2. QED
      BY <3>1, PacketFields
  <2> HIDE DEF r
  <2>4. /\ queue'.stage \in {"drain", "wait"} /\ queue'.request = r
        /\ queue'.index = 1 /\ queue'.toWait = r.packets[1].waits
        /\ queue'.stage = "drain" => r.kind = "present"
    BY <2>2
  <2>5. queue' \in [stage : QueueStages, request : Admitted \cup {Stop},
                    index : Nat, toWait : Seq(Semaphores)]
    BY <2>1, <2>2, <2>3 DEF QueueStages, BusyStages
  <2>6. ThreadOK'
    BY <2>1, <2>3, <2>4, <2>5 DEF ThreadOK, Busy
  <2>7. QED
    BY <1>1, <1>3, <2>1, <2>4, <2>6 DEF r
<1>4. QED
  BY <1>2, <1>3

\* The queue thread goes on with the packet that it has.
LEMMA ThreadOnly ==
  ASSUME ThreadOK, NEW st \in BusyStages \cup {"recv"}, queue' = [queue EXCEPT !.stage = st],
         Busy, st \in {"call", "observe"} => queue.request.kind = "submit",
         st = "drain" => queue.request.kind = "present", st = "asleep" => queue.toWait # << >>
  PROVE  /\ queue'.stage = st /\ queue'.request = queue.request
         /\ queue'.index = queue.index /\ queue'.toWait = queue.toWait
         /\ ThreadOK'
<1>1. st \in QueueStages
  BY DEF QueueStages
<1>2. /\ queue'.stage = st /\ queue'.request = queue.request
      /\ queue'.index = queue.index /\ queue'.toWait = queue.toWait
      /\ queue' \in [stage : QueueStages, request : Admitted \cup {Stop},
                     index : Nat, toWait : Seq(Semaphores)]
  BY <1>1, QueueGoes
<1>3. QED
  BY <1>2 DEF ThreadOK, Busy

\* The stage before and after each step of the queue thread but Receive.
LEMMA QueueThreadGoes ==
  ASSUME ThreadOK
  PROVE  /\ WaitSemaphore =>
              /\ queue.stage = "wait" /\ Busy /\ queue.toWait # << >> /\ ThreadOK'
              /\ queue'.request = queue.request /\ queue'.index = queue.index
              /\ \/ queue'.stage \in {"lose", "asleep"} /\ queue'.toWait = queue.toWait
                 \/ queue'.stage = "wait" /\ queue'.toWait = Tail(queue.toWait)
         /\ ReserveSignals \/ Execute \/ ExecuteFails \/ LoseDevice \/ FailPackets
            \/ DrainForPresent \/ Present \/ PresentFails =>
              /\ Busy /\ ThreadOK' /\ queue'.stage \in BusyStages \cup {"recv"}
              /\ queue'.request = queue.request /\ queue'.index = queue.index
              /\ queue'.toWait = queue.toWait
         /\ ReserveSignals => queue.stage = "wait" /\ queue'.stage \in {"call", "lose"}
         /\ Execute => queue.stage = "call" /\ queue'.stage = "observe"
         /\ ExecuteFails => queue.stage = "call" /\ queue'.stage = "lose"
         /\ LoseDevice => queue.stage = "lose" /\ queue'.stage = "fail"
         /\ FailPackets => queue.stage = "fail" /\ queue'.stage = "recv"
         /\ DrainForPresent => queue.stage = "drain" /\ queue'.stage = "wait"
         /\ Present => queue.stage = "wait" /\ queue'.stage = "recv"
         /\ PresentFails => queue.stage = "wait" /\ queue'.stage = "lose"
<1> USE DEF BusyStages
<1>1. ASSUME WaitSemaphore
      PROVE  /\ queue.stage = "wait" /\ Busy /\ queue.toWait # << >> /\ ThreadOK'
             /\ queue'.request = queue.request /\ queue'.index = queue.index
             /\ \/ queue'.stage \in {"lose", "asleep"} /\ queue'.toWait = queue.toWait
                \/ queue'.stage = "wait" /\ queue'.toWait = Tail(queue.toWait)
  <2>1. queue.stage = "wait" /\ Busy /\ queue.toWait # << >>
    BY <1>1 DEF WaitSemaphore, Busy
  <2>2. \/ queue' = [queue EXCEPT !.stage = "lose"]
        \/ queue' = [queue EXCEPT !.stage = "asleep"]
        \/ queue' = [queue EXCEPT !.toWait = Tail(queue.toWait)]
    BY <1>1 DEF WaitSemaphore
  <2>3. CASE queue' = [queue EXCEPT !.stage = "lose"]
    BY <2>1, <2>3, ThreadOnly
  <2>4. CASE queue' = [queue EXCEPT !.stage = "asleep"]
    BY <2>1, <2>4, ThreadOnly
  <2>5. CASE queue' = [queue EXCEPT !.toWait = Tail(queue.toWait)]
    <3>1. queue.toWait \in Seq(Semaphores)
      BY DEF ThreadOK
    <3>2. Tail(queue.toWait) \in Seq(Semaphores)
      BY <2>1, <3>1
    <3>3. QED
      BY <2>1, <2>5, <3>2 DEF ThreadOK, Busy
  <2>6. QED
    BY <2>1, <2>2, <2>3, <2>4, <2>5
<1>2. ASSUME ReserveSignals
      PROVE  /\ Busy /\ ThreadOK' /\ queue'.stage \in BusyStages \cup {"recv"}
             /\ queue'.request = queue.request /\ queue'.index = queue.index
             /\ queue'.toWait = queue.toWait
             /\ queue.stage = "wait" /\ queue'.stage \in {"call", "lose"}
  <2>1. /\ queue.stage = "wait" /\ Busy /\ queue.request.kind = "submit"
        /\ queue' = [queue EXCEPT !.stage = "call"] \/ queue' = [queue EXCEPT !.stage = "lose"]
    BY <1>2 DEF ReserveSignals, Busy
  <2>2. CASE queue' = [queue EXCEPT !.stage = "call"]
    BY <2>1, <2>2, ThreadOnly
  <2>3. CASE queue' = [queue EXCEPT !.stage = "lose"]
    BY <2>1, <2>3, ThreadOnly
  <2>4. QED
    BY <2>1, <2>2, <2>3
<1>3. ASSUME Execute
      PROVE  /\ Busy /\ ThreadOK' /\ queue'.stage \in BusyStages \cup {"recv"}
             /\ queue'.request = queue.request /\ queue'.index = queue.index
             /\ queue'.toWait = queue.toWait
             /\ queue.stage = "call" /\ queue'.stage = "observe"
  <2>1. queue.stage = "call" /\ Busy /\ queue' = [queue EXCEPT !.stage = "observe"]
    BY <1>3 DEF Execute, Busy
  <2>2. queue.request.kind = "submit"
    BY <2>1 DEF ThreadOK
  <2>3. QED
    BY <2>1, <2>2, ThreadOnly
<1>4. ASSUME NEW old, NEW st, queue.stage = old, queue' = [queue EXCEPT !.stage = st],
             <<old, st>> \in {<<"call", "lose">>, <<"lose", "fail">>, <<"fail", "recv">>,
                              <<"drain", "wait">>, <<"wait", "recv">>, <<"wait", "lose">>}
      PROVE  /\ Busy /\ ThreadOK' /\ queue'.stage \in BusyStages \cup {"recv"}
             /\ queue'.request = queue.request /\ queue'.index = queue.index
             /\ queue'.toWait = queue.toWait /\ queue'.stage = st
  <2>1. st \in BusyStages \cup {"recv"} /\ st \notin {"call", "observe", "drain", "asleep"} /\ Busy
    BY <1>4 DEF Busy
  <2>2. QED
    BY <1>4, <2>1, ThreadOnly
<1>5. /\ ExecuteFails => queue.stage = "call" /\ queue' = [queue EXCEPT !.stage = "lose"]
      /\ LoseDevice => queue.stage = "lose" /\ queue' = [queue EXCEPT !.stage = "fail"]
      /\ FailPackets => queue.stage = "fail" /\ queue' = [queue EXCEPT !.stage = "recv"]
      /\ DrainForPresent => queue.stage = "drain" /\ queue' = [queue EXCEPT !.stage = "wait"]
      /\ Present => queue.stage = "wait" /\ queue' = [queue EXCEPT !.stage = "recv"]
      /\ PresentFails => queue.stage = "wait" /\ queue' = [queue EXCEPT !.stage = "lose"]
  BY DEF ExecuteFails, LoseDevice, FailPackets, DrainForPresent, Present, PresentFails
<1> HIDE DEF BusyStages
<1>6. QED
  BY <1>1, <1>2, <1>3, <1>4, <1>5

\* Where the queue thread goes once it has passed a packet on.
LEMMA ObserveGoes ==
  ASSUME ThreadOK, Observe
  PROVE  /\ queue.stage = "observe" /\ Busy /\ ThreadOK'
         /\ queue'.request = queue.request
         /\ IF queue.index = Len(queue.request.packets)
            THEN queue'.stage = "recv"
            ELSE /\ queue'.stage = "wait" /\ queue'.index = queue.index + 1
                 /\ queue'.toWait = queue.request.packets[queue.index + 1].waits
<1>1. queue.stage = "observe" /\ Busy
  BY DEF Observe, Busy, BusyStages
<1>2. CASE queue.index = Len(queue.request.packets)
  <2>1. queue' = [queue EXCEPT !.stage = "recv"]
    BY <1>2 DEF Observe
  <2>2. QED
    BY <1>1, <1>2, <2>1, ThreadOnly DEF BusyStages
<1>3. CASE queue.index # Len(queue.request.packets)
  <2> DEFINE w == queue.request.packets[queue.index + 1].waits
  <2>1. queue' = [queue EXCEPT !.stage = "wait", !.index = queue.index + 1, !.toWait = w]
    BY <1>3 DEF Observe
  <2>2. /\ queue.request \in Admitted /\ queue.request \in Requests
        /\ queue.index \in 1..Len(queue.request.packets) /\ Len(queue.request.packets) \in Nat
    BY <1>1, RequestTyped
  <2>3. queue.index + 1 \in 1..Len(queue.request.packets) /\ queue.index + 1 \in Nat
    BY <1>3, <2>2
  <2>4. w \in Seq(Semaphores)
    <3>1. queue.request.packets[queue.index + 1] \in Packets
      BY <2>2, <2>3, RequestFields
    <3>2. QED
      BY <3>1, PacketFields
  <2> HIDE DEF w
  <2>5. /\ queue'.stage = "wait" /\ queue'.index = queue.index + 1 /\ queue'.toWait = w
        /\ queue'.request = queue.request
        /\ queue' \in [stage : QueueStages, request : Admitted \cup {Stop},
                       index : Nat, toWait : Seq(Semaphores)]
    BY <2>1, <2>3, <2>4 DEF ThreadOK, QueueStages, BusyStages
  <2>6. ThreadOK'
    BY <2>2, <2>3, <2>5 DEF ThreadOK, Busy
  <2>7. QED
    BY <1>1, <1>3, <2>5, <2>6 DEF w
<1>4. QED
  BY <1>2, <1>3

\* Every step keeps the type of the queue thread.
LEMMA ThreadStep == QueueTypeOK /\ [QueueNext]_queueVars => ThreadOK'
<1> SUFFICES ASSUME QueueTypeOK, [QueueNext]_queueVars PROVE ThreadOK'
  OBVIOUS
<1>0. ChannelOK /\ ThreadOK
  BY DEF QueueTypeOK
<1>1. CASE UNCHANGED queue
  BY <1>0, <1>1, QueueWakes
<1>2. CASE QueueThread
  <2>1. CASE Receive
    BY <1>0, <2>1, ReceiveGoes
  <2>2. CASE Observe
    BY <1>0, <2>2, ObserveGoes
  <2>3. QED
    BY <1>0, <1>2, <2>1, <2>2, QueueThreadGoes DEF QueueThread
<1>3. CASE Notify \/ FinishInFlight
  BY <1>0, <1>3, QueueWakes DEF Notify, FinishInFlight, WakeUp
<1> USE DEF queueVars, threads, CompletionOnly
<1>4. CASE CallStep \/ ApplicationStep
  <2>1. UNCHANGED queue
    BY <1>4 DEF CallStep, ApplicationStep, ReserveValues, ClaimFence, Admit, Submit, ResetFence,
       SignalTimeline, AcquireSync, WaitForFences, WaitTimesOut, Destroy
  <2>2. QED
    BY <1>1, <2>1
<1>5. CASE DestroyStep \/ CheckFences \/ WorkerLosesDevice
  <2>1. UNCHANGED queue
    BY <1>5 DEF DestroyStep, StopQueue, StopCompletion, DestroyLosesDevice, CheckFences,
       WorkerLosesDevice
  <2>2. QED
    BY <1>1, <2>1
<1>6. CASE CompletionThread /\ ~FinishInFlight
  <2>1. UNCHANGED queue
    BY <1>6 DEF CompletionThread, TakeReceipts, ReceiptsComplete, ReceiptFails, PublishSignals,
       CancelSignals, FinishPending
  <2>2. QED
    BY <1>1, <2>1
<1>7. QED
  BY <1>1, <1>2, <1>3, <1>4, <1>5, <1>6 DEF QueueNext

\* What the queue thread passes on to the completion thread.
LEMMA ItemPassedOn ==
  ASSUME ThreadOK, Observe
  PROVE  \E item \in Items :
           /\ observed' = Append(observed, item)
           /\ item.packet = CurrentPacket
           /\ item.id = queue.request.first + queue.index - 1
           /\ item.fence = IF LastPacket THEN queue.request.fence ELSE NoFence
           /\ item.last = queue.request.first + Len(queue.request.packets) - 1
<1> DEFINE item == [packet |-> CurrentPacket,
                    fence |-> IF LastPacket THEN queue.request.fence ELSE NoFence,
                    id |-> queue.request.first + queue.index - 1,
                    last |-> queue.request.first + Len(queue.request.packets) - 1]
<1>1. /\ queue.request.kind = "submit" /\ CurrentPacket \in Packets
      /\ queue.request.fence \in Fences \cup {NoFence} /\ queue.request.first \in Nat \ {0}
      /\ queue.index \in 1..Len(queue.request.packets) /\ Len(queue.request.packets) \in Nat \ {0}
  BY ObserveGoes, RequestTyped DEF ThreadOK
<1>2. observed' = Append(observed, item)
  BY DEF Observe
<1>3. /\ item.packet = CurrentPacket
      /\ item.id = queue.request.first + queue.index - 1
      /\ item.fence = IF LastPacket THEN queue.request.fence ELSE NoFence
      /\ item.last = queue.request.first + Len(queue.request.packets) - 1
  OBVIOUS
<1>4. item \in Items
  <2>1. queue.request.first + queue.index - 1 \in Nat \ {0}
    BY <1>1
  <2>2. queue.request.first + Len(queue.request.packets) - 1 \in Nat
    BY <1>1
  <2>3. (IF LastPacket THEN queue.request.fence ELSE NoFence) \in Fences \cup {NoFence}
    BY <1>1
  <2>4. QED
    BY <1>1, <2>1, <2>2, <2>3 DEF Items
<1> HIDE DEF item
<1>5. QED
  BY <1>2, <1>3, <1>4

\* Every step keeps the type of the completion channel.
LEMMA ObservedStep == QueueTypeOK /\ [QueueNext]_queueVars => ObservedOK'
<1> SUFFICES ASSUME QueueTypeOK, [QueueNext]_queueVars PROVE ObservedOK'
  OBVIOUS
<1>0. ObservedOK /\ ThreadOK
  BY DEF QueueTypeOK
<1> USE DEF queueVars, threads, QueueOnly, CompletionOnly
<1>1. CASE CallStep \/ ApplicationStep
  BY <1>0, <1>1 DEF CallStep, ApplicationStep, ReserveValues, ClaimFence, Admit, Submit, ResetFence,
     SignalTimeline, AcquireSync, WaitForFences, WaitTimesOut, Destroy, ObservedOK
<1>2. CASE DestroyStep
  <2>1. observed' = observed \/ observed' = Append(observed, NoItem)
    BY <1>2 DEF DestroyStep, StopQueue, StopCompletion, DestroyLosesDevice
  <2>2. QED
    BY <1>0, <2>1 DEF ObservedOK
<1>3. CASE CheckFences \/ Notify \/ WorkerLosesDevice \/ UNCHANGED queueVars
  BY <1>0, <1>3 DEF CheckFences, Notify, WorkerLosesDevice, ObservedOK
<1>4. CASE QueueThread
  <2>1. CASE Observe
    <3>1. PICK item \in Items : observed' = Append(observed, item)
      BY <1>0, <2>1, ItemPassedOn
    <3>2. QED
      BY <1>0, <3>1 DEF ObservedOK
  <2>2. QED
    BY <1>0, <1>4, <2>1 DEF QueueThread, Receive, WaitSemaphore, ReserveSignals, Execute, ExecuteFails,
       LoseDevice, FailPackets, DrainForPresent, Present, PresentFails, ObservedOK
<1>5. CASE CompletionThread
  <2>1. observed' = observed \/ (observed # << >> /\ observed' = Tail(observed))
    BY <1>5 DEF CompletionThread, TakeReceipts, ReceiptsComplete, ReceiptFails, PublishSignals,
       CancelSignals, FinishInFlight, FinishPending
  <2>2. QED
    BY <1>0, <2>1 DEF ObservedOK
<1>6. QED
  BY <1>1, <1>2, <1>3, <1>4, <1>5 DEF QueueNext

\* The stage and the item before and after each step of the completion thread.
LEMMA TakeReceiptsGoes ==
  ASSUME CompletionOK, ObservedOK, TakeReceipts
  PROVE  /\ completion.stage = "recv" /\ ~InHand /\ completion.item = NoItem
         /\ observed # << >> /\ observed' = Tail(observed) /\ CompletionOK'
         /\ observed[1] \in Items \cup {NoItem} /\ Len(observed) \in Nat \ {0}
         /\ Tail(observed) \in Seq(Items \cup {NoItem}) /\ Len(Tail(observed)) = Len(observed) - 1
         /\ \A i \in 1..Len(observed) - 1 : Tail(observed)[i] = observed[i + 1]
         /\ observed[1] = NoItem => completion'.stage = "stopped" /\ completion'.item = NoItem
         /\ observed[1] # NoItem => completion'.stage = "drain" /\ completion'.item = observed[1]
<1>1. /\ completion.stage = "recv" /\ ~InHand /\ completion.item = NoItem
      /\ observed # << >> /\ observed' = Tail(observed)
  BY DEF TakeReceipts, CompletionOK, InHand, InHandStages
<1>2. /\ observed[1] = Head(observed) /\ observed[1] \in Items \cup {NoItem}
      /\ Len(observed) \in Nat \ {0}
      /\ Tail(observed) \in Seq(Items \cup {NoItem}) /\ Len(Tail(observed)) = Len(observed) - 1
      /\ \A i \in 1..Len(observed) - 1 : Tail(observed)[i] = observed[i + 1]
  BY <1>1 DEF ObservedOK
<1>3. CASE observed[1] = NoItem
  <2>1. completion' = [completion EXCEPT !.stage = "stopped"] /\ "stopped" \in CompletionStages
    BY <1>2, <1>3 DEF TakeReceipts, CompletionStages
  <2>2. /\ completion'.stage = "stopped" /\ completion'.item = NoItem
        /\ completion' \in [stage : CompletionStages, item : Items \cup {NoItem}]
    BY <1>1, <2>1, CompletionGoes
  <2>3. CompletionOK'
    BY <2>2 DEF CompletionOK, InHand, InHandStages
  <2>4. QED
    BY <1>1, <1>2, <1>3, <2>2, <2>3
<1>4. CASE observed[1] # NoItem
  <2>1. completion' = [stage |-> "drain", item |-> observed[1]] /\ observed[1] \in Items
    BY <1>2, <1>4 DEF TakeReceipts
  <2>2. "drain" \in CompletionStages /\ "drain" \in InHandStages
    BY DEF CompletionStages, InHandStages
  <2>3. CompletionOK'
    BY <2>1, <2>2 DEF CompletionOK, InHand
  <2>4. QED
    BY <1>1, <1>2, <1>4, <2>1, <2>3
<1>5. QED
  BY <1>3, <1>4

\* Where each step of the completion thread goes.
LEMMA CompletionThreadGoes ==
  ASSUME CompletionOK
  PROVE  /\ ReceiptsComplete \/ ReceiptFails \/ PublishSignals \/ CancelSignals \/ FinishInFlight =>
              InHand /\ InHand' /\ CompletionOK' /\ completion'.item = completion.item
         /\ ReceiptsComplete => /\ completion.stage = "drain"
                                /\ completion'.stage = IF lost THEN "cancel" ELSE "signal"
         /\ ReceiptFails => completion.stage = "drain" /\ completion'.stage = "cancel"
         /\ PublishSignals => completion.stage = "signal" /\ completion'.stage = "finish"
         /\ CancelSignals => completion.stage = "cancel" /\ completion'.stage = "finish"
         /\ FinishInFlight => completion.stage = "finish" /\ completion'.stage = "retire"
         /\ FinishPending => /\ completion.stage = "retire" /\ completion'.stage = "recv"
                             /\ InHand /\ ~InHand' /\ CompletionOK' /\ completion'.item = NoItem
<1>1. ASSUME NEW st \in InHandStages, completion.stage \in InHandStages,
             completion' = [completion EXCEPT !.stage = st]
      PROVE  /\ InHand /\ InHand' /\ CompletionOK' /\ completion'.item = completion.item
             /\ completion'.stage = st
  <2>1. st \in CompletionStages
    BY DEF CompletionStages
  <2>2. /\ completion'.stage = st /\ completion'.item = completion.item
        /\ completion' \in [stage : CompletionStages, item : Items \cup {NoItem}]
    BY <1>1, <2>1, CompletionGoes
  <2>3. QED
    BY <1>1, <2>2 DEF CompletionOK, InHand
<1>2. "drain" \in InHandStages /\ "signal" \in InHandStages /\ "cancel" \in InHandStages
      /\ "finish" \in InHandStages /\ "retire" \in InHandStages
  BY DEF InHandStages
<1>3. ReceiptsComplete => /\ completion.stage = "drain"
                          /\ completion' = [completion EXCEPT !.stage = IF lost THEN "cancel" ELSE "signal"]
  BY DEF ReceiptsComplete
<1>4. /\ ReceiptFails => completion.stage = "drain" /\ completion' = [completion EXCEPT !.stage = "cancel"]
      /\ PublishSignals => completion.stage = "signal" /\ completion' = [completion EXCEPT !.stage = "finish"]
      /\ CancelSignals => completion.stage = "cancel" /\ completion' = [completion EXCEPT !.stage = "finish"]
      /\ FinishInFlight => completion.stage = "finish" /\ completion' = [completion EXCEPT !.stage = "retire"]
  BY DEF ReceiptFails, PublishSignals, CancelSignals, FinishInFlight
<1>5. FinishPending => /\ completion.stage = "retire" /\ completion'.stage = "recv"
                       /\ InHand /\ ~InHand' /\ CompletionOK' /\ completion'.item = NoItem
  BY DEF FinishPending, InHand, InHandStages, CompletionOK, CompletionStages
<1>6. (IF lost THEN "cancel" ELSE "signal") \in InHandStages
  BY <1>2
<1>7. QED
  BY <1>1, <1>2, <1>3, <1>4, <1>5, <1>6

\* Every step keeps the type of the completion thread.
LEMMA CompletionStep == QueueTypeOK /\ [QueueNext]_queueVars => CompletionOK'
<1> SUFFICES ASSUME QueueTypeOK, [QueueNext]_queueVars PROVE CompletionOK'
  OBVIOUS
<1>0. ObservedOK /\ CompletionOK
  BY DEF QueueTypeOK
<1> USE DEF queueVars, threads, QueueOnly
<1>1. CASE completion' = completion
  BY <1>0, <1>1 DEF CompletionOK, InHand
<1>2. CASE CompletionThread
  BY <1>0, <1>2, TakeReceiptsGoes, CompletionThreadGoes DEF CompletionThread
<1>3. CASE CallStep \/ ApplicationStep
  <2>1. completion' = completion
    BY <1>3 DEF CallStep, ApplicationStep, ReserveValues, ClaimFence, Admit, Submit, ResetFence,
       SignalTimeline, AcquireSync, WaitForFences, WaitTimesOut, Destroy
  <2>2. QED
    BY <1>1, <2>1
<1>4. CASE DestroyStep \/ CheckFences \/ Notify \/ WorkerLosesDevice
  <2>1. completion' = completion
    BY <1>4 DEF DestroyStep, StopQueue, StopCompletion, DestroyLosesDevice, CheckFences, Notify,
       WorkerLosesDevice
  <2>2. QED
    BY <1>1, <2>1
<1>5. CASE QueueThread
  <2>1. completion' = completion
    BY <1>5 DEF QueueThread, Receive, WaitSemaphore, ReserveSignals, Execute, ExecuteFails, Observe,
       LoseDevice, FailPackets, DrainForPresent, Present, PresentFails
  <2>2. QED
    BY <1>1, <2>1
<1>6. CASE UNCHANGED queueVars
  BY <1>1, <1>6
<1>7. QED
  BY <1>2, <1>3, <1>4, <1>5, <1>6 DEF QueueNext

\* Every step keeps the type of the waiter.
LEMMA WaiterStep == WaiterOK /\ [QueueNext]_queueVars => WaiterOK'
<1> SUFFICES ASSUME WaiterOK, [QueueNext]_queueVars PROVE WaiterOK'
  OBVIOUS
<1> USE DEF queueVars, threads, QueueOnly, CompletionOnly
<1>1. CASE waiter' = waiter \/ waiter' = WaiterWoken
  BY <1>1, WaiterWakes
<1>2. CASE CallStep \/ DestroyStep \/ WorkerLosesDevice \/ Notify
  <2>1. waiter' = waiter \/ waiter' = WaiterWoken
    BY <1>2 DEF CallStep, ReserveValues, ClaimFence, Admit, DestroyStep, StopQueue, StopCompletion,
       DestroyLosesDevice, Notify, WorkerLosesDevice
  <2>2. QED
    BY <1>1, <2>1
<1>3. CASE ApplicationStep
  <2>1. ASSUME NEW F \in (SUBSET Fences) \ {{}}, NEW all \in BOOLEAN, WaitForFences(F, all)
        PROVE  WaiterOK'
    BY <2>1 DEF WaitForFences, WaiterOK
  <2>2. CASE WaitTimesOut
    BY <2>2 DEF WaitTimesOut, WaiterReturns, WaiterOK
  <2>3. QED
    BY <1>3, <1>1, <2>1, <2>2 DEF ApplicationStep, Submit, ResetFence, SignalTimeline, AcquireSync, Destroy
<1>4. CASE CheckFences
  BY <1>4 DEF CheckFences, WaiterReturns, WaiterOK
<1>5. CASE QueueThread
  <2>1. waiter' = waiter \/ waiter' = WaiterWoken
    BY <1>5 DEF QueueThread, Receive, WaitSemaphore, ReserveSignals, Execute, ExecuteFails, Observe,
       LoseDevice, FailPackets, DrainForPresent, Present, PresentFails
  <2>2. QED
    BY <1>1, <2>1
<1>6. CASE CompletionThread
  <2>1. waiter' = waiter \/ waiter' = WaiterWoken
    BY <1>6 DEF CompletionThread, TakeReceipts, ReceiptsComplete, ReceiptFails, PublishSignals,
       CancelSignals, FinishInFlight, FinishPending, WakeUp
  <2>2. QED
    BY <1>1, <2>1
<1>7. CASE UNCHANGED queueVars
  BY <1>1, <1>7
<1>8. QED
  BY <1>2, <1>3, <1>4, <1>5, <1>6, <1>7 DEF QueueNext

\* Every step keeps every type.
LEMMA TypesStep == QueueTypeOK /\ [QueueNext]_queueVars => QueueTypeOK'
<1> SUFFICES ASSUME QueueTypeOK, [QueueNext]_queueVars PROVE QueueTypeOK'
  OBVIOUS
<1>0. FlagsOK /\ CallOK /\ WaiterOK
  BY DEF QueueTypeOK
<1>1. ThreadOK'
  BY ThreadStep
<1>2. CountersOK'
  BY <1>1, CountersStep
<1>3. FlagsOK' /\ CallOK' /\ WaiterOK'
  BY <1>0, FlagsStep, CallTypes, WaiterStep
<1>4. ObjectsOK' /\ ChannelOK' /\ ObservedOK' /\ CompletionOK'
  BY ObjectsStep, ChannelStep, ObservedStep, CompletionStep
<1>5. QED
  BY <1>1, <1>2, <1>3, <1>4 DEF QueueTypeOK

-----------------------------------------------------------------------------
(* The places where packets are, and the steps that move them.             *)

SamePlaces ==
  /\ channel' = channel /\ observed' = observed /\ issued' = issued
  /\ Busy' <=> Busy
  /\ queue'.request = queue.request /\ queue'.index = queue.index
  /\ InHand' <=> InHand
  /\ completion'.item = completion.item

\* No thread stops.
SameThreads ==
  /\ queue'.stage = "stopped" <=> queue.stage = "stopped"
  /\ completion'.stage = "stopped" <=> completion.stage = "stopped"

Moves == \/ Admit \/ StopQueue \/ StopCompletion \/ Receive \/ Observe \/ FailPackets
         \/ Present \/ TakeReceipts \/ FinishPending

\* The stages between which a step that moves no packet leads.
QueueTurns ==
  \/ queue'.stage = queue.stage
  \/ queue.stage = "asleep" /\ queue'.stage = "wait"
  \/ queue.stage = "drain" /\ queue'.stage = "wait"
  \/ queue.stage = "wait" /\ queue'.stage \in {"asleep", "call", "lose"}
  \/ queue.stage = "call" /\ queue'.stage \in {"observe", "lose"}
  \/ queue.stage = "lose" /\ queue'.stage = "fail"

CompletionTurns ==
  \/ completion'.stage = completion.stage
  \/ completion.stage = "drain" /\ completion'.stage \in {"signal", "cancel"}
  \/ completion.stage \in {"signal", "cancel"} /\ completion'.stage = "finish"
  \/ completion.stage = "finish" /\ completion'.stage = "retire"

\* A thread that only turns to its next stage keeps what it has in hand.
LEMMA TurnsKeep ==
  /\ QueueTurns => (Busy' <=> Busy) /\ (queue'.stage = "stopped" <=> queue.stage = "stopped")
  /\ CompletionTurns => (InHand' <=> InHand) /\ (completion'.stage = "stopped" <=> completion.stage = "stopped")
<1>1. QueueTurns => (Busy' <=> Busy) /\ (queue'.stage = "stopped" <=> queue.stage = "stopped")
  BY DEF QueueTurns, Busy, BusyStages
<1>2. CompletionTurns => (InHand' <=> InHand) /\ (completion'.stage = "stopped" <=> completion.stage = "stopped")
  BY DEF CompletionTurns, InHand, InHandStages
<1>3. QED
  BY <1>1, <1>2

\* A step that moves no packet leaves channels, numbers and hands alone.
LEMMA QuietSteps ==
  ASSUME QueueTypeOK, [QueueNext]_queueVars, ~Moves
  PROVE  /\ channel' = channel /\ observed' = observed /\ issued' = issued
         /\ queue'.request = queue.request /\ queue'.index = queue.index /\ QueueTurns
         /\ completion'.item = completion.item /\ CompletionTurns
<1> DEFINE Goal == /\ channel' = channel /\ observed' = observed /\ issued' = issued
                   /\ queue'.request = queue.request /\ queue'.index = queue.index /\ QueueTurns
                   /\ completion'.item = completion.item /\ CompletionTurns
<1> SUFFICES Goal
  OBVIOUS
<1>0. ThreadOK /\ CompletionOK
  BY DEF QueueTypeOK
<1>q. CASE /\ channel' = channel /\ observed' = observed /\ issued' = issued
           /\ queue' = queue /\ completion' = completion
  BY <1>q DEF QueueTurns, CompletionTurns
<1>w. CASE /\ channel' = channel /\ observed' = observed /\ issued' = issued
           /\ queue' = QueueWoken(queue) /\ completion' = completion
  BY <1>0, <1>w, QueueWakes DEF QueueTurns, CompletionTurns
<1> HIDE DEF Goal
<1> USE DEF queueVars, threads, histories, QueueOnly, CompletionOnly
<1>1. CASE CallStep \/ ApplicationStep
  <2>1. /\ channel' = channel /\ observed' = observed /\ issued' = issued
        /\ queue' = queue /\ completion' = completion
    BY <1>1 DEF CallStep, ApplicationStep, ReserveValues, ClaimFence, Submit, ResetFence,
       SignalTimeline, AcquireSync, WaitForFences, WaitTimesOut, Destroy, Moves
  <2>2. QED
    BY <1>q, <2>1
<1>2. CASE DestroyStep \/ CheckFences \/ WorkerLosesDevice \/ UNCHANGED queueVars
  <2>1. /\ channel' = channel /\ observed' = observed /\ issued' = issued
        /\ queue' = queue /\ completion' = completion
    BY <1>2 DEF DestroyStep, DestroyLosesDevice, CheckFences, WorkerLosesDevice, Moves
  <2>2. QED
    BY <1>q, <2>1
<1>3. CASE Notify
  BY <1>w, <1>3 DEF Notify
<1>4. CASE QueueThread
  <2>1. WaitSemaphore \/ ReserveSignals \/ Execute \/ ExecuteFails \/ LoseDevice
        \/ DrainForPresent \/ PresentFails
    BY <1>4 DEF QueueThread, Moves
  <2>2. /\ channel' = channel /\ observed' = observed /\ issued' = issued
        /\ completion' = completion
    BY <2>1 DEF WaitSemaphore, ReserveSignals, Execute, ExecuteFails, LoseDevice, DrainForPresent,
       PresentFails
  <2>3. queue'.request = queue.request /\ queue'.index = queue.index
    BY <1>0, <2>1, QueueThreadGoes
  <2>4. QueueTurns
    BY <1>0, <2>1, QueueThreadGoes DEF QueueTurns
  <2>5. CompletionTurns
    BY <2>2 DEF CompletionTurns
  <2>6. QED
    BY <2>2, <2>3, <2>4, <2>5 DEF Goal
<1>5. CASE CompletionThread
  <2>1. ReceiptsComplete \/ ReceiptFails \/ PublishSignals \/ CancelSignals \/ FinishInFlight
    BY <1>5 DEF CompletionThread, Moves
  <2>2. channel' = channel /\ observed' = observed /\ issued' = issued
    BY <2>1 DEF ReceiptsComplete, ReceiptFails, PublishSignals, CancelSignals, FinishInFlight
  <2>3. queue' = queue \/ queue' = QueueWoken(queue)
    BY <2>1 DEF ReceiptsComplete, ReceiptFails, PublishSignals, CancelSignals, FinishInFlight, WakeUp
  <2>4. queue'.request = queue.request /\ queue'.index = queue.index /\ QueueTurns
    BY <1>0, <2>3, QueueWakes DEF QueueTurns
  <2>5. completion'.item = completion.item
    BY <1>0, <2>1, CompletionThreadGoes
  <2>6. CompletionTurns
    BY <1>0, <2>1, CompletionThreadGoes DEF CompletionTurns
  <2>7. QED
    BY <2>2, <2>4, <2>5, <2>6 DEF Goal
<1>6. QED
  BY <1>1, <1>2, <1>3, <1>4, <1>5 DEF QueueNext

\* A step that moves no packet leaves every packet in its place.
LEMMA QuietPlaces ==
  ASSUME QueueTypeOK, [QueueNext]_queueVars, ~Moves
  PROVE  SamePlaces /\ SameThreads /\ QueueTurns /\ CompletionTurns
BY QuietSteps, TurnsKeep DEF SamePlaces, SameThreads

\* An admitted request joins the channel with the next numbers.
Joins(r) ==
  /\ channel' = Append(channel, r) /\ r \in Admitted /\ r.first = issued + 1
  /\ r.packets = call.request.packets /\ r.fence = call.request.fence
  /\ Len(r.packets) \in Nat \ {0}
  /\ issued' = issued + Len(r.packets)
  /\ observed' = observed /\ queue' = queue /\ completion' = completion

\* vkQueueSubmit either joins the channel or gives back what it reserved.
LEMMA AdmitGoes ==
  ASSUME QueueTypeOK, Admit
  PROVE  \/ /\ Admits(Len(call.request.packets)) /\ UNCHANGED <<fence, reserved>>
            /\ pending' = pending + Len(call.request.packets)
            /\ lastOp' = BinaryLast(call.request.packets)
            /\ \E r : Joins(r)
         \/ /\ ~Admits(Len(call.request.packets))
            /\ reserved' = Without(reserved, RequestValues) /\ Unclaim
            /\ UNCHANGED <<pending, lastOp>>
            /\ SamePlaces /\ QueueTurns /\ CompletionTurns /\ SameThreads
            /\ queue' = queue /\ completion' = completion
<1>0. CallOK /\ ChannelOK /\ CountersOK
  BY DEF QueueTypeOK
<1>1. call.request \in Requests /\ issued \in Nat /\ Len(call.request.packets) \in Nat \ {0}
  BY <1>0, CallTyped DEF Admit, CountersOK
<1>2. queue' = queue /\ observed' = observed /\ completion' = completion
  BY DEF Admit
<1>3. CASE Admits(Len(call.request.packets))
  <2> DEFINE r == [call.request EXCEPT !.first = issued + 1]
  <2>1. r \in Requests
    BY <1>1 DEF Requests
  <2>2. /\ r.first = issued + 1 /\ r.packets = call.request.packets
        /\ r.fence = call.request.fence
    BY <1>1 DEF Requests
  <2>3. /\ channel' = Append(channel, r) /\ issued' = issued + Len(call.request.packets)
        /\ UNCHANGED <<fence, reserved>> /\ pending' = pending + Len(call.request.packets)
        /\ lastOp' = BinaryLast(call.request.packets)
    BY <1>3 DEF Admit
  <2> HIDE DEF r
  <2>4. r \in Admitted
    <3>1. r.first >= 1
      BY <1>1, <2>2
    <3>2. QED
      BY <2>1, <3>1 DEF Admitted
  <2>5. Joins(r)
    BY <1>1, <1>2, <2>2, <2>3, <2>4 DEF Joins
  <2>6. QED
    BY <1>3, <2>3, <2>5
<1>4. CASE ~Admits(Len(call.request.packets))
  <2>1. /\ reserved' = Without(reserved, RequestValues) /\ Unclaim
        /\ pending' = pending /\ lastOp' = lastOp /\ channel' = channel /\ issued' = issued
    BY <1>4 DEF Admit
  <2>2. SamePlaces /\ QueueTurns /\ CompletionTurns /\ SameThreads
    BY <1>2, <2>1 DEF SamePlaces, SameThreads, QueueTurns, CompletionTurns, Busy, InHand
  <2>3. QED
    BY <1>2, <1>4, <2>1, <2>2
<1>5. QED
  BY <1>3, <1>4

\* The queue thread is done with a request.
Leaves ==
  /\ channel' = channel /\ observed' = observed /\ issued' = issued
  /\ completion' = completion
  /\ Busy /\ ~Busy' /\ queue'.stage = "recv"
  /\ queue'.request = queue.request

\* A failed request and a present leave the queue thread for good.
LEMMA LeavingGoes ==
  ASSUME QueueTypeOK, FailPackets \/ Present
  PROVE  Leaves
<1>0. ThreadOK
  BY DEF QueueTypeOK
<1>1. Busy /\ queue'.stage = "recv" /\ queue'.request = queue.request
  BY <1>0, QueueThreadGoes
<1>2. ~Busy'
  BY <1>1 DEF Busy, BusyStages
<1>3. channel' = channel /\ observed' = observed /\ completion' = completion /\ issued' = issued
  BY DEF FailPackets, Present, QueueOnly, histories
<1>4. QED
  BY <1>1, <1>2, <1>3 DEF Leaves

\* The other moves.
LEMMA OtherMoves ==
  /\ StopQueue => /\ channel' = Append(channel, Stop) /\ device = "draining"
                  /\ device' = "stopping queue" /\ UNCHANGED <<queue, observed, completion, issued, call>>
  /\ StopCompletion => /\ observed' = Append(observed, NoItem) /\ device = "stopping queue"
                       /\ queue.stage = "stopped" /\ device' = "stopping completion"
                       /\ UNCHANGED <<channel, queue, completion, issued, call>>
  /\ Receive => UNCHANGED <<observed, completion, issued, device, call>>
  /\ Observe => UNCHANGED <<channel, completion, issued, device, call>>
  /\ TakeReceipts => UNCHANGED <<channel, queue, issued, device, call>>
  /\ FinishPending => UNCHANGED <<channel, queue, observed, issued, device, call>>
  /\ FailPackets \/ Present \/ Admit => device' = device
  /\ FailPackets \/ Present => call' = call
<1> USE DEF histories, CompletionOnly, QueueOnly
<1>1. StopQueue => /\ channel' = Append(channel, Stop) /\ device = "draining"
                   /\ device' = "stopping queue" /\ UNCHANGED <<queue, observed, completion, issued, call>>
  BY DEF StopQueue
<1>2. StopCompletion => /\ observed' = Append(observed, NoItem) /\ device = "stopping queue"
                        /\ queue.stage = "stopped" /\ device' = "stopping completion"
                        /\ UNCHANGED <<channel, queue, completion, issued, call>>
  BY DEF StopCompletion
<1>3. /\ Receive => UNCHANGED <<observed, completion, issued, device, call>>
      /\ Observe => UNCHANGED <<channel, completion, issued, device, call>>
      /\ TakeReceipts => UNCHANGED <<channel, queue, issued, device, call>>
      /\ FinishPending => UNCHANGED <<channel, queue, observed, issued, device, call>>
  BY DEF Receive, Observe, TakeReceipts, FinishPending
<1>4. /\ FailPackets \/ Present \/ Admit => device' = device
      /\ FailPackets \/ Present => call' = call
  BY DEF FailPackets, Present, Admit
<1>5. QED
  BY <1>1, <1>2, <1>3, <1>4

\* vkDestroyDevice goes from stage to stage.
LEMMA DeviceSteps ==
  ASSUME [QueueNext]_queueVars
  PROVE  \/ device' = device /\ (device # "open" /\ call.stage = "none" => call'.stage = "none")
         \/ /\ device = "open" /\ device' = "draining" /\ call.stage = "none" /\ call' = call
            /\ ~Moves /\ UNCHANGED <<queue, completion>>
         \/ StopQueue \/ StopCompletion
         \/ /\ device = "stopping completion" /\ device' = "destroyed" /\ call' = call
            /\ completion.stage = "stopped"
            /\ ~Moves /\ UNCHANGED <<queue, completion>>
<1> USE DEF queueVars, threads, QueueOnly, CompletionOnly
<1>1. CASE CallStep
  BY <1>1 DEF CallStep, ReserveValues, ClaimFence, Admit
<1>2. CASE ApplicationStep
  <2>1. CASE Destroy
    <3>1. ~Moves
      <4>1. channel' = channel /\ queue' = queue /\ observed' = observed /\ completion' = completion
            /\ device' # device /\ device' = "draining" /\ call.stage = "none"
        BY <2>1 DEF Destroy
      <4>2. ~Admit /\ ~StopQueue /\ ~StopCompletion /\ ~Receive /\ ~Observe
        BY <4>1 DEF Admit, StopQueue, StopCompletion, Receive, Observe
      <4>3. ~FailPackets /\ ~Present /\ ~TakeReceipts /\ ~FinishPending
        BY <4>1 DEF FailPackets, Present, TakeReceipts, FinishPending
      <4>4. QED
        BY <4>2, <4>3 DEF Moves
    <3>2. QED
      BY <2>1, <3>1 DEF Destroy
  <2>2. QED
    BY <1>2, <2>1 DEF ApplicationStep, Submit, ResetFence, SignalTimeline, AcquireSync, WaitForFences,
       WaitTimesOut
<1>3. CASE DestroyStep
  <2>1. CASE DestroyLosesDevice
    <3>1. ~Moves
      <4>1. channel' = channel /\ queue' = queue /\ observed' = observed /\ completion' = completion
            /\ device' # device /\ device' = "destroyed"
        BY <2>1 DEF DestroyLosesDevice
      <4>2. ~Admit /\ ~StopQueue /\ ~StopCompletion /\ ~Receive /\ ~Observe
        BY <4>1 DEF Admit, StopQueue, StopCompletion, Receive, Observe
      <4>3. ~FailPackets /\ ~Present /\ ~TakeReceipts /\ ~FinishPending
        BY <4>1 DEF FailPackets, Present, TakeReceipts, FinishPending
      <4>4. QED
        BY <4>2, <4>3 DEF Moves
    <3>2. QED
      BY <2>1, <3>1 DEF DestroyLosesDevice
  <2>2. QED
    BY <1>3, <2>1 DEF DestroyStep
<1>4. CASE CheckFences \/ Notify \/ WorkerLosesDevice \/ UNCHANGED queueVars
  BY <1>4 DEF CheckFences, Notify, WorkerLosesDevice
<1>5. CASE QueueThread
  BY <1>5 DEF QueueThread, Receive, WaitSemaphore, ReserveSignals, Execute, ExecuteFails, Observe,
     LoseDevice, FailPackets, DrainForPresent, Present, PresentFails
<1>6. CASE CompletionThread
  BY <1>6 DEF CompletionThread, TakeReceipts, ReceiptsComplete, ReceiptFails, PublishSignals,
     CancelSignals, FinishInFlight, FinishPending
<1>7. QED
  BY <1>1, <1>2, <1>3, <1>4, <1>5, <1>6 DEF QueueNext

\* Every step keeps the order of the shutdown.
LEMMA ShutdownStep == QueueTypeOK /\ Shutdown /\ [QueueNext]_queueVars => Shutdown'
<1> SUFFICES ASSUME QueueTypeOK, Shutdown, [QueueNext]_queueVars PROVE Shutdown'
  OBVIOUS
<1>0. ChannelOK /\ ThreadOK /\ ObservedOK /\ CompletionOK /\ CountersOK
  BY DEF QueueTypeOK
<1>c. Len(channel) \in Nat /\ Len(observed) \in Nat
  BY <1>0 DEF ChannelOK, ObservedOK
<1>1. CASE ~Moves
  <2>1. SamePlaces /\ SameThreads
    BY <1>1, QuietPlaces
  <2>2. \/ device' = device /\ (device # "open" /\ call.stage = "none" => call'.stage = "none")
        \/ /\ device = "open" /\ device' = "draining" /\ call.stage = "none" /\ call' = call
        \/ /\ device = "stopping completion" /\ device' = "destroyed" /\ call' = call
           /\ completion.stage = "stopped"
    BY <1>1, DeviceSteps DEF Moves
  <2>3. QED
    BY <2>1, <2>2 DEF Shutdown, SamePlaces, SameThreads, Closing
<1>2. CASE Admit
  <2>1. call.stage # "none" /\ device' = device /\ call'.stage = "none"
    BY <1>2, OtherMoves DEF Admit, CallReturns
  <2>2. device = "open"
    BY <2>1 DEF Shutdown
  <2>3. CASE \E r : Joins(r)
    <3>1. PICK r : Joins(r)
      BY <2>3
    <3>2. /\ Len(channel') = Len(channel) + 1 /\ channel'[Len(channel) + 1] = r
          /\ \A i \in 1..Len(channel) : channel'[i] = channel[i]
      BY <1>0, <3>1 DEF Joins, ChannelOK
    <3>3. r # Stop
      BY <3>1, AdmittedFields DEF Joins
    <3>4. \A i \in 1..Len(channel') : channel'[i] # Stop
      BY <1>c, <2>2, <3>2, <3>3 DEF Shutdown
    <3>5. UNCHANGED <<queue, observed, completion>>
      BY <3>1 DEF Joins
    <3>6. QED
      BY <2>1, <2>2, <3>4, <3>5 DEF Shutdown, Closing
  <2>4. CASE SamePlaces /\ SameThreads
    BY <2>1, <2>2, <2>4 DEF Shutdown, SamePlaces, SameThreads, Closing
  <2>5. QED
    BY <1>2, <2>3, <2>4, AdmitGoes
<1>3. CASE StopQueue
  <2>1. /\ channel' = Append(channel, Stop) /\ device = "draining" /\ device' = "stopping queue"
        /\ UNCHANGED <<queue, observed, completion, call>>
    BY <1>3, OtherMoves
  <2>2. /\ Len(channel') = Len(channel) + 1
        /\ \A i \in 1..Len(channel) : channel'[i] = channel[i]
    <3>1. Stop \in Admitted \cup {Stop} /\ channel \in Seq(Admitted \cup {Stop})
      BY <1>0 DEF ChannelOK
    <3>2. QED
      BY <2>1, <3>1, AppendIs
  <2>3. \A i \in 1..Len(channel) : channel[i] # Stop
    BY <2>1 DEF Shutdown
  <2>5. \A i \in 1..Len(channel') : channel'[i] = Stop => i = Len(channel')
    BY <1>c, <2>2, <2>3
  <2>4. QED
    BY <2>1, <2>5 DEF Shutdown, Closing
<1>4. CASE StopCompletion
  <2>1. /\ observed' = Append(observed, NoItem) /\ device = "stopping queue" /\ queue.stage = "stopped"
        /\ device' = "stopping completion" /\ UNCHANGED <<channel, queue, completion, call>>
    BY <1>4, OtherMoves
  <2>2. /\ Len(observed') = Len(observed) + 1
        /\ \A i \in 1..Len(observed) : observed'[i] = observed[i]
    <3>1. NoItem \in Items \cup {NoItem} /\ observed \in Seq(Items \cup {NoItem})
      BY <1>0 DEF ObservedOK
    <3>2. /\ Len(Append(observed, NoItem)) = Len(observed) + 1
          /\ \A i \in 1..Len(observed) : Append(observed, NoItem)[i] = observed[i]
      BY <3>1, AppendIs
    <3>3. observed' = Append(observed, NoItem)
      BY <2>1
    <3>4. QED
      BY <3>2, <3>3
  <2>3. \A i \in 1..Len(observed) : observed[i] # NoItem
    BY <2>1 DEF Shutdown, Closing
  <2>5. \A i \in 1..Len(observed') : observed'[i] = NoItem => i = Len(observed')
    BY <1>c, <2>2, <2>3
  <2>4. QED
    BY <2>1, <2>5 DEF Shutdown, Closing
<1>5. CASE Receive
  <2>1. UNCHANGED <<observed, completion, device, call>>
    BY <1>5, OtherMoves
  <2>2. /\ queue.stage = "recv" /\ channel' = Tail(channel) /\ channel # << >>
        /\ queue'.stage = "stopped" => Head(channel) = Stop
    BY <1>0, <1>5, ReceiveGoes
  <2>3. ~Closing
    BY <2>2 DEF Shutdown
  <2>4. Head(channel) = Stop => device \notin {"open", "draining"}
    <3>1. channel[1] = Head(channel) /\ 1 \in 1..Len(channel)
      BY <1>0, <2>2, HeadTyped
    <3>2. QED
      BY <3>1 DEF Shutdown
  <2>5. \A i \in 1..Len(channel') : channel'[i] = Stop => i = Len(channel') /\ device \notin {"open", "draining"}
    <3>1. /\ Len(channel') = Len(channel) - 1
          /\ \A i \in 1..Len(channel) - 1 : channel'[i] = channel[i + 1]
      BY <1>0, <2>2, HeadTyped
    <3>2. QED
      BY <1>c, <3>1 DEF Shutdown
  <2>6. QED
    BY <2>1, <2>2, <2>3, <2>4, <2>5 DEF Shutdown, Closing
<1>6. CASE Observe
  <2>1. UNCHANGED <<channel, completion, device, call>>
    BY <1>6, OtherMoves
  <2>2. queue.stage = "observe" /\ queue'.stage \in {"recv", "wait"}
    BY <1>0, <1>6, ObserveGoes
  <2>3. PICK item \in Items : observed' = Append(observed, item)
    BY <1>0, <1>6, ItemPassedOn
  <2>4. /\ Len(observed') = Len(observed) + 1 /\ observed'[Len(observed) + 1] = item
        /\ \A i \in 1..Len(observed) : observed'[i] = observed[i]
    BY <1>0, <2>3 DEF ObservedOK
  <2>5. item # NoItem /\ ~Closing
    BY <2>2, NoItemIsNone DEF Shutdown
  <2>6. \A i \in 1..Len(observed') : observed'[i] # NoItem
    BY <1>c, <2>4, <2>5 DEF Shutdown
  <2>7. QED
    BY <2>1, <2>2, <2>5, <2>6 DEF Shutdown, Closing
<1>7. CASE FailPackets \/ Present
  <2>1. Leaves /\ UNCHANGED <<device, call>>
    BY <1>7, LeavingGoes, OtherMoves
  <2>2. queue.stage # "stopped" /\ queue'.stage # "stopped"
    BY <2>1 DEF Leaves, Busy, BusyStages
  <2>3. QED
    BY <2>1, <2>2 DEF Leaves, Shutdown, Closing
<1>8. CASE TakeReceipts
  <2>1. UNCHANGED <<channel, queue, device, call>>
    BY <1>8, OtherMoves
  <2>2. /\ completion.stage = "recv" /\ observed' = Tail(observed)
        /\ Len(observed) \in Nat \ {0} /\ Len(Tail(observed)) = Len(observed) - 1
        /\ \A i \in 1..Len(observed) - 1 : Tail(observed)[i] = observed[i + 1]
        /\ completion'.stage = "stopped" => observed[1] = NoItem
    BY <1>0, <1>8, TakeReceiptsGoes
  <2>7. \A i \in 1..Len(observed) : observed[i] = NoItem => i = Len(observed) /\ Closing
    BY DEF Shutdown
  <2>3. ASSUME NEW i \in 1..Len(observed'), observed'[i] = NoItem PROVE i = Len(observed') /\ Closing
    <3>1. i \in 1..Len(observed) - 1 /\ i + 1 \in 1..Len(observed) /\ i \in Nat
      BY <2>2
    <3>2. observed[i + 1] = NoItem
      BY <2>2, <2>3, <3>1
    <3>3. i + 1 = Len(observed) /\ Closing
      BY <2>7, <3>1, <3>2
    <3>4. Len(observed') = Len(observed) - 1 /\ Len(observed) \in Nat
      BY <2>2
    <3>5. QED
      BY <3>1, <3>3, <3>4
  <2>4. observed[1] = NoItem => Closing
    <3>1. 1 \in 1..Len(observed)
      BY <2>2
    <3>2. QED
      BY <2>7, <3>1
  <2>5. device # "destroyed"
    BY <2>2 DEF Shutdown
  <2>6. QED
    BY <2>1, <2>2, <2>3, <2>4, <2>5 DEF Shutdown, Closing
<1>9. CASE FinishPending
  <2>1. UNCHANGED <<channel, queue, observed, device, call>>
    BY <1>9, OtherMoves
  <2>2. completion.stage = "retire" /\ completion'.stage = "recv"
    BY <1>0, <1>9, CompletionThreadGoes
  <2>3. QED
    BY <2>1, <2>2 DEF Shutdown, Closing
<1>10. QED
  BY <1>1, <1>2, <1>3, <1>4, <1>5, <1>6, <1>7, <1>8, <1>9 DEF Moves

-----------------------------------------------------------------------------
(* The numbers of packets.                                                 *)

\* What the channel holds at each place.
LEMMA ChannelAt ==
  ASSUME ChannelOK
  PROVE  /\ Len(channel) \in Nat
         /\ \A i \in 1..Len(channel) :
              /\ channel[i] \in Admitted \cup {Stop}
              /\ channel[i] # Stop =>
                   /\ channel[i] \in Admitted /\ channel[i] \in Requests
                   /\ channel[i].first \in Nat \ {0} /\ Len(channel[i].packets) \in Nat \ {0}
<1>1. Len(channel) \in Nat /\ \A i \in 1..Len(channel) : channel[i] \in Admitted \cup {Stop}
  BY DEF ChannelOK
<1>2. QED
  BY <1>1, AdmittedFields, RequestFields

\* The number that each place starts with is positive.
LEMMA StartTyped ==
  ASSUME ChannelOK, issued \in Nat
  PROVE  \A i : StartOf(i) \in Nat \ {0}
BY ChannelAt DEF StartOf

\* The number of the queue thread's packet is positive.
LEMMA QueueAtTyped ==
  ASSUME ChannelOK, ThreadOK, issued \in Nat
  PROVE  /\ QueueAt \in Nat \ {0}
         /\ Busy => QueueAt = queue.request.first + queue.index - 1
         /\ ~Busy => QueueAt = StartOf(1)
<1>1. ~Busy => QueueAt = StartOf(1) /\ StartOf(1) \in Nat \ {0}
  BY StartTyped DEF QueueAt
<1>2. Busy => QueueAt = queue.request.first + queue.index - 1
              /\ queue.request.first \in Nat \ {0} /\ queue.index \in Nat \ {0}
  BY RequestTyped DEF QueueAt
<1>3. Busy => QueueAt \in Nat \ {0}
  <2> SUFFICES ASSUME Busy PROVE QueueAt \in Nat \ {0}
    OBVIOUS
  <2>1. QED
    BY <1>2
<1>4. QED
  BY <1>1, <1>2, <1>3

\* What the completion channel holds at each place.
LEMMA ObservedAt ==
  ASSUME ObservedOK
  PROVE  /\ Len(observed) \in Nat
         /\ \A i \in 1..Len(observed) :
              /\ observed[i] \in Items \cup {NoItem} /\ observed[i].id \in Nat
              /\ observed[i] # NoItem => observed[i] \in Items /\ observed[i].id > 0
<1>1. Len(observed) \in Nat /\ \A i \in 1..Len(observed) : observed[i] \in Items \cup {NoItem}
  BY DEF ObservedOK
<1>2. QED
  BY <1>1, ItemFields, NoItemIsNone

\* The queue thread is at a packet before those of the channel.
LEMMA QueueIsBehind ==
  ASSUME QueueTypeOK, Shutdown, Numbering
  PROVE  /\ QueueAt <= StartOf(1) /\ StartOf(1) <= issued + 1
         /\ Busy => QueueAt < StartOf(1)
         /\ \A i \in 1..Len(channel) : channel[i] # Stop => StartOf(1) <= channel[i].first
<1>0. ChannelOK /\ ThreadOK /\ issued \in Nat
  BY DEF QueueTypeOK, CountersOK
<1>1. \A i \in 1..Len(channel) : channel[i] # Stop =>
        channel[i].first + Len(channel[i].packets) <= issued + 1
        /\ channel[i].first \in Nat /\ Len(channel[i].packets) \in Nat \ {0}
  BY <1>0, ChannelAt DEF Numbering, ChannelNumbered
<1>2. StartOf(1) <= issued + 1 /\ StartOf(1) \in Nat
  <2>1. CASE 1 \in 1..Len(channel) /\ channel[1] # Stop
    BY <1>0, <1>1, <2>1 DEF StartOf
  <2>2. CASE ~(1 \in 1..Len(channel) /\ channel[1] # Stop)
    BY <1>0, <2>2 DEF StartOf
  <2>3. QED
    BY <2>1, <2>2
<1>3. ASSUME NEW i \in 1..Len(channel), channel[i] # Stop PROVE StartOf(1) <= channel[i].first
  <2>1. 1 \in 1..Len(channel) /\ i \in Nat /\ channel[i].first \in Nat
    BY <1>0, <1>1, <1>3, ChannelAt
  <2>2. CASE channel[1] # Stop /\ i # 1
    <3>1. channel[1].first + Len(channel[1].packets) <= channel[i].first
      BY <1>3, <2>1, <2>2 DEF Numbering, ChannelNumbered
    <3>2. StartOf(1) = channel[1].first
      BY <2>1, <2>2 DEF StartOf
    <3>3. channel[1].first \in Nat /\ Len(channel[1].packets) \in Nat
      BY <1>1, <2>1, <2>2
    <3>4. QED
      BY <2>1, <3>1, <3>2, <3>3
  <2>3. CASE i = 1
    BY <1>3, <2>1, <2>3 DEF StartOf
  <2>4. CASE channel[1] = Stop /\ i # 1
    <3>1. 1 = Len(channel)
      BY <2>1, <2>4 DEF Shutdown
    <3>2. QED
      BY <2>1, <2>4, <3>1
  <2>5. QED
    BY <2>2, <2>3, <2>4
<1>4. Busy => QueueAt < StartOf(1)
  <2> SUFFICES ASSUME Busy PROVE QueueAt < StartOf(1)
    OBVIOUS
  <2>1. /\ QueueAt = queue.request.first + queue.index - 1
        /\ queue.request.first \in Nat /\ queue.index \in 1..Len(queue.request.packets)
        /\ Len(queue.request.packets) \in Nat
    BY <1>0, QueueAtTyped, RequestTyped
  <2>2. queue.request.first + Len(queue.request.packets) = StartOf(1)
    BY DEF Numbering, ThreadNumbered
  <2>3. QED
    BY <2>1, <2>2
<1>5. QueueAt <= StartOf(1)
  <2>1. QueueAt \in Nat
    BY <1>0, QueueAtTyped
  <2>2. CASE Busy
    BY <1>2, <1>4, <2>1, <2>2
  <2>3. CASE ~Busy
    BY <1>0, <1>2, <2>3, QueueAtTyped
  <2>4. QED
    BY <2>2, <2>3
<1>6. QED
  BY <1>2, <1>3, <1>4, <1>5

\* The numbers stay while nothing moves.
LEMMA StartKeeps ==
  ASSUME SamePlaces
  PROVE  /\ \A i : StartOf(i)' = StartOf(i)
         /\ QueueAt' = QueueAt
<1>1. channel' = channel /\ issued' = issued /\ (Busy' <=> Busy)
      /\ queue'.request = queue.request /\ queue'.index = queue.index
  BY DEF SamePlaces
<1>2. \A i : StartOf(i)' = StartOf(i)
  BY <1>1 DEF StartOf
<1>3. CASE Busy
  <2>1. Busy' /\ queue'.request.first = queue.request.first /\ queue'.index = queue.index
    BY <1>1, <1>3, Zenon
  <2>2. QED
    BY <1>2, <1>3, <2>1 DEF QueueAt
<1>4. CASE ~Busy
  BY <1>1, <1>2, <1>4 DEF QueueAt
<1>5. QED
  BY <1>2, <1>3, <1>4

\* The order of the numbers stays while nothing moves.
LEMMA NumberingKeeps ==
  ASSUME SamePlaces, Numbering
  PROVE  Numbering'
<1>1. \A i : StartOf(i)' = StartOf(i)
  BY StartKeeps
<1>2. QueueAt' = QueueAt
  BY StartKeeps
<1>3. ChannelNumbered'
  BY <1>1 DEF SamePlaces, Numbering, ChannelNumbered
<1>4. ThreadNumbered' /\ ObservedNumbered' /\ ItemNumbered'
  BY <1>1 DEF SamePlaces, Numbering, ThreadNumbered, ObservedNumbered, ItemNumbered
<1>5. PassedNumbered'
  BY <1>2 DEF SamePlaces, Numbering, PassedNumbered
<1>6. QED
  BY <1>3, <1>4, <1>5 DEF Numbering

\* A request joins the channel.
LEMMA JoiningStarts ==
  ASSUME QueueTypeOK, NEW r, Joins(r), \A i \in 1..Len(channel) : channel[i] # Stop
  PROVE  /\ Len(channel') = Len(channel) + 1 /\ channel'[Len(channel) + 1] = r /\ r # Stop
         /\ \A i \in 1..Len(channel) : channel'[i] = channel[i]
         /\ \A i \in 1..Len(channel) + 1 : StartOf(i)' = StartOf(i)
         /\ \A i : i = Len(channel) + 2 => StartOf(i)' = issued' + 1
         /\ QueueAt' = QueueAt
<1>0. ChannelOK /\ ThreadOK /\ issued \in Nat
  BY DEF QueueTypeOK, CountersOK
<1>1. /\ Len(channel) \in Nat
      /\ Len(channel') = Len(channel) + 1 /\ channel'[Len(channel) + 1] = r
      /\ \A i \in 1..Len(channel) : channel'[i] = channel[i]
  <2>1. channel \in Seq(Admitted \cup {Stop}) /\ r \in Admitted \cup {Stop}
        /\ channel' = Append(channel, r)
    BY <1>0 DEF ChannelOK, Joins
  <2>2. QED
    BY <2>1, AppendIs
<1>2. r # Stop /\ r.first = issued + 1
  BY AdmittedFields DEF Joins
<1>3. ASSUME NEW i \in 1..Len(channel) + 1 PROVE StartOf(i)' = StartOf(i)
  <2>1. CASE i \in 1..Len(channel)
    <3>1. i \in 1..Len(channel')
      BY <1>1, <2>1
    <3>2. QED
      BY <1>1, <2>1, <3>1 DEF StartOf
  <2>2. CASE i = Len(channel) + 1
    <3>1. i \in 1..Len(channel') /\ ~(i \in 1..Len(channel))
      BY <1>1, <2>2
    <3>2. QED
      BY <1>1, <1>2, <2>2, <3>1 DEF StartOf
  <2>3. QED
    BY <1>1, <2>1, <2>2
<1>4. ASSUME NEW i, i = Len(channel) + 2 PROVE StartOf(i)' = issued' + 1
  <2>1. ~(i \in 1..Len(channel'))
    BY <1>1, <1>4
  <2>2. QED
    BY <2>1, <1>1 DEF StartOf
<1>5. QueueAt' = QueueAt
  <2>1. queue' = queue
    BY DEF Joins
  <2>2. (Busy' <=> Busy) /\ StartOf(1)' = StartOf(1)
    BY <1>1, <1>3, <2>1 DEF Busy
  <2>3. CASE Busy
    BY <2>1, <2>2, <2>3 DEF QueueAt
  <2>4. CASE ~Busy
    BY <2>2, <2>4 DEF QueueAt
  <2>5. QED
    BY <2>3, <2>4
<1>6. QED
  BY <1>1, <1>2, <1>3, <1>4, <1>5

\* A request that joins the channel has the next numbers.
LEMMA NumberingJoins ==
  ASSUME QueueTypeOK, Shutdown, Numbering, NEW r, Joins(r), device = "open"
  PROVE  Numbering'
<1>0. ChannelOK /\ issued \in Nat /\ Numbering
  BY DEF QueueTypeOK, CountersOK
<1>n. \A i \in 1..Len(channel) : channel[i] # Stop
  BY DEF Shutdown
<1>1. /\ Len(channel') = Len(channel) + 1 /\ channel'[Len(channel) + 1] = r /\ r # Stop
      /\ \A i \in 1..Len(channel) : channel'[i] = channel[i]
      /\ \A i \in 1..Len(channel) + 1 : StartOf(i)' = StartOf(i)
      /\ \A i : i = Len(channel) + 2 => StartOf(i)' = issued' + 1
      /\ QueueAt' = QueueAt
  BY <1>n, JoiningStarts
<1>2. /\ Len(channel) \in Nat /\ r.first = issued + 1 /\ Len(r.packets) \in Nat \ {0}
      /\ issued' = issued + Len(r.packets)
  BY <1>0, ChannelAt DEF Joins
<1>3. \A i \in 1..Len(channel) :
         /\ channel[i].first \in Nat /\ Len(channel[i].packets) \in Nat
         /\ channel[i].first + Len(channel[i].packets) = StartOf(i + 1)
         /\ channel[i].first + Len(channel[i].packets) <= issued + 1
  BY <1>0, <1>n, ChannelAt DEF Numbering, ChannelNumbered
<1>4. ChannelNumbered'
  <2>1. ASSUME NEW i \in 1..Len(channel') 
        PROVE  /\ channel'[i].first + Len(channel'[i].packets) = StartOf(i + 1)'
               /\ channel'[i].first + Len(channel'[i].packets) <= issued' + 1
    <3>1. CASE i \in 1..Len(channel)
      <4>1. i + 1 \in 1..Len(channel) + 1 /\ channel'[i] = channel[i]
        BY <1>1, <1>2, <3>1
      <4>2. StartOf(i + 1)' = StartOf(i + 1)
        BY <1>1, <4>1
      <4>3. /\ channel[i].first \in Nat /\ Len(channel[i].packets) \in Nat
            /\ channel[i].first + Len(channel[i].packets) = StartOf(i + 1)
            /\ channel[i].first + Len(channel[i].packets) <= issued + 1
        BY <1>3, <3>1
      <4>4. issued \in Nat
        BY <1>0
      <4>5. issued + 1 <= issued' + 1 /\ issued' \in Nat
        BY <1>2, <4>4
      <4>6. channel[i].first + Len(channel[i].packets) <= issued' + 1
        <5>1. ASSUME NEW a \in Nat, NEW b \in Nat, NEW c \in Nat, NEW d \in Nat, a + b <= c + 1, c + 1 <= d + 1
              PROVE  a + b <= d + 1
          BY <5>1
        <5>2. QED
          BY <4>3, <4>4, <4>5, <5>1
      <4>7. QED
        BY <4>1, <4>2, <4>3, <4>6
    <3>2. CASE i = Len(channel) + 1
      <4>1. i + 1 = Len(channel) + 2
        BY <1>2, <3>2
      <4>2. StartOf(i + 1)' = issued' + 1
        BY <1>1, <4>1
      <4>3. channel'[i] = r
        BY <1>1, <3>2
      <4>4. QED
        BY <1>0, <1>2, <4>2, <4>3
    <3>3. QED
      BY <1>1, <1>2, <3>1, <3>2
  <2>2. ASSUME NEW i \in 1..Len(channel'), NEW j \in 1..Len(channel'), i < j
        PROVE  channel'[i].first + Len(channel'[i].packets) <= channel'[j].first
    <3>1. i \in 1..Len(channel) /\ channel'[i] = channel[i]
      BY <1>1, <1>2, <2>2
    <3>2. CASE j \in 1..Len(channel)
      BY <1>0, <1>1, <1>n, <2>2, <3>1, <3>2 DEF Numbering, ChannelNumbered
    <3>3. CASE j = Len(channel) + 1
      BY <1>1, <1>2, <1>3, <3>1, <3>3
    <3>4. QED
      BY <1>1, <1>2, <3>2, <3>3
  <2>3. QED
    BY <2>1, <2>2 DEF ChannelNumbered
<1>5. UNCHANGED <<queue, observed, completion>>
  BY DEF Joins
<1>6. StartOf(1)' = StartOf(1)
  BY <1>1, <1>2
<1>7. ThreadNumbered' /\ ObservedNumbered' /\ ItemNumbered'
  BY <1>5, <1>6 DEF Numbering, ThreadNumbered, ObservedNumbered, ItemNumbered, Busy, InHand
<1>8. PassedNumbered'
  BY <1>1, <1>5 DEF Numbering, PassedNumbered, InHand
<1>9. QED
  BY <1>4, <1>7, <1>8 DEF Numbering

\* The request to stop joins the channel.
LEMMA StoppingStarts ==
  ASSUME QueueTypeOK, StopQueue
  PROVE  /\ Len(channel') = Len(channel) + 1 /\ channel'[Len(channel) + 1] = Stop
         /\ \A i \in 1..Len(channel) : channel'[i] = channel[i]
         /\ \A i : StartOf(i)' = StartOf(i)
         /\ QueueAt' = QueueAt
<1>0. ChannelOK /\ ThreadOK /\ issued \in Nat
  BY DEF QueueTypeOK, CountersOK
<1>1. /\ Len(channel) \in Nat
      /\ Len(channel') = Len(channel) + 1 /\ channel'[Len(channel) + 1] = Stop
      /\ \A i \in 1..Len(channel) : channel'[i] = channel[i]
  <2>1. channel \in Seq(Admitted \cup {Stop}) /\ Stop \in Admitted \cup {Stop}
        /\ channel' = Append(channel, Stop)
    BY <1>0, OtherMoves DEF ChannelOK
  <2>2. QED
    BY <2>1, AppendIs
<1>2. issued' = issued /\ queue' = queue
  BY OtherMoves
<1>3. ASSUME NEW i PROVE StartOf(i)' = StartOf(i)
  <2>1. CASE i \in 1..Len(channel)
    <3>1. i \in 1..Len(channel')
      BY <1>1, <2>1
    <3>2. QED
      BY <1>1, <1>2, <2>1, <3>1 DEF StartOf
  <2>2. CASE i = Len(channel) + 1
    <3>1. ~(i \in 1..Len(channel))
      BY <1>1, <2>2
    <3>2. QED
      BY <1>1, <1>2, <2>2, <3>1 DEF StartOf
  <2>3. CASE ~(i \in 1..Len(channel')) /\ ~(i \in 1..Len(channel))
    BY <1>2, <2>3 DEF StartOf
  <2>4. i \in 1..Len(channel') => i \in 1..Len(channel) \/ i = Len(channel) + 1
    BY <1>1
  <2>5. QED
    BY <2>1, <2>2, <2>3, <2>4
<1>4. QueueAt' = QueueAt
  <2>1. (Busy' <=> Busy) /\ StartOf(1)' = StartOf(1)
    BY <1>2, <1>3 DEF Busy
  <2>2. CASE Busy
    BY <1>2, <2>1, <2>2 DEF QueueAt
  <2>3. CASE ~Busy
    BY <2>1, <2>3 DEF QueueAt
  <2>4. QED
    BY <2>2, <2>3
<1>5. QED
  BY <1>1, <1>3, <1>4

\* The marker at the end of the channel has no number.
LEMMA NumberingStops ==
  ASSUME QueueTypeOK, Numbering, StopQueue
  PROVE  Numbering'
<1>0. ChannelOK
  BY DEF QueueTypeOK
<1>1. /\ Len(channel') = Len(channel) + 1 /\ channel'[Len(channel) + 1] = Stop
      /\ \A i \in 1..Len(channel) : channel'[i] = channel[i]
      /\ \A i : StartOf(i)' = StartOf(i)
      /\ QueueAt' = QueueAt
  BY StoppingStarts
<1>2. UNCHANGED <<queue, observed, completion, issued>>
  BY OtherMoves
<1>3. \A i \in 1..Len(channel') : channel'[i] # Stop => i \in 1..Len(channel) /\ channel'[i] = channel[i]
  BY <1>0, <1>1, ChannelAt
<1>4. ChannelNumbered'
  BY <1>1, <1>2, <1>3 DEF Numbering, ChannelNumbered
<1>5. ThreadNumbered' /\ ObservedNumbered' /\ ItemNumbered'
  BY <1>1, <1>2 DEF Numbering, ThreadNumbered, ObservedNumbered, ItemNumbered, Busy, InHand
<1>6. PassedNumbered'
  BY <1>1, <1>2 DEF Numbering, PassedNumbered, InHand
<1>7. QED
  BY <1>4, <1>5, <1>6 DEF Numbering

\* The queue thread takes the next request.
LEMMA ReceivingStarts ==
  ASSUME QueueTypeOK, Shutdown, Receive
  PROVE  /\ Len(channel) \in Nat \ {0} /\ Len(channel') = Len(channel) - 1
         /\ \A i \in 1..Len(channel) - 1 : channel'[i] = channel[i + 1]
         /\ \A i \in 1..Len(channel) : StartOf(i)' = StartOf(i + 1)
         /\ issued' = issued
<1>0. ChannelOK /\ ThreadOK /\ issued \in Nat
  BY DEF QueueTypeOK, CountersOK
<1>1. channel # << >> /\ channel' = Tail(channel) /\ issued' = issued
  BY <1>0, ReceiveGoes, OtherMoves
<1>2. /\ Len(channel) \in Nat \ {0} /\ Len(channel') = Len(channel) - 1
      /\ \A i \in 1..Len(channel) - 1 : channel'[i] = channel[i + 1]
  BY <1>0, <1>1, HeadTyped
<1>3. ASSUME NEW i \in 1..Len(channel) PROVE StartOf(i)' = StartOf(i + 1)
  <2>1. CASE i \in 1..Len(channel) - 1
    <3>1. i \in 1..Len(channel') /\ i + 1 \in 1..Len(channel) /\ channel'[i] = channel[i + 1]
      BY <1>2, <2>1
    <3>2. QED
      BY <1>1, <3>1 DEF StartOf
  <2>2. CASE i = Len(channel)
    <3>1. ~(i \in 1..Len(channel')) /\ ~(i + 1 \in 1..Len(channel))
      BY <1>2, <2>2
    <3>2. QED
      BY <1>1, <3>1 DEF StartOf
  <2>3. QED
    BY <1>2, <2>1, <2>2
<1>4. QED
  BY <1>1, <1>2, <1>3

\* Taking a request does not move the queue thread's number.
LEMMA ReceivingAt ==
  ASSUME QueueTypeOK, Shutdown, Numbering, Receive
  PROVE  /\ QueueAt' = QueueAt
         /\ Head(channel) # Stop =>
              /\ queue'.request = channel[1] /\ Busy'
              /\ channel[1].first + Len(channel[1].packets) = StartOf(1)'
         /\ Head(channel) = Stop => ~Busy' /\ Len(channel) = 1
<1>0. ChannelOK /\ ThreadOK /\ issued \in Nat
  BY DEF QueueTypeOK, CountersOK
<1>1. /\ Len(channel) \in Nat \ {0}
      /\ \A i \in 1..Len(channel) : StartOf(i)' = StartOf(i + 1)
      /\ issued' = issued /\ channel[1] = Head(channel) /\ ~Busy
  BY <1>0, ReceivingStarts, HeadTyped, ReceiveGoes
<1>2. 1 \in 1..Len(channel) /\ StartOf(1)' = StartOf(2)
  <2>1. 1 \in 1..Len(channel) /\ 1 + 1 = 2
    BY <1>1
  <2>2. QED
    BY <1>1, <2>1
<1>3. QueueAt = StartOf(1)
  BY <1>1 DEF QueueAt
<1>4. CASE Head(channel) = Stop
  <2>1. Len(channel) = 1
    BY <1>1, <1>2, <1>4 DEF Shutdown
  <2>2. ~Busy'
    BY <1>0, <1>4, ReceiveGoes DEF Busy, BusyStages
  <2>3. QueueAt' = StartOf(1)'
    BY <2>2 DEF QueueAt
  <2>4. StartOf(1) = issued + 1
    BY <1>1, <1>4 DEF StartOf
  <2>5. StartOf(2) = issued + 1
    BY <2>1 DEF StartOf
  <2>6. QED
    BY <1>2, <1>3, <1>4, <2>1, <2>2, <2>3, <2>4, <2>5
<1>5. CASE Head(channel) # Stop
  <2>1. /\ queue'.request = channel[1] /\ queue'.index = 1 /\ queue'.stage \in {"drain", "wait"}
    BY <1>0, <1>1, <1>5, ReceiveGoes
  <2>2. Busy'
    BY <2>1 DEF Busy, BusyStages
  <2>3. QueueAt' = queue'.request.first + queue'.index - 1
    BY <2>2 DEF QueueAt
  <2>4. StartOf(1) = channel[1].first
    BY <1>1, <1>2, <1>5 DEF StartOf
  <2>5. channel[1].first \in Nat
    BY <1>0, <1>1, <1>2, <1>5, ChannelAt
  <2>6. QueueAt' = QueueAt
    BY <1>3, <2>1, <2>3, <2>4, <2>5
  <2>7. channel[1].first + Len(channel[1].packets) = StartOf(2)
    <3>1. channel[1].first + Len(channel[1].packets) = StartOf(1 + 1)
      BY <1>1, <1>2, <1>5 DEF Numbering, ChannelNumbered
    <3>2. QED
      BY <3>1
  <2>8. QED
    BY <1>2, <1>5, <2>1, <2>2, <2>6, <2>7
<1>6. QED
  BY <1>4, <1>5

\* The queue thread takes the next numbers.
LEMMA NumberingReceives ==
  ASSUME QueueTypeOK, Shutdown, Numbering, Receive
  PROVE  Numbering'
<1>0. ChannelOK /\ ThreadOK /\ issued \in Nat /\ Len(channel) \in Nat
  BY ChannelAt DEF QueueTypeOK, CountersOK
<1>1. /\ Len(channel) \in Nat \ {0} /\ Len(channel') = Len(channel) - 1
      /\ \A i \in 1..Len(channel) - 1 : channel'[i] = channel[i + 1]
      /\ \A i \in 1..Len(channel) : StartOf(i)' = StartOf(i + 1)
      /\ issued' = issued
  BY ReceivingStarts
<1>2. /\ QueueAt' = QueueAt
      /\ Head(channel) # Stop =>
           /\ queue'.request = channel[1]
           /\ channel[1].first + Len(channel[1].packets) = StartOf(1)'
      /\ Head(channel) = Stop => ~Busy'
  BY ReceivingAt
<1>3. UNCHANGED <<observed, completion>>
  BY OtherMoves
<1>4. ChannelNumbered'
  <2>1. \A i \in 1..Len(channel') :
           /\ i \in Nat /\ i + 1 \in 1..Len(channel) /\ channel'[i] = channel[i + 1]
           /\ i + 1 \in Nat
    BY <1>1
  <2>2. ASSUME NEW i \in 1..Len(channel'), channel'[i] # Stop
        PROVE  /\ channel'[i].first + Len(channel'[i].packets) = StartOf(i + 1)'
               /\ channel'[i].first + Len(channel'[i].packets) <= issued' + 1
    <3>1. StartOf(i + 1)' = StartOf(i + 1 + 1)
      BY <1>1, <2>1
    <3>2. QED
      BY <1>1, <2>1, <2>2, <3>1 DEF Numbering, ChannelNumbered
  <2>3. ASSUME NEW i \in 1..Len(channel'), NEW j \in 1..Len(channel'), i < j, channel'[i] # Stop,
               channel'[j] # Stop
        PROVE  channel'[i].first + Len(channel'[i].packets) <= channel'[j].first
    <3>1. i + 1 < j + 1
      BY <2>1, <2>3
    <3>2. QED
      BY <2>1, <2>3, <3>1 DEF Numbering, ChannelNumbered
  <2>4. QED
    BY <2>2, <2>3 DEF ChannelNumbered
<1>5. ThreadNumbered'
  BY <1>2 DEF ThreadNumbered
<1>6. ObservedNumbered' /\ ItemNumbered'
  BY <1>3 DEF Numbering, ObservedNumbered, ItemNumbered, InHand
<1>7. PassedNumbered'
  BY <1>2, <1>3 DEF Numbering, PassedNumbered, InHand
<1>8. QED
  BY <1>4, <1>5, <1>6, <1>7 DEF Numbering

\* The queue thread passes a packet on.
LEMMA ObservingAt ==
  ASSUME QueueTypeOK, Shutdown, Numbering, Observe
  PROVE  /\ QueueAt' = QueueAt + 1
         /\ \A i : StartOf(i)' = StartOf(i)
         /\ queue.request.first + queue.index - 1 = QueueAt
         /\ Busy' <=> queue.index # Len(queue.request.packets)
<1>0. ChannelOK /\ ThreadOK /\ issued \in Nat
  BY DEF QueueTypeOK, CountersOK
<1>1. UNCHANGED <<channel, issued>>
  BY OtherMoves
<1>2. \A i : StartOf(i)' = StartOf(i)
  BY <1>1 DEF StartOf
<1>3. /\ Busy /\ queue'.request = queue.request
      /\ IF queue.index = Len(queue.request.packets)
         THEN queue'.stage = "recv"
         ELSE queue'.stage = "wait" /\ queue'.index = queue.index + 1
  BY <1>0, ObserveGoes
<1>4. /\ queue.request.first \in Nat /\ queue.index \in 1..Len(queue.request.packets)
      /\ Len(queue.request.packets) \in Nat /\ queue.index \in Nat
  BY <1>0, <1>3, RequestTyped
<1>5. QueueAt = queue.request.first + queue.index - 1
  BY <1>3 DEF QueueAt
<1>6. queue.request.first + Len(queue.request.packets) = StartOf(1)
  BY <1>3 DEF Numbering, ThreadNumbered
<1>7. CASE queue.index = Len(queue.request.packets)
  <2>1. ~Busy'
    BY <1>3, <1>7 DEF Busy, BusyStages
  <2>2. QueueAt' = StartOf(1)'
    BY <2>1 DEF QueueAt
  <2>3. StartOf(1)' = StartOf(1)
    BY <1>2
  <2>4. QueueAt' = QueueAt + 1
    BY <1>4, <1>5, <1>6, <1>7, <2>2, <2>3
  <2>5. QED
    BY <1>2, <1>5, <1>7, <2>1, <2>4
<1>8. CASE queue.index # Len(queue.request.packets)
  <2>1. Busy' /\ queue'.index = queue.index + 1 /\ queue'.request.first = queue.request.first
    BY <1>3, <1>8 DEF Busy, BusyStages
  <2>2. QueueAt' = queue'.request.first + queue'.index - 1
    BY <2>1 DEF QueueAt
  <2>3. QueueAt' = QueueAt + 1
    BY <1>4, <1>5, <2>1, <2>2
  <2>4. QED
    BY <1>2, <1>5, <1>8, <2>1, <2>3
<1>9. QED
  BY <1>7, <1>8

\* A packet is passed on in the order of its number.
LEMMA NumberingObserves ==
  ASSUME QueueTypeOK, Shutdown, Numbering, Observe
  PROVE  Numbering'
<1>0. ChannelOK /\ ThreadOK /\ ObservedOK /\ CompletionOK /\ issued \in Nat
  BY DEF QueueTypeOK, CountersOK
<1>1. /\ QueueAt' = QueueAt + 1
      /\ \A i : StartOf(i)' = StartOf(i)
      /\ queue.request.first + queue.index - 1 = QueueAt
  BY ObservingAt
<1>2. UNCHANGED <<channel, completion, issued>>
  BY OtherMoves
<1>3. Busy /\ queue'.request = queue.request /\ QueueAt \in Nat
  BY <1>0, ObserveGoes, QueueAtTyped
<1>4. PICK item \in Items : observed' = Append(observed, item) /\ item.id = QueueAt
  BY <1>0, <1>1, ItemPassedOn
<1>5. /\ Len(observed) \in Nat /\ Len(observed') = Len(observed) + 1
      /\ observed'[Len(observed) + 1] = item
      /\ \A i \in 1..Len(observed) : observed'[i] = observed[i]
  <2>1. observed \in Seq(Items \cup {NoItem}) /\ item \in Items \cup {NoItem}
    BY <1>0 DEF ObservedOK
  <2>2. QED
    BY <1>4, <2>1, AppendIs
<1>6. ChannelNumbered' /\ ThreadNumbered'
  BY <1>1, <1>2, <1>3 DEF Numbering, ChannelNumbered, ThreadNumbered
<1>7. \A i \in 1..Len(observed) : observed[i].id < QueueAt /\ observed[i].id \in Nat
  BY <1>0, ObservedAt DEF Numbering, PassedNumbered
<1>8. ObservedNumbered'
  <2> SUFFICES ASSUME NEW i \in 1..Len(observed'), NEW j \in 1..Len(observed'), i < j,
                      observed'[j] # NoItem
               PROVE  observed'[i].id < observed'[j].id
    BY DEF ObservedNumbered
  <2>1. i \in 1..Len(observed) /\ observed'[i] = observed[i]
    BY <1>5
  <2>2. CASE j \in 1..Len(observed)
    BY <1>5, <2>1, <2>2 DEF Numbering, ObservedNumbered
  <2>3. CASE j = Len(observed) + 1
    BY <1>4, <1>5, <1>7, <2>1, <2>3
  <2>4. QED
    BY <1>5, <2>2, <2>3
<1>9. InHand => completion.item.id < QueueAt /\ completion.item.id \in Nat
  BY <1>0, ItemTyped DEF Numbering, PassedNumbered
<1>10. ItemNumbered'
  <2> SUFFICES ASSUME InHand, NEW i \in 1..Len(observed'), observed'[i] # NoItem
               PROVE  completion.item.id < observed'[i].id
    BY <1>2 DEF ItemNumbered, InHand
  <2>1. CASE i \in 1..Len(observed)
    BY <1>5, <2>1 DEF Numbering, ItemNumbered
  <2>2. CASE i = Len(observed) + 1
    BY <1>4, <1>5, <1>9, <2>2
  <2>3. QED
    BY <1>5, <2>1, <2>2
<1>11. PassedNumbered'
  <2>1. ASSUME NEW i \in 1..Len(observed') PROVE observed'[i].id < QueueAt + 1
    <3>1. CASE i \in 1..Len(observed)
      BY <1>3, <1>5, <1>7, <3>1
    <3>2. CASE i = Len(observed) + 1
      BY <1>3, <1>4, <1>5, <3>2
    <3>3. QED
      BY <1>5, <3>1, <3>2
  <2>2. InHand => completion.item.id < QueueAt + 1
    BY <1>3, <1>9
  <2>3. QED
    BY <1>1, <1>2, <2>1, <2>2 DEF PassedNumbered, InHand
<1>12. QED
  BY <1>6, <1>8, <1>10, <1>11 DEF Numbering

\* A request that leaves takes the queue thread to the next one.
LEMMA LeavingAt ==
  ASSUME QueueTypeOK, Shutdown, Numbering, FailPackets \/ Present
  PROVE  /\ \A i : StartOf(i)' = StartOf(i)
         /\ QueueAt' = StartOf(1) /\ QueueAt < QueueAt'
         /\ QueueAt' = queue.request.first + Len(queue.request.packets)
<1>1. Leaves
  BY LeavingGoes
<1>2. \A i : StartOf(i)' = StartOf(i)
  BY <1>1 DEF Leaves, StartOf
<1>3. QueueAt' = StartOf(1)'
  BY <1>1 DEF Leaves, QueueAt
<1>4. StartOf(1)' = StartOf(1)
  BY <1>2
<1>5. QueueAt < StartOf(1)
  BY <1>1, QueueIsBehind DEF Leaves
<1>6. queue.request.first + Len(queue.request.packets) = StartOf(1)
  BY <1>1 DEF Leaves, Numbering, ThreadNumbered
<1>7. QED
  BY <1>2, <1>3, <1>4, <1>5, <1>6

\* A request that leaves keeps the numbers of the others in order.
LEMMA NumberingLeaves ==
  ASSUME QueueTypeOK, Shutdown, Numbering, FailPackets \/ Present
  PROVE  Numbering'
<1>0. ChannelOK /\ ThreadOK /\ ObservedOK /\ CompletionOK /\ issued \in Nat
  BY DEF QueueTypeOK, CountersOK
<1>1. Leaves
  BY LeavingGoes
<1>2. (\A i : StartOf(i)' = StartOf(i)) /\ QueueAt' = StartOf(1) /\ QueueAt < QueueAt'
  BY LeavingAt
<1>3. ChannelNumbered' /\ ThreadNumbered' /\ ObservedNumbered' /\ ItemNumbered'
  BY <1>1, <1>2 DEF Leaves, Numbering, ChannelNumbered, ThreadNumbered, ObservedNumbered, ItemNumbered,
     InHand
<1>4. QueueAt \in Nat /\ QueueAt' \in Nat
  BY <1>0, <1>2, QueueAtTyped, StartTyped
<1>5. PassedNumbered'
  <2>1. ASSUME NEW i \in 1..Len(observed) PROVE observed[i].id < QueueAt'
    <3>1. observed[i].id < QueueAt /\ observed[i].id \in Nat
      BY <1>0, ObservedAt DEF Numbering, PassedNumbered
    <3>2. QED
      BY <1>2, <1>4, <3>1
  <2>2. InHand => completion.item.id < QueueAt'
    <3> SUFFICES ASSUME InHand PROVE completion.item.id < QueueAt'
      OBVIOUS
    <3>1. completion.item.id < QueueAt /\ completion.item.id \in Nat
      BY <1>0, ItemTyped DEF Numbering, PassedNumbered
    <3>2. QED
      BY <1>2, <1>4, <3>1
  <2>3. QED
    BY <1>1, <2>1, <2>2 DEF Leaves, PassedNumbered, InHand
<1>6. QED
  BY <1>3, <1>5 DEF Numbering

\* Nothing moves on the side of the channel.
LEMMA SameSide ==
  ASSUME UNCHANGED <<channel, queue, issued>>
  PROVE  (\A i : StartOf(i)' = StartOf(i)) /\ QueueAt' = QueueAt /\ (Busy' <=> Busy)
<1>1. (Busy' <=> Busy) /\ \A i : StartOf(i)' = StartOf(i)
  BY DEF StartOf, Busy
<1>2. CASE Busy
  BY <1>1, <1>2 DEF QueueAt
<1>3. CASE ~Busy
  BY <1>1, <1>3 DEF QueueAt
<1>4. QED
  BY <1>2, <1>3

\* The completion thread takes the items in the order of their numbers.
LEMMA NumberingTakes ==
  ASSUME QueueTypeOK, Numbering, TakeReceipts
  PROVE  Numbering'
<1>0. ChannelOK /\ ThreadOK /\ ObservedOK /\ CompletionOK /\ issued \in Nat
  BY DEF QueueTypeOK, CountersOK
<1>1. UNCHANGED <<channel, queue, issued>>
  BY OtherMoves
<1>2. (\A i : StartOf(i)' = StartOf(i)) /\ QueueAt' = QueueAt /\ (Busy' <=> Busy)
  BY <1>1, SameSide
<1>3. /\ observed' = Tail(observed) /\ Len(observed) \in Nat \ {0}
      /\ Len(Tail(observed)) = Len(observed) - 1
      /\ \A i \in 1..Len(observed) - 1 : Tail(observed)[i] = observed[i + 1]
      /\ observed[1] = NoItem => completion'.stage = "stopped"
      /\ observed[1] # NoItem => completion'.item = observed[1]
  BY <1>0, TakeReceiptsGoes
<1>4. \A i \in 1..Len(observed') :
         i \in Nat /\ i + 1 \in 1..Len(observed) /\ observed'[i] = observed[i + 1]
  BY <1>3
<1>5. ChannelNumbered' /\ ThreadNumbered'
  BY <1>1, <1>2 DEF Numbering, ChannelNumbered, ThreadNumbered
<1>6. ObservedNumbered'
  <2> SUFFICES ASSUME NEW i \in 1..Len(observed'), NEW j \in 1..Len(observed'), i < j,
                      observed'[j] # NoItem
               PROVE  observed'[i].id < observed'[j].id
    BY DEF ObservedNumbered
  <2>1. i + 1 < j + 1
    BY <1>4
  <2>2. QED
    BY <1>4, <2>1 DEF Numbering, ObservedNumbered
<1>7. ASSUME InHand' PROVE observed[1] # NoItem /\ completion'.item = observed[1]
  BY <1>3, <1>7 DEF InHand, InHandStages
<1>8. 1 \in 1..Len(observed)
  BY <1>3
<1>9. ItemNumbered'
  <2> SUFFICES ASSUME InHand', NEW i \in 1..Len(observed'), observed'[i] # NoItem
               PROVE  completion'.item.id < observed'[i].id
    BY DEF ItemNumbered
  <2>1. 1 < i + 1
    BY <1>4
  <2>2. QED
    BY <1>4, <1>7, <1>8, <2>1 DEF Numbering, ObservedNumbered
<1>10. PassedNumbered'
  BY <1>2, <1>4, <1>7, <1>8 DEF Numbering, PassedNumbered
<1>11. QED
  BY <1>5, <1>6, <1>9, <1>10 DEF Numbering

\* The completion thread forgets its item.
LEMMA NumberingFinishes ==
  ASSUME QueueTypeOK, Numbering, FinishPending
  PROVE  Numbering'
<1>1. UNCHANGED <<channel, queue, observed, issued>> /\ ~InHand'
  BY OtherMoves, CompletionThreadGoes DEF QueueTypeOK
<1>2. (\A i : StartOf(i)' = StartOf(i)) /\ QueueAt' = QueueAt /\ (Busy' <=> Busy)
  BY <1>1, SameSide
<1>3. ChannelNumbered' /\ ThreadNumbered'
  BY <1>1, <1>2 DEF Numbering, ChannelNumbered, ThreadNumbered
<1>4. ObservedNumbered' /\ ItemNumbered'
  BY <1>1 DEF Numbering, ObservedNumbered, ItemNumbered
<1>5. PassedNumbered'
  BY <1>1, <1>2 DEF Numbering, PassedNumbered
<1>6. QED
  BY <1>3, <1>4, <1>5 DEF Numbering

\* The marker at the end of the completion channel is behind every item.
LEMMA NumberingCloses ==
  ASSUME QueueTypeOK, Numbering, StopCompletion
  PROVE  Numbering'
<1>0. ChannelOK /\ ThreadOK /\ ObservedOK /\ issued \in Nat
  BY DEF QueueTypeOK, CountersOK
<1>1. UNCHANGED <<channel, queue, completion, issued>> /\ observed' = Append(observed, NoItem)
  BY OtherMoves
<1>2. (\A i : StartOf(i)' = StartOf(i)) /\ QueueAt' = QueueAt /\ (Busy' <=> Busy)
  BY <1>1, SameSide
<1>3. /\ Len(observed) \in Nat /\ Len(observed') = Len(observed) + 1
      /\ observed'[Len(observed) + 1] = NoItem
      /\ \A i \in 1..Len(observed) : observed'[i] = observed[i]
  <2>1. observed \in Seq(Items \cup {NoItem}) /\ NoItem \in Items \cup {NoItem}
    BY <1>0 DEF ObservedOK
  <2>2. QED
    BY <1>1, <2>1, AppendIs
<1>4. \A j \in 1..Len(observed') : observed'[j] # NoItem => j \in 1..Len(observed)
  BY <1>3
<1>5. ChannelNumbered' /\ ThreadNumbered'
  BY <1>1, <1>2 DEF Numbering, ChannelNumbered, ThreadNumbered
<1>6. ObservedNumbered'
  <2> SUFFICES ASSUME NEW i \in 1..Len(observed'), NEW j \in 1..Len(observed'), i < j,
                      observed'[j] # NoItem
               PROVE  observed'[i].id < observed'[j].id
    BY DEF ObservedNumbered
  <2>1. i \in 1..Len(observed) /\ j \in 1..Len(observed)
    BY <1>3, <1>4
  <2>2. QED
    BY <1>3, <2>1 DEF Numbering, ObservedNumbered
<1>7. ItemNumbered'
  BY <1>1, <1>3, <1>4 DEF Numbering, ItemNumbered, InHand
<1>8. PassedNumbered'
  <2>1. NoItem.id < QueueAt
    <3>1. QueueAt \in Nat \ {0} /\ NoItem.id = 0
      BY <1>0, QueueAtTyped, NoItemIsNone
    <3>2. QED
      BY <3>1
  <2>2. \A i \in 1..Len(observed') : i \in 1..Len(observed) \/ i = Len(observed) + 1
    BY <1>3
  <2>3. QED
    BY <1>1, <1>2, <1>3, <2>1, <2>2 DEF Numbering, PassedNumbered, InHand
<1>9. QED
  BY <1>5, <1>6, <1>7, <1>8 DEF Numbering

\* Every step keeps the order of the numbers.
LEMMA NumberingStep ==
  QueueTypeOK /\ Shutdown /\ Numbering /\ [QueueNext]_queueVars => Numbering'
<1> SUFFICES ASSUME QueueTypeOK, Shutdown, Numbering, [QueueNext]_queueVars PROVE Numbering'
  OBVIOUS
<1>1. CASE Admit
  <2>1. device = "open"
    BY <1>1 DEF Admit, Shutdown
  <2>2. QED
    BY <1>1, <2>1, AdmitGoes, NumberingJoins, NumberingKeeps
<1>2. CASE ~Moves
  BY <1>2, QuietPlaces, NumberingKeeps
<1>3. QED
  BY <1>1, <1>2, NumberingStops, NumberingCloses, NumberingReceives, NumberingObserves, NumberingLeaves,
     NumberingTakes, NumberingFinishes DEF Moves

\* The order of the numbers holds while nothing is admitted.
LEMMA NumberingInit == QueueInit => Shutdown /\ Numbering /\ FencesAreLast
<1> SUFFICES ASSUME QueueInit PROVE Shutdown /\ Numbering /\ FencesAreLast
  OBVIOUS
<1>1. channel = << >> /\ observed = << >> /\ ~Busy /\ ~InHand /\ Len(channel) = 0 /\ Len(observed) = 0
  BY DEF QueueInit, Busy, BusyStages, InHand, InHandStages
<1>2. Shutdown
  BY <1>1 DEF QueueInit, Shutdown, Closing
<1>3. Numbering
  BY <1>1 DEF Numbering, ChannelNumbered, ThreadNumbered, ObservedNumbered, ItemNumbered, PassedNumbered
<1>4. FencesAreLast
  BY <1>1 DEF QueueInit, FencesAreLast, FenceIsLast, NoItem
<1>5. QED
  BY <1>2, <1>3, <1>4

\* The fence of a request goes with its last packet at every step.
LEMMA FencesAreLastStep == QueueTypeOK /\ FencesAreLast /\ [QueueNext]_queueVars => FencesAreLast'
<1> SUFFICES ASSUME QueueTypeOK, FencesAreLast, [QueueNext]_queueVars PROVE FencesAreLast'
  OBVIOUS
<1>0. ThreadOK /\ ObservedOK /\ CompletionOK
  BY DEF QueueTypeOK
<1>1. FenceIsLast(NoItem)
  BY DEF FenceIsLast, NoItem
<1>2. CASE observed' = observed /\ completion'.item \in {completion.item, NoItem}
  BY <1>1, <1>2 DEF FencesAreLast, FenceIsLast
<1>3. CASE ~Moves
  BY <1>2, <1>3, QuietPlaces DEF SamePlaces
<1>4. CASE Admit \/ StopQueue \/ Receive \/ FailPackets \/ Present \/ FinishPending
  <2>1. Admit => observed' = observed /\ completion' = completion
    BY DEF Admit
  <2>2. FinishPending => observed' = observed /\ completion'.item = NoItem
    BY <1>0, OtherMoves, CompletionThreadGoes
  <2>3. FailPackets \/ Present => observed' = observed /\ completion' = completion
    BY LeavingGoes DEF Leaves
  <2>4. QED
    BY <1>2, <1>4, <2>1, <2>2, <2>3, OtherMoves
<1>5. ASSUME NEW item, item \in Items \cup {NoItem}, FenceIsLast(item), observed' = Append(observed, item),
             completion' = completion
      PROVE  FencesAreLast'
  <2>1. /\ Len(observed) \in Nat /\ Len(observed') = Len(observed) + 1
        /\ observed'[Len(observed) + 1] = item
        /\ \A i \in 1..Len(observed) : observed'[i] = observed[i]
    BY <1>0, <1>5, AppendIs DEF ObservedOK
  <2>2. \A i \in 1..Len(observed') : FenceIsLast(observed'[i])
    <3>1. \A i \in 1..Len(observed') : i \in 1..Len(observed) \/ i = Len(observed) + 1
      BY <2>1
    <3>2. QED
      BY <1>5, <2>1, <3>1 DEF FencesAreLast
  <2>3. QED
    BY <1>5, <2>2 DEF FencesAreLast, FenceIsLast
<1>6. CASE StopCompletion
  BY <1>1, <1>5, <1>6, OtherMoves
<1>7. CASE Observe
  <2>1. PICK item \in Items :
           /\ observed' = Append(observed, item)
           /\ item.id = queue.request.first + queue.index - 1
           /\ item.fence = IF LastPacket THEN queue.request.fence ELSE NoFence
           /\ item.last = queue.request.first + Len(queue.request.packets) - 1
    BY <1>0, <1>7, ItemPassedOn
  <2>2. FenceIsLast(item)
    BY <2>1 DEF FenceIsLast, LastPacket
  <2>3. QED
    BY <1>5, <1>7, <2>1, <2>2, OtherMoves
<1>8. CASE TakeReceipts
  <2>1. /\ observed' = Tail(observed) /\ Len(observed) \in Nat \ {0}
        /\ Len(Tail(observed)) = Len(observed) - 1
        /\ \A i \in 1..Len(observed) - 1 : Tail(observed)[i] = observed[i + 1]
        /\ completion'.item \in {NoItem, observed[1]}
    BY <1>0, <1>8, TakeReceiptsGoes
  <2>2. 1 \in 1..Len(observed) /\
        \A i \in 1..Len(observed') : i + 1 \in 1..Len(observed) /\ observed'[i] = observed[i + 1]
    BY <2>1
  <2>3. QED
    BY <1>1, <2>1, <2>2 DEF FencesAreLast, FenceIsLast
<1>9. QED
  BY <1>3, <1>4, <1>6, <1>7, <1>8 DEF Moves

-----------------------------------------------------------------------------
(* Fences certify what was submitted before.                               *)

\* The device is lost for good, a thread that fails loses it, and what the GPU
\* did stays done.
LEMMA LossSteps ==
  ASSUME QueueTypeOK, [QueueNext]_queueVars
  PROVE  /\ lost => lost'
         /\ queue'.stage = "fail" /\ queue.stage # "fail" => lost'
         /\ completion.stage = "cancel" /\ completion'.stage # "cancel" => lost'
         /\ gpuDone \subseteq gpuDone'
<1> USE DEF queueVars, threads, histories, QueueOnly, CompletionOnly
<1>0. ThreadOK /\ CompletionOK
  BY DEF QueueTypeOK
<1>1. CASE CallStep \/ ApplicationStep
  BY <1>1 DEF CallStep, ApplicationStep, ReserveValues, ClaimFence, Admit, Submit, ResetFence,
     SignalTimeline, AcquireSync, WaitForFences, WaitTimesOut, Destroy
<1>7. CASE UNCHANGED queueVars
  BY <1>7
<1>2. CASE DestroyStep \/ CheckFences \/ WorkerLosesDevice
  <2>1. gpuDone' = gpuDone
    BY <1>2 DEF DestroyStep, StopQueue, StopCompletion, DestroyLosesDevice, CheckFences, WorkerLosesDevice
  <2>2. CASE DestroyLosesDevice \/ WorkerLosesDevice
    BY <2>1, <2>2 DEF DestroyLosesDevice, WorkerLosesDevice
  <2>3. CASE StopQueue \/ StopCompletion \/ CheckFences
    <3>1. UNCHANGED <<lost, queue, completion>>
      BY <2>3 DEF StopQueue, StopCompletion, CheckFences
    <3>2. QED
      BY <2>1, <3>1
  <2>4. QED
    BY <1>2, <2>2, <2>3 DEF DestroyStep
<1>3. CASE Notify
  <2>1. UNCHANGED <<lost, gpuDone, completion>> /\ queue' = QueueWoken(queue)
    BY <1>3 DEF Notify
  <2>2. QED
    BY <1>0, <2>1, QueueWakes
<1>4. CASE QueueThread
  <2>1. UNCHANGED completion
    BY <1>4 DEF QueueThread, Receive, WaitSemaphore, ReserveSignals, Execute, ExecuteFails, Observe,
       LoseDevice, FailPackets, DrainForPresent, Present, PresentFails
  <2>2. (lost => lost') /\ gpuDone \subseteq gpuDone' /\ (LoseDevice => lost')
    BY <1>4 DEF QueueThread, Receive, WaitSemaphore, ReserveSignals, Execute, ExecuteFails, Observe,
       LoseDevice, FailPackets, DrainForPresent, Present, PresentFails
  <2>3. Receive \/ Observe => queue'.stage # "fail"
    BY <1>0, ReceiveGoes, ObserveGoes DEF QueueTypeOK
  <2>4. ~LoseDevice => queue'.stage # "fail"
    BY <1>0, <1>4, <2>3, QueueThreadGoes DEF QueueThread
  <2>5. QED
    BY <2>1, <2>2, <2>4
<1>5. CASE CompletionThread
  <2>1. queue' = queue \/ queue' = QueueWoken(queue)
    BY <1>5 DEF CompletionThread, TakeReceipts, ReceiptsComplete, ReceiptFails, PublishSignals,
       CancelSignals, FinishInFlight, FinishPending, WakeUp
  <2>2. (lost => lost') /\ gpuDone \subseteq gpuDone' /\ (CancelSignals => lost')
    BY <1>5 DEF CompletionThread, TakeReceipts, ReceiptsComplete, ReceiptFails, PublishSignals,
       CancelSignals, FinishInFlight, FinishPending
  <2>3. TakeReceipts => completion.stage # "cancel"
    BY DEF TakeReceipts
  <2>4. ~CancelSignals => completion.stage # "cancel"
    BY <1>0, <1>5, <2>3, CompletionThreadGoes DEF CompletionThread
  <2>5. queue'.stage = "fail" => queue.stage = "fail"
    BY <1>0, <2>1, QueueWakes
  <2>6. QED
    BY <2>2, <2>4, <2>5
<1>6. QED
  BY <1>1, <1>2, <1>3, <1>4, <1>5, <1>7 DEF QueueNext

\* What fences certify changes when one is signaled or reset.
LEMMA CertifiedSteps ==
  ASSUME QueueTypeOK, [QueueNext]_queueVars
  PROVE  \/ certified' = certified
         \/ \E f \in Fences : certified' = [certified EXCEPT ![f] = 0]
         \/ PublishSignals
<1> USE DEF queueVars, histories, QueueOnly, CompletionOnly
<1>1. CASE CallStep
  BY <1>1 DEF CallStep, ReserveValues, ClaimFence, Admit
<1>2. CASE ApplicationStep
  BY <1>2 DEF ApplicationStep, Submit, ResetFence, SignalTimeline, AcquireSync, WaitForFences,
     WaitTimesOut, Destroy
<1>3. CASE DestroyStep \/ CheckFences \/ WorkerLosesDevice \/ Notify \/ UNCHANGED queueVars
  BY <1>3 DEF DestroyStep, StopQueue, StopCompletion, DestroyLosesDevice, CheckFences, WorkerLosesDevice,
     Notify
<1>4. CASE QueueThread
  BY <1>4 DEF QueueThread, Receive, WaitSemaphore, ReserveSignals, Execute, ExecuteFails, Observe,
     LoseDevice, FailPackets, DrainForPresent, Present, PresentFails
<1>5. CASE CompletionThread
  BY <1>5 DEF CompletionThread, TakeReceipts, ReceiptsComplete, ReceiptFails, CancelSignals,
     FinishInFlight, FinishPending
<1>6. QED
  BY <1>1, <1>2, <1>3, <1>4, <1>5 DEF QueueNext

\* Each thread moves by steps of its own, or is woken.
LEMMA ThreadsAlone ==
  ASSUME [QueueNext]_queueVars
  PROVE  /\ completion' = completion \/ CompletionThread
         /\ queue' = queue \/ queue' = QueueWoken(queue) \/ QueueThread
<1> USE DEF queueVars, threads, QueueOnly, CompletionOnly
<1>1. CASE CallStep \/ ApplicationStep
  BY <1>1 DEF CallStep, ApplicationStep, ReserveValues, ClaimFence, Admit, Submit, ResetFence,
     SignalTimeline, AcquireSync, WaitForFences, WaitTimesOut, Destroy
<1>2. CASE DestroyStep \/ CheckFences \/ WorkerLosesDevice \/ Notify \/ UNCHANGED queueVars
  BY <1>2 DEF DestroyStep, StopQueue, StopCompletion, DestroyLosesDevice, CheckFences, WorkerLosesDevice,
     Notify
<1>3. CASE QueueThread
  <2>1. completion' = completion
    BY <1>3 DEF QueueThread, Receive, WaitSemaphore, ReserveSignals, Execute, ExecuteFails, Observe,
       LoseDevice, FailPackets, DrainForPresent, Present, PresentFails
  <2>2. QED
    BY <1>3, <2>1
<1>4. CASE CompletionThread
  <2>1. queue' = queue \/ queue' = QueueWoken(queue)
    BY <1>4 DEF CompletionThread, TakeReceipts, ReceiptsComplete, ReceiptFails, PublishSignals,
       CancelSignals, FinishInFlight, FinishPending, WakeUp
  <2>2. QED
    BY <1>4, <2>1
<1>5. QED
  BY <1>1, <1>2, <1>3, <1>4 DEF QueueNext

\* What was passed on stays while the completion side rests.
LEMMA PassedKeeps ==
  ASSUME UNCHANGED <<observed, completion>>
  PROVE  Passed' = Passed
BY DEF Passed

\* The conditions on a step that keep the packets before the queue thread's accounted for.
LEMMA PrefixKeeps ==
  ASSUME QueueTypeOK, Prefix, [QueueNext]_queueVars,
         \A f \in Fences : 1..certified'[f] \subseteq gpuDone',
         completion'.stage = "signal" => 1..completion'.item.id \subseteq gpuDone',
         QueueTurns \/ queue.stage # "lose",
         Healthy' => \A y \in gpuDone \cup Passed : y = 0 \/ y \in gpuDone' \cup Passed',
         Healthy' => \A y \in Passed' : y \in Passed \/ y = 0 \/ (y = QueueAt /\ queue.stage = "observe"),
         \/ QueueAt' = QueueAt
         \/ queue.stage = "fail"
         \/ QueueAt' = QueueAt + 1 /\ QueueAt \in gpuDone' \cup Passed'
  PROVE  Prefix'
<1>0. issued \in Nat /\ ChannelOK /\ ThreadOK /\ QueueAt \in Nat
  BY QueueAtTyped DEF QueueTypeOK, CountersOK
<1>1. /\ queue.stage = "fail" => lost
      /\ Healthy => \A y \in Passed : 1..y - 1 \subseteq gpuDone \cup Passed
      /\ Healthy /\ queue.stage \notin {"lose", "fail"} => 1..QueueAt - 1 \subseteq gpuDone \cup Passed
  BY DEF Prefix
<1>2. (lost => lost') /\ (queue'.stage = "fail" => lost')
  BY <1>1, LossSteps
<1>3. Healthy' => Healthy /\ ~lost
  BY LossSteps DEF Healthy
<1>4. Healthy' /\ queue'.stage \notin {"lose", "fail"} => queue.stage \notin {"lose", "fail"}
  BY <1>1, <1>3 DEF QueueTurns
<1>5. ASSUME Healthy', NEW n, 1..n \subseteq gpuDone \cup Passed PROVE 1..n \subseteq gpuDone' \cup Passed'
  <2>1. \A z \in 1..n : z # 0
    OBVIOUS
  <2>2. QED
    BY <1>5, <2>1
<1>6. ASSUME Healthy', NEW y \in Passed' PROVE 1..y - 1 \subseteq gpuDone' \cup Passed'
  <2>1. CASE y \in Passed
    <3>1. 1..y - 1 \subseteq gpuDone \cup Passed
      BY <1>1, <1>3, <1>6, <2>1
    <3>2. QED
      BY <1>5, <1>6, <3>1
  <2>2. CASE y = 0
    <3>1. 1..y - 1 = {}
      BY <2>2
    <3>2. QED
      BY <3>1
  <2>3. CASE y = QueueAt /\ queue.stage = "observe"
    <3>1. 1..QueueAt - 1 \subseteq gpuDone \cup Passed
      BY <1>1, <1>3, <1>6, <2>3
    <3>2. QED
      BY <1>5, <1>6, <2>3, <3>1
  <2>4. QED
    BY <1>6, <2>1, <2>2, <2>3
<1>7. ASSUME Healthy', queue'.stage \notin {"lose", "fail"}
      PROVE  1..QueueAt' - 1 \subseteq gpuDone' \cup Passed'
  <2>1. 1..QueueAt - 1 \subseteq gpuDone \cup Passed
    BY <1>1, <1>3, <1>4, <1>7
  <2>2. 1..QueueAt - 1 \subseteq gpuDone' \cup Passed'
    BY <1>5, <1>7, <2>1
  <2>3. CASE QueueAt' = QueueAt + 1 /\ QueueAt \in gpuDone' \cup Passed'
    <3>1. \A z \in 1..QueueAt' - 1 : z \in 1..QueueAt - 1 \/ z = QueueAt
      BY <1>0, <2>3
    <3>2. QED
      BY <2>2, <2>3, <3>1
  <2>4. queue.stage # "fail"
    BY <1>4, <1>7
  <2>5. QED
    BY <2>2, <2>3, <2>4
<1>8. QED
  BY <1>2, <1>6, <1>7 DEF Prefix

\* Every step keeps the packets before the queue thread's done or on their way.
LEMMA PrefixStep ==
  QueueTypeOK /\ Shutdown /\ Numbering /\ FencesAreLast /\ Prefix /\ [QueueNext]_queueVars => Prefix'
<1> SUFFICES ASSUME QueueTypeOK, Shutdown, Numbering, FencesAreLast, Prefix, [QueueNext]_queueVars
             PROVE  Prefix'
  OBVIOUS
<1>0. ThreadOK /\ ObservedOK /\ CompletionOK /\ ObjectsOK /\ ChannelOK /\ issued \in Nat
  BY DEF QueueTypeOK, CountersOK
<1>1. gpuDone \subseteq gpuDone'
  BY LossSteps
<1>2. \A f \in Fences : 1..certified'[f] \subseteq gpuDone'
  <2>1. \A f \in Fences : 1..certified[f] \subseteq gpuDone'
    BY <1>1 DEF Prefix
  <2>2. CASE certified' = certified
    BY <2>1, <2>2
  <2>3. ASSUME NEW f \in Fences, certified' = [certified EXCEPT ![f] = 0]
        PROVE  \A g \in Fences : 1..certified'[g] \subseteq gpuDone'
    <3>1. 1..0 = {}
      OBVIOUS
    <3>2. certified'[f] = 0 /\ \A g \in Fences : g # f => certified'[g] = certified[g]
      BY <1>0, <2>3 DEF ObjectsOK
    <3>3. QED
      BY <2>1, <3>1, <3>2
  <2>4. CASE PublishSignals
    <3>1. 1..completion.item.id \subseteq gpuDone' /\ FenceIsLast(completion.item)
      BY <1>0, <1>1, <2>4, CompletionThreadGoes DEF Prefix, FencesAreLast
    <3>2. certified' = IF completion.item.fence = NoFence THEN certified
                       ELSE [certified EXCEPT ![completion.item.fence] = completion.item.last]
      BY <2>4 DEF PublishSignals
    <3>3. CASE completion.item.fence # NoFence
      <4>1. completion.item.last = completion.item.id
        BY <3>1, <3>3 DEF FenceIsLast
      <4>2. \A g \in Fences : certified'[g] = certified[g] \/ certified'[g] = completion.item.id
        BY <1>0, <3>2, <3>3, <4>1 DEF ObjectsOK
      <4>3. QED
        BY <2>1, <3>1, <4>2
    <3>4. QED
      BY <2>1, <3>2, <3>3
  <2>5. QED
    BY <2>2, <2>3, <2>4, CertifiedSteps
<1>3. CASE ~Moves /\ ~ReceiptsComplete
  <2>1. SamePlaces /\ QueueTurns /\ CompletionTurns
    BY <1>3, QuietPlaces
  <2>2. QueueAt' = QueueAt
    BY <2>1, StartKeeps
  <2>3. completion'.stage = completion.stage \/ (completion.stage = "drain" /\ completion'.stage = "cancel")
        \/ completion'.stage \in {"finish", "retire"}
    <3>1. CASE CompletionThread
      BY <1>0, <1>3, <3>1, CompletionThreadGoes DEF CompletionThread, Moves
    <3>2. QED
      BY <3>1, ThreadsAlone
  <2>4. completion'.stage = "signal" => 1..completion'.item.id \subseteq gpuDone'
    <3>1. completion'.stage = "signal" => completion.stage = "signal"
      BY <2>3
    <3>2. QED
      BY <1>1, <2>1, <3>1 DEF SamePlaces, Prefix
  <2>5. Healthy' => Passed' = Passed
    <3>1. ASSUME Healthy' PROVE completion'.stage = "drain" <=> completion.stage = "drain"
      <4>1. completion'.stage # "cancel"
        BY <3>1 DEF Healthy
      <4>2. completion.stage = "drain" => completion'.stage \in {"drain", "signal", "cancel"}
        BY <2>1 DEF CompletionTurns
      <4>3. QED
        BY <2>3, <4>1, <4>2
    <3>2. QED
      BY <2>1, <3>1 DEF SamePlaces, Passed
  <2>6. QED
    BY <1>1, <1>2, <2>1, <2>2, <2>4, <2>5, PrefixKeeps
<1>4. CASE ReceiptsComplete
  <2> DEFINE c == completion.item.id
  <2>1. /\ completion.stage = "drain" /\ completion'.stage = (IF lost THEN "cancel" ELSE "signal")
        /\ completion'.item = completion.item /\ InHand
    BY <1>0, <1>4, CompletionThreadGoes
  <2>2. gpuDone' = gpuDone \cup {c} /\ UNCHANGED <<channel, observed, queue, issued, lost>>
    BY <1>4 DEF ReceiptsComplete, CompletionOnly
  <2>3. QueueAt' = QueueAt /\ QueueTurns
    BY <2>2, SameSide DEF QueueTurns
  <2>4. c \in Nat \ {0}
    BY <1>0, <2>1, ItemTyped
  <2>5. Passed = {observed[i].id : i \in 1..Len(observed)} \cup {c}
    BY <2>1 DEF Passed
  <2>6. Passed' = {observed[i].id : i \in 1..Len(observed)}
    BY <2>1, <2>2 DEF Passed
  <2>7. ASSUME ~lost PROVE 1..c \subseteq gpuDone'
    <3>1. Healthy /\ c \in Passed
      BY <2>1, <2>5, <2>7 DEF Healthy
    <3>2. 1..c - 1 \subseteq gpuDone \cup Passed
      BY <3>1 DEF Prefix
    <3>3. ASSUME NEW z \in 1..c, z # c PROVE z \in gpuDone
      <4>1. z \in 1..c - 1 /\ z \in Nat /\ z > 0 /\ z < c
        BY <2>4, <3>3
      <4>2. ASSUME NEW i \in 1..Len(observed), z = observed[i].id PROVE FALSE
        <5>1. observed[i] # NoItem
          BY <4>1, <4>2, NoItemIsNone
        <5>2. c < observed[i].id
          BY <2>1, <5>1 DEF Numbering, ItemNumbered
        <5>3. QED
          BY <2>4, <4>1, <4>2, <5>2
      <4>3. z \in gpuDone \cup Passed
        BY <3>2, <4>1
      <4>4. QED
        BY <2>5, <3>3, <4>2, <4>3
    <3>4. QED
      BY <2>2, <3>3
  <2> HIDE DEF c
  <2>8. completion'.stage = "signal" => 1..completion'.item.id \subseteq gpuDone'
    <3>1. completion'.stage = "signal" => ~lost
      BY <2>1
    <3>2. completion'.item.id = c
      BY <2>1 DEF c
    <3>3. QED
      BY <2>7, <3>1, <3>2
  <2>9. (\A y \in gpuDone \cup Passed : y = 0 \/ y \in gpuDone' \cup Passed')
        /\ \A y \in Passed' : y \in Passed
    BY <2>2, <2>5, <2>6
  <2>10. QED
    BY <1>2, <2>3, <2>8, <2>9, PrefixKeeps
<1>5. ASSUME QueueAt' = QueueAt, UNCHANGED <<observed, completion>>, QueueTurns \/ queue.stage # "lose"
      PROVE  Prefix'
  <2>1. Passed' = Passed
    BY <1>5, PassedKeeps
  <2>2. completion'.stage = "signal" => 1..completion'.item.id \subseteq gpuDone'
    BY <1>1, <1>5 DEF Prefix
  <2>3. QED
    BY <1>1, <1>2, <1>5, <2>1, <2>2, PrefixKeeps
<1>6. CASE Admit
  <2>1. CASE \E r : Joins(r)
    <3>1. PICK r : Joins(r)
      BY <2>1
    <3>2. \A i \in 1..Len(channel) : channel[i] # Stop
      BY <1>6 DEF Admit, Shutdown
    <3>3. QueueAt' = QueueAt
      BY <3>1, <3>2, JoiningStarts
    <3>4. QED
      BY <1>5, <3>1, <3>3 DEF Joins, QueueTurns
  <2>2. CASE SamePlaces /\ queue' = queue /\ completion' = completion
    BY <1>5, <2>2, StartKeeps DEF SamePlaces, QueueTurns
  <2>3. QED
    BY <1>6, <2>1, <2>2, AdmitGoes
<1>7. CASE StopQueue
  BY <1>5, <1>7, StoppingStarts, OtherMoves DEF QueueTurns
<1>8. CASE Receive
  BY <1>0, <1>5, <1>8, ReceiveGoes, ReceivingAt, OtherMoves
<1>9. CASE Observe
  <2>1. QueueAt' = QueueAt + 1 /\ queue.request.first + queue.index - 1 = QueueAt
    BY <1>9, ObservingAt
  <2>2. PICK item \in Items :
           observed' = Append(observed, item) /\ item.id = queue.request.first + queue.index - 1
    BY <1>0, <1>9, ItemPassedOn
  <2>3. /\ Len(observed) \in Nat /\ Len(observed') = Len(observed) + 1
        /\ observed'[Len(observed) + 1] = item
        /\ \A i \in 1..Len(observed) : observed'[i] = observed[i]
    BY <1>0, <2>2, AppendIs DEF ObservedOK
  <2>4. completion' = completion /\ queue.stage = "observe"
    BY <1>0, <1>9, OtherMoves, ObserveGoes
  <2>5. Passed' = Passed \cup {QueueAt}
    <3>1. {observed'[i].id : i \in 1..Len(observed')} = {observed[i].id : i \in 1..Len(observed)} \cup {item.id}
      <4>1. \A i \in 1..Len(observed') : i \in 1..Len(observed) \/ i = Len(observed) + 1
        BY <2>3
      <4>2. 1..Len(observed) \subseteq 1..Len(observed') /\ Len(observed) + 1 \in 1..Len(observed')
        BY <2>3
      <4>3. QED
        BY <2>3, <4>1, <4>2
    <3>2. QED
      BY <2>1, <2>2, <2>4, <3>1 DEF Passed
  <2>6. completion'.stage = "signal" => 1..completion'.item.id \subseteq gpuDone'
    BY <1>1, <2>4 DEF Prefix
  <2>7. QED
    BY <1>1, <1>2, <2>1, <2>4, <2>5, <2>6, PrefixKeeps
<1>10. CASE FailPackets
  <2>1. UNCHANGED <<observed, completion>> /\ queue.stage = "fail"
    BY <1>0, <1>10, LeavingGoes, QueueThreadGoes DEF Leaves
  <2>2. Passed' = Passed
    BY <2>1, PassedKeeps
  <2>3. completion'.stage = "signal" => 1..completion'.item.id \subseteq gpuDone'
    BY <1>1, <2>1 DEF Prefix
  <2>4. QED
    BY <1>1, <1>2, <2>1, <2>2, <2>3, PrefixKeeps
<1>11. CASE Present
  <2>1. UNCHANGED <<observed, completion>> /\ queue.stage = "wait" /\ Busy
    BY <1>0, <1>11, LeavingGoes, QueueThreadGoes DEF Leaves
  <2>2. queue.request.kind = "present" /\ gpuDone' = gpuDone \cup {queue.request.first}
    BY <1>11 DEF Present
  <2>3. /\ queue.request \in Requests /\ queue.index \in 1..Len(queue.request.packets)
        /\ queue.request.first \in Nat
    BY <1>0, <2>1, RequestTyped
  <2>4. Len(queue.request.packets) = 1
    BY <2>2, <2>3, RequestFields
  <2>5. QueueAt = queue.request.first
    <3>1. queue.index = 1
      BY <2>3, <2>4
    <3>2. QED
      BY <1>0, <2>1, <2>3, <3>1, QueueAtTyped
  <2>6. QueueAt' = QueueAt + 1
    BY <1>11, <2>4, <2>5, LeavingAt
  <2>7. Passed' = Passed
    BY <2>1, PassedKeeps
  <2>8. completion'.stage = "signal" => 1..completion'.item.id \subseteq gpuDone'
    BY <1>1, <2>1 DEF Prefix
  <2>9. QueueAt \in gpuDone'
    BY <2>2, <2>5
  <2>10. QED
    BY <1>1, <1>2, <2>1, <2>6, <2>7, <2>8, <2>9, PrefixKeeps
<1>12. CASE StopCompletion
  <2>1. /\ observed' = Append(observed, NoItem) /\ queue.stage = "stopped"
        /\ UNCHANGED <<channel, queue, completion, issued>>
    BY <1>12, OtherMoves
  <2>2. QueueAt' = QueueAt
    BY <2>1, SameSide
  <2>3. /\ Len(observed) \in Nat /\ Len(observed') = Len(observed) + 1
        /\ observed'[Len(observed) + 1] = NoItem
        /\ \A i \in 1..Len(observed) : observed'[i] = observed[i]
    <3>1. observed \in Seq(Items \cup {NoItem}) /\ NoItem \in Items \cup {NoItem}
      BY <1>0 DEF ObservedOK
    <3>2. QED
      BY <2>1, <3>1, AppendIs
  <2>4. Passed' = Passed \cup {0}
    <3>1. {observed'[i].id : i \in 1..Len(observed')} = {observed[i].id : i \in 1..Len(observed)} \cup {NoItem.id}
      <4>1. \A i \in 1..Len(observed') : i \in 1..Len(observed) \/ i = Len(observed) + 1
        BY <2>3
      <4>2. 1..Len(observed) \subseteq 1..Len(observed') /\ Len(observed) + 1 \in 1..Len(observed')
        BY <2>3
      <4>3. QED
        BY <2>3, <4>1, <4>2
    <3>2. QED
      BY <2>1, <3>1, NoItemIsNone DEF Passed
  <2>5. completion'.stage = "signal" => 1..completion'.item.id \subseteq gpuDone'
    BY <1>1, <2>1 DEF Prefix
  <2>6. QED
    BY <1>1, <1>2, <2>1, <2>2, <2>4, <2>5, PrefixKeeps
<1>13. CASE TakeReceipts
  <2>1. UNCHANGED <<channel, queue, issued>>
    BY <1>13, OtherMoves
  <2>2. QueueAt' = QueueAt /\ QueueTurns
    BY <2>1, SameSide DEF QueueTurns
  <2>3. /\ completion.stage = "recv" /\ observed' = Tail(observed) /\ Len(observed) \in Nat \ {0}
        /\ Len(Tail(observed)) = Len(observed) - 1
        /\ \A i \in 1..Len(observed) - 1 : Tail(observed)[i] = observed[i + 1]
        /\ observed[1] = NoItem => completion'.stage = "stopped"
        /\ observed[1] # NoItem => completion'.stage = "drain" /\ completion'.item = observed[1]
    BY <1>0, <1>13, TakeReceiptsGoes
  <2>4. {observed[i].id : i \in 1..Len(observed)} = {observed'[i].id : i \in 1..Len(observed')} \cup {observed[1].id}
    <3>1. \A i \in 1..Len(observed') :
             i \in Nat /\ i + 1 \in 1..Len(observed) /\ observed'[i] = observed[i + 1]
      BY <2>3
    <3>2. ASSUME NEW i \in 1..Len(observed), i # 1 PROVE i - 1 \in 1..Len(observed') /\ observed'[i - 1] = observed[i]
      <4>1. i - 1 \in 1..Len(observed) - 1 /\ i - 1 + 1 = i
        BY <2>3, <3>2
      <4>2. Tail(observed)[i - 1] = observed[i - 1 + 1]
        BY <2>3, <4>1
      <4>3. QED
        BY <2>3, <4>1, <4>2
    <3>3. 1 \in 1..Len(observed)
      BY <2>3
    <3>4. \A i \in 1..Len(observed') : observed'[i].id \in {observed[j].id : j \in 1..Len(observed)}
      BY <3>1
    <3>5. \A i \in 1..Len(observed) :
             observed[i].id \in {observed'[j].id : j \in 1..Len(observed')} \cup {observed[1].id}
      <4> SUFFICES ASSUME NEW i \in 1..Len(observed)
                   PROVE  observed[i].id \in {observed'[j].id : j \in 1..Len(observed')} \cup {observed[1].id}
        OBVIOUS
      <4>1. CASE i = 1
        BY <4>1
      <4>2. CASE i # 1
        BY <3>2, <4>2
      <4>3. QED
        BY <4>1, <4>2
    <3>6. QED
      BY <3>3, <3>4, <3>5
  <2>5. Passed = {observed[i].id : i \in 1..Len(observed)}
    BY <2>3 DEF Passed
  <2>6. Passed' = {observed'[i].id : i \in 1..Len(observed')} \/ Passed' = Passed
    BY <2>3, <2>4, <2>5 DEF Passed
  <2>7. (\A y \in Passed : y = 0 \/ y \in Passed') /\ Passed' \subseteq Passed
    <3>1. CASE observed[1] = NoItem
      <4>1. observed[1].id = 0
        BY <3>1, NoItemIsNone
      <4>2. QED
        BY <2>4, <2>5, <2>6, <4>1
    <3>2. CASE observed[1] # NoItem
      <4>1. Passed' = {observed'[i].id : i \in 1..Len(observed')} \cup {observed[1].id}
        BY <2>3, <3>2 DEF Passed
      <4>2. QED
        BY <2>4, <2>5, <4>1
    <3>3. QED
      BY <3>1, <3>2
  <2>8. completion'.stage # "signal"
    BY <2>3
  <2>9. QED
    BY <1>1, <1>2, <2>2, <2>7, <2>8, PrefixKeeps
<1>14. CASE FinishPending
  <2>1. UNCHANGED <<channel, queue, observed, issued>>
    BY <1>14, OtherMoves
  <2>2. QueueAt' = QueueAt /\ QueueTurns
    BY <2>1, SameSide DEF QueueTurns
  <2>3. completion.stage = "retire" /\ completion'.stage = "recv"
    BY <1>0, <1>14, CompletionThreadGoes
  <2>4. Passed' = Passed
    BY <2>1, <2>3 DEF Passed
  <2>5. completion'.stage # "signal"
    BY <2>3
  <2>6. QED
    BY <1>1, <1>2, <2>2, <2>4, <2>5, PrefixKeeps
<1>15. QED
  BY <1>3, <1>4, <1>6, <1>7, <1>8, <1>9, <1>10, <1>11, <1>12, <1>13, <1>14 DEF Moves

\* No packet is before the first one.
LEMMA PrefixInit == QueueInit => Prefix
<1> SUFFICES ASSUME QueueInit PROVE Prefix
  OBVIOUS
<1>1. channel = << >> /\ observed = << >> /\ issued = 0 /\ ~Busy /\ Len(channel) = 0 /\ Len(observed) = 0
      /\ completion.stage = "recv" /\ queue.stage = "recv"
  BY DEF QueueInit, Busy, BusyStages
<1>2. QueueAt = 1 /\ 1..QueueAt - 1 = {}
  BY <1>1 DEF QueueAt, StartOf
<1>3. Passed = {}
  BY <1>1 DEF Passed
<1>4. \A f \in Fences : certified[f] = 0 /\ 1..certified[f] = {}
  BY DEF QueueInit
<1>5. QED
  BY <1>1, <1>2, <1>3, <1>4 DEF Prefix

-----------------------------------------------------------------------------
(* The counters of packets.                                                *)

\* The marker of the shutdown is not counted.
LEMMA ObservedCountTyped ==
  ASSUME ObservedOK
  PROVE  /\ ObservedCount \in Nat
         /\ (\A i \in 1..Len(observed) : observed[i] # NoItem) => ObservedCount = Len(observed)
<1>1. Len(observed) \in Nat /\ (observed # << >> => Len(observed) > 0)
  BY DEF ObservedOK
<1>2. CASE observed # << >> /\ observed[Len(observed)] = NoItem
  <2>1. Len(observed) \in 1..Len(observed)
    BY <1>1, <1>2
  <2>2. QED
    BY <1>1, <1>2, <2>1 DEF ObservedCount
<1>3. CASE ~(observed # << >> /\ observed[Len(observed)] = NoItem)
  BY <1>1, <1>3 DEF ObservedCount
<1>4. QED
  BY <1>2, <1>3

\* A sequence of length 0 is the empty one.
LEMMA EmptyIs ==
  ASSUME NEW S, NEW s \in Seq(S)
  PROVE  (Len(s) = 0 <=> s = << >>) /\ Len(s) \in Nat
OBVIOUS

\* One more item is one more to count.
LEMMA CountAppends ==
  ASSUME ObservedOK, NEW item \in Items \cup {NoItem}, observed' = Append(observed, item),
         \A i \in 1..Len(observed) : observed[i] # NoItem
  PROVE  ObservedCount' = ObservedCount + One(item # NoItem)
<1>1. /\ Len(observed) \in Nat /\ Len(observed') = Len(observed) + 1
      /\ observed'[Len(observed) + 1] = item
  BY AppendIs DEF ObservedOK
<1>2. observed' # << >> /\ observed'[Len(observed')] = item
  BY <1>1
<1>3. ObservedCount = Len(observed)
  BY ObservedCountTyped
<1>4. ObservedCount' = IF item = NoItem THEN Len(observed') - 1 ELSE Len(observed')
  BY <1>2 DEF ObservedCount
<1>5. QED
  BY <1>1, <1>3, <1>4 DEF One

\* One item less is one less to count.
LEMMA CountTakes ==
  ASSUME QueueTypeOK, Shutdown, TakeReceipts
  PROVE  ObservedCount = ObservedCount' + One(observed[1] # NoItem) /\ ObservedCount' \in Nat
<1>1. /\ observed # << >> /\ observed' = Tail(observed) /\ Len(observed) \in Nat \ {0}
      /\ Len(Tail(observed)) = Len(observed) - 1
      /\ \A i \in 1..Len(observed) - 1 : Tail(observed)[i] = observed[i + 1]
      /\ Tail(observed) \in Seq(Items \cup {NoItem})
  BY TakeReceiptsGoes DEF QueueTypeOK
<1>2. CASE Len(observed) = 1
  <2>1. ObservedCount = One(observed[1] # NoItem)
    BY <1>1, <1>2 DEF ObservedCount, One
  <2>2. ObservedCount' = 0
    <3>1. Len(observed') = 0 /\ observed' = << >>
      BY <1>1, <1>2, EmptyIs
    <3>2. QED
      BY <3>1 DEF ObservedCount
  <2>3. QED
    BY <2>1, <2>2 DEF One
<1>3. CASE Len(observed) # 1
  <2>1. observed' # << >> /\ Len(observed') = Len(observed) - 1 /\ Len(observed') \in Nat
    <3>1. observed' = Tail(observed)
      BY <1>1
    <3>2. /\ Len(Tail(observed)) = Len(observed) - 1
          /\ Len(observed) - 1 \in Nat /\ Len(observed) - 1 # 0
      BY <1>1, <1>3
    <3>3. Len(<< >>) = 0
      OBVIOUS
    <3>4. QED
      BY <3>1, <3>2, <3>3
  <2>2. observed'[Len(observed')] = observed[Len(observed)]
    <3>1. Len(observed) - 1 \in 1..Len(observed) - 1 /\ Len(observed) - 1 + 1 = Len(observed)
      BY <1>1, <1>3
    <3>2. Tail(observed)[Len(observed) - 1] = observed[Len(observed) - 1 + 1]
      BY <1>1, <3>1
    <3>3. QED
      BY <1>1, <3>1, <3>2
  <2>3. observed[1] # NoItem
    <3>1. 1 \in 1..Len(observed)
      BY <1>1
    <3>2. QED
      BY <1>3, <3>1 DEF Shutdown
  <2>4. QED
    BY <1>1, <2>1, <2>2, <2>3 DEF ObservedCount, One
<1>4. QED
  BY <1>2, <1>3

\* The steps that move a counter.
LEMMA CounterSteps ==
  ASSUME [QueueNext]_queueVars
  PROVE  /\ pending' = pending \/ Admit \/ FailPackets \/ Present \/ FinishPending
         /\ inFlight' = inFlight \/ Execute \/ FinishInFlight
<1> USE DEF queueVars, counts, QueueOnly, CompletionOnly
<1>1. CASE CallStep \/ ApplicationStep
  BY <1>1 DEF CallStep, ApplicationStep, ReserveValues, ClaimFence, Admit, Submit, ResetFence,
     SignalTimeline, AcquireSync, WaitForFences, WaitTimesOut, Destroy
<1>2. CASE DestroyStep \/ CheckFences \/ WorkerLosesDevice \/ Notify \/ UNCHANGED queueVars
  BY <1>2 DEF DestroyStep, StopQueue, StopCompletion, DestroyLosesDevice, CheckFences, WorkerLosesDevice,
     Notify
<1>3. CASE QueueThread
  BY <1>3 DEF QueueThread, Receive, WaitSemaphore, ReserveSignals, Execute, ExecuteFails, Observe,
     LoseDevice, FailPackets, DrainForPresent, Present, PresentFails
<1>4. CASE CompletionThread
  BY <1>4 DEF CompletionThread, TakeReceipts, ReceiptsComplete, ReceiptFails, PublishSignals,
     CancelSignals, FinishInFlight, FinishPending
<1>5. QED
  BY <1>1, <1>2, <1>3, <1>4 DEF QueueNext

\* Execution and the end of the receipts bound what is in flight.
Executing == queue.stage = "observe"
Draining == completion.stage \in {"drain", "signal", "cancel", "finish"}

\* The steps between the moves that the in-flight counter follows.
LEMMA QuietCounts ==
  ASSUME QueueTypeOK, [QueueNext]_queueVars, ~Moves
  PROVE  /\ ~Execute => (Executing' <=> Executing)
         /\ Execute => ~Executing /\ Executing' /\ completion' = completion
         /\ ~FinishInFlight => (Draining' <=> Draining)
         /\ FinishInFlight => Draining /\ ~Draining'
<1>0. ThreadOK /\ CompletionOK
  BY DEF QueueTypeOK
<1>1. QueueTurns /\ CompletionTurns
  BY QuietPlaces
<1>2. ASSUME ~Execute PROVE queue'.stage = "observe" => queue.stage = "observe"
  <2>1. CASE QueueThread
    BY <1>0, <1>2, <2>1, QueueThreadGoes DEF QueueThread, Moves
  <2>2. QED
    BY <1>0, <2>1, ThreadsAlone, QueueWakes
<1>3. queue.stage = "observe" => queue'.stage = "observe"
  BY <1>1 DEF QueueTurns
<1>4. ASSUME ~FinishInFlight PROVE Draining' <=> Draining
  <2>1. CASE CompletionThread
    BY <1>0, <1>4, <2>1, CompletionThreadGoes DEF CompletionThread, Moves, Draining
  <2>2. QED
    BY <2>1, ThreadsAlone DEF Draining
<1>5. Execute => ~Executing /\ Executing' /\ completion' = completion
  BY <1>0, QueueThreadGoes DEF Executing, Execute, QueueOnly
<1>6. FinishInFlight => Draining /\ ~Draining'
  BY <1>0, CompletionThreadGoes DEF Draining
<1>7. QED
  BY <1>2, <1>3, <1>4, <1>5, <1>6 DEF Executing

\* Every step keeps the counters at what they count.
LEMMA CountsStep ==
  QueueTypeOK /\ Shutdown /\ Numbering /\ Counts /\ [QueueNext]_queueVars => Counts'
<1> SUFFICES ASSUME QueueTypeOK, Shutdown, Numbering, Counts, [QueueNext]_queueVars PROVE Counts'
  OBVIOUS
<1>0. /\ ThreadOK /\ ChannelOK /\ ObservedOK /\ CompletionOK
      /\ pending \in Int /\ inFlight \in Int /\ issued \in Nat
      /\ QueueAt \in Nat /\ ObservedCount \in Nat
  BY QueueAtTyped, ObservedCountTyped DEF QueueTypeOK, CountersOK
<1>1. /\ pending = issued + 1 - QueueAt + ObservedCount + One(InHand)
      /\ inFlight = One(Executing) + ObservedCount + One(Draining)
  BY DEF Counts, Executing, Draining
<1>g. SUFFICES /\ pending' = issued' + 1 - QueueAt' + ObservedCount' + One(InHand')
               /\ inFlight' = One(Executing') + ObservedCount' + One(Draining')
  BY DEF Counts, Executing, Draining, One
<1>2. CASE ~Moves
  <2>1. SamePlaces
    BY <1>2, QuietPlaces
  <2>2. QueueAt' = QueueAt /\ issued' = issued /\ ObservedCount' = ObservedCount /\ (InHand' <=> InHand)
    BY <2>1, StartKeeps DEF SamePlaces, ObservedCount
  <2>3. pending' = pending
    BY <1>2, CounterSteps DEF Moves
  <2>4. pending' = issued' + 1 - QueueAt' + ObservedCount' + One(InHand')
    BY <1>1, <2>2, <2>3 DEF One
  <2>5. inFlight' = One(Executing') + ObservedCount' + One(Draining')
    <3>1. CASE Execute
      <4>1. ~Executing /\ Executing' /\ completion' = completion /\ inFlight' = inFlight + 1
        BY <1>2, <3>1, QuietCounts DEF Execute, Begin
      <4>2. Draining' <=> Draining
        BY <4>1 DEF Draining
      <4>3. QED
        BY <1>0, <1>1, <2>2, <4>1, <4>2 DEF One
    <3>2. CASE FinishInFlight
      <4>1. Draining /\ ~Draining' /\ inFlight' = inFlight - 1
        BY <1>2, <3>2, QuietCounts DEF FinishInFlight
      <4>2. ~Execute
        BY <1>0, <3>2, CompletionThreadGoes DEF Execute, QueueOnly, Begin, FinishInFlight
      <4>3. Executing' <=> Executing
        BY <1>2, <4>2, QuietCounts
      <4>4. QED
        BY <1>0, <1>1, <2>2, <4>1, <4>3 DEF One
    <3>3. CASE ~Execute /\ ~FinishInFlight
      <4>1. (Draining' <=> Draining) /\ (Executing' <=> Executing) /\ inFlight' = inFlight
        BY <1>2, <3>3, QuietCounts, CounterSteps
      <4>2. QED
        BY <1>1, <2>2, <4>1 DEF One
    <3>4. QED
      BY <3>1, <3>2, <3>3
  <2>6. QED
    BY <2>4, <2>5
<1>3. ASSUME Moves PROVE inFlight' = inFlight
  BY <1>3 DEF Moves, Admit, StopQueue, StopCompletion, Receive, Observe, FailPackets, Present,
     TakeReceipts, FinishPending, counts, QueueOnly
<1>4. CASE Admit
  <2>1. CASE \E r : Joins(r)
    <3>1. PICK r : Joins(r)
      BY <2>1
    <3>2. \A i \in 1..Len(channel) : channel[i] # Stop
      BY <1>4 DEF Admit, Shutdown
    <3>3. QueueAt' = QueueAt
      BY <3>1, <3>2, JoiningStarts
    <3>4. pending' = pending + Len(call.request.packets) /\ issued' = issued + Len(call.request.packets)
      <4>1. Admits(Len(call.request.packets)) \/ SamePlaces
        BY <1>4, AdmitGoes
      <4>2. ~SamePlaces
        BY <1>0, <3>1 DEF SamePlaces, Joins
      <4>3. QED
        BY <1>4, <3>1, <4>1, <4>2, AdmitGoes DEF Joins
    <3>5. Len(call.request.packets) \in Nat
      BY <3>1 DEF Joins
    <3>6. UNCHANGED <<queue, observed, completion>>
      BY <3>1 DEF Joins
    <3>7. ObservedCount' = ObservedCount /\ (InHand' <=> InHand) /\ (Executing' <=> Executing)
          /\ (Draining' <=> Draining)
      BY <3>6 DEF ObservedCount, InHand, Executing, Draining
    <3>8. inFlight' = inFlight
      BY <1>3, <1>4 DEF Moves
    <3>9. pending' = issued' + 1 - QueueAt' + ObservedCount' + One(InHand')
      <4>1. One(InHand') = One(InHand) /\ One(InHand) \in Nat
        BY <3>7 DEF One
      <4>2. QED
        BY <1>0, <1>1, <3>3, <3>4, <3>5, <3>7, <4>1
    <3>10. QED
      BY <1>1, <3>7, <3>8, <3>9 DEF One
  <2>2. CASE ~\E r : Joins(r)
    <3>1. SamePlaces /\ queue' = queue /\ completion' = completion /\ pending' = pending
      BY <1>4, <2>2, AdmitGoes
    <3>2. QueueAt' = QueueAt /\ issued' = issued /\ ObservedCount' = ObservedCount
          /\ (InHand' <=> InHand) /\ (Executing' <=> Executing) /\ (Draining' <=> Draining)
      BY <3>1, StartKeeps DEF SamePlaces, ObservedCount, Executing, Draining
    <3>3. inFlight' = inFlight
      BY <1>3, <1>4 DEF Moves
    <3>4. QED
      BY <1>1, <3>1, <3>2, <3>3 DEF One
  <2>3. QED
    BY <2>1, <2>2
<1>5. CASE StopQueue
  <2>1. UNCHANGED <<queue, observed, completion, issued>> /\ QueueAt' = QueueAt
    BY <1>5, OtherMoves, StoppingStarts
  <2>2. pending' = pending /\ inFlight' = inFlight
    BY <1>5 DEF StopQueue, counts
  <2>3. ObservedCount' = ObservedCount /\ (InHand' <=> InHand) /\ (Executing' <=> Executing)
        /\ (Draining' <=> Draining)
    BY <2>1 DEF ObservedCount, InHand, Executing, Draining
  <2>4. QED
    BY <1>1, <2>1, <2>2, <2>3 DEF One
<1>6. CASE StopCompletion
  <2>1. /\ observed' = Append(observed, NoItem) /\ device = "stopping queue"
        /\ UNCHANGED <<channel, queue, completion, issued>>
    BY <1>6, OtherMoves
  <2>2. QueueAt' = QueueAt
    BY <2>1, SameSide
  <2>3. pending' = pending /\ inFlight' = inFlight
    BY <1>6 DEF StopCompletion, counts
  <2>4. \A i \in 1..Len(observed) : observed[i] # NoItem
    BY <2>1 DEF Shutdown, Closing
  <2>5. ObservedCount' = ObservedCount
    <3>1. ObservedCount' = ObservedCount + One(NoItem # NoItem)
      BY <1>0, <2>1, <2>4, CountAppends
    <3>2. QED
      BY <1>0, <3>1 DEF One
  <2>6. (InHand' <=> InHand) /\ (Executing' <=> Executing) /\ (Draining' <=> Draining)
    BY <2>1 DEF InHand, Executing, Draining
  <2>7. QED
    BY <1>1, <2>1, <2>2, <2>3, <2>5, <2>6 DEF One
<1>7. CASE Receive
  <2>1. UNCHANGED <<observed, completion, issued>> /\ QueueAt' = QueueAt
    BY <1>7, OtherMoves, ReceivingAt
  <2>2. pending' = pending /\ inFlight' = inFlight
    BY <1>7 DEF Receive, counts
  <2>3. ~Executing /\ ~Executing'
    BY <1>0, <1>7, ReceiveGoes DEF Executing
  <2>4. ObservedCount' = ObservedCount /\ (InHand' <=> InHand) /\ (Draining' <=> Draining)
    BY <2>1 DEF ObservedCount, InHand, Draining
  <2>5. QED
    BY <1>1, <2>1, <2>2, <2>3, <2>4 DEF One
<1>8. CASE Observe
  <2>1. QueueAt' = QueueAt + 1 /\ UNCHANGED <<channel, completion, issued>>
    BY <1>8, ObservingAt, OtherMoves
  <2>2. pending' = pending /\ inFlight' = inFlight
    BY <1>8 DEF Observe, counts
  <2>3. Executing /\ ~Executing'
    BY <1>0, <1>8, ObserveGoes DEF Executing
  <2>4. ObservedCount' = ObservedCount + 1
    <3>1. PICK item \in Items : observed' = Append(observed, item)
      BY <1>0, <1>8, ItemPassedOn
    <3>2. item # NoItem /\ item \in Items \cup {NoItem}
      BY NoItemIsNone
    <3>3. \A i \in 1..Len(observed) : observed[i] # NoItem
      BY <2>3 DEF Shutdown, Executing
    <3>4. ObservedCount' = ObservedCount + One(item # NoItem)
      BY <1>0, <3>1, <3>2, <3>3, CountAppends
    <3>5. QED
      BY <1>0, <3>2, <3>4 DEF One
  <2>5. (InHand' <=> InHand) /\ (Draining' <=> Draining)
    BY <2>1 DEF InHand, Draining
  <2>6. pending' = issued' + 1 - QueueAt' + ObservedCount' + One(InHand')
    BY <1>0, <1>1, <2>1, <2>2, <2>4, <2>5 DEF One
  <2>7. inFlight' = One(Executing') + ObservedCount' + One(Draining')
    BY <1>0, <1>1, <2>2, <2>3, <2>4, <2>5 DEF One
  <2>8. QED
    BY <2>6, <2>7
<1>9. CASE FailPackets \/ Present
  <2>1. /\ UNCHANGED <<channel, observed, completion, issued>> /\ Busy
        /\ queue'.stage = "recv"
    BY <1>9, LeavingGoes DEF Leaves
  <2>2. QueueAt' = queue.request.first + Len(queue.request.packets) /\ QueueAt < QueueAt'
    BY <1>9, LeavingAt
  <2>3. /\ queue.request \in Requests /\ queue.index \in 1..Len(queue.request.packets)
        /\ queue.request.first \in Nat /\ Len(queue.request.packets) \in Nat
    BY <1>0, <2>1, RequestTyped
  <2>4. QueueAt = queue.request.first + queue.index - 1
    BY <1>0, <2>1, QueueAtTyped
  <2>5. pending' = pending - (QueueAt' - QueueAt)
    <3>1. CASE FailPackets
      <4>2. queue.index \in Int /\ Len(queue.request.packets) \in Int
        BY <2>3
      <4>3. Cardinality(queue.index..Len(queue.request.packets))
              = IF queue.index > Len(queue.request.packets) THEN 0
                ELSE Len(queue.request.packets) - queue.index + 1
        BY <4>2, FS_Interval
      <4>4. RetiredByFailure = Len(queue.request.packets) - queue.index + 1
        BY <2>3, <4>3 DEF RetiredByFailure
      <4>5. pending' = pending - RetiredByFailure
        BY <3>1 DEF FailPackets
      <4>6. QueueAt' - QueueAt = Len(queue.request.packets) - queue.index + 1
        <5>1. QueueAt' = queue.request.first + Len(queue.request.packets)
          BY <2>2
        <5>2. queue.request.first \in Int
          BY <2>3
        <5>3. QED
          BY <2>4, <4>2, <5>1, <5>2
      <4>7. QED
        BY <4>4, <4>5, <4>6
    <3>2. CASE Present
      <4>1. pending' = pending - 1 /\ queue.request.kind = "present"
        BY <3>2 DEF Present
      <4>2. Len(queue.request.packets) = 1
        BY <2>3, <4>1, RequestFields
      <4>3. QED
        BY <1>0, <2>2, <2>3, <2>4, <4>1, <4>2
    <3>3. QED
      BY <1>9, <3>1, <3>2
  <2>6. inFlight' = inFlight
    BY <1>3, <1>9 DEF Moves
  <2>7. ~Executing /\ ~Executing'
    BY <1>0, <1>9, QueueThreadGoes DEF Executing
  <2>8. ObservedCount' = ObservedCount /\ (InHand' <=> InHand) /\ (Draining' <=> Draining)
    BY <2>1 DEF ObservedCount, InHand, Draining
  <2>9. QueueAt' \in Nat
    BY <2>2, <2>3
  <2>10. pending' = issued' + 1 - QueueAt' + ObservedCount' + One(InHand')
    BY <1>0, <1>1, <2>1, <2>5, <2>8, <2>9 DEF One
  <2>11. QED
    BY <1>1, <2>6, <2>7, <2>8, <2>10 DEF One
<1>10. CASE TakeReceipts
  <2>1. UNCHANGED <<channel, queue, issued>>
    BY <1>10, OtherMoves
  <2>2. QueueAt' = QueueAt /\ (Executing' <=> Executing)
    BY <2>1, SameSide DEF Executing
  <2>3. pending' = pending /\ inFlight' = inFlight
    BY <1>10 DEF TakeReceipts, counts
  <2>4. ObservedCount = ObservedCount' + One(observed[1] # NoItem) /\ ObservedCount' \in Nat
    BY <1>10, CountTakes
  <2>5. ~InHand /\ ~Draining /\ (InHand' <=> observed[1] # NoItem) /\ (Draining' <=> observed[1] # NoItem)
    BY <1>0, <1>10, TakeReceiptsGoes DEF InHand, InHandStages, Draining
  <2>6. CASE observed[1] # NoItem
    BY <1>0, <1>1, <2>1, <2>2, <2>3, <2>4, <2>5, <2>6 DEF One
  <2>7. CASE observed[1] = NoItem
    BY <1>0, <1>1, <2>1, <2>2, <2>3, <2>4, <2>5, <2>7 DEF One
  <2>8. QED
    BY <2>6, <2>7
<1>11. CASE FinishPending
  <2>1. UNCHANGED <<channel, queue, observed, issued>>
    BY <1>11, OtherMoves
  <2>2. QueueAt' = QueueAt /\ (Executing' <=> Executing) /\ ObservedCount' = ObservedCount
    BY <2>1, SameSide DEF Executing, ObservedCount
  <2>3. pending' = pending - 1 /\ inFlight' = inFlight
    BY <1>11 DEF FinishPending
  <2>4. InHand /\ ~InHand' /\ ~Draining /\ ~Draining'
    BY <1>0, <1>11, CompletionThreadGoes DEF Draining
  <2>5. QED
    BY <1>0, <1>1, <2>1, <2>2, <2>3, <2>4 DEF One
<1>12. QED
  BY <1>2, <1>4, <1>5, <1>6, <1>7, <1>8, <1>9, <1>10, <1>11 DEF Moves

\* The requests in the channel have the packets between the numbers at its ends.
LEMMA WaitingStarts ==
  ASSUME QueueTypeOK, Shutdown, Numbering, NEW i \in 1..Len(channel)
  PROVE  /\ StartOf(i) \in Nat /\ Len(channel[i].packets) \in Nat
         /\ StartOf(i + 1) = StartOf(i) + Len(channel[i].packets)
<1>0. ChannelOK /\ issued \in Nat /\ Len(channel) \in Nat
  BY ChannelAt DEF QueueTypeOK, CountersOK
<1>1. CASE channel[i] # Stop
  <2>1. channel[i].first + Len(channel[i].packets) = StartOf(i + 1)
    BY <1>1 DEF Numbering, ChannelNumbered
  <2>2. StartOf(i) = channel[i].first
    BY <1>1 DEF StartOf
  <2>3. channel[i].first \in Nat /\ Len(channel[i].packets) \in Nat
    BY <1>0, <1>1, ChannelAt
  <2>4. QED
    BY <2>1, <2>2, <2>3
<1>2. CASE channel[i] = Stop
  <2>1. i = Len(channel)
    BY <1>2 DEF Shutdown
  <2>2. ~(i + 1 \in 1..Len(channel))
    BY <1>0, <2>1
  <2>3. StartOf(i) = issued + 1 /\ StartOf(i + 1) = issued + 1
    BY <1>2, <2>2 DEF StartOf
  <2>4. Len(channel[i].packets) = 0
    BY <1>2, StopIsNone
  <2>5. QED
    BY <1>0, <2>3, <2>4
<1>3. QED
  BY <1>1, <1>2

\* The packets that wait in the channel, by their numbers.
LEMMA WaitingIs ==
  ASSUME QueueTypeOK, Shutdown, Numbering
  PROVE  PacketsWaiting = issued + 1 - StartOf(1)
<1> DEFINE n == Len(channel)
           Sums(w) == w = [i \in 0..n |-> IF i = 0 THEN 0 ELSE w[i - 1] + Len(channel[i].packets)]
           W == CHOOSE w : Sums(w)
           G == [i \in 0..n |-> StartOf(i + 1) - StartOf(1)]
<1>0. ChannelOK /\ issued \in Nat /\ n \in Nat
  BY ChannelAt DEF QueueTypeOK, CountersOK
<1>1. \A i : StartOf(i) \in Nat
  BY <1>0, StartTyped
<1>2. Sums(G)
  <2>1. ASSUME NEW i \in 0..n
        PROVE  G[i] = IF i = 0 THEN 0 ELSE G[i - 1] + Len(channel[i].packets)
    <3>1. CASE i = 0
      <4>1. i + 1 = 1
        BY <3>1
      <4>2. G[i] = StartOf(i + 1) - StartOf(1)
        OBVIOUS
      <4>3. G[i] = StartOf(1) - StartOf(1)
        BY <4>1, <4>2
      <4>4. StartOf(1) \in Nat
        BY <1>1
      <4>5. QED
        BY <3>1, <4>3, <4>4
    <3>2. CASE i # 0
      <4>1. i \in 1..n /\ i - 1 \in 0..n /\ i - 1 + 1 = i
        BY <1>0, <3>2
      <4>2. StartOf(i) \in Nat /\ Len(channel[i].packets) \in Nat
            /\ StartOf(i + 1) = StartOf(i) + Len(channel[i].packets)
        BY <4>1, WaitingStarts
      <4>3. G[i - 1] = StartOf(i - 1 + 1) - StartOf(1)
        BY <4>1
      <4>4. G[i - 1] = StartOf(i) - StartOf(1)
        BY <4>1, <4>3
      <4>5. G[i] = StartOf(i + 1) - StartOf(1)
        OBVIOUS
      <4>6. StartOf(1) \in Nat
        BY <1>1
      <4>7. QED
        BY <3>2, <4>2, <4>4, <4>5, <4>6
    <3>3. QED
      BY <3>1, <3>2
  <2>2. QED
    BY <2>1
<1>3. Sums(W)
  BY <1>2
<1>4. PacketsWaiting = W[n]
  BY DEF PacketsWaiting
<1> HIDE DEF W, G
<1>5. ASSUME NEW i \in 0..n PROVE W[i] = StartOf(i + 1) - StartOf(1)
  <2> DEFINE S == {j \in Nat : j \in 0..n => W[j] = StartOf(j + 1) - StartOf(1)}
  <2>1. 0 \in S
    <3>1. W[0] = 0
      BY <1>0, <1>3
    <3>2. 0 + 1 = 1 /\ StartOf(1) \in Nat
      BY <1>1
    <3>3. W[0] = StartOf(0 + 1) - StartOf(1)
      BY <3>1, <3>2
    <3>4. QED
      BY <3>3
  <2>2. ASSUME NEW j \in S PROVE j + 1 \in S
    <3>1. j \in Nat /\ (j \in 0..n => W[j] = StartOf(j + 1) - StartOf(1))
      OBVIOUS
    <3>2. ASSUME j + 1 \in 0..n PROVE W[j + 1] = StartOf(j + 1 + 1) - StartOf(1)
      <4>1. j \in 0..n /\ j + 1 \in 1..n /\ j + 1 - 1 = j /\ j + 1 # 0
        BY <1>0, <3>1, <3>2
      <4>2. W[j + 1] = W[j + 1 - 1] + Len(channel[j + 1].packets)
        BY <1>3, <4>1
      <4>3. W[j + 1] = W[j] + Len(channel[j + 1].packets)
        BY <4>1, <4>2
      <4>4. StartOf(j + 1) \in Nat /\ Len(channel[j + 1].packets) \in Nat
            /\ StartOf(j + 1 + 1) = StartOf(j + 1) + Len(channel[j + 1].packets)
        BY <4>1, WaitingStarts
      <4>5. StartOf(1) \in Nat
        BY <1>1
      <4>6. QED
        BY <3>1, <4>1, <4>3, <4>4, <4>5
    <3>3. QED
      BY <3>1, <3>2
  <2> HIDE DEF S
  <2>3. S = Nat
    BY <2>1, <2>2, SetInduction DEF S
  <2>4. QED
    BY <1>0, <2>3 DEF S
<1>6. W[n] = StartOf(n + 1) - StartOf(1)
  BY <1>0, <1>5
<1>7. StartOf(n + 1) = issued + 1
  BY <1>0 DEF StartOf
<1>8. W[n] = issued + 1 - StartOf(1)
  <2>1. issued \in Nat /\ StartOf(1) \in Nat
    BY <1>0, <1>1
  <2>2. QED
    BY <1>6, <1>7, <2>1
<1>9. QED
  BY <1>4, <1>8, Zenon

\* The pending counter is the number of packets on their way.
LEMMA PendingCounted ==
  ASSUME QueueTypeOK, Shutdown, Numbering, Counts
  PROVE  PendingCountsPackets
<1>0. /\ ThreadOK /\ ChannelOK /\ ObservedOK /\ CompletionOK
      /\ issued \in Nat /\ QueueAt \in Nat /\ ObservedCount \in Nat /\ StartOf(1) \in Nat
  BY QueueAtTyped, StartTyped, ObservedCountTyped DEF QueueTypeOK, CountersOK
<1>1. pending = issued + 1 - QueueAt + ObservedCount + One(InHand)
  BY DEF Counts
<1>2. PacketsWaiting = issued + 1 - StartOf(1)
  BY WaitingIs
<1>3. Running = StartOf(1) - QueueAt
  <2>1. CASE Busy
    <3>1. /\ queue.index \in 1..Len(queue.request.packets) /\ Len(queue.request.packets) \in Nat
          /\ queue.request.first \in Nat /\ queue.index \in Int /\ Len(queue.request.packets) \in Int
      BY <1>0, <2>1, RequestTyped
    <3>2. Cardinality(queue.index..Len(queue.request.packets))
            = IF queue.index > Len(queue.request.packets) THEN 0
              ELSE Len(queue.request.packets) - queue.index + 1
      BY <3>1, FS_Interval
    <3>3. Running = Cardinality(queue.index..Len(queue.request.packets))
      BY <2>1 DEF Running, Busy, BusyStages
    <3>4. Running = Len(queue.request.packets) - queue.index + 1
      BY <3>1, <3>2, <3>3
    <3>5. QueueAt = queue.request.first + queue.index - 1
      BY <1>0, <2>1, QueueAtTyped
    <3>6. queue.request.first + Len(queue.request.packets) = StartOf(1)
      BY <2>1 DEF Numbering, ThreadNumbered
    <3>7. QED
      BY <3>1, <3>4, <3>5, <3>6
  <2>2. CASE ~Busy
    <3>1. queue.stage \in {"recv", "stopped"}
      BY <1>0, <2>2 DEF ThreadOK, QueueStages, Busy
    <3>2. Running = 0
      BY <3>1 DEF Running
    <3>3. QueueAt = StartOf(1)
      BY <1>0, <2>2, QueueAtTyped
    <3>4. QED
      BY <1>0, <3>2, <3>3
  <2>3. QED
    BY <2>1, <2>2
<1>4. Cardinality({i \in 1..Len(observed) : observed[i] # NoItem}) = ObservedCount
  <2>0. Len(observed) \in Nat /\ (Len(observed) = 0 <=> observed = << >>)
    BY <1>0, EmptyIs DEF ObservedOK
  <2>1. {i \in 1..Len(observed) : observed[i] # NoItem} = 1..ObservedCount
    <3>1. CASE observed # << >> /\ observed[Len(observed)] = NoItem
      <4>1. ObservedCount = Len(observed) - 1
        BY <3>1 DEF ObservedCount
      <4>2. \A i \in 1..Len(observed) : observed[i] = NoItem <=> i = Len(observed)
        BY <3>1 DEF Shutdown
      <4>3. QED
        BY <2>0, <4>1, <4>2
    <3>2. CASE ~(observed # << >> /\ observed[Len(observed)] = NoItem)
      <4>1. ObservedCount = Len(observed)
        BY <3>2 DEF ObservedCount
      <4>2. \A i \in 1..Len(observed) : observed[i] # NoItem
        BY <2>0, <3>2 DEF Shutdown
      <4>3. QED
        BY <4>1, <4>2
    <3>3. QED
      BY <3>1, <3>2
  <2>2. 1 \in Int /\ ObservedCount \in Int
    BY <1>0
  <2>3. Cardinality(1..ObservedCount) = IF 1 > ObservedCount THEN 0 ELSE ObservedCount - 1 + 1
    BY <2>2, FS_Interval
  <2>4. Cardinality(1..ObservedCount) = ObservedCount
    BY <1>0, <2>3
  <2>5. QED
    BY <2>1, <2>4, Zenon
<1>5. (IF completion.stage \in {"recv", "stopped"} THEN 0 ELSE 1) = One(InHand)
  BY <1>0 DEF CompletionOK, CompletionStages, InHandStages, InHand, One
<1>6. One(InHand) \in Nat
  BY DEF One
<1>7. pending = PacketsWaiting + Running + ObservedCount + One(InHand)
  BY <1>0, <1>1, <1>2, <1>3, <1>6
<1>8. QED
  BY <1>4, <1>5, <1>7, Zenon DEF PendingCountsPackets

-----------------------------------------------------------------------------
(* No wakeup is lost.                                                      *)

\* No wake-up is lost, in the words of the model.
LEMMA SleepersAre == Sleepers <=> NoLostWakeup
BY DEF Sleepers, OnTheWay, NoLostWakeup

\* A step that makes no sleeper ready.
LEMMA SleepersKeep ==
  ASSUME Sleepers, lost' => lost,
         \A f \in Fences : fence'[f] = 1 => fence[f] = 1, waiter.fences \subseteq Fences,
         waiter' = waiter \/ waiter'.stage # "asleep",
         \/ queue'.stage # "asleep"
         \/ queue' = queue /\ (\A s \in Binaries : binary'[s] = 1 => binary[s] = 1) /\ value' = value,
         OnTheWay => OnTheWay' \/ (waiter'.stage # "asleep" /\ queue'.stage # "asleep")
  PROVE  Sleepers'
<1>1. ASSUME waiter'.stage = "asleep", lost' \/ FencesReady' PROVE OnTheWay'
  <2>1. waiter' = waiter /\ waiter.stage = "asleep"
    BY <1>1
  <2>2. FencesReady' => FencesReady
    BY <2>1 DEF FencesReady
  <2>3. OnTheWay
    BY <1>1, <2>1, <2>2 DEF Sleepers
  <2>4. QED
    BY <1>1, <2>3
<1>2. ASSUME queue'.stage = "asleep", lost' \/ Ready(Head(queue.toWait))' PROVE OnTheWay'
  <2>1. queue' = queue /\ (\A s \in Binaries : binary'[s] = 1 => binary[s] = 1) /\ value' = value
    BY <1>2
  <2>2. Ready(Head(queue.toWait))' => Ready(Head(queue.toWait))
    BY <2>1 DEF Ready
  <2>3. OnTheWay
    BY <1>2, <2>1, <2>2 DEF Sleepers
  <2>4. QED
    BY <1>2, <2>3
<1>3. QED
  BY <1>1, <1>2 DEF Sleepers

\* Every step keeps a wake-up on its way to whoever may go on.
LEMMA SleepersStep == QueueTypeOK /\ Sleepers /\ [QueueNext]_queueVars => Sleepers'
<1> SUFFICES ASSUME QueueTypeOK, Sleepers, [QueueNext]_queueVars PROVE Sleepers'
  OBVIOUS
<1>0. ThreadOK /\ CompletionOK /\ ObjectsOK /\ WaiterOK /\ ChannelOK /\ ObservedOK /\ CallOK
      /\ waiter.fences \subseteq Fences
  BY DEF QueueTypeOK, WaiterOK
<1>n. ASSUME OnTheWay' PROVE Sleepers'
  BY <1>n DEF Sleepers
<1> USE DEF queueVars, counts, objects, threads, QueueOnly, CompletionOnly
<1>1. CASE CallStep
  <2>1. UNCHANGED <<lost, queue, waiter, completion, notifying, binary, value>>
    BY <1>1 DEF CallStep, ReserveValues, ClaimFence, Admit
  <2>2. \A f \in Fences : fence'[f] = 1 => fence[f] = 1
    <3>1. CASE ClaimFence
      <4>1. fence' = fence \/ fence' = [fence EXCEPT ![call.request.fence] = 2]
        BY <3>1 DEF ClaimFence
      <4>2. QED
        BY <1>0, <4>1 DEF ObjectsOK
    <3>2. CASE ReserveValues \/ Admit
      <4>1. fence' = fence \/ fence' = [fence EXCEPT ![call.request.fence] = 0]
        BY <3>2 DEF ReserveValues, Admit, Unclaim
      <4>2. QED
        BY <1>0, <4>1 DEF ObjectsOK
    <3>3. QED
      BY <1>1, <3>1, <3>2 DEF CallStep
  <2>3. OnTheWay' <=> OnTheWay
    BY <2>1 DEF OnTheWay
  <2>4. QED
    BY <1>0, <2>1, <2>2, <2>3, SleepersKeep
<1>2. CASE ApplicationStep
  <2>1. CASE \E t \in Timelines, v \in 1..MaxValue : SignalTimeline(t, v)
    BY <1>n, <2>1 DEF SignalTimeline, OnTheWay
  <2>2. CASE \E s \in Binaries \cup {NoSemaphore}, f \in Fences \cup {NoFence} : AcquireSync(s, f)
    BY <1>n, <2>2 DEF AcquireSync, OnTheWay
  <2>3. CASE \E f \in Fences : ResetFence(f)
    <3>1. PICK f \in Fences : ResetFence(f)
      BY <2>3
    <3>2. UNCHANGED <<lost, queue, waiter, completion, notifying, binary, value>>
          /\ fence' = [fence EXCEPT ![f] = 0]
      BY <3>1 DEF ResetFence
    <3>3. \A g \in Fences : fence'[g] = 1 => fence[g] = 1
      BY <1>0, <3>2 DEF ObjectsOK
    <3>4. OnTheWay' <=> OnTheWay
      BY <3>2 DEF OnTheWay
    <3>5. QED
      BY <1>0, <3>2, <3>3, <3>4, SleepersKeep
  <2>4. CASE \/ \E r \in Templates : Submit(r)
             \/ \E F \in (SUBSET Fences) \ {{}}, all \in BOOLEAN : WaitForFences(F, all)
             \/ WaitTimesOut \/ Destroy
    <3>1. UNCHANGED <<lost, fence, queue, completion, notifying, binary, value>>
      BY <2>4 DEF Submit, WaitForFences, WaitTimesOut, Destroy
    <3>2. waiter' = waiter \/ waiter'.stage # "asleep"
      <4>1. waiter' = waiter \/ (\E F, all : waiter' = [stage |-> "check", fences |-> F, all |-> all])
            \/ waiter' = [waiter EXCEPT !.stage = "none"]
        BY <2>4 DEF Submit, WaitForFences, WaitTimesOut, Destroy, WaiterReturns
      <4>2. QED
        BY <1>0, <4>1 DEF WaiterOK
    <3>3. OnTheWay' <=> OnTheWay
      BY <3>1 DEF OnTheWay
    <3>4. QED
      BY <1>0, <3>1, <3>2, <3>3, SleepersKeep
  <2>5. QED
    BY <1>2, <2>1, <2>2, <2>3, <2>4 DEF ApplicationStep
<1>3. CASE DestroyLosesDevice \/ WorkerLosesDevice
  BY <1>n, <1>3 DEF DestroyLosesDevice, WorkerLosesDevice, OnTheWay
<1>4. CASE StopQueue \/ StopCompletion \/ UNCHANGED queueVars
  <2>1. UNCHANGED <<lost, fence, queue, waiter, completion, notifying, binary, value>>
    BY <1>4 DEF StopQueue, StopCompletion
  <2>2. OnTheWay' <=> OnTheWay
    BY <2>1 DEF OnTheWay
  <2>3. QED
    BY <1>0, <2>1, <2>2, SleepersKeep
<1>5. CASE CheckFences
  <2>1. UNCHANGED <<lost, fence, queue, completion, notifying, binary, value>>
    BY <1>5 DEF CheckFences
  <2>2. OnTheWay' <=> OnTheWay
    BY <2>1 DEF OnTheWay
  <2>3. CASE waiter'.stage # "asleep"
    BY <1>0, <2>1, <2>2, <2>3, SleepersKeep
  <2>4. CASE waiter'.stage = "asleep"
    <3>1. ~lost /\ ~FencesReady /\ waiter' = [waiter EXCEPT !.stage = "asleep"]
      <4>1. lost \/ FencesReady => waiter' = [waiter EXCEPT !.stage = "none"]
        BY <1>5 DEF CheckFences, WaiterReturns
      <4>2. [waiter EXCEPT !.stage = "none"].stage = "none"
        BY <1>0 DEF WaiterOK
      <4>3. ~lost /\ ~FencesReady
        BY <2>4, <4>1, <4>2
      <4>4. QED
        BY <1>5, <4>3 DEF CheckFences
    <3>2. waiter'.fences = waiter.fences /\ waiter'.all = waiter.all
      BY <1>0, <3>1 DEF WaiterOK
    <3>3. ~(lost' \/ FencesReady')
      BY <2>1, <3>1, <3>2 DEF FencesReady
    <3>4. queue'.stage = "asleep" /\ (lost' \/ Ready(Head(queue.toWait))') => OnTheWay'
      <4>1. Ready(Head(queue.toWait))' <=> Ready(Head(queue.toWait))
        BY <2>1 DEF Ready
      <4>2. QED
        BY <2>1, <2>2, <4>1 DEF Sleepers
    <3>5. QED
      BY <3>3, <3>4 DEF Sleepers
  <2>5. QED
    BY <2>3, <2>4
<1>6. CASE Notify
  <2>1. waiter' = WaiterWoken /\ queue' = QueueWoken(queue)
    BY <1>6 DEF Notify
  <2>2. waiter'.stage # "asleep" /\ queue'.stage # "asleep"
    BY <1>0, <2>1, WaiterWakes, QueueWakes
  <2>3. QED
    BY <2>2 DEF Sleepers
<1>7. CASE QueueThread
  <2>1. UNCHANGED <<completion, notifying>>
    BY <1>7 DEF QueueThread, Receive, WaitSemaphore, ReserveSignals, Execute, ExecuteFails, Observe,
       LoseDevice, FailPackets, DrainForPresent, Present, PresentFails
  <2>2. CASE LoseDevice
    <3>1. queue'.stage = "fail"
      BY <1>0, <2>2, QueueThreadGoes
    <3>2. QED
      BY <1>n, <3>1 DEF OnTheWay
  <2>3. CASE FailPackets
    <3>1. queue'.stage = "recv" /\ waiter' = WaiterWoken
      BY <1>0, <2>3, QueueThreadGoes DEF FailPackets
    <3>2. waiter'.stage # "asleep" /\ queue'.stage # "asleep"
      BY <1>0, <3>1, WaiterWakes
    <3>3. QED
      BY <3>2 DEF Sleepers
  <2>4. CASE ~LoseDevice /\ ~FailPackets
    <3>1. UNCHANGED <<lost, fence, waiter>>
      BY <1>7, <2>4 DEF QueueThread, Receive, WaitSemaphore, ReserveSignals, Execute, ExecuteFails, Observe,
         DrainForPresent, Present, PresentFails
    <3>2. queue.stage # "fail"
      BY <1>0, <1>7, <2>4, QueueThreadGoes, ReceiveGoes, ObserveGoes DEF QueueThread
    <3>3. OnTheWay => OnTheWay'
      BY <2>1, <3>2 DEF OnTheWay
    <3>4. CASE queue'.stage # "asleep"
      BY <1>0, <3>1, <3>3, <3>4, SleepersKeep
    <3>5. CASE queue'.stage = "asleep"
      <4>1. WaitSemaphore
        BY <1>0, <1>7, <2>4, <3>5, QueueThreadGoes, ReceiveGoes, ObserveGoes DEF QueueThread
      <4>2. queue' # [queue EXCEPT !.stage = "lose"] /\ queue' # [queue EXCEPT !.toWait = Tail(queue.toWait)]
        <5>1. [queue EXCEPT !.stage = "lose"].stage = "lose"
              /\ [queue EXCEPT !.toWait = Tail(queue.toWait)].stage = "wait"
          BY <1>0, <4>1 DEF ThreadOK, WaitSemaphore
        <5>2. QED
          BY <3>5, <5>1
      <4>3. /\ ~lost /\ ~Ready(Head(queue.toWait)) /\ UNCHANGED <<binary, value>>
            /\ queue' = [queue EXCEPT !.stage = "asleep"]
        BY <4>1, <4>2 DEF WaitSemaphore
      <4>4. queue'.toWait = queue.toWait
        BY <1>0, <4>3 DEF ThreadOK
      <4>5. ~Ready(Head(queue.toWait))'
        <5>1. Ready(Head(queue.toWait))' <=> Ready(Head(queue.toWait))
          BY <4>3, <4>4 DEF Ready
        <5>2. QED
          BY <4>3, <5>1
      <4>6. waiter'.stage = "asleep" /\ (lost' \/ FencesReady') => OnTheWay'
        BY <3>1, <3>3 DEF Sleepers, FencesReady
      <4>7. QED
        BY <3>1, <4>3, <4>5, <4>6 DEF Sleepers
    <3>6. QED
      BY <3>4, <3>5
  <2>5. QED
    BY <2>2, <2>3, <2>4
<1>8. CASE CompletionThread
  <2>1. CASE PublishSignals \/ CancelSignals
    <3>1. completion'.stage = "finish"
      BY <1>0, <2>1, CompletionThreadGoes
    <3>2. QED
      BY <1>n, <3>1 DEF OnTheWay
  <2>2. CASE FinishInFlight
    <3>1. waiter' = WaiterWoken /\ queue' = QueueWoken(queue)
      BY <2>2 DEF FinishInFlight, WakeUp
    <3>2. waiter'.stage # "asleep" /\ queue'.stage # "asleep"
      BY <1>0, <3>1, WaiterWakes, QueueWakes
    <3>3. QED
      BY <3>2 DEF Sleepers
  <2>3. CASE TakeReceipts \/ ReceiptsComplete \/ ReceiptFails \/ FinishPending
    <3>1. UNCHANGED <<lost, fence, queue, waiter, notifying, binary, value>>
      BY <2>3 DEF TakeReceipts, ReceiptsComplete, ReceiptFails, FinishPending
    <3>2. completion.stage \notin {"finish", "cancel"}
      BY <1>0, <2>3, CompletionThreadGoes, TakeReceiptsGoes
    <3>3. OnTheWay => OnTheWay'
      BY <3>1, <3>2 DEF OnTheWay
    <3>4. QED
      BY <1>0, <3>1, <3>3, SleepersKeep
  <2>4. QED
    BY <1>8, <2>1, <2>2, <2>3 DEF CompletionThread
<1>9. QED
  BY <1>1, <1>2, <1>3, <1>4, <1>5, <1>6, <1>7, <1>8 DEF QueueNext, DestroyStep

-----------------------------------------------------------------------------
(* Where the packets are that owe something.                               *)

\* The empty packet uses nothing.
LEMMA NoPacketIs == NoPacket \in Packets /\ NoPacket.values = {} /\ NoPacket.signals = {}
<1>1. << >> \in Seq(Binaries \cup TimelineValues)
  OBVIOUS
<1>2. QED
  BY <1>1 DEF NoPacket, Packets

\* A packet in the channel belongs to a request.
LEMMA ChannelPackets ==
  ASSUME QueueTypeOK, NEW c \in 1..Len(channel), NEW k \in 1..Len(channel[c].packets)
  PROVE  /\ channel[c] # Stop /\ channel[c].packets[k] \in Packets
         /\ channel[c].first \in Nat \ {0} /\ Len(channel[c].packets) \in Nat /\ k \in Nat
<1>0. ChannelOK
  BY DEF QueueTypeOK
<1>1. channel[c] # Stop
  BY StopIsNone
<1>2. channel[c] \in Requests /\ channel[c].first \in Nat \ {0}
  BY <1>0, <1>1, ChannelAt
<1>3. channel[c].packets[k] \in Packets /\ Len(channel[c].packets) \in Nat
  BY <1>2, RequestFields
<1>4. QED
  BY <1>1, <1>2, <1>3

\* Where a packet is follows from its number.
LEMMA PlacesAre ==
  ASSUME QueueTypeOK, Shutdown, Numbering, NEW i, NEW p
  PROVE  /\ InChannel(i, p) => i \in Nat /\ p \in Packets /\ StartOf(1) <= i /\ i <= issued
         /\ InQueue(i, p) => i \in Nat /\ p \in Packets /\ QueueAt <= i /\ i < StartOf(1)
         /\ InObserved(i, p) =>
              /\ i \in Nat /\ p \in Packets /\ i < QueueAt
              /\ (i = 0 /\ p = NoPacket) \/ (InHand => completion.item.id < i)
         /\ InCompletion(i, p) =>
              i \in Nat /\ p \in Packets /\ i < QueueAt /\ InHand /\ i = completion.item.id
<1>0. /\ ThreadOK /\ ChannelOK /\ ObservedOK /\ CompletionOK
      /\ issued \in Nat /\ QueueAt \in Nat /\ StartOf(1) \in Nat
  BY QueueAtTyped, StartTyped DEF QueueTypeOK, CountersOK
<1>1. ASSUME InChannel(i, p) PROVE i \in Nat /\ p \in Packets /\ StartOf(1) <= i /\ i <= issued
  <2>1. PICK c \in 1..Len(channel) : \E k \in 1..Len(channel[c].packets) :
           i = channel[c].first + k - 1 /\ p = channel[c].packets[k]
    BY <1>1 DEF InChannel
  <2>2. PICK k \in 1..Len(channel[c].packets) : i = channel[c].first + k - 1 /\ p = channel[c].packets[k]
    BY <2>1
  <2>3. /\ channel[c] # Stop /\ p \in Packets
        /\ channel[c].first \in Nat \ {0} /\ Len(channel[c].packets) \in Nat /\ k \in Nat
    BY <2>2, ChannelPackets
  <2>4. StartOf(1) <= channel[c].first /\ channel[c].first + Len(channel[c].packets) <= issued + 1
    BY <2>3, QueueIsBehind DEF Numbering, ChannelNumbered
  <2>5. QED
    BY <1>0, <2>2, <2>3, <2>4
<1>2. ASSUME InQueue(i, p) PROVE i \in Nat /\ p \in Packets /\ QueueAt <= i /\ i < StartOf(1)
  <2>1. Busy
    BY <1>2 DEF InQueue
  <2>2. PICK k \in queue.index..Len(queue.request.packets) :
           i = queue.request.first + k - 1 /\ p = queue.request.packets[k]
    BY <1>2 DEF InQueue
  <2>3. /\ queue.request \in Requests /\ queue.index \in 1..Len(queue.request.packets)
        /\ queue.request.first \in Nat \ {0} /\ Len(queue.request.packets) \in Nat
    BY <1>0, <2>1, RequestTyped
  <2>4. p \in Packets
    <3>1. k \in 1..Len(queue.request.packets)
      BY <2>3
    <3>2. QED
      BY <2>2, <2>3, <3>1, RequestFields
  <2>5. QueueAt = queue.request.first + queue.index - 1
        /\ queue.request.first + Len(queue.request.packets) = StartOf(1)
    BY <1>0, <2>1, QueueAtTyped DEF Numbering, ThreadNumbered
  <2>6. /\ k \in Int /\ queue.index \in Nat /\ 1 <= queue.index /\ queue.index <= k
        /\ k <= Len(queue.request.packets)
        /\ queue.request.first \in Nat \ {0} /\ Len(queue.request.packets) \in Nat
        /\ i = queue.request.first + k - 1
    BY <2>2, <2>3
  <2>7. i \in Nat /\ QueueAt <= i /\ i < StartOf(1)
    BY <2>5, <2>6
  <2>8. QED
    BY <2>4, <2>7
<1>3. ASSUME InObserved(i, p)
      PROVE  /\ i \in Nat /\ p \in Packets /\ i < QueueAt
             /\ (i = 0 /\ p = NoPacket) \/ (InHand => completion.item.id < i)
  <2>1. PICK o \in 1..Len(observed) : i = observed[o].id /\ p = observed[o].packet
    BY <1>3 DEF InObserved
  <2>2. i \in Nat /\ i < QueueAt
    BY <1>0, <2>1, ObservedAt DEF Numbering, PassedNumbered
  <2>3. CASE observed[o] = NoItem
    <3>1. i = 0 /\ p = NoPacket
      BY <2>1, <2>3, NoItemIsNone
    <3>2. QED
      BY <2>2, <3>1, NoPacketIs
  <2>4. CASE observed[o] # NoItem
    <3>1. observed[o] \in Items
      BY <1>0, <2>4, ObservedAt
    <3>2. p \in Packets
      BY <2>1, <3>1, ItemFields
    <3>3. InHand => completion.item.id < i
      BY <2>1, <2>4 DEF Numbering, ItemNumbered
    <3>4. QED
      BY <2>2, <3>2, <3>3
  <2>5. QED
    BY <2>3, <2>4
<1>4. ASSUME InCompletion(i, p)
      PROVE  i \in Nat /\ p \in Packets /\ i < QueueAt /\ InHand /\ i = completion.item.id
  <2>1. InHand
    BY <1>4 DEF InCompletion, Settling, InHand, InHandStages
  <2>2. i = completion.item.id /\ p = completion.item.packet
    BY <1>4 DEF InCompletion
  <2>3. i \in Nat /\ p \in Packets
    BY <1>0, <2>1, <2>2, ItemTyped
  <2>4. i < QueueAt
    BY <2>1, <2>2 DEF Numbering, PassedNumbered
  <2>5. QED
    BY <2>1, <2>2, <2>3, <2>4
<1>5. QED
  BY <1>1, <1>2, <1>3, <1>4

\* A packet on its way has a number and promises values.
LEMMA HeldTyped ==
  ASSUME QueueTypeOK, Shutdown, Numbering, NEW i, NEW p, Held(i, p)
  PROVE  /\ i \in Nat /\ p \in Packets /\ i <= issued
         /\ \A x \in p.values : x[1] \in Timelines /\ x[2] \in Nat /\ x = <<x[1], x[2]>>
<1>0. issued \in Nat /\ QueueAt \in Nat /\ StartOf(1) \in Nat /\ QueueAt <= StartOf(1) /\ StartOf(1) <= issued + 1
  BY QueueAtTyped, StartTyped, QueueIsBehind DEF QueueTypeOK, CountersOK
<1>1. i \in Nat /\ p \in Packets /\ i <= issued
  <2>1. CASE InChannel(i, p)
    BY <2>1, PlacesAre
  <2>2. CASE InQueue(i, p)
    <3>1. i \in Nat /\ p \in Packets /\ i < StartOf(1)
      BY <2>2, PlacesAre
    <3>2. QED
      BY <1>0, <3>1
  <2>3. CASE InObserved(i, p) \/ InCompletion(i, p)
    <3>1. i \in Nat /\ p \in Packets /\ i < QueueAt
      BY <2>3, PlacesAre
    <3>2. QED
      BY <1>0, <3>1
  <2>4. QED
    BY <2>1, <2>2, <2>3 DEF Held
<1>2. \A x \in p.values : x \in TimelineValues
  BY <1>1, PacketFields
<1>3. QED
  BY <1>1, <1>2, ValuePairs, QueueAssumption

\* Quiet steps hold what is held, unless they settle the item in hand.
LEMMA HeldKeeps ==
  ASSUME SamePlaces
  PROVE  \A i, p : /\ InChannel(i, p)' <=> InChannel(i, p)
                   /\ InQueue(i, p)' <=> InQueue(i, p)
                   /\ InObserved(i, p)' <=> InObserved(i, p)
<1>1. channel' = channel /\ observed' = observed /\ (Busy' <=> Busy)
      /\ queue'.request = queue.request /\ queue'.index = queue.index
  BY DEF SamePlaces
<1>2. \A i, p : (InChannel(i, p)' <=> InChannel(i, p)) /\ (InObserved(i, p)' <=> InObserved(i, p))
  BY <1>1 DEF InChannel, InObserved
<1>3. \A i, p : InQueue(i, p)' <=> InQueue(i, p)
  BY <1>1 DEF InQueue
<1>4. QED
  BY <1>2, <1>3

\* The next packets join the channel.
LEMMA HeldJoins ==
  ASSUME QueueTypeOK, NEW r, Joins(r)
  PROVE  /\ \A i, p : Held(i, p)' <=>
              \/ Held(i, p)
              \/ \E k \in 1..Len(r.packets) : i = issued + k /\ p = r.packets[k]
         /\ \A i, p : InChannel(i, p)' <=>
              InChannel(i, p) \/ \E k \in 1..Len(r.packets) : i = issued + k /\ p = r.packets[k]
         /\ \A i, p : InQueue(i, p)' <=> InQueue(i, p)
<1>0. ChannelOK /\ issued \in Nat
  BY DEF QueueTypeOK, CountersOK
<1>1. /\ channel' = Append(channel, r) /\ r.first = issued + 1 /\ Len(r.packets) \in Nat
      /\ UNCHANGED <<observed, queue, completion>>
  BY DEF Joins
<1>2. /\ Len(channel) \in Nat /\ Len(channel') = Len(channel) + 1
      /\ channel'[Len(channel) + 1] = r
      /\ \A i \in 1..Len(channel) : channel'[i] = channel[i]
  <2>1. channel \in Seq(Admitted \cup {Stop}) /\ r \in Admitted \cup {Stop}
    BY <1>0 DEF ChannelOK, Joins
  <2>2. QED
    BY <1>1, <2>1, AppendIs
<1>3. ASSUME NEW i, NEW p
      PROVE  InChannel(i, p)' <=>
               InChannel(i, p) \/ \E k \in 1..Len(r.packets) : i = issued + k /\ p = r.packets[k]
  <2>1. ASSUME InChannel(i, p)'
        PROVE  InChannel(i, p) \/ \E k \in 1..Len(r.packets) : i = issued + k /\ p = r.packets[k]
    <3>1. PICK c \in 1..Len(channel') : \E k \in 1..Len(channel'[c].packets) :
             i = channel'[c].first + k - 1 /\ p = channel'[c].packets[k]
      BY <2>1 DEF InChannel
    <3>2. CASE c \in 1..Len(channel)
      BY <1>2, <3>1, <3>2 DEF InChannel
    <3>3. CASE c = Len(channel) + 1
      <4>1. channel'[c] = r
        BY <1>2, <3>3
      <4>2. PICK k \in 1..Len(r.packets) : i = r.first + k - 1 /\ p = r.packets[k]
        BY <3>1, <4>1
      <4>3. i = issued + k
        BY <1>0, <1>1, <4>2
      <4>4. QED
        BY <4>2, <4>3
    <3>4. QED
      BY <1>2, <3>2, <3>3
  <2>2. ASSUME InChannel(i, p) PROVE InChannel(i, p)'
    <3>1. \A c \in 1..Len(channel) : c \in 1..Len(channel') /\ channel'[c] = channel[c]
      BY <1>2
    <3>2. QED
      BY <2>2, <3>1 DEF InChannel
  <2>3. ASSUME NEW k \in 1..Len(r.packets), i = issued + k, p = r.packets[k] PROVE InChannel(i, p)'
    <3>1. Len(channel) + 1 \in 1..Len(channel')
      BY <1>2
    <3>2. i = r.first + k - 1
      BY <1>0, <1>1, <2>3
    <3>3. QED
      BY <1>2, <2>3, <3>1, <3>2 DEF InChannel
  <2>4. QED
    BY <2>1, <2>2, <2>3
<1>4. ASSUME NEW i, NEW p
      PROVE  /\ InQueue(i, p)' <=> InQueue(i, p)
             /\ InObserved(i, p)' <=> InObserved(i, p)
             /\ InCompletion(i, p)' <=> InCompletion(i, p)
  BY <1>1 DEF InQueue, InObserved, InCompletion, Busy, Settling
<1>5. QED
  BY <1>3, <1>4 DEF Held

\* The marker brings no packet into the channel.
LEMMA ChannelStops ==
  ASSUME QueueTypeOK, StopQueue
  PROVE  \A i, p : InChannel(i, p)' <=> InChannel(i, p)
<1>0. ChannelOK
  BY DEF QueueTypeOK
<1>1. /\ Len(channel') = Len(channel) + 1 /\ channel'[Len(channel) + 1] = Stop
      /\ \A i \in 1..Len(channel) : channel'[i] = channel[i]
      /\ Len(channel) \in Nat
  BY <1>0, StoppingStarts, ChannelAt
<1> SUFFICES ASSUME NEW i, NEW p PROVE InChannel(i, p)' <=> InChannel(i, p)
  OBVIOUS
<1>2. \A c \in 1..Len(channel) : c \in 1..Len(channel')
  BY <1>1
<1>3. \A c \in 1..Len(channel') : c \in 1..Len(channel) \/ (channel'[c] = Stop /\ 1..Len(channel'[c].packets) = {})
  <2>1. Len(Stop.packets) = 0 /\ 1..0 = {}
    BY StopIsNone
  <2>2. \A c \in 1..Len(channel') : c \in 1..Len(channel) \/ channel'[c] = Stop
    BY <1>1
  <2>3. QED
    BY <2>1, <2>2
<1>4. InChannel(i, p) => InChannel(i, p)'
  BY <1>1, <1>2 DEF InChannel
<1>5. ASSUME InChannel(i, p)' PROVE InChannel(i, p)
  <2>1. PICK c \in 1..Len(channel') : \E k \in 1..Len(channel'[c].packets) :
           i = channel'[c].first + k - 1 /\ p = channel'[c].packets[k]
    BY <1>5 DEF InChannel
  <2>2. c \in 1..Len(channel)
    BY <1>3, <2>1
  <2>3. channel'[c] = channel[c]
    BY <1>1, <2>2
  <2>4. QED
    BY <2>1, <2>2, <2>3 DEF InChannel
<1>6. QED
  BY <1>4, <1>5

\* The queue thread takes the first request.
LEMMA ChannelPasses ==
  ASSUME QueueTypeOK, Shutdown, Receive, NEW i, NEW p
  PROVE  InChannel(i, p) \/ InQueue(i, p) <=> InChannel(i, p)' \/ InQueue(i, p)'
<1>0. ChannelOK /\ ThreadOK
  BY DEF QueueTypeOK
<1>1. /\ Len(channel) \in Nat \ {0} /\ Len(channel') = Len(channel) - 1
      /\ \A c \in 1..Len(channel) - 1 : channel'[c] = channel[c + 1]
      /\ channel[1] = Head(channel) /\ ~Busy
  BY <1>0, ReceivingStarts, HeadTyped, ReceiveGoes
<1> DEFINE First == \E k \in 1..Len(channel[1].packets) :
                       i = channel[1].first + k - 1 /\ p = channel[1].packets[k]
<1>2. InChannel(i, p) <=> First \/ InChannel(i, p)'
  <2>1. 1 \in 1..Len(channel) /\ \A c \in 1..Len(channel') : c + 1 \in 1..Len(channel) /\ channel'[c] = channel[c + 1]
    BY <1>1
  <2>2. ASSUME NEW c \in 1..Len(channel), c # 1
        PROVE  c - 1 \in 1..Len(channel') /\ channel'[c - 1] = channel[c]
    <3>1. c - 1 \in 1..Len(channel) - 1 /\ c - 1 + 1 = c
      BY <1>1, <2>2
    <3>2. channel'[c - 1] = channel[c - 1 + 1]
      BY <1>1, <3>1
    <3>3. QED
      BY <1>1, <3>1, <3>2
  <2>3. First \/ InChannel(i, p)' => InChannel(i, p)
    BY <2>1 DEF InChannel
  <2>4. InChannel(i, p) => First \/ InChannel(i, p)'
    <3> SUFFICES ASSUME NEW c \in 1..Len(channel), NEW k \in 1..Len(channel[c].packets),
                        i = channel[c].first + k - 1, p = channel[c].packets[k]
                 PROVE  First \/ InChannel(i, p)'
      BY DEF InChannel
    <3>1. CASE c = 1
      BY <3>1
    <3>2. CASE c # 1
      BY <2>2, <3>2 DEF InChannel
    <3>3. QED
      BY <3>1, <3>2
  <2>5. QED
    BY <2>3, <2>4
<1>3. InQueue(i, p)' <=> First
  <2>1. CASE Head(channel) = Stop
    <3>1. ~Busy'
      BY <1>0, <2>1, ReceiveGoes DEF Busy, BusyStages
    <3>2. Len(channel[1].packets) = 0 /\ 1..0 = {}
      BY <1>1, <2>1, StopIsNone
    <3>3. QED
      BY <3>1, <3>2 DEF InQueue
  <2>2. CASE Head(channel) # Stop
    <3>1. queue'.request = channel[1] /\ queue'.index = 1 /\ queue'.stage \in {"drain", "wait"}
      BY <1>0, <1>1, <2>2, ReceiveGoes
    <3>2. Busy'
      BY <3>1 DEF Busy, BusyStages
    <3>3. QED
      BY <3>1, <3>2 DEF InQueue
  <2>3. QED
    BY <2>1, <2>2
<1>4. ~InQueue(i, p)
  BY <1>1 DEF InQueue
<1>5. QED
  BY <1>2, <1>3, <1>4

\* It passes its packet on.
LEMMA QueuePasses ==
  ASSUME QueueTypeOK, Shutdown, Numbering, Observe, NEW i, NEW p
  PROVE  /\ InQueue(i, p) <=> InQueue(i, p)' \/ (i = QueueAt /\ p = CurrentPacket)
         /\ InObserved(i, p)' <=> InObserved(i, p) \/ (i = QueueAt /\ p = CurrentPacket)
<1>0. ThreadOK /\ ObservedOK
  BY DEF QueueTypeOK
<1>1. QueueAt = queue.request.first + queue.index - 1
      /\ (Busy' <=> queue.index # Len(queue.request.packets))
  BY ObservingAt
<1>2. /\ Busy /\ queue'.request = queue.request
      /\ queue.index # Len(queue.request.packets) => queue'.index = queue.index + 1
  BY <1>0, ObserveGoes
<1>3. /\ queue.index \in 1..Len(queue.request.packets) /\ Len(queue.request.packets) \in Nat
      /\ queue.request.first \in Nat
  BY <1>0, <1>2, RequestTyped
<1>4. InQueue(i, p) <=> InQueue(i, p)' \/ (i = QueueAt /\ p = CurrentPacket)
  <2> DEFINE At(k) == i = queue.request.first + k - 1 /\ p = queue.request.packets[k]
  <2>1. At(queue.index) <=> i = QueueAt /\ p = CurrentPacket
    BY <1>1 DEF CurrentPacket
  <2>2. InQueue(i, p) <=> \E k \in queue.index..Len(queue.request.packets) : At(k)
    BY <1>2 DEF InQueue
  <2>3. InQueue(i, p)' <=> \E k \in queue.index + 1..Len(queue.request.packets) : At(k)
    <3>1. CASE queue.index = Len(queue.request.packets)
      <4>1. queue.index + 1..Len(queue.request.packets) = {}
        BY <1>3, <3>1
      <4>2. QED
        BY <1>1, <3>1, <4>1 DEF InQueue
    <3>2. CASE queue.index # Len(queue.request.packets)
      <4>1. Busy' /\ queue'.index = queue.index + 1 /\ queue'.request = queue.request
        BY <1>1, <1>2, <3>2
      <4>2. InQueue(i, p)' <=> \E k \in queue'.index..Len(queue'.request.packets) :
                 i = queue'.request.first + k - 1 /\ p = queue'.request.packets[k]
        BY <4>1 DEF InQueue
      <4>3. QED
        BY <4>1, <4>2
    <3>3. QED
      BY <3>1, <3>2
  <2>4. /\ queue.index \in queue.index..Len(queue.request.packets)
        /\ \A k \in queue.index..Len(queue.request.packets) :
             k = queue.index \/ k \in queue.index + 1..Len(queue.request.packets)
        /\ \A k \in queue.index + 1..Len(queue.request.packets) : k \in queue.index..Len(queue.request.packets)
    BY <1>3
  <2> HIDE DEF At
  <2>5. QED
    BY <2>1, <2>2, <2>3, <2>4
<1>5. InObserved(i, p)' <=> InObserved(i, p) \/ (i = QueueAt /\ p = CurrentPacket)
  <2>1. PICK item \in Items : observed' = Append(observed, item) /\ item.packet = CurrentPacket
                              /\ item.id = queue.request.first + queue.index - 1
    BY <1>0, ItemPassedOn
  <2>2. /\ Len(observed) \in Nat /\ Len(observed') = Len(observed) + 1
        /\ observed'[Len(observed) + 1] = item
        /\ \A o \in 1..Len(observed) : observed'[o] = observed[o]
    <3>1. observed \in Seq(Items \cup {NoItem}) /\ item \in Items \cup {NoItem}
      BY <1>0 DEF ObservedOK
    <3>2. QED
      BY <2>1, <3>1, AppendIs
  <2>3. Len(observed) + 1 \in 1..Len(observed') /\ \A o \in 1..Len(observed) : o \in 1..Len(observed')
    BY <2>2
  <2>4. \A o \in 1..Len(observed') : o \in 1..Len(observed) \/ o = Len(observed) + 1
    BY <2>2
  <2>5. item.id = QueueAt
    BY <1>1, <2>1
  <2>6. QED
    BY <2>1, <2>2, <2>3, <2>4, <2>5 DEF InObserved
<1>6. QED
  BY <1>4, <1>5

\* The completion thread takes the first item, if it is one.
LEMMA ObservedPasses ==
  ASSUME QueueTypeOK, TakeReceipts, NEW i, NEW p
  PROVE  /\ InObserved(i, p)' => InObserved(i, p)
         /\ InCompletion(i, p)' => InObserved(i, p)
         /\ InObserved(i, p) => InObserved(i, p)' \/ InCompletion(i, p)' \/ (i = 0 /\ p = NoPacket)
         /\ ~InCompletion(i, p)
<1>0. CompletionOK /\ ObservedOK
  BY DEF QueueTypeOK
<1>1. /\ completion.stage = "recv" /\ observed' = Tail(observed)
      /\ Len(observed) \in Nat \ {0} /\ Len(Tail(observed)) = Len(observed) - 1
      /\ \A o \in 1..Len(observed) - 1 : Tail(observed)[o] = observed[o + 1]
      /\ observed[1] = NoItem => completion'.stage = "stopped"
      /\ observed[1] # NoItem => completion'.stage = "drain" /\ completion'.item = observed[1]
  BY <1>0, TakeReceiptsGoes
<1>2. 1 \in 1..Len(observed)
      /\ \A o \in 1..Len(observed') : o + 1 \in 1..Len(observed) /\ observed'[o] = observed[o + 1]
  BY <1>1
<1>3. ASSUME NEW o \in 1..Len(observed), o # 1
      PROVE  o - 1 \in 1..Len(observed') /\ observed'[o - 1] = observed[o]
  <2>1. o - 1 \in 1..Len(observed) - 1 /\ o - 1 + 1 = o
    BY <1>1, <1>3
  <2>2. Tail(observed)[o - 1] = observed[o - 1 + 1]
    BY <1>1, <2>1
  <2>3. QED
    BY <1>1, <2>1, <2>2
<1>4. InObserved(i, p)' => InObserved(i, p)
  BY <1>2 DEF InObserved
<1>5. InCompletion(i, p)' => InObserved(i, p)
  BY <1>1, <1>2 DEF InObserved, InCompletion, Settling
<1>6. InObserved(i, p) => InObserved(i, p)' \/ InCompletion(i, p)' \/ (i = 0 /\ p = NoPacket)
  <2> SUFFICES ASSUME NEW o \in 1..Len(observed), i = observed[o].id, p = observed[o].packet
               PROVE  InObserved(i, p)' \/ InCompletion(i, p)' \/ (i = 0 /\ p = NoPacket)
    BY DEF InObserved
  <2>1. CASE o # 1
    BY <1>3, <2>1 DEF InObserved
  <2>2. CASE o = 1 /\ observed[1] = NoItem
    BY <2>2, NoItemIsNone
  <2>3. CASE o = 1 /\ observed[1] # NoItem
    BY <1>1, <2>3 DEF InCompletion, Settling
  <2>4. QED
    BY <2>1, <2>2, <2>3
<1>7. QED
  BY <1>1, <1>4, <1>5, <1>6 DEF InCompletion, Settling

\* The marker brings no packet into the completion channel.
LEMMA ObservedCloses ==
  ASSUME QueueTypeOK, StopCompletion, NEW i, NEW p
  PROVE  InObserved(i, p)' <=> InObserved(i, p) \/ (i = 0 /\ p = NoPacket)
<1>0. ObservedOK
  BY DEF QueueTypeOK
<1>1. observed' = Append(observed, NoItem)
  BY OtherMoves
<1>2. /\ Len(observed) \in Nat /\ Len(observed') = Len(observed) + 1
      /\ observed'[Len(observed) + 1] = NoItem
      /\ \A o \in 1..Len(observed) : observed'[o] = observed[o]
  <2>1. observed \in Seq(Items \cup {NoItem}) /\ NoItem \in Items \cup {NoItem}
    BY <1>0 DEF ObservedOK
  <2>2. QED
    BY <1>1, <2>1, AppendIs
<1>3. Len(observed) + 1 \in 1..Len(observed') /\ \A o \in 1..Len(observed) : o \in 1..Len(observed')
  BY <1>2
<1>4. \A o \in 1..Len(observed') : o \in 1..Len(observed) \/ o = Len(observed) + 1
  BY <1>2
<1>5. NoItem.id = 0 /\ NoItem.packet = NoPacket
  BY NoItemIsNone
<1>6. QED
  BY <1>2, <1>3, <1>4, <1>5 DEF InObserved

\* Packets without signals owe nothing.
Empty(p) == p.values = {} /\ p.signals = {}

\* The completion thread settles its item until it signals or cancels.
LEMMA QuietSettling ==
  ASSUME QueueTypeOK, [QueueNext]_queueVars, ~Moves, ~PublishSignals, ~CancelSignals
  PROVE  Settling' <=> Settling
<1>0. CompletionOK
  BY DEF QueueTypeOK
<1>1. CASE CompletionThread
  BY <1>0, <1>1, CompletionThreadGoes DEF CompletionThread, Moves, Settling
<1>2. QED
  BY <1>1, ThreadsAlone DEF Settling

\* What is held stays held until it is withdrawn or settled.
LEMMA HeldSteps ==
  ASSUME QueueTypeOK, Shutdown, Numbering, [QueueNext]_queueVars,
         ~Admit, ~FailPackets, ~PublishSignals, ~CancelSignals
  PROVE  \A i, p : /\ Held(i, p)' => Held(i, p) \/ Empty(p)
                   /\ Held(i, p) => Held(i, p)' \/ Empty(p)
<1> SUFFICES ASSUME NEW i, NEW p
             PROVE  (Held(i, p)' => Held(i, p) \/ Empty(p)) /\ (Held(i, p) => Held(i, p)' \/ Empty(p))
  OBVIOUS
<1>0. ThreadOK /\ ChannelOK /\ ObservedOK /\ CompletionOK
  BY DEF QueueTypeOK
<1>e. Empty(NoPacket)
  BY NoPacketIs DEF Empty
<1>c. ASSUME completion' = completion PROVE InCompletion(i, p)' <=> InCompletion(i, p)
  BY <1>c DEF InCompletion, Settling
<1>o. ASSUME observed' = observed PROVE InObserved(i, p)' <=> InObserved(i, p)
  BY <1>o DEF InObserved
<1>n. ASSUME channel' = channel PROVE InChannel(i, p)' <=> InChannel(i, p)
  BY <1>n DEF InChannel
<1>q. ASSUME queue' = queue PROVE InQueue(i, p)' <=> InQueue(i, p)
  BY <1>q DEF InQueue, Busy
<1>1. CASE ~Moves
  <2>1. SamePlaces /\ (Settling' <=> Settling)
    BY <1>1, QuietPlaces, QuietSettling
  <2>2. InCompletion(i, p)' <=> InCompletion(i, p)
    BY <2>1 DEF SamePlaces, InCompletion
  <2>3. QED
    BY <2>1, <2>2, HeldKeeps DEF Held
<1>2. CASE StopQueue
  BY <1>2, <1>c, <1>o, <1>q, OtherMoves, ChannelStops DEF Held
<1>3. CASE StopCompletion
  BY <1>3, <1>c, <1>e, <1>n, <1>q, OtherMoves, ObservedCloses DEF Held
<1>4. CASE Receive
  BY <1>4, <1>c, <1>o, OtherMoves, ChannelPasses DEF Held
<1>5. CASE Observe
  BY <1>5, <1>c, <1>n, OtherMoves, QueuePasses DEF Held
<1>6. CASE Present
  <2>1. UNCHANGED <<channel, observed, completion>> /\ Busy /\ ~Busy'
    BY <1>6, LeavingGoes DEF Leaves
  <2>2. ~InQueue(i, p)'
    BY <2>1 DEF InQueue
  <2>3. InQueue(i, p) => Empty(p)
    <3> SUFFICES ASSUME NEW k \in queue.index..Len(queue.request.packets), p = queue.request.packets[k]
                 PROVE  Empty(p)
      BY DEF InQueue
    <3>1. queue.request \in Requests /\ queue.index \in 1..Len(queue.request.packets)
      BY <1>0, <2>1, RequestTyped
    <3>2. queue.request.kind = "present"
      BY <1>6 DEF Present
    <3>3. /\ Len(queue.request.packets) = 1
          /\ queue.request.packets[1].signals = {} /\ queue.request.packets[1].values = {}
      BY <3>1, <3>2, RequestFields
    <3>4. k = 1
      BY <3>1, <3>3
    <3>5. QED
      BY <3>3, <3>4 DEF Empty
  <2>4. QED
    BY <1>c, <1>n, <1>o, <2>1, <2>2, <2>3 DEF Held
<1>7. CASE TakeReceipts
  BY <1>7, <1>e, <1>n, <1>q, OtherMoves, ObservedPasses DEF Held
<1>8. CASE FinishPending
  <2>1. ~Settling /\ ~Settling'
    BY <1>0, <1>8, CompletionThreadGoes DEF Settling
  <2>2. QED
    BY <1>8, <1>n, <1>o, <1>q, <2>1, OtherMoves DEF Held, InCompletion
<1>9. QED
  BY <1>1, <1>2, <1>3, <1>4, <1>5, <1>6, <1>7, <1>8 DEF Moves

\* A failed packet and those after it are withdrawn, and no others.
LEMMA HeldFails ==
  ASSUME QueueTypeOK, Shutdown, Numbering, FailPackets
  PROVE  \A i, p : /\ Held(i, p)' <=> Held(i, p) /\ ~InQueue(i, p)
                   /\ InQueue(i, p) => \A j, q : Held(j, q)' => i # j
                   /\ \A q : q \in PacketsFrom(queue) <=> \E j : InQueue(j, q)
<1>0. ThreadOK /\ QueueAt \in Nat /\ StartOf(1) \in Nat
  BY QueueAtTyped, StartTyped DEF QueueTypeOK, CountersOK
<1>1. UNCHANGED <<channel, observed, completion>> /\ Busy /\ ~Busy'
  BY LeavingGoes DEF Leaves
<1>2. \A i, p : /\ ~InQueue(i, p)'
                /\ InChannel(i, p)' <=> InChannel(i, p)
                /\ InObserved(i, p)' <=> InObserved(i, p)
                /\ InCompletion(i, p)' <=> InCompletion(i, p)
  BY <1>1 DEF InQueue, InChannel, InObserved, InCompletion, Settling
<1>3. ASSUME NEW i, NEW p, InQueue(i, p), NEW j, NEW q, InChannel(j, q) \/ InObserved(j, q) \/ InCompletion(j, q)
      PROVE  i # j
  <2>1. i \in Nat /\ QueueAt <= i /\ i < StartOf(1)
    BY <1>3, PlacesAre
  <2>2. InChannel(j, q) => j \in Nat /\ StartOf(1) <= j
    BY PlacesAre
  <2>3. InObserved(j, q) \/ InCompletion(j, q) => j \in Nat /\ j < QueueAt
    BY PlacesAre
  <2>4. QED
    BY <1>0, <1>3, <2>1, <2>2, <2>3
<1>4. ASSUME NEW i, NEW p PROVE Held(i, p)' <=> Held(i, p) /\ ~InQueue(i, p)
  <2>1. InQueue(i, p) => ~(InChannel(i, p) \/ InObserved(i, p) \/ InCompletion(i, p))
    BY <1>3
  <2>2. QED
    BY <1>2, <2>1 DEF Held
<1>5. \A q : q \in PacketsFrom(queue) <=> \E j : InQueue(j, q)
  BY <1>1 DEF PacketsFrom, InQueue
<1>6. \A j, q : Held(j, q)' => InChannel(j, q) \/ InObserved(j, q) \/ InCompletion(j, q)
  BY <1>2 DEF Held
<1>7. QED
  BY <1>3, <1>4, <1>5, <1>6

\* The item in hand is settled, which is the first of all.
LEMMA HeldSettles ==
  ASSUME QueueTypeOK, Shutdown, Numbering, PublishSignals \/ CancelSignals
  PROVE  /\ completion.item.packet \in Packets
         /\ Held(completion.item.id, completion.item.packet)
         /\ \A i, p : /\ Held(i, p)' => Held(i, p)
                      /\ Held(i, p) => Held(i, p)' \/ (i = completion.item.id /\ p = completion.item.packet)
                      /\ Held(i, p)' => completion.item.id < i \/ (i = 0 /\ p = NoPacket)
<1>0. CompletionOK /\ QueueAt \in Nat /\ StartOf(1) \in Nat /\ QueueAt <= StartOf(1)
  BY QueueAtTyped, StartTyped, QueueIsBehind DEF QueueTypeOK, CountersOK
<1>1. UNCHANGED <<channel, queue, observed>> /\ Settling /\ ~Settling' /\ InHand
  BY <1>0, CompletionThreadGoes DEF PublishSignals, CancelSignals, CompletionOnly, Settling
<1>2. \A i, p : /\ ~InCompletion(i, p)'
                /\ InChannel(i, p)' <=> InChannel(i, p)
                /\ InObserved(i, p)' <=> InObserved(i, p)
                /\ InQueue(i, p)' <=> InQueue(i, p)
  BY <1>1 DEF InQueue, InChannel, InObserved, InCompletion, Busy
<1>3. InCompletion(completion.item.id, completion.item.packet)
      /\ \A i, p : InCompletion(i, p) => i = completion.item.id /\ p = completion.item.packet
  BY <1>1 DEF InCompletion
<1>4. completion.item.packet \in Packets /\ completion.item.id \in Nat /\ completion.item.id < QueueAt
  BY <1>3, PlacesAre
<1>5. ASSUME NEW i, NEW p, InChannel(i, p) \/ InQueue(i, p) PROVE completion.item.id < i
  <2>1. InChannel(i, p) => i \in Nat /\ StartOf(1) <= i
    BY PlacesAre
  <2>2. InQueue(i, p) => i \in Nat /\ QueueAt <= i
    BY PlacesAre
  <2>3. QED
    BY <1>0, <1>4, <1>5, <2>1, <2>2
<1>6. \A i, p : InObserved(i, p) => completion.item.id < i \/ (i = 0 /\ p = NoPacket)
  BY <1>1, PlacesAre
<1>7. \A i, p : Held(i, p)' => completion.item.id < i \/ (i = 0 /\ p = NoPacket)
  BY <1>2, <1>5, <1>6 DEF Held
<1>8. \A i, p : /\ Held(i, p)' => Held(i, p)
                /\ Held(i, p) => Held(i, p)' \/ (i = completion.item.id /\ p = completion.item.packet)
  BY <1>2, <1>3 DEF Held
<1>9. QED
  BY <1>3, <1>4, <1>7, <1>8 DEF Held

-----------------------------------------------------------------------------
(* Timeline values that are promised.                                      *)

\* A step that withdraws the values R.
LEMMA PromisesKeep ==
  ASSUME QueueTypeOK, Shutdown, Numbering, Promises, NEW R,
         \A t \in Timelines : reserved'[t] = {v \in reserved[t] : <<t, v>> \notin R},
         \A i, p : Held(i, p)' => p.values = {} \/ (Held(i, p) /\ p.values \cap R = {}),
         \A i, p : Held(i, p) => Held(i, p)' \/ p.values \subseteq R,
         CallPromises' => CallPromises /\ call'.request = call.request /\ RequestValues \cap R = {},
         CallPromises => CallPromises' \/ RequestValues \subseteq R,
         PromisesAhead'
  PROVE  Promises'
<1>0. CallOK
  BY DEF QueueTypeOK
<1>1. CallPromises' => RequestValues' = RequestValues
  BY DEF RequestValues
<1>2. ASSUME NEW t \in Timelines, NEW v \in reserved'[t]
      PROVE  \/ \E i, p : Held(i, p)' /\ <<t, v>> \in p.values
             \/ CallPromises' /\ <<t, v>> \in RequestValues'
  <2>1. v \in reserved[t] /\ <<t, v>> \notin R
    BY <1>2
  <2>2. CASE \E i, p : Held(i, p) /\ <<t, v>> \in p.values
    <3>1. PICK i, p : Held(i, p) /\ <<t, v>> \in p.values
      BY <2>2
    <3>2. Held(i, p)'
      BY <2>1, <3>1
    <3>3. QED
      BY <3>1, <3>2
  <2>3. CASE CallPromises /\ <<t, v>> \in RequestValues
    BY <1>1, <2>1, <2>3
  <2>4. QED
    BY <2>1, <2>2, <2>3 DEF Promises
<1>3. ASSUME NEW i, NEW p, Held(i, p)', NEW x \in p.values PROVE x[2] \in reserved'[x[1]]
  <2>1. Held(i, p) /\ x \notin R
    BY <1>3
  <2>2. x[1] \in Timelines /\ x = <<x[1], x[2]>> /\ x[2] \in reserved[x[1]]
    BY <2>1, HeldTyped DEF Promises
  <2>3. QED
    BY <2>1, <2>2
<1>4. ASSUME NEW i, NEW p, NEW j, NEW q, Held(i, p)', Held(j, q)', i < j, NEW x \in p.values,
             NEW y \in q.values, x[1] = y[1]
      PROVE  x[2] < y[2]
  <2>1. Held(i, p) /\ Held(j, q)
    BY <1>4
  <2>2. QED
    BY <1>4, <2>1 DEF Promises
<1>5. ASSUME CallPromises'
      PROVE  /\ \A x \in RequestValues' : x[2] \in reserved'[x[1]]
             /\ \A i, p : Held(i, p)' =>
                  \A x \in p.values, y \in RequestValues' : x[1] = y[1] => x[2] < y[2]
             /\ \A i, j \in 1..Len(call'.request.packets) :
                  \A x \in call'.request.packets[i].values, y \in call'.request.packets[j].values :
                    i < j /\ x[1] = y[1] => x[2] < y[2]
  <2>1. CallPromises /\ RequestValues' = RequestValues /\ RequestValues \cap R = {}
        /\ call'.request = call.request
    BY <1>1, <1>5
  <2>2. ASSUME NEW x \in RequestValues PROVE x[2] \in reserved'[x[1]]
    <3>1. RequestValues \subseteq TimelineValues
      BY <1>0, <2>1, CallTyped DEF CallPromises
    <3>2. x[1] \in Timelines /\ x = <<x[1], x[2]>>
      BY <3>1, ValuePairs
    <3>3. x[2] \in reserved[x[1]] /\ x \notin R
      BY <2>1 DEF Promises
    <3>4. QED
      BY <3>2, <3>3
  <2>3. ASSUME NEW i, NEW p, Held(i, p)', NEW x \in p.values, NEW y \in RequestValues, x[1] = y[1]
        PROVE  x[2] < y[2]
    <3>1. Held(i, p)
      BY <2>3
    <3>2. QED
      BY <2>1, <2>3, <3>1 DEF Promises
  <2>4. QED
    BY <2>1, <2>2, <2>3 DEF Promises
<1>6. QED
  BY <1>2, <1>3, <1>4, <1>5 DEF Promises

\* The steps that touch reserved values or timelines.
LEMMA PromiseSteps ==
  ASSUME QueueTypeOK, [QueueNext]_queueVars
  PROVE  \/ /\ UNCHANGED <<reserved, value>> /\ ~CallStep /\ ~FailPackets
            /\ ~PublishSignals /\ ~CancelSignals
            /\ CallPromises' => CallPromises /\ call'.request = call.request
            /\ CallPromises => CallPromises'
         \/ CallStep \/ FailPackets \/ PublishSignals \/ CancelSignals
         \/ /\ \E t \in Timelines, v \in 1..MaxValue : SignalTimeline(t, v)
            /\ ~CallStep /\ ~FailPackets /\ ~PublishSignals /\ ~CancelSignals
<1> USE DEF queueVars, objects, threads, QueueOnly, CompletionOnly
<1> SUFFICES ASSUME ~CallStep, ~FailPackets, ~PublishSignals, ~CancelSignals
             PROVE  \/ /\ UNCHANGED <<reserved, value>>
                       /\ CallPromises' => CallPromises /\ call'.request = call.request
                       /\ CallPromises => CallPromises'
                    \/ \E t \in Timelines, v \in 1..MaxValue : SignalTimeline(t, v)
  OBVIOUS
<1>0. ASSUME call' = call
      PROVE  (CallPromises' => CallPromises /\ call'.request = call.request) /\ (CallPromises => CallPromises')
  BY <1>0 DEF CallPromises
<1>1. CASE ApplicationStep
  <2>1. CASE \E r \in Templates : Submit(r)
    <3>1. PICK r \in Templates : Submit(r)
      BY <2>1
    <3>2. UNCHANGED <<reserved, value>> /\ call.stage = "none" /\ call' = [stage |-> "reserve", request |-> r]
      BY <3>1 DEF Submit
    <3>3. ~CallPromises /\ ~CallPromises'
      BY <3>2 DEF CallPromises
    <3>4. QED
      BY <3>2, <3>3
  <2>2. CASE ~\E r \in Templates : Submit(r)
    <3>1. (\E t \in Timelines, v \in 1..MaxValue : SignalTimeline(t, v)) \/ UNCHANGED <<reserved, value, call>>
      BY <1>1, <2>2 DEF ApplicationStep, ResetFence, AcquireSync, WaitForFences, WaitTimesOut, Destroy
    <3>2. QED
      BY <1>0, <3>1
  <2>3. QED
    BY <2>1, <2>2
<1>2. CASE DestroyStep \/ CheckFences \/ WorkerLosesDevice \/ Notify \/ UNCHANGED queueVars
  <2>1. UNCHANGED <<reserved, value, call>>
    BY <1>2 DEF DestroyStep, StopQueue, StopCompletion, DestroyLosesDevice, CheckFences,
       WorkerLosesDevice, Notify
  <2>2. QED
    BY <1>0, <2>1
<1>3. CASE QueueThread
  <2>1. UNCHANGED <<reserved, value, call>>
    BY <1>3 DEF QueueThread, Receive, WaitSemaphore, ReserveSignals, Execute, ExecuteFails, Observe,
       LoseDevice, DrainForPresent, Present, PresentFails
  <2>2. QED
    BY <1>0, <2>1
<1>4. CASE CompletionThread
  <2>1. UNCHANGED <<reserved, value, call>>
    BY <1>4 DEF CompletionThread, TakeReceipts, ReceiptsComplete, ReceiptFails, FinishInFlight,
       FinishPending
  <2>2. QED
    BY <1>0, <2>1
<1>5. QED
  BY <1>1, <1>2, <1>3, <1>4 DEF QueueNext

\* What is left of the reserved values when some are given back.
LEMMA WithoutIs ==
  ASSUME NEW R, reserved' = Without(reserved, R)
  PROVE  \A t \in Timelines : reserved'[t] = {v \in reserved[t] : <<t, v>> \notin R}
BY DEF Without

\* Values withdrawn leave the counters behind the others.
LEMMA FewerAhead ==
  ASSUME PromisesAhead, value' = value, \A t \in Timelines : reserved'[t] \subseteq reserved[t]
  PROVE  PromisesAhead'
BY DEF PromisesAhead

\* The calling thread reserves values ahead of every other one, or gives its own back.
LEMMA PromisesCall ==
  ASSUME QueueTypeOK, Shutdown, Numbering, Promises, ReserveValues \/ ClaimFence \/ (Admit /\ ~\E r : Joins(r)),
         [QueueNext]_queueVars
  PROVE  Promises'
<1>0. ObjectsOK /\ CallOK /\ call.stage # "none" /\ value' = value
  BY DEF QueueTypeOK, ReserveValues, ClaimFence, Admit
<1>h. \A i, p : (Held(i, p)' => Held(i, p)) /\ (Held(i, p) => Held(i, p)')
  <2>1. UNCHANGED <<channel, queue, observed, completion>>
    <3>1. CASE ReserveValues \/ ClaimFence
      BY <3>1 DEF ReserveValues, ClaimFence
    <3>2. CASE Admit /\ ~\E r : Joins(r)
      BY <3>2, AdmitGoes DEF SamePlaces
    <3>3. QED
      BY <3>1, <3>2
  <2>2. QED
    BY <2>1 DEF Held, InChannel, InQueue, InObserved, InCompletion, Busy, Settling
<1>a. PromisesAhead
  BY DEF Promises
\* The values of the call are withdrawn.
<1>w. ASSUME CallPromises, reserved' = Without(reserved, RequestValues), CallReturns PROVE Promises'
  <2>1. \A t \in Timelines : reserved'[t] = {v \in reserved[t] : <<t, v>> \notin RequestValues}
    BY <1>w, WithoutIs
  <2>2. ~CallPromises'
    BY <1>w DEF CallReturns, CallPromises
  <2>3. PromisesAhead'
    <3>1. \A t \in Timelines : reserved'[t] \subseteq reserved[t]
      BY <2>1
    <3>2. QED
      BY <1>0, <1>a, <3>1, FewerAhead
  <2>4. ASSUME NEW i, NEW p, Held(i, p)' PROVE Held(i, p) /\ p.values \cap RequestValues = {}
    <3>1. Held(i, p)
      BY <1>h, <2>4
    <3>2. ASSUME NEW x \in p.values, x \in RequestValues PROVE FALSE
      <4>1. x[2] < x[2]
        BY <1>w, <3>1, <3>2 DEF Promises
      <4>2. x[2] \in Nat
        BY <3>1, HeldTyped
      <4>3. QED
        BY <4>1, <4>2
    <3>3. QED
      BY <3>1, <3>2
  <2>5. QED
    BY <1>h, <2>1, <2>2, <2>3, <2>4, PromisesKeep
\* Nothing is withdrawn.
<1>k. ASSUME reserved' = reserved, CallPromises' => CallPromises /\ call'.request = call.request,
             CallPromises => CallPromises'
      PROVE  Promises'
  <2> DEFINE R == {}
  <2>1. \A t \in Timelines : reserved'[t] = {v \in reserved[t] : <<t, v>> \notin R}
    BY <1>k
  <2>2. PromisesAhead'
    BY <1>0, <1>a, <1>k, FewerAhead
  <2>3. \A i, p : Held(i, p)' => p.values = {} \/ (Held(i, p) /\ p.values \cap R = {})
    BY <1>h
  <2>4. \A i, p : Held(i, p) => Held(i, p)' \/ p.values \subseteq R
    BY <1>h
  <2>5. RequestValues \cap R = {}
    OBVIOUS
  <2> HIDE DEF R
  <2>6. QED
    BY <1>k, <2>1, <2>2, <2>3, <2>4, <2>5, PromisesKeep
<1>1. CASE ReserveValues /\ reserved' = reserved /\ CallReturns
  <2>1. ~CallPromises /\ ~CallPromises'
    BY <1>1 DEF ReserveValues, CallReturns, CallPromises
  <2>2. QED
    BY <1>1, <1>k, <2>1
<1>2. CASE /\ ReserveValues /\ CanReserve /\ call' = [call EXCEPT !.stage = "fence"]
           /\ reserved' = [t \in Timelines |-> reserved[t] \cup {x[2] : x \in {y \in RequestValues : y[1] = t}}]
  <2>1. call.stage = "reserve" /\ call'.stage = "fence" /\ call'.request = call.request
    BY <1>0, <1>2 DEF CallOK, ReserveValues
  <2>2. ~CallPromises /\ CallPromises' /\ RequestValues' = RequestValues
    BY <2>1 DEF CallPromises, RequestValues
  <2>3. RequestValues \subseteq TimelineValues
    BY <1>0, CallTyped
  <2>4. \A x \in RequestValues : x[1] \in Timelines /\ x[2] \in Nat /\ x = <<x[1], x[2]>>
    BY <2>3, ValuePairs, QueueAssumption
  <2>5. \A t \in Timelines :
           /\ reserved[t] \subseteq reserved'[t]
           /\ \A v \in reserved'[t] : v \in reserved[t] \/ <<t, v>> \in RequestValues
    <3> SUFFICES ASSUME NEW t \in Timelines
                 PROVE  /\ reserved[t] \subseteq reserved'[t]
                        /\ \A v \in reserved'[t] : v \in reserved[t] \/ <<t, v>> \in RequestValues
      OBVIOUS
    <3>1. reserved'[t] = reserved[t] \cup {x[2] : x \in {y \in RequestValues : y[1] = t}}
      BY <1>2
    <3>2. QED
      BY <2>4, <3>1
  <2>6. \A x \in RequestValues : x[2] \in reserved'[x[1]]
    <3> SUFFICES ASSUME NEW x \in RequestValues PROVE x[2] \in reserved'[x[1]]
      OBVIOUS
    <3>1. x[1] \in Timelines
      BY <2>4
    <3>2. reserved'[x[1]] = reserved[x[1]] \cup {z[2] : z \in {y \in RequestValues : y[1] = x[1]}}
      BY <1>2, <3>1
    <3>3. QED
      BY <3>2
  <2>7. /\ \A x \in RequestValues : x[2] > value[x[1]] /\ \A v \in reserved[x[1]] : x[2] > v
        /\ \A i, j \in 1..Len(call.request.packets) :
             \A x \in call.request.packets[i].values, y \in call.request.packets[j].values :
               i < j /\ x[1] = y[1] => x[2] < y[2]
    BY <1>2 DEF CanReserve
  <2>8. PromisesAhead'
    <3> SUFFICES ASSUME NEW t \in Timelines, NEW v \in reserved'[t] PROVE value[t] < v
      BY <1>0 DEF PromisesAhead
    <3>1. CASE v \in reserved[t]
      BY <1>a, <3>1 DEF PromisesAhead
    <3>2. CASE <<t, v>> \in RequestValues
      <4>1. v > value[t]
        BY <2>7, <3>2
      <4>2. v \in Nat
        BY <2>4, <3>2
      <4>3. value[t] \in Nat
        BY <1>0, QueueAssumption DEF ObjectsOK
      <4>4. QED
        BY <4>1, <4>2, <4>3
    <3>3. QED
      BY <2>5, <3>1, <3>2
  <2>9. ASSUME NEW i, NEW p, Held(i, p)', NEW x \in p.values
        PROVE  /\ x[2] \in reserved'[x[1]]
               /\ \A y \in RequestValues : x[1] = y[1] => x[2] < y[2]
    <3>1. Held(i, p)
      BY <1>h, <2>9
    <3>2. x[2] \in reserved[x[1]] /\ x[1] \in Timelines /\ x[2] \in Nat
      BY <3>1, HeldTyped DEF Promises
    <3>3. ASSUME NEW y \in RequestValues, x[1] = y[1] PROVE x[2] < y[2]
      <4>1. y[2] > x[2] /\ y[2] \in Nat
        BY <2>4, <2>7, <3>2, <3>3
      <4>2. QED
        BY <3>2, <4>1
    <3>4. QED
      BY <2>5, <3>2, <3>3
  <2>10. ASSUME NEW t \in Timelines, NEW v \in reserved'[t]
         PROVE  \/ \E i, p : Held(i, p)' /\ <<t, v>> \in p.values
                \/ CallPromises' /\ <<t, v>> \in RequestValues'
    <3>1. CASE v \in reserved[t]
      <4>1. \E i, p : Held(i, p) /\ <<t, v>> \in p.values
        BY <2>2, <3>1 DEF Promises
      <4>2. QED
        BY <1>h, <4>1
    <3>2. QED
      BY <2>2, <2>5, <3>1
  <2>11. \A i, p, j, q : Held(i, p)' /\ Held(j, q)' /\ i < j =>
           \A x \in p.values, y \in q.values : x[1] = y[1] => x[2] < y[2]
    BY <1>h DEF Promises
  <2>12. QED
    BY <2>1, <2>2, <2>6, <2>7, <2>8, <2>9, <2>10, <2>11 DEF Promises
<1>3. CASE ReserveValues
  BY <1>1, <1>2, <1>3 DEF ReserveValues
<1>4. CASE ClaimFence
  <2>1. CallPromises
    BY <1>4 DEF ClaimFence, CallPromises
  <2>2. CASE reserved' = reserved /\ call' = [call EXCEPT !.stage = "admit"]
    <3>1. CallPromises' /\ call'.request = call.request
      BY <1>0, <2>2 DEF CallOK, CallPromises
    <3>2. QED
      BY <1>k, <2>1, <2>2, <3>1
  <2>3. QED
    BY <1>4, <1>w, <2>1, <2>2 DEF ClaimFence
<1>5. CASE Admit /\ ~\E r : Joins(r)
  <2>1. reserved' = Without(reserved, RequestValues)
    BY <1>5, AdmitGoes
  <2>2. CallPromises /\ CallReturns
    BY <1>5 DEF Admit, CallPromises
  <2>3. QED
    BY <1>w, <2>1, <2>2
<1>6. QED
  BY <1>3, <1>4, <1>5

\* A packet that settles leaves the promises of the others.
LEMMA PromisesSettle ==
  ASSUME QueueTypeOK, Shutdown, Numbering, Promises, PublishSignals \/ CancelSignals
  PROVE  Promises'
<1> DEFINE R == completion.item.packet.values
<1>0. ObjectsOK /\ CompletionOK /\ call' = call
  BY DEF QueueTypeOK, PublishSignals, CancelSignals, CompletionOnly
<1>1. reserved' = Without(reserved, R)
  BY DEF PublishSignals, CancelSignals
<1>2. \A t \in Timelines : reserved'[t] = {v \in reserved[t] : <<t, v>> \notin R}
  BY <1>1, WithoutIs
<1>3. Held(completion.item.id, completion.item.packet) /\ R \subseteq TimelineValues
  BY HeldSettles, PacketFields
<1>4. RequestValues' = RequestValues /\ (CallPromises' <=> CallPromises)
  BY <1>0 DEF RequestValues, CallPromises
\* Values that are promised by others are higher.
<1>5. ASSUME NEW i, NEW p, Held(i, p)', NEW x \in p.values, NEW y \in R, x[1] = y[1] PROVE y[2] < x[2]
  <2>1. Held(i, p)
    BY <1>5, HeldSettles
  <2>2. completion.item.id < i
    BY <1>5, HeldSettles, NoPacketIs
  <2>3. QED
    BY <1>3, <1>5, <2>1, <2>2 DEF Promises
<1>6. ASSUME CallPromises, NEW x \in RequestValues, NEW y \in R, x[1] = y[1] PROVE y[2] < x[2]
  BY <1>3, <1>6 DEF Promises
<1>7. \A y \in R : y[2] \in Nat
  BY <1>3, HeldTyped
<1>8. \A i, p : Held(i, p)' => Held(i, p) /\ p.values \cap R = {}
  <2> SUFFICES ASSUME NEW i, NEW p, Held(i, p)', NEW x \in p.values, x \in R PROVE FALSE
    BY HeldSettles
  <2>1. x[2] < x[2]
    BY <1>5
  <2>2. QED
    BY <1>7, <2>1
<1>9. CallPromises => RequestValues \cap R = {}
  <2> SUFFICES ASSUME CallPromises, NEW x \in RequestValues, x \in R PROVE FALSE
    OBVIOUS
  <2>1. x[2] < x[2]
    BY <1>6
  <2>2. QED
    BY <1>7, <2>1
<1>10. PromisesAhead'
  <2>1. CASE CancelSignals
    <3>1. value' = value /\ \A t \in Timelines : reserved'[t] \subseteq reserved[t]
      BY <1>2, <2>1 DEF CancelSignals
    <3>2. QED
      BY <3>1, FewerAhead DEF Promises
  <2>2. CASE PublishSignals
    <3> SUFFICES ASSUME NEW t \in Timelines, NEW v \in reserved'[t] PROVE value'[t] < v
      BY DEF PromisesAhead
    <3>1. value'[t] = Completed(t)
      BY <2>2 DEF PublishSignals
    <3>2. v \in reserved[t] /\ <<t, v>> \notin R
      BY <1>2
    <3>3. value[t] < v
      BY <3>2 DEF Promises, PromisesAhead
    <3>4. v \in Nat /\ value[t] \in 0..MaxValue
      BY <1>0, <3>2 DEF ObjectsOK
    <3>5. \A y \in R : y[1] = t => y[2] < v
      <4> SUFFICES ASSUME NEW y \in R, y[1] = t PROVE y[2] < v
        OBVIOUS
      <4>1. CASE \E i, p : Held(i, p) /\ <<t, v>> \in p.values
        <5>1. PICK i, p : Held(i, p) /\ <<t, v>> \in p.values
          BY <4>1
        <5>2. p # completion.item.packet
          BY <3>2, <5>1
        <5>3. Held(i, p)'
          BY <2>2, <5>1, <5>2, HeldSettles
        <5>4. QED
          BY <1>5, <5>1, <5>3
      <4>2. CASE CallPromises /\ <<t, v>> \in RequestValues
        BY <1>6, <4>2
      <4>3. QED
        BY <3>2, <4>1, <4>2 DEF Promises
    <3>6. CASE Completed(t) = value[t]
      BY <3>1, <3>3, <3>6
    <3>7. CASE \E y \in R : y[1] = t /\ Completed(t) = y[2]
      BY <3>1, <3>5, <3>7
    <3>8. QED
      BY <1>3, <3>4, <3>6, <3>7, CompletedIs
  <2>3. QED
    BY <2>1, <2>2
<1>11. \A i, p : Held(i, p) => Held(i, p)' \/ p.values \subseteq R
  BY HeldSettles
<1> HIDE DEF R
<1>12. QED
  BY <1>0, <1>2, <1>4, <1>8, <1>9, <1>10, <1>11, PromisesKeep

\* So do the packets that the queue thread gives up.
LEMMA PromisesFail ==
  ASSUME QueueTypeOK, Shutdown, Numbering, Promises, FailPackets
  PROVE  Promises'
<1> DEFINE R == ValuesOf(PacketsFrom(queue))
<1>0. value' = value /\ call' = call /\ reserved' = Without(reserved, R)
  BY DEF FailPackets
<1>1. \A t \in Timelines : reserved'[t] = {v \in reserved[t] : <<t, v>> \notin R}
  BY <1>0, WithoutIs
<1>2. RequestValues' = RequestValues /\ (CallPromises' <=> CallPromises)
  BY <1>0 DEF RequestValues, CallPromises
<1>3. \A x \in R : \E j, q : InQueue(j, q) /\ x \in q.values
  <2>1. \A x \in R : \E q \in PacketsFrom(queue) : x \in q.values
    BY DEF ValuesOf
  <2>2. QED
    BY <2>1, HeldFails
<1>4. \A j, q : InQueue(j, q) => q.values \subseteq R
  <2>1. \A j, q : InQueue(j, q) => q \in PacketsFrom(queue)
    BY HeldFails
  <2>2. QED
    BY <2>1 DEF ValuesOf
<1>5. ASSUME NEW i, NEW p, Held(i, p)' PROVE Held(i, p) /\ p.values \cap R = {}
  <2>1. Held(i, p)
    BY <1>5, HeldFails
  <2>2. ASSUME NEW x \in p.values, x \in R PROVE FALSE
    <3>1. PICK j, q : InQueue(j, q) /\ x \in q.values
      BY <1>3, <2>2
    <3>2. Held(j, q) /\ i # j
      BY <1>5, <3>1, HeldFails DEF Held
    <3>3. i \in Nat /\ j \in Nat /\ x[2] \in Nat
      BY <2>1, <2>2, <3>2, HeldTyped
    <3>4. i < j \/ j < i
      BY <3>2, <3>3
    <3>5. x[2] < x[2]
      BY <2>1, <2>2, <3>1, <3>2, <3>4 DEF Promises
    <3>6. QED
      BY <3>3, <3>5
  <2>3. QED
    BY <2>1, <2>2
<1>6. CallPromises => RequestValues \cap R = {}
  <2> SUFFICES ASSUME CallPromises, NEW x \in RequestValues, x \in R PROVE FALSE
    OBVIOUS
  <2>1. PICK j, q : InQueue(j, q) /\ x \in q.values
    BY <1>3
  <2>2. Held(j, q)
    BY <2>1 DEF Held
  <2>3. x[2] < x[2] /\ x[2] \in Nat
    BY <2>1, <2>2, HeldTyped DEF Promises
  <2>4. QED
    BY <2>3
<1>7. PromisesAhead'
  <2>1. \A t \in Timelines : reserved'[t] \subseteq reserved[t]
    BY <1>1
  <2>2. QED
    BY <1>0, <2>1, FewerAhead DEF Promises
<1>8. \A i, p : Held(i, p) => Held(i, p)' \/ p.values \subseteq R
  <2>1. \A i, p : Held(i, p) => Held(i, p)' \/ InQueue(i, p)
    BY HeldFails
  <2>2. QED
    BY <1>4, <2>1
<1>9. \A i, p : Held(i, p)' => Held(i, p) /\ p.values \cap R = {}
  BY <1>5
<1> HIDE DEF R
<1>10. QED
  BY <1>0, <1>1, <1>2, <1>6, <1>7, <1>8, <1>9, PromisesKeep

\* An admitted request takes its values to the channel.
LEMMA PromisesJoin ==
  ASSUME QueueTypeOK, Shutdown, Numbering, Promises, Admit, NEW r, Joins(r)
  PROVE  Promises'
<1>0. /\ call.stage = "admit" /\ CallPromises /\ ~CallPromises' /\ value' = value
      /\ issued \in Nat /\ CallOK
  BY DEF Admit, CallReturns, CallPromises, QueueTypeOK, CountersOK
<1>1. reserved' = reserved
  BY AdmitGoes DEF Joins, SamePlaces
<1>2. r.packets = call.request.packets /\ Len(call.request.packets) \in Nat
  BY <1>0, CallTyped DEF Joins
<1>3. \A x : x \in RequestValues <=> \E k \in 1..Len(r.packets) : x \in r.packets[k].values
  BY <1>2, RequestValuesOf
<1>4. \A i, p : Held(i, p)' <=> Held(i, p) \/ \E k \in 1..Len(r.packets) : i = issued + k /\ p = r.packets[k]
  BY HeldJoins
<1>5. ASSUME NEW t \in Timelines, NEW v \in reserved'[t] PROVE \E i, p : Held(i, p)' /\ <<t, v>> \in p.values
  <2>1. CASE \E i, p : Held(i, p) /\ <<t, v>> \in p.values
    BY <1>4, <2>1
  <2>2. CASE <<t, v>> \in RequestValues
    <3>1. PICK k \in 1..Len(r.packets) : <<t, v>> \in r.packets[k].values
      BY <1>3, <2>2
    <3>2. \A i, p : i = issued + k /\ p = r.packets[k] => Held(i, p)'
      BY <1>4
    <3>3. QED
      BY <3>1, <3>2
  <2>3. QED
    BY <1>1, <2>1, <2>2 DEF Promises
<1>6. ASSUME NEW i, NEW p, Held(i, p)', NEW x \in p.values PROVE x[2] \in reserved'[x[1]]
  <2>1. CASE Held(i, p)
    BY <1>1, <1>6, <2>1 DEF Promises
  <2>2. CASE \E k \in 1..Len(r.packets) : i = issued + k /\ p = r.packets[k]
    <3>1. x \in RequestValues
      BY <1>3, <1>6, <2>2
    <3>2. QED
      BY <1>0, <1>1, <3>1 DEF Promises
  <2>3. QED
    BY <1>4, <1>6, <2>1, <2>2
<1>7. ASSUME NEW i, NEW p, NEW j, NEW q, Held(i, p)', Held(j, q)', i < j,
             NEW x \in p.values, NEW y \in q.values, x[1] = y[1]
      PROVE  x[2] < y[2]
  <2>1. CASE Held(i, p) /\ Held(j, q)
    BY <1>7, <2>1 DEF Promises
  <2>2. CASE Held(i, p) /\ \E k \in 1..Len(r.packets) : j = issued + k /\ q = r.packets[k]
    <3>1. y \in RequestValues
      BY <1>3, <1>7, <2>2
    <3>2. QED
      BY <1>0, <1>7, <2>2, <3>1 DEF Promises
  <2>3. CASE Held(j, q) /\ \E k \in 1..Len(r.packets) : i = issued + k /\ p = r.packets[k]
    <3>1. j \in Nat /\ j <= issued
      BY <2>3, HeldTyped
    <3>2. PICK k \in 1..Len(r.packets) : i = issued + k
      BY <2>3
    <3>3. FALSE
      BY <1>0, <1>2, <1>7, <3>1, <3>2
    <3>4. QED
      BY <3>3
  <2>4. CASE /\ \E k \in 1..Len(r.packets) : i = issued + k /\ p = r.packets[k]
             /\ \E k \in 1..Len(r.packets) : j = issued + k /\ q = r.packets[k]
    <3>1. PICK k \in 1..Len(r.packets) : i = issued + k /\ p = r.packets[k]
      BY <2>4
    <3>2. PICK l \in 1..Len(r.packets) : j = issued + l /\ q = r.packets[l]
      BY <2>4
    <3>3. k < l
      BY <1>0, <1>2, <1>7, <3>1, <3>2
    <3>4. QED
      BY <1>0, <1>2, <1>7, <3>1, <3>2, <3>3 DEF Promises
  <2>5. QED
    BY <1>4, <1>7, <2>1, <2>2, <2>3, <2>4
<1>8. PromisesAhead'
  BY <1>0, <1>1 DEF Promises, PromisesAhead
<1>9. QED
  BY <1>0, <1>5, <1>6, <1>7, <1>8 DEF Promises

\* Every step keeps reserved values ahead and owned.
LEMMA PromisesStep ==
  QueueTypeOK /\ Shutdown /\ Numbering /\ Promises /\ [QueueNext]_queueVars => Promises'
<1> SUFFICES ASSUME QueueTypeOK, Shutdown, Numbering, Promises, [QueueNext]_queueVars PROVE Promises'
  OBVIOUS
<1>1. CASE PublishSignals \/ CancelSignals
  BY <1>1, PromisesSettle
<1>2. CASE FailPackets
  BY <1>2, PromisesFail
<1>3. CASE CallStep
  BY <1>3, PromisesCall, PromisesJoin DEF CallStep
\* The packets stay, and the call's values.
<1>h. ASSUME ~CallStep, ~FailPackets, ~PublishSignals, ~CancelSignals
      PROVE  \A i, p : /\ Held(i, p)' => Held(i, p) \/ p.values = {}
                       /\ Held(i, p) => Held(i, p)' \/ p.values = {}
  BY <1>h, HeldSteps DEF CallStep, Empty
<1>k. ASSUME reserved' = reserved, PromisesAhead', CallPromises' => CallPromises /\ call'.request = call.request,
             CallPromises => CallPromises', ~CallStep, ~FailPackets, ~PublishSignals, ~CancelSignals
      PROVE  Promises'
  <2> DEFINE R == {}
  <2>1. \A t \in Timelines : reserved'[t] = {v \in reserved[t] : <<t, v>> \notin R}
    BY <1>k
  <2>2. \A i, p : Held(i, p)' => p.values = {} \/ (Held(i, p) /\ p.values \cap R = {})
    BY <1>h, <1>k
  <2>3. \A i, p : Held(i, p) => Held(i, p)' \/ p.values \subseteq R
    BY <1>h, <1>k
  <2>4. RequestValues \cap R = {}
    OBVIOUS
  <2> HIDE DEF R
  <2>5. QED
    BY <1>k, <2>1, <2>2, <2>3, <2>4, PromisesKeep
<1>4. CASE /\ UNCHANGED <<reserved, value>> /\ ~CallStep /\ ~FailPackets
           /\ ~PublishSignals /\ ~CancelSignals
           /\ CallPromises' => CallPromises /\ call'.request = call.request
           /\ CallPromises => CallPromises'
  <2>1. PromisesAhead'
    BY <1>4 DEF Promises, PromisesAhead
  <2>2. QED
    BY <1>4, <1>k, <2>1
<1>5. ASSUME NEW t \in Timelines, NEW v \in 1..MaxValue, SignalTimeline(t, v),
             ~CallStep, ~FailPackets, ~PublishSignals, ~CancelSignals
      PROVE  Promises'
  <2>1. reserved' = reserved /\ call' = call /\ value' = [value EXCEPT ![t] = v]
    BY <1>5 DEF SignalTimeline, threads
  <2>2. value \in [Timelines -> 0..MaxValue]
    BY DEF QueueTypeOK, ObjectsOK
  <2>3. PromisesAhead'
    <3> SUFFICES ASSUME NEW u \in Timelines, NEW w \in reserved[u] PROVE value'[u] < w
      BY <2>1 DEF PromisesAhead
    <3>1. value[u] < w
      BY DEF Promises, PromisesAhead
    <3>2. u = t => v < w
      BY <1>5 DEF SignalTimeline, HostMaySet
    <3>3. QED
      BY <2>1, <2>2, <3>1, <3>2
  <2>4. (CallPromises' <=> CallPromises)
    BY <2>1 DEF CallPromises
  <2>5. QED
    BY <1>5, <1>k, <2>1, <2>3, <2>4
<1>6. QED
  BY <1>1, <1>2, <1>3, <1>4, <1>5, PromiseSteps

\* Nothing is reserved at first.
LEMMA PromisesInit == QueueInit => Promises
<1> SUFFICES ASSUME QueueInit PROVE Promises
  OBVIOUS
<1>1. \A t \in Timelines : reserved[t] = {}
  BY DEF QueueInit
<1>2. ~CallPromises
  BY DEF QueueInit, CallPromises
<1>3. \A i, p : ~Held(i, p)
  <2>1. channel = << >> /\ observed = << >> /\ queue.stage = "recv" /\ completion.stage = "recv"
    BY DEF QueueInit
  <2>2. ~Busy /\ ~Settling
    BY <2>1 DEF Busy, BusyStages, Settling
  <2>3. Len(channel) = 0 /\ Len(observed) = 0
    BY <2>1
  <2>4. QED
    BY <2>2, <2>3 DEF Held, InChannel, InQueue, InObserved, InCompletion
<1>4. QED
  BY <1>1, <1>2, <1>3 DEF Promises, PromisesAhead

\* Only a call makes a fence pending, and only the queue thread a semaphore.
LEMMA PendingSteps ==
  ASSUME QueueTypeOK, [QueueNext]_queueVars
  PROVE  /\ \A f \in Fences : fence'[f] = 2 =>
              fence[f] = 2 \/ (call'.stage = "admit" /\ call'.request.fence = f)
         /\ \A s \in Binaries : binary'[s] = 2 =>
              binary[s] = 2 \/ (ReserveSignals /\ s \in CurrentPacket.signals /\ queue'.stage = "call")
         /\ call.stage = "admit" => call' = call \/ Admit
<1> USE DEF queueVars, objects, threads, QueueOnly, CompletionOnly
<1>0. ObjectsOK /\ CallOK /\ CompletionOK /\ ThreadOK
  BY DEF QueueTypeOK
<1>1. ASSUME \A f \in Fences : fence'[f] = 2 => fence[f] = 2,
             \A s \in Binaries : binary'[s] = 2 => binary[s] = 2, call' = call \/ call.stage # "admit" \/ Admit
      PROVE  /\ \A f \in Fences : fence'[f] = 2 =>
                  fence[f] = 2 \/ (call'.stage = "admit" /\ call'.request.fence = f)
             /\ \A s \in Binaries : binary'[s] = 2 =>
                  binary[s] = 2 \/ (ReserveSignals /\ s \in CurrentPacket.signals /\ queue'.stage = "call")
             /\ call.stage = "admit" => call' = call \/ Admit
  BY <1>1
<1>2. CASE UNCHANGED <<fence, binary>> /\ (call' = call \/ call.stage # "admit" \/ Admit)
  BY <1>1, <1>2
<1>3. CASE ApplicationStep
  <2>1. CASE \E r \in Templates : Submit(r)
    BY <1>2, <2>1 DEF Submit
  <2>2. CASE \E f \in Fences : ResetFence(f)
    <3>1. PICK f \in Fences : fence' = [fence EXCEPT ![f] = 0] /\ binary' = binary /\ call' = call
      BY <2>2 DEF ResetFence
    <3>2. QED
      BY <1>0, <1>1, <3>1 DEF ObjectsOK
  <2>3. CASE \E s \in Binaries \cup {NoSemaphore}, f \in Fences \cup {NoFence} : AcquireSync(s, f)
    <3>1. PICK s, f : AcquireSync(s, f)
      BY <2>3
    <3>2. /\ binary' = binary \/ binary' = [binary EXCEPT ![s] = 1]
          /\ fence' = fence \/ fence' = [fence EXCEPT ![f] = 1]
          /\ call' = call
      BY <3>1 DEF AcquireSync
    <3>3. QED
      BY <1>0, <1>1, <3>2 DEF ObjectsOK
  <2>4. QED
    BY <1>2, <1>3, <2>1, <2>2, <2>3 DEF ApplicationStep, SignalTimeline, WaitForFences, WaitTimesOut, Destroy
<1>4. CASE DestroyStep \/ CheckFences \/ WorkerLosesDevice \/ Notify \/ UNCHANGED queueVars
  BY <1>2, <1>4 DEF DestroyStep, StopQueue, StopCompletion, DestroyLosesDevice, CheckFences,
     WorkerLosesDevice, Notify
<1>5. CASE CallStep
  <2>1. CASE ReserveValues
    BY <1>2, <2>1 DEF ReserveValues
  <2>2. CASE ClaimFence
    <3>1. call.stage = "fence" /\ binary' = binary
      BY <2>2 DEF ClaimFence
    <3>2. CASE fence' = fence
      BY <1>2, <3>1, <3>2
    <3>3. CASE fence' # fence
      <4>1. /\ fence' = [fence EXCEPT ![call.request.fence] = 2]
            /\ call' = [call EXCEPT !.stage = "admit"]
        BY <2>2, <3>3 DEF ClaimFence
      <4>2. call'.stage = "admit" /\ call'.request = call.request
        BY <1>0, <4>1 DEF CallOK
      <4>3. \A f \in Fences : fence'[f] = 2 => fence[f] = 2 \/ f = call.request.fence
        BY <1>0, <4>1 DEF ObjectsOK
      <4>4. QED
        BY <3>1, <4>2, <4>3
    <3>4. QED
      BY <3>2, <3>3
  <2>3. CASE Admit
    <3>1. binary' = binary /\ (fence' = fence \/ fence' = [fence EXCEPT ![call.request.fence] = 0])
      BY <2>3 DEF Admit, Unclaim
    <3>2. QED
      BY <1>0, <1>1, <2>3, <3>1 DEF ObjectsOK
  <2>4. QED
    BY <1>5, <2>1, <2>2, <2>3 DEF CallStep
<1>6. CASE QueueThread
  <2>1. call' = call
    BY <1>6 DEF QueueThread, Receive, WaitSemaphore, ReserveSignals, Execute, ExecuteFails, Observe,
       LoseDevice, FailPackets, DrainForPresent, Present, PresentFails
  <2>2. CASE WaitSemaphore
    <3>1. fence' = fence /\ (binary' = binary \/ \E w : binary' = [binary EXCEPT ![w] = 0])
      BY <2>2 DEF WaitSemaphore, Consume
    <3>2. QED
      BY <1>0, <1>1, <2>1, <3>1 DEF ObjectsOK
  <2>3. CASE ReserveSignals
    <3>1. fence' = fence
      BY <2>3 DEF ReserveSignals
    <3>2. CASE binary' = binary
      BY <1>2, <2>1, <3>1, <3>2
    <3>3. CASE binary' # binary
      <4>1. /\ binary' = [s \in Binaries |-> IF s \in CurrentPacket.signals THEN 2 ELSE binary[s]]
            /\ queue' = [queue EXCEPT !.stage = "call"]
        BY <2>3, <3>3 DEF ReserveSignals
      <4>2. queue'.stage = "call"
        BY <1>0, <4>1 DEF ThreadOK
      <4>3. QED
        BY <2>1, <2>3, <3>1, <4>1, <4>2
    <3>4. QED
      BY <3>2, <3>3
  <2>4. CASE FailPackets
    <3>1. fence' = fence \/ fence' = [fence EXCEPT ![queue.request.fence] = 0]
      BY <2>4 DEF FailPackets
    <3>2. \A s \in Binaries : binary'[s] = 2 => binary[s] = 2
      BY <2>4 DEF FailPackets
    <3>3. QED
      BY <1>0, <1>1, <2>1, <3>1, <3>2 DEF ObjectsOK
  <2>5. CASE ~WaitSemaphore /\ ~ReserveSignals /\ ~FailPackets
    <3>1. UNCHANGED <<fence, binary>>
      BY <1>6, <2>5 DEF QueueThread, Receive, Execute, ExecuteFails, Observe, LoseDevice,
         DrainForPresent, Present, PresentFails
    <3>2. QED
      BY <1>2, <2>1, <3>1
  <2>6. QED
    BY <2>2, <2>3, <2>4, <2>5
<1>7. CASE CompletionThread
  <2>1. call' = call
    BY <1>7 DEF CompletionThread, TakeReceipts, ReceiptsComplete, ReceiptFails, PublishSignals,
       CancelSignals, FinishInFlight, FinishPending
  <2>2. CASE PublishSignals \/ CancelSignals
    <3>1. PICK n \in {0, 1} : fence' = ItemFence(n) /\ binary' = ItemSignals(n)
      BY <2>2 DEF PublishSignals, CancelSignals
    <3>2. \A f \in Fences : fence'[f] = 2 => fence[f] = 2
      BY <1>0, <3>1 DEF ItemFence, ObjectsOK
    <3>3. \A s \in Binaries : binary'[s] = 2 => binary[s] = 2
      BY <3>1 DEF ItemSignals
    <3>4. QED
      BY <1>1, <2>1, <3>2, <3>3
  <2>3. CASE ~PublishSignals /\ ~CancelSignals
    <3>1. UNCHANGED <<fence, binary>>
      BY <1>7, <2>3 DEF CompletionThread, TakeReceipts, ReceiptsComplete, ReceiptFails,
         FinishInFlight, FinishPending
    <3>2. QED
      BY <1>2, <2>1, <3>1
  <2>4. QED
    BY <2>2, <2>3
<1>8. QED
  BY <1>3, <1>4, <1>5, <1>6, <1>7 DEF QueueNext

\* The fence of a request goes from the call to the channel, the queue thread
\* and the completion thread.
LEMMA FenceMoves ==
  ASSUME QueueTypeOK, Shutdown, Numbering, [QueueNext]_queueVars, NEW f \in Fences, FenceOwned(f)
  PROVE  FenceOwned(f)' \/ fence'[f] # 2
<1>0. ThreadOK /\ ChannelOK /\ ObservedOK /\ CompletionOK /\ ObjectsOK /\ f # NoFence
  BY QueueAssumption DEF QueueTypeOK
<1>a. ASSUME call.stage = "admit", call.request.fence = f, ~Admit PROVE FenceOwned(f)'
  BY <1>a, PendingSteps DEF FenceOwned
<1>c. ASSUME channel' = channel, \E c \in 1..Len(channel) : channel[c].fence = f PROVE FenceOwned(f)'
  BY <1>c DEF FenceOwned
<1>o. ASSUME observed' = observed, \E o \in 1..Len(observed) : observed[o].fence = f PROVE FenceOwned(f)'
  BY <1>o DEF FenceOwned
<1>q. ASSUME Busy' <=> Busy, queue'.request = queue.request, Busy, queue.request.fence = f PROVE FenceOwned(f)'
  BY <1>q DEF FenceOwned
<1>p. ASSUME Settling' <=> Settling, completion'.item = completion.item, Settling, completion.item.fence = f
      PROVE  FenceOwned(f)'
  BY <1>p DEF FenceOwned
<1>q1. ASSUME queue' = queue, Busy, queue.request.fence = f PROVE FenceOwned(f)'
  BY <1>q1 DEF FenceOwned, Busy
<1>p1. ASSUME completion' = completion, Settling, completion.item.fence = f PROVE FenceOwned(f)'
  BY <1>p1 DEF FenceOwned, Settling
\* Packets settle.
<1>1. CASE PublishSignals \/ CancelSignals
  <2>1. UNCHANGED <<channel, queue, observed, call>>
    BY <1>1 DEF PublishSignals, CancelSignals, CompletionOnly
  <2>2. CASE completion.item.fence = f
    <3>1. PICK n \in {0, 1} : fence' = ItemFence(n)
      BY <1>1 DEF PublishSignals, CancelSignals
    <3>2. fence'[f] # 2
      BY <1>0, <2>2, <3>1 DEF ItemFence, ObjectsOK
    <3>3. QED
      BY <3>2
  <2>3. CASE completion.item.fence # f
    BY <2>1, <2>3 DEF FenceOwned, Busy
  <2>4. QED
    BY <2>2, <2>3
\* Packets stay.
<1>2. CASE ~Moves /\ ~PublishSignals /\ ~CancelSignals
  <2>1. SamePlaces /\ (Settling' <=> Settling) /\ ~Admit
    BY <1>2, QuietPlaces, QuietSettling DEF Moves
  <2>2. QED
    BY <2>1, <1>a, <1>c, <1>o, <1>q, <1>p DEF SamePlaces, FenceOwned
<1>3. CASE Admit
  <2>1. UNCHANGED <<queue, observed, completion>>
    BY <1>3 DEF Admit
  <2>2. CASE \E r : Joins(r)
    <3>1. PICK r : Joins(r)
      BY <2>2
    <3>2. /\ Len(channel) \in Nat /\ Len(channel') = Len(channel) + 1
          /\ channel'[Len(channel) + 1] = r
          /\ \A i \in 1..Len(channel) : channel'[i] = channel[i]
      BY <1>0, <3>1, AppendIs DEF ChannelOK, Joins
    <3>3. Len(channel) + 1 \in 1..Len(channel') /\ \A i \in 1..Len(channel) : i \in 1..Len(channel')
      BY <3>2
    <3>4. CASE call.request.fence = f
      <4>1. channel'[Len(channel) + 1].fence = f
        BY <3>1, <3>2, <3>4 DEF Joins
      <4>2. QED
        BY <3>3, <4>1 DEF FenceOwned
    <3>5. CASE \E c \in 1..Len(channel) : channel[c].fence = f
      BY <3>2, <3>3, <3>5 DEF FenceOwned
    <3>6. QED
      BY <2>1, <3>4, <3>5, <1>o, <1>q1, <1>p1 DEF FenceOwned
  <2>3. CASE ~\E r : Joins(r)
    <3>1. channel' = channel /\ Unclaim
      BY <1>3, <2>3, AdmitGoes DEF SamePlaces
    <3>2. call.request.fence = f => fence'[f] # 2
      BY <1>0, <3>1 DEF Unclaim, ObjectsOK
    <3>3. QED
      BY <2>1, <3>1, <3>2, <1>c, <1>o, <1>q1, <1>p1 DEF FenceOwned
  <2>4. QED
    BY <2>2, <2>3
<1>4. CASE StopQueue
  <2>1. UNCHANGED <<queue, observed, completion>> /\ ~Admit
    BY <1>4 DEF StopQueue, Admit
  <2>2. ASSUME NEW c \in 1..Len(channel), channel[c].fence = f PROVE FenceOwned(f)'
    <3>1. /\ Len(channel) \in Nat /\ Len(channel') = Len(channel) + 1 /\ channel'[c] = channel[c]
      BY <1>4, StoppingStarts, ChannelAt, <1>0
    <3>2. c \in 1..Len(channel')
      BY <3>1
    <3>3. QED
      BY <2>2, <3>1, <3>2 DEF FenceOwned
  <2>3. ~Admit
    BY <2>1
  <2>4. QED
    BY <2>1, <2>2, <1>a, <1>o, <1>q1, <1>p1 DEF FenceOwned
<1>5. CASE StopCompletion
  <2>1. UNCHANGED <<queue, channel, completion>> /\ ~Admit
    BY <1>5 DEF StopCompletion, Admit
  <2>2. ASSUME NEW o \in 1..Len(observed), observed[o].fence = f PROVE FenceOwned(f)'
    <3>1. NoItem \in Items \cup {NoItem}
      OBVIOUS
    <3>2. Len(observed) \in Nat /\ Len(observed') = Len(observed) + 1 /\ observed'[o] = observed[o]
      <4>1. observed' = Append(observed, NoItem) /\ observed \in Seq(Items \cup {NoItem})
        BY <1>0, <1>5, OtherMoves DEF ObservedOK
      <4> QED
        BY <3>1, <4>1, AppendIs
    <3>3. o \in 1..Len(observed')
      BY <3>2
    <3>4. QED
      BY <2>2, <3>2, <3>3 DEF FenceOwned
  <2>3. QED
    BY <2>1, <2>2, <1>a, <1>c, <1>q1, <1>p1 DEF FenceOwned
<1>6. CASE Receive
  <2>1. UNCHANGED <<observed, completion>> /\ ~Busy /\ ~Admit
    BY <1>0, <1>6, ReceiveGoes, OtherMoves DEF Admit
  <2>2. ASSUME NEW c \in 1..Len(channel), channel[c].fence = f PROVE FenceOwned(f)'
    <3>1. /\ Len(channel) \in Nat \ {0} /\ Len(channel') = Len(channel) - 1
          /\ \A i \in 1..Len(channel) - 1 : channel'[i] = channel[i + 1]
      BY <1>6, ReceivingStarts
    <3>2. channel[c] # Stop
      BY <1>0, <2>2 DEF Stop
    <3>3. CASE c = 1
      <4>1. Head(channel) = channel[1]
        BY <1>0, <1>6, HeadTyped DEF Receive
      <4>2. queue'.request = channel[1] /\ Busy'
        BY <1>6, <3>2, <3>3, <4>1, ReceivingAt
      <4>3. QED
        BY <2>2, <3>3, <4>2 DEF FenceOwned
    <3>4. CASE c # 1
      <4>1. c - 1 \in 1..Len(channel) - 1 /\ c - 1 \in 1..Len(channel') /\ c - 1 + 1 = c
        BY <3>1, <3>4
      <4>2. channel'[c - 1] = channel[c]
        BY <3>1, <4>1
      <4>3. QED
        BY <2>2, <4>1, <4>2 DEF FenceOwned
    <3>5. QED
      BY <3>3, <3>4
  <2>3. QED
    BY <2>1, <2>2, <1>a, <1>o, <1>p1 DEF FenceOwned
<1>7. CASE Observe
  <2>1. UNCHANGED <<channel, completion>> /\ ~Admit
    <3>1. UNCHANGED <<channel, completion, call>>
      BY <1>7, OtherMoves
    <3>2. Admit => call.stage = "admit" /\ call'.stage = "none"
      BY DEF Admit, CallReturns
    <3>3. QED
      BY <3>1, <3>2
  <2>2. PICK item \in Items :
           /\ observed' = Append(observed, item)
           /\ item.fence = IF LastPacket THEN queue.request.fence ELSE NoFence
    BY <1>0, <1>7, ItemPassedOn
  <2>3. /\ Len(observed) \in Nat /\ Len(observed') = Len(observed) + 1
        /\ observed'[Len(observed) + 1] = item
        /\ \A i \in 1..Len(observed) : observed'[i] = observed[i]
    BY <1>0, <2>2, AppendIs DEF ObservedOK
  <2>4. Len(observed) + 1 \in 1..Len(observed') /\ \A i \in 1..Len(observed) : i \in 1..Len(observed')
    BY <2>3
  <2>5. ASSUME NEW o \in 1..Len(observed), observed[o].fence = f PROVE FenceOwned(f)'
    BY <2>3, <2>4, <2>5 DEF FenceOwned
  <2>6. ASSUME Busy, queue.request.fence = f PROVE FenceOwned(f)'
    <3>1. CASE LastPacket
      <4>1. observed'[Len(observed) + 1].fence = f
        BY <2>2, <2>3, <2>6, <3>1
      <4>2. QED
        BY <2>4, <4>1 DEF FenceOwned
    <3>2. CASE ~LastPacket
      <4>1. Busy' /\ queue'.request = queue.request
        BY <1>0, <1>7, <3>2, ObservingAt, ObserveGoes DEF LastPacket
      <4>2. QED
        BY <2>6, <4>1 DEF FenceOwned
    <3>3. QED
      BY <3>1, <3>2
  <2>7. QED
    BY <2>1, <2>5, <2>6, <1>a, <1>c, <1>p1 DEF FenceOwned
<1>8. CASE FailPackets \/ Present
  <2>1. UNCHANGED <<channel, observed, completion>> /\ ~Admit
    BY <1>8, LeavingGoes DEF Leaves, FailPackets, Present, QueueOnly, Admit
  <2>2. ASSUME Busy, queue.request.fence = f PROVE fence'[f] # 2
    <3>1. CASE FailPackets
      BY <1>0, <2>2, <3>1 DEF FailPackets, ObjectsOK
    <3>2. CASE Present
      <4>1. queue.request.kind = "present"
        BY <3>2 DEF Present
      <4>2. queue.request \in Requests
        BY <1>0, <2>2, RequestTyped
      <4>3. FALSE
        BY <1>0, <2>2, <4>1, <4>2, RequestFields
      <4>4. QED
        BY <4>3
    <3>3. QED
      BY <1>8, <3>1, <3>2
  <2>3. QED
    BY <2>1, <2>2, <1>a, <1>c, <1>o, <1>p1 DEF FenceOwned
<1>9. CASE TakeReceipts
  <2>1. UNCHANGED <<channel, queue>> /\ ~Settling /\ ~Admit
    BY <1>0, <1>9, OtherMoves, TakeReceiptsGoes DEF Settling, Admit, TakeReceipts
  <2>2. ASSUME NEW o \in 1..Len(observed), observed[o].fence = f PROVE FenceOwned(f)'
    <3>1. /\ Len(observed) \in Nat \ {0} /\ observed' = Tail(observed)
          /\ Len(observed') = Len(observed) - 1
          /\ \A i \in 1..Len(observed) - 1 : observed'[i] = observed[i + 1]
      BY <1>0, <1>9, TakeReceiptsGoes
    <3>2. CASE o = 1
      <4>1. observed[1] # NoItem
        BY <1>0, <2>2, <3>2 DEF NoItem
      <4>2. completion'.stage = "drain" /\ completion'.item = observed[1]
        BY <1>0, <1>9, <4>1, TakeReceiptsGoes
      <4>3. Settling' /\ completion'.item.fence = f
        BY <2>2, <3>2, <4>2 DEF Settling
      <4>4. QED
        BY <4>3 DEF FenceOwned
    <3>3. CASE o # 1
      <4>1. o - 1 \in 1..Len(observed) - 1 /\ o - 1 \in 1..Len(observed') /\ o - 1 + 1 = o
        BY <3>1, <3>3
      <4>2. observed'[o - 1] = observed[o]
        BY <3>1, <4>1
      <4>3. QED
        BY <2>2, <4>1, <4>2 DEF FenceOwned
    <3>4. QED
      BY <3>2, <3>3
  <2>3. QED
    BY <2>1, <2>2, <1>a, <1>c, <1>q1 DEF FenceOwned
<1>10. CASE FinishPending
  <2>1. UNCHANGED <<channel, queue, observed>> /\ ~Settling /\ ~Admit
    BY <1>0, <1>10, OtherMoves, CompletionThreadGoes DEF Settling, FinishPending, Admit, CompletionOnly, counts
  <2>2. QED
    BY <2>1, <1>a, <1>c, <1>o, <1>q1 DEF FenceOwned
<1>11. QED
  BY <1>1, <1>2, <1>3, <1>4, <1>5, <1>6, <1>7, <1>8, <1>9, <1>10 DEF Moves

\* A semaphore that a packet will signal goes with it.
LEMMA OwnersStep == QueueTypeOK /\ Shutdown /\ Numbering /\ Owners /\ [QueueNext]_queueVars => Owners'
<1> SUFFICES ASSUME QueueTypeOK, Shutdown, Numbering, Owners, [QueueNext]_queueVars PROVE Owners'
  OBVIOUS
<1>0. ObjectsOK /\ ThreadOK /\ CompletionOK
  BY DEF QueueTypeOK
<1>1. ASSUME NEW f \in Fences, fence'[f] = 2 PROVE FenceOwned(f)'
  <2>1. CASE fence[f] = 2
    BY <1>1, <2>1, FenceMoves DEF Owners
  <2>2. CASE call'.stage = "admit" /\ call'.request.fence = f
    BY <2>2 DEF FenceOwned
  <2>3. QED
    BY <1>1, <2>1, <2>2, PendingSteps
<1>2. ASSUME NEW s \in Binaries, binary'[s] = 2 PROVE \E i, p : Held(i, p)' /\ s \in p.signals
  <2>1. CASE ReserveSignals /\ s \in CurrentPacket.signals /\ queue'.stage = "call"
    <3>1. Busy /\ queue'.request = queue.request /\ queue'.index = queue.index
      BY <1>0, <2>1, QueueThreadGoes
    <3>2. Busy'
      BY <2>1 DEF Busy, BusyStages
    <3>3. queue.index \in 1..Len(queue.request.packets) /\ Len(queue.request.packets) \in Nat
      BY <1>0, <3>1, RequestTyped
    <3>4. \A i, p : i = queue.request.first + queue.index - 1 /\ p = CurrentPacket => InQueue(i, p)'
      BY <3>1, <3>2, <3>3 DEF InQueue, CurrentPacket
    <3>5. QED
      BY <2>1, <3>4 DEF Held
  <2>2. CASE binary[s] = 2
    <3>1. PICK i, p : Held(i, p) /\ s \in p.signals
      BY <2>2 DEF Owners
    <3>2. CASE ~Admit /\ ~FailPackets /\ ~PublishSignals /\ ~CancelSignals
      BY <3>1, <3>2, HeldSteps DEF Empty
    <3>3. CASE Admit
      <4>1. CASE \E r : Joins(r)
        BY <3>1, <4>1, HeldJoins
      <4>2. CASE ~\E r : Joins(r)
        <5>1. SamePlaces /\ completion' = completion
          BY <3>3, <4>2, AdmitGoes
        <5>2. Held(i, p)'
          BY <3>1, <5>1, HeldKeeps DEF Held, InCompletion, Settling
        <5>3. QED
          BY <3>1, <5>2
      <4>3. QED
        BY <4>1, <4>2
    <3>4. CASE FailPackets
      <4>1. s \notin SignalsOf(PacketsFrom(queue))
        BY <1>2, <2>2, <3>4 DEF FailPackets
      <4>2. ~InQueue(i, p)
        <5>1. InQueue(i, p) => p \in PacketsFrom(queue)
          BY <3>4, HeldFails
        <5>2. QED
          BY <3>1, <4>1, <5>1 DEF SignalsOf
      <4>3. QED
        BY <3>1, <3>4, <4>2, HeldFails
    <3>5. CASE PublishSignals \/ CancelSignals
      <4>1. PICK n \in {0, 1} : binary' = ItemSignals(n)
        BY <3>5 DEF PublishSignals, CancelSignals
      <4>2. s \notin completion.item.packet.signals
        BY <1>2, <4>1 DEF ItemSignals
      <4>3. QED
        BY <3>1, <3>5, <4>2, HeldSettles
    <3>6. QED
      BY <3>2, <3>3, <3>4, <3>5
  <2>3. QED
    BY <1>2, <2>1, <2>2, PendingSteps
<1>3. QED
  BY <1>1, <1>2 DEF Owners

\* Nothing is pending at first.
LEMMA OwnersInit == QueueInit => Owners
BY QueueAssumption DEF QueueInit, Owners

\* When nothing is pending no thread has a packet.
LEMMA IdleHoldsNothing ==
  ASSUME QueueTypeOK, Shutdown, Numbering, Counts, pending = 0
  PROVE  /\ ~Busy /\ ~InHand /\ ObservedCount = 0
         /\ \A c \in 1..Len(channel) : channel[c] = Stop
         /\ \A o \in 1..Len(observed) : observed[o] = NoItem
<1>0. ChannelOK /\ ThreadOK /\ ObservedOK /\ issued \in Nat
  BY DEF QueueTypeOK, CountersOK
<1>1. QueueAt \in Nat /\ StartOf(1) \in Nat /\ QueueAt <= StartOf(1) /\ StartOf(1) <= issued + 1
  BY <1>0, QueueAtTyped, StartTyped, QueueIsBehind
<1>2. ObservedCount \in Nat
  BY <1>0, ObservedCountTyped
<1>3. One(InHand) \in 0..1 /\ (One(InHand) = 0 => ~InHand)
  BY DEF One
<1>4. issued + 1 - QueueAt + ObservedCount + One(InHand) = 0
  BY DEF Counts
<1>5. QueueAt = issued + 1 /\ ObservedCount = 0 /\ One(InHand) = 0
  BY <1>0, <1>1, <1>2, <1>3, <1>4
<1>6. ~Busy
  BY <1>0, <1>1, <1>5, QueueIsBehind
<1>7. ASSUME NEW c \in 1..Len(channel), channel[c] # Stop PROVE FALSE
  <2>1. StartOf(1) <= channel[c].first
    BY <1>7, QueueIsBehind
  <2>2. channel[c].first \in Nat /\ Len(channel[c].packets) \in Nat \ {0}
    BY <1>0, <1>7, ChannelAt
  <2>3. channel[c].first + Len(channel[c].packets) <= issued + 1
    BY <1>7 DEF Numbering, ChannelNumbered
  <2>4. QED
    BY <1>0, <1>1, <1>5, <2>1, <2>2, <2>3
<1>8. ASSUME NEW o \in 1..Len(observed), observed[o] # NoItem PROVE FALSE
  <2>1. Len(observed) \in Nat /\ observed # << >>
    BY <1>0, ObservedAt
  <2>2. CASE observed[Len(observed)] = NoItem
    <3>1. Len(observed) - 1 = 0
      BY <1>5, <2>1, <2>2 DEF ObservedCount
    <3>2. o = Len(observed)
      <4>1. Len(observed) \in Nat /\ o \in 1..Len(observed)
        BY <2>1
      <4>2. Len(observed) = 1
        BY <3>1, <4>1
      <4>3. QED
        BY <4>1, <4>2
    <3>3. QED
      BY <1>8, <2>2, <3>2
  <2>3. CASE observed[Len(observed)] # NoItem
    <3>1. Len(observed) = 0
      BY <1>5, <2>3 DEF ObservedCount
    <3>2. QED
      BY <3>1
  <2>4. QED
    BY <2>2, <2>3
<1>9. QED
  BY <1>3, <1>5, <1>6, <1>7, <1>8

\* With no packet pending every fence and semaphore is settled.
LEMMA IdleSettled ==
  ASSUME QueueTypeOK, Shutdown, Numbering, Counts, Promises, Owners
  PROVE  IdleMeansSettled
<1> SUFFICES ASSUME pending = 0, call.stage = "none"
             PROVE  /\ \A f \in Fences : fence[f] # 2
                    /\ \A s \in Binaries : binary[s] # 2
                    /\ \A t \in Timelines : reserved[t] = {}
                    /\ inFlight = 0
  BY DEF IdleMeansSettled
<1>1. /\ ~Busy /\ ~InHand /\ ObservedCount = 0
      /\ \A c \in 1..Len(channel) : channel[c] = Stop
      /\ \A o \in 1..Len(observed) : observed[o] = NoItem
  BY IdleHoldsNothing
<1>2. ~Settling
  BY <1>1 DEF Settling, InHand, InHandStages
<1>3. ASSUME NEW i, NEW p, Held(i, p) PROVE p.values = {} /\ p.signals = {}
  <2>1. ~InChannel(i, p)
    <3>1. \A c \in 1..Len(channel) : Len(channel[c].packets) = 0
      BY <1>1, StopIsNone
    <3>2. QED
      BY <3>1 DEF InChannel
  <2>2. InObserved(i, p)
    BY <1>1, <1>2, <1>3, <2>1 DEF Held, InQueue, InCompletion
  <2>3. p = NoPacket
    BY <1>1, <2>2, NoItemIsNone DEF InObserved
  <2>4. QED
    BY <2>3, NoPacketIs
<1>4. \A f \in Fences : ~FenceOwned(f)
  <2> SUFFICES ASSUME NEW f \in Fences, FenceOwned(f) PROVE FALSE
    OBVIOUS
  <2>1. f # NoFence
    BY QueueAssumption
  <2>2. Stop.fence = NoFence /\ NoItem.fence = NoFence
    BY DEF Stop, NoItem
  <2>3. QED
    BY <1>1, <1>2, <2>1, <2>2 DEF FenceOwned
<1>5. \A f \in Fences : fence[f] # 2
  BY <1>4 DEF Owners
<1>6. \A s \in Binaries : binary[s] # 2
  BY <1>3 DEF Owners
<1>7. \A t \in Timelines : reserved[t] = {}
  <2> SUFFICES ASSUME NEW t \in Timelines, NEW v \in reserved[t] PROVE FALSE
    OBVIOUS
  <2>1. ~CallPromises
    BY DEF CallPromises
  <2>2. QED
    BY <1>3, <2>1 DEF Promises
<1>8. inFlight = 0
  <2>1. queue.stage # "observe"
    BY <1>1 DEF Busy, BusyStages
  <2>2. completion.stage \notin {"drain", "signal", "cancel", "finish"}
    BY <1>1 DEF InHand, InHandStages
  <2>3. One(queue.stage = "observe") = 0 /\ One(completion.stage \in {"drain", "signal", "cancel", "finish"}) = 0
    BY <2>1, <2>2 DEF One
  <2>4. QED
    BY <1>1, <2>3 DEF Counts
<1>9. QED
  BY <1>5, <1>6, <1>7, <1>8

\* Nothing is counted at first.
LEMMA CountsInit == QueueInit => Counts
<1> SUFFICES ASSUME QueueInit PROVE Counts
  OBVIOUS
<1>1. /\ channel = << >> /\ observed = << >> /\ queue.stage = "recv" /\ completion.stage = "recv"
      /\ pending = 0 /\ inFlight = 0 /\ issued = 0
  BY DEF QueueInit
<1>2. ~Busy /\ ~InHand
  BY <1>1 DEF Busy, BusyStages, InHand, InHandStages
<1>3. Len(channel) = 0 /\ Len(observed) = 0
  BY <1>1
<1>4. QueueAt = 1
  <2>1. 1 \notin 1..Len(channel)
    BY <1>3
  <2>2. QED
    BY <1>1, <1>2, <2>1 DEF QueueAt, StartOf
<1>5. ObservedCount = 0
  BY <1>1, <1>3 DEF ObservedCount
<1>6. One(FALSE) = 0
  BY DEF One
<1>7. (InHand <=> FALSE) /\ ((queue.stage = "observe") <=> FALSE)
      /\ ((completion.stage \in {"drain", "signal", "cancel", "finish"}) <=> FALSE)
  BY <1>1, <1>2
<1>8. One(InHand) = 0 /\ One(queue.stage = "observe") = 0
      /\ One(completion.stage \in {"drain", "signal", "cancel", "finish"}) = 0
  BY <1>7 DEF One
<1>9. QED
  BY <1>1, <1>4, <1>5, <1>8 DEF Counts

\* Nobody sleeps at first.
LEMMA SleepersInit == QueueInit => Sleepers
BY DEF QueueInit, Sleepers

\* A packet that uses semaphores once has one operation for each.
LEMMA OnceIs ==
  ASSUME NEW p, UsesOnce(p)
  PROVE  /\ OnceIn(p.waits, p)
         /\ \A s \in Binaries, o \in Ops : NowDue(p.waits, p, s, o) <=> o = OpIn(p, s)
<1>1. OnceIn(p.waits, p)
  BY DEF UsesOnce, OnceIn
<1>2. ASSUME NEW s \in Binaries, Waits(p, s) PROVE s \notin p.signals
  BY <1>2 DEF UsesOnce, Waits
<1>3. ASSUME NEW s \in Binaries, NEW o \in Ops PROVE NowDue(p.waits, p, s, o) <=> o = OpIn(p, s)
  <2>1. NowDue(p.waits, p, s, o) <=> (o = "signal" /\ s \in p.signals) \/ (o = "wait" /\ Waits(p, s))
    BY DEF NowDue, Waits
  <2>2. CASE s \in p.signals
    BY <1>2, <2>1, <2>2 DEF OpIn
  <2>3. CASE s \notin p.signals
    BY <2>1, <2>3 DEF OpIn, Ops
  <2>4. QED
    BY <2>2, <2>3
<1>4. QED
  BY <1>1, <1>3

\* The queue thread's packet is the one that bears its number.
LEMMA NowIs ==
  ASSUME ThreadOK, ChannelOK, issued \in Nat, Busy
  PROVE  \A p : InQueue(QueueAt, p) <=> p = CurrentPacket
<1>1. /\ queue.request.first \in Nat \ {0} /\ queue.index \in 1..Len(queue.request.packets)
      /\ Len(queue.request.packets) \in Nat
  BY RequestTyped
<1>2. QueueAt = queue.request.first + queue.index - 1
  BY DEF QueueAt
<1>3. \A k \in queue.index..Len(queue.request.packets) : QueueAt = queue.request.first + k - 1 <=> k = queue.index
  BY <1>1, <1>2
<1>4. queue.index \in queue.index..Len(queue.request.packets)
  BY <1>1
<1>5. QED
  BY <1>3, <1>4 DEF InQueue, CurrentPacket

\* An operation that is due belongs to a packet that the queue thread has not passed.
LEMMA DueTyped ==
  ASSUME QueueTypeOK, Shutdown, Numbering, NEW i, NEW s, NEW o, Due(i, s, o)
  PROVE  /\ i \in 0..issued /\ QueueAt \in Nat \ {0}
         /\ (i = 0 /\ DueFirst(s, o)) \/ QueueAt <= i
         /\ Busy /\ i = QueueAt => InEntry /\ NowDue(queue.toWait, CurrentPacket, s, o)
<1>0. ChannelOK /\ ThreadOK /\ issued \in Nat
  BY DEF QueueTypeOK, CountersOK
<1>1. QueueAt \in Nat \ {0} /\ StartOf(1) \in Nat /\ QueueAt <= StartOf(1) /\ StartOf(1) <= issued + 1
      /\ (Busy => QueueAt < StartOf(1))
  BY <1>0, QueueAtTyped, StartTyped, QueueIsBehind
<1>2. CASE i = 0 /\ DueFirst(s, o)
  BY <1>0, <1>1, <1>2
<1>3. CASE DueInChannel(i, s, o)
  <2>1. i \in Nat /\ StartOf(1) <= i /\ i <= issued
    BY <1>3, PlacesAre DEF DueInChannel
  <2>2. QED
    BY <1>0, <1>1, <2>1
<1>4. CASE DueInQueue(i, s, o)
  <2>1. PICK p : InQueue(i, p) /\ (i = QueueAt => InEntry /\ NowDue(queue.toWait, p, s, o))
    BY <1>4 DEF DueInQueue
  <2>2. i \in Nat /\ QueueAt <= i /\ i < StartOf(1)
    BY <2>1, PlacesAre
  <2>3. Busy /\ i = QueueAt => p = CurrentPacket
    BY <1>0, <2>1, NowIs
  <2>4. i \in 0..issued
    BY <1>0, <1>1, <2>2
  <2>5. QED
    BY <1>1, <2>1, <2>2, <2>3, <2>4
<1>5. QED
  BY <1>2, <1>3, <1>4 DEF Due

\* What is due of the current packet.
LEMMA DueNow ==
  ASSUME QueueTypeOK, Busy, NEW s, NEW o, InEntry, NowDue(queue.toWait, CurrentPacket, s, o)
  PROVE  Due(QueueAt, s, o)
<1>1. InQueue(QueueAt, CurrentPacket)
  BY NowIs DEF QueueTypeOK, CountersOK
<1>2. QED
  BY <1>1 DEF Due, DueInQueue

\* The turns stay when the same operations are due.
LEMMA AlternatesKeeps ==
  ASSUME NEW s, Alternates(s), lastOp'[s] = lastOp[s], lastOp[s] \in Ops, issued' = issued,
         \A i : \A o \in Ops : Due(i, s, o)' <=> Due(i, s, o)
  PROVE  Alternates(s)'
<1> SUFFICES ASSUME NEW o \in Ops
             PROVE  /\ \A i, j \in 0..issued' :
                         i < j /\ Due(i, s, o)' /\ Due(j, s, o)' =>
                           \E k \in i + 1..j - 1 : \E u \in Ops \ {o} : Due(k, s, u)'
                    /\ \A i \in 0..issued' :
                         Due(i, s, o)' /\ o # lastOp'[s] =>
                           \E k \in i + 1..issued' : Due(k, s, lastOp[s])'
  BY DEF Alternates
<1>1. ASSUME NEW i \in 0..issued, NEW j \in 0..issued, i < j, Due(i, s, o)', Due(j, s, o)'
      PROVE  \E k \in i + 1..j - 1 : \E u \in Ops \ {o} : Due(k, s, u)'
  <2>1. \E k \in i + 1..j - 1 : \E u \in Ops \ {o} : Due(k, s, u)
    BY <1>1 DEF Alternates
  <2>2. QED
    BY <2>1
<1>2. ASSUME NEW i \in 0..issued, Due(i, s, o)', o # lastOp[s]
      PROVE  \E k \in i + 1..issued : \A u : u = lastOp[s] => Due(k, s, u)'
  <2>1. \E k \in i + 1..issued : Due(k, s, lastOp[s])
    BY <1>2 DEF Alternates
  <2>2. QED
    BY <2>1
<1>3. ASSUME NEW i \in 0..issued, Due(i, s, o)', o # lastOp[s]
      PROVE  \E k \in i + 1..issued' : Due(k, s, lastOp[s])'
  <2>1. PICK k \in i + 1..issued : \A u : u = lastOp[s] => Due(k, s, u)'
    BY <1>2, <1>3
  <2>2. Due(k, s, lastOp[s])'
    BY <2>1
  <2>3. QED
    BY <2>1, <2>2
<1>4. QED
  BY <1>1, <1>3

\* The queue thread comes to operation o, the next one.
LEMMA AlternatesTurns ==
  ASSUME NEW s, Alternates(s), lastOp'[s] = lastOp[s], lastOp[s] \in Ops, issued' = issued, issued \in Nat,
         NEW m \in 1..issued, NEW o \in Ops, Due(m, s, o),
         \A i : \A u \in Ops : Due(i, s, u)' <=> (i = 0 /\ u = o) \/ (i \in m + 1..issued /\ Due(i, s, u))
  PROVE  Alternates(s)'
<1> SUFFICES ASSUME NEW u \in Ops
             PROVE  /\ \A i, j \in 0..issued :
                         i < j /\ Due(i, s, u)' /\ Due(j, s, u)' =>
                           \E k \in i + 1..j - 1 : \E w \in Ops \ {u} : Due(k, s, w)'
                    /\ \A i \in 0..issued :
                         Due(i, s, u)' /\ u # lastOp[s] =>
                           \E k \in i + 1..issued : \A w : w = lastOp[s] => Due(k, s, w)'
  BY DEF Alternates
<1>1. ASSUME NEW i \in 0..issued, NEW j \in 0..issued, i < j, Due(i, s, u)', Due(j, s, u)'
      PROVE  \E k \in i + 1..j - 1 : \E w \in Ops \ {u} : Due(k, s, w)'
  <2>1. j \in m + 1..issued /\ Due(j, s, u)
    BY <1>1
  <2>2. CASE i = 0
    <3>1. u = o
      BY <1>1, <2>2
    <3>2. PICK k \in m + 1..j - 1 : \E w \in Ops \ {u} : Due(k, s, w)
      BY <2>1, <3>1 DEF Alternates
    <3>3. k \in m + 1..issued /\ k \in i + 1..j - 1
      BY <2>1, <2>2
    <3>4. QED
      BY <3>2, <3>3
  <2>3. CASE i # 0
    <3>1. i \in m + 1..issued /\ Due(i, s, u)
      BY <1>1, <2>3
    <3>2. PICK k \in i + 1..j - 1 : \E w \in Ops \ {u} : Due(k, s, w)
      BY <1>1, <2>1, <3>1 DEF Alternates
    <3>3. k \in m + 1..issued
      BY <2>1, <3>1
    <3>4. QED
      BY <3>2, <3>3
  <2>4. QED
    BY <2>2, <2>3
<1>2. ASSUME NEW i \in 0..issued, Due(i, s, u)', u # lastOp[s]
      PROVE  \E k \in i + 1..issued : \A w : w = lastOp[s] => Due(k, s, w)'
  <2>1. CASE i = 0
    <3>1. u = o
      BY <1>2, <2>1
    <3>2. PICK k \in m + 1..issued : Due(k, s, lastOp[s])
      BY <1>2, <3>1 DEF Alternates
    <3>3. k \in i + 1..issued
      BY <2>1
    <3>4. QED
      BY <3>2, <3>3
  <2>2. CASE i # 0
    <3>1. i \in m + 1..issued /\ Due(i, s, u)
      BY <1>2, <2>2
    <3>2. PICK k \in i + 1..issued : Due(k, s, lastOp[s])
      BY <1>2, <3>1 DEF Alternates
    <3>3. k \in m + 1..issued
      BY <3>1
    <3>4. QED
      BY <3>2, <3>3
  <2>3. QED
    BY <2>1, <2>2
<1>3. QED
  BY <1>1, <1>2

\* A request that is admitted continues the turns.
LEMMA AlternatesJoins ==
  ASSUME QueueTypeOK, NEW s \in Binaries, Alternates(s), NEW packets, Len(packets) \in Nat,
         BinaryValid(packets), lastOp' = BinaryLast(packets), issued' = issued + Len(packets),
         \A i : \A o \in Ops : Due(i, s, o) => i \in 0..issued,
         \A i : \A o \in Ops :
           Due(i, s, o)' <=> Due(i, s, o) \/ \E k \in 1..Len(packets) : i = issued + k /\ o = OpIn(packets[k], s)
  PROVE  Alternates(s)'
<1>0. issued \in Nat /\ lastOp[s] \in Ops
  BY DEF QueueTypeOK, CountersOK, ObjectsOK, Ops
<1>1. PICK l \in 0..Len(packets) :
        /\ lastOp'[s] = OpAt(packets, l, s) /\ lastOp'[s] \in Ops
        /\ \A j \in l + 1..Len(packets) : OpAt(packets, j, s) = "none"
  BY <1>0, LastIs
<1>2. \A k \in 1..Len(packets) : OpAt(packets, k, s) = OpIn(packets[k], s)
  BY DEF OpAt
<1>3. OpAt(packets, 0, s) = lastOp[s]
  BY DEF OpAt
<1>4. \A k \in 1..Len(packets) : OpIn(packets[k], s) \in Ops \cup {"none"}
  BY OpInOps
<1>5. "none" \notin Ops
  BY DEF Ops
\* Between two equal operations there is another.
<1>6. ASSUME NEW a \in 0..Len(packets), NEW b \in 1..Len(packets), a < b,
             OpAt(packets, a, s) = OpAt(packets, b, s), OpAt(packets, b, s) \in Ops
      PROVE  \E k \in a + 1..b - 1 : \E u \in Ops \ {OpAt(packets, b, s)} : u = OpIn(packets[k], s)
  <2>1. b \in 0..Len(packets)
    OBVIOUS
  <2>2. PICK k \in a + 1..b - 1 : OpAt(packets, k, s) \notin {"none", OpAt(packets, b, s)}
    BY <1>5, <1>6, <2>1 DEF BinaryValid
  <2>3. k \in 1..Len(packets)
    OBVIOUS
  <2>4. QED
    BY <1>2, <1>4, <2>2, <2>3
<1> SUFFICES ASSUME NEW o \in Ops
             PROVE  /\ \A i, j \in 0..issued' :
                         i < j /\ Due(i, s, o)' /\ Due(j, s, o)' =>
                           \E k \in i + 1..j - 1 : \E u \in Ops \ {o} : Due(k, s, u)'
                    /\ \A i \in 0..issued' :
                         Due(i, s, o)' /\ o # lastOp'[s] =>
                           \E k \in i + 1..issued' : \A u : u = lastOp'[s] => Due(k, s, u)'
  BY DEF Alternates
<1>7. ASSUME NEW i \in 0..issued', NEW j \in 0..issued', i < j, Due(i, s, o)', Due(j, s, o)'
      PROVE  \E k \in i + 1..j - 1 : \E u \in Ops \ {o} : Due(k, s, u)'
  <2>1. CASE Due(i, s, o) /\ Due(j, s, o)
    <3>1. \E k \in i + 1..j - 1 : \E u \in Ops \ {o} : Due(k, s, u)
      BY <1>7, <2>1 DEF Alternates
    <3>2. QED
      BY <3>1
  <2>2. CASE Due(i, s, o) /\ \E k \in 1..Len(packets) : j = issued + k /\ o = OpIn(packets[k], s)
    <3>1. PICK b \in 1..Len(packets) : j = issued + b /\ o = OpIn(packets[b], s)
      BY <2>2
    <3>2. CASE o = lastOp[s]
      <4>1. PICK k \in 0 + 1..b - 1 : \E u \in Ops \ {o} : u = OpIn(packets[k], s)
        <5>1. 0 \in 0..Len(packets) /\ 0 < b
          OBVIOUS
        <5>2. OpAt(packets, b, s) = o /\ OpAt(packets, 0, s) = OpAt(packets, b, s)
          BY <1>2, <1>3, <3>1, <3>2
        <5>3. OpAt(packets, b, s) \in Ops
          BY <5>2
        <5>4. \E k \in 0 + 1..b - 1 : \E u \in Ops \ {OpAt(packets, b, s)} : u = OpIn(packets[k], s)
          BY <1>6, <5>1, <5>2, <5>3
        <5>5. QED
          BY <5>2, <5>4
      <4>2. k \in 1..Len(packets) /\ issued + k \in i + 1..j - 1
        BY <1>0, <2>2, <3>1
      <4>3. QED
        BY <4>1, <4>2
    <3>3. CASE o # lastOp[s]
      <4>1. PICK k \in i + 1..issued : Due(k, s, lastOp[s])
        BY <2>2, <3>3 DEF Alternates
      <4>2. k \in i + 1..j - 1
        BY <1>0, <2>2, <3>1
      <4>3. Due(k, s, lastOp[s]) /\ lastOp[s] \in Ops \ {o}
        BY <1>0, <3>3, <4>1
      <4>4. QED
        BY <4>2, <4>3
    <3>4. QED
      BY <3>2, <3>3
  <2>3. CASE /\ \E k \in 1..Len(packets) : i = issued + k /\ o = OpIn(packets[k], s)
             /\ \E k \in 1..Len(packets) : j = issued + k /\ o = OpIn(packets[k], s)
    <3>1. PICK a \in 1..Len(packets) : i = issued + a /\ o = OpIn(packets[a], s)
      BY <2>3
    <3>2. PICK b \in 1..Len(packets) : j = issued + b /\ o = OpIn(packets[b], s)
      BY <2>3
    <3>3. a < b /\ a \in 0..Len(packets)
      BY <1>0, <1>7, <3>1, <3>2
    <3>4. PICK k \in a + 1..b - 1 : \E u \in Ops \ {o} : u = OpIn(packets[k], s)
      <4>1. OpAt(packets, b, s) = o /\ OpAt(packets, a, s) = OpAt(packets, b, s)
        BY <1>2, <3>1, <3>2
      <4>2. OpAt(packets, b, s) \in Ops
        BY <4>1
      <4>3. \E k \in a + 1..b - 1 : \E u \in Ops \ {OpAt(packets, b, s)} : u = OpIn(packets[k], s)
        BY <1>6, <3>3, <4>1, <4>2
      <4>4. QED
        BY <4>1, <4>3
    <3>5. k \in 1..Len(packets) /\ issued + k \in i + 1..j - 1
      BY <1>0, <3>1, <3>2
    <3>6. QED
      BY <3>4, <3>5
  <2>4. CASE Due(j, s, o) /\ \E k \in 1..Len(packets) : i = issued + k /\ o = OpIn(packets[k], s)
    <3>1. j \in 0..issued
      BY <2>4
    <3>2. FALSE
      BY <1>0, <1>7, <2>4, <3>1
    <3>3. QED
      BY <3>2
  <2>5. QED
    BY <1>7, <2>1, <2>2, <2>3, <2>4
<1>8. ASSUME NEW i \in 0..issued', Due(i, s, o)', o # lastOp'[s]
      PROVE  \E k \in i + 1..issued' : \A u : u = lastOp'[s] => Due(k, s, u)'
  <2>1. CASE l = 0
    <3>1. \A k \in 1..Len(packets) : OpIn(packets[k], s) = "none"
      BY <1>1, <1>2, <2>1
    <3>2. Due(i, s, o) /\ lastOp'[s] = lastOp[s]
      BY <1>1, <1>3, <1>5, <1>8, <2>1, <3>1
    <3>3. i \in 0..issued
      BY <3>2
    <3>4. PICK k \in i + 1..issued : Due(k, s, lastOp[s])
      BY <1>8, <3>2, <3>3 DEF Alternates
    <3>5. k \in i + 1..issued'
      BY <1>0, <3>3
    <3>6. QED
      BY <1>0, <3>2, <3>4, <3>5
  <2>2. CASE l # 0
    <3>1. l \in 1..Len(packets)
      BY <2>2
    <3>2. lastOp'[s] = OpIn(packets[l], s)
      BY <1>1, <1>2, <3>1
    <3>3. i < issued + l
      <4>1. CASE Due(i, s, o)
        <5>1. i \in 0..issued
          BY <4>1
        <5>2. QED
          BY <1>0, <3>1, <5>1
      <4>2. CASE \E k \in 1..Len(packets) : i = issued + k /\ o = OpIn(packets[k], s)
        <5>1. PICK k \in 1..Len(packets) : i = issued + k /\ o = OpIn(packets[k], s)
          BY <4>2
        <5>2. k \notin l + 1..Len(packets)
          BY <1>1, <1>2, <1>5, <5>1
        <5>3. k # l
          BY <1>8, <3>2, <5>1
        <5>4. QED
          BY <1>0, <3>1, <5>1, <5>2, <5>3
      <4>3. QED
        BY <1>8, <4>1, <4>2
    <3>4. issued + l \in i + 1..issued'
      BY <1>0, <3>1, <3>3
    <3>5. \A u : u = lastOp'[s] => u \in Ops /\ u = OpIn(packets[l], s)
      BY <1>1, <3>2
    <3>6. \A k, u : k = issued + l /\ u = lastOp'[s] => Due(k, s, u)'
      BY <3>1, <3>5
    <3>7. QED
      BY <3>4, <3>6
  <2>3. QED
    BY <2>1, <2>2
<1>9. QED
  BY <1>7, <1>8

-----------------------------------------------------------------------------
(* Binary semaphores.                                                      *)

Acquires == \E s \in Binaries \cup {NoSemaphore}, f \in Fences \cup {NoFence} : AcquireSync(s, f)

\* The steps that touch binary semaphores, and the order that admission demands.
LEMMA BinarySteps ==
  ASSUME QueueTypeOK, [QueueNext]_queueVars
  PROVE  /\ \/ binary' = binary \/ Acquires \/ WaitSemaphore \/ ReserveSignals \/ FailPackets
            \/ PublishSignals \/ CancelSignals
         /\ lastOp' = lastOp \/ Acquires \/ Admit
         /\ failure => failure'
         /\ call'.stage # "none" =>
              \/ call.stage # "none" /\ call'.request = call.request
              \/ BinaryValid(call'.request.packets) /\ lastOp' = lastOp
<1> USE DEF queueVars, counts, objects, threads, histories, QueueOnly, CompletionOnly
<1>0. CallOK
  BY DEF QueueTypeOK
<1>1. CASE CallStep
  <2>1. binary' = binary /\ failure' = failure /\ (lastOp' = lastOp \/ Admit)
    BY <1>1 DEF CallStep, ReserveValues, ClaimFence, Admit
  <2>2. call'.stage # "none" => call.stage # "none" /\ call'.request = call.request
    BY <1>0, <1>1 DEF CallStep, ReserveValues, ClaimFence, Admit, CallReturns, CallOK
  <2>3. QED
    BY <2>1, <2>2
<1>2. CASE ApplicationStep
  <2>1. CASE \E r \in Templates : Submit(r)
    <3>1. PICK r \in Templates : Submit(r)
      BY <2>1
    <3>2. UNCHANGED <<binary, lastOp, failure>> /\ BinaryValid(r.packets)
      BY <3>1 DEF Submit
    <3>3. call'.request = r
      BY <3>1 DEF Submit
    <3>4. QED
      BY <3>2, <3>3
  <2>2. CASE ~\E r \in Templates : Submit(r)
    <3>1. call' = call /\ failure' = failure
      BY <1>2, <2>2 DEF ApplicationStep, ResetFence, SignalTimeline, AcquireSync, WaitForFences, WaitTimesOut,
         Destroy
    <3>2. UNCHANGED <<binary, lastOp>> \/ Acquires
      BY <1>2, <2>2 DEF ApplicationStep, ResetFence, SignalTimeline, WaitForFences, WaitTimesOut,
         Destroy, Acquires
    <3>3. QED
      BY <3>1, <3>2
  <2>3. QED
    BY <2>1, <2>2
<1>3. CASE DestroyStep \/ CheckFences \/ WorkerLosesDevice \/ Notify \/ UNCHANGED queueVars
  <2>1. UNCHANGED <<binary, lastOp, call>>
    BY <1>3 DEF DestroyStep, StopQueue, StopCompletion, DestroyLosesDevice, CheckFences, WorkerLosesDevice,
       Notify
  <2>2. failure => failure'
    BY <1>3 DEF DestroyStep, StopQueue, StopCompletion, DestroyLosesDevice, CheckFences, WorkerLosesDevice,
       Notify
  <2>3. QED
    BY <2>1, <2>2
<1>4. CASE QueueThread
  <2>1. UNCHANGED <<lastOp, call>>
    BY <1>4 DEF QueueThread, Receive, WaitSemaphore, ReserveSignals, Execute, ExecuteFails, Observe,
       LoseDevice, FailPackets, DrainForPresent, Present, PresentFails
  <2>2. failure => failure'
    BY <1>4 DEF QueueThread, Receive, WaitSemaphore, ReserveSignals, Execute, ExecuteFails, Observe,
       LoseDevice, FailPackets, DrainForPresent, Present, PresentFails
  <2>3. binary' = binary \/ WaitSemaphore \/ ReserveSignals \/ FailPackets
    BY <1>4 DEF QueueThread, Receive, Execute, ExecuteFails, Observe,
       LoseDevice, DrainForPresent, Present, PresentFails
  <2>4. QED
    BY <2>1, <2>2, <2>3
<1>5. CASE CompletionThread
  <2>1. UNCHANGED <<lastOp, call>>
    BY <1>5 DEF CompletionThread, TakeReceipts, ReceiptsComplete, ReceiptFails, PublishSignals,
       CancelSignals, FinishInFlight, FinishPending
  <2>2. failure => failure'
    BY <1>5 DEF CompletionThread, TakeReceipts, ReceiptsComplete, ReceiptFails, PublishSignals,
       CancelSignals, FinishInFlight, FinishPending
  <2>3. binary' = binary \/ PublishSignals \/ CancelSignals
    BY <1>5 DEF CompletionThread, TakeReceipts, ReceiptsComplete, ReceiptFails,
       FinishInFlight, FinishPending
  <2>4. QED
    BY <2>1, <2>2, <2>3
<1>6. QED
  BY <1>1, <1>2, <1>3, <1>4, <1>5 DEF QueueNext

\* The waits of the current packet are left alone by the other steps.
LEMMA QuietEntry ==
  ASSUME ThreadOK, [QueueNext]_queueVars, ~Receive, ~Observe, ~WaitSemaphore, ~ReserveSignals,
         ~FailPackets, ~Present, ~PresentFails
  PROVE  (InEntry' <=> InEntry) /\ queue'.toWait = queue.toWait
<1>1. CASE QueueThread
  BY <1>1, QueueThreadGoes DEF QueueThread, InEntry, EntryStages
<1>2. CASE queue' = queue \/ queue' = QueueWoken(queue)
  BY <1>2, QueueWakes DEF InEntry, EntryStages
<1>3. QED
  BY <1>1, <1>2, ThreadsAlone

\* A packet the queue thread comes to has all its waits left.
LEMMA EntryTurns ==
  ASSUME ThreadOK, [QueueNext]_queueVars, InEntry'
  PROVE  \/ Receive /\ Busy' /\ queue'.toWait = CurrentPacket'.waits
         \/ Observe /\ Busy' /\ queue'.toWait = CurrentPacket'.waits
         \/ /\ InEntry /\ queue'.request = queue.request /\ queue'.index = queue.index
            /\ queue'.toWait = queue.toWait \/ (queue.toWait # << >> /\ queue'.toWait = Tail(queue.toWait))
<1>1. CASE Receive
  <2>1. queue'.stage # "stopped" /\ Busy'
    BY DEF InEntry, EntryStages, Busy, BusyStages
  <2>2. Head(channel) # Stop => queue'.request = Head(channel) /\ queue'.index = 1
                                 /\ queue'.toWait = Head(channel).packets[1].waits
    <3>1. Head(channel).kind # "stop" =>
             queue' = [stage |-> IF Head(channel).kind = "present" /\ Head(channel).packets[1].waits = << >>
                                 THEN "drain" ELSE "wait",
                       request |-> Head(channel), index |-> 1, toWait |-> Head(channel).packets[1].waits]
      BY <1>1 DEF Receive
    <3>2. Head(channel).kind = "stop" => queue'.stage = "stopped"
      BY <1>1 DEF Receive, ThreadOK
    <3>3. QED
      BY <2>1, <3>1, <3>2
  <2>3. Head(channel) # Stop
    <3>1. Head(channel).kind = "stop" => queue'.stage = "stopped"
      BY <1>1 DEF Receive, ThreadOK
    <3>2. QED
      BY <2>1, <3>1 DEF Stop
  <2>4. QED
    BY <1>1, <2>1, <2>2, <2>3 DEF CurrentPacket
<1>2. CASE Observe
  <2>1. queue'.stage # "recv" /\ Busy'
    BY DEF InEntry, EntryStages, Busy, BusyStages
  <2>2. /\ queue'.request = queue.request /\ queue'.index = queue.index + 1
        /\ queue'.toWait = queue.request.packets[queue.index + 1].waits
    BY <1>2, <2>1, ObserveGoes
  <2>3. QED
    BY <1>2, <2>1, <2>2 DEF CurrentPacket
<1>3. CASE QueueThread /\ ~Receive /\ ~Observe
  BY <1>3, QueueThreadGoes DEF QueueThread, InEntry, EntryStages
<1>4. CASE queue' = queue \/ queue' = QueueWoken(queue)
  BY <1>4, QueueWakes DEF InEntry, EntryStages
<1>5. QED
  BY <1>1, <1>2, <1>3, <1>4, ThreadsAlone

\* Packets the queue thread has not passed on come from a call.
LEMMA AheadSteps ==
  ASSUME QueueTypeOK, Shutdown, Numbering, [QueueNext]_queueVars, NEW i, NEW p, InChannel(i, p)' \/ InQueue(i, p)'
  PROVE  \/ InChannel(i, p) \/ InQueue(i, p)
         \/ call.stage # "none" /\ \E k \in 1..Len(call.request.packets) : p = call.request.packets[k]
<1>1. CASE ~Moves
  BY <1>1, QuietPlaces, HeldKeeps
<1>2. CASE Admit
  <2>1. CASE \E r : Joins(r)
    <3>1. PICK r : Joins(r)
      BY <2>1
    <3>2. InChannel(i, p) \/ InQueue(i, p) \/ \E k \in 1..Len(r.packets) : p = r.packets[k]
      BY <3>1, HeldJoins
    <3>3. r.packets = call.request.packets /\ call.stage # "none"
      BY <1>2, <3>1 DEF Joins, Admit
    <3>4. QED
      BY <3>2, <3>3
  <2>2. CASE ~\E r : Joins(r)
    BY <1>2, <2>2, AdmitGoes, HeldKeeps
  <2>3. QED
    BY <2>1, <2>2
<1>3. CASE StopQueue
  <2>1. queue' = queue
    BY <1>3, OtherMoves
  <2>2. InQueue(i, p)' <=> InQueue(i, p)
    BY <2>1 DEF InQueue, Busy
  <2>3. QED
    BY <1>3, <2>2, ChannelStops
<1>4. CASE Receive
  BY <1>4, ChannelPasses
<1>5. CASE Observe
  <2>1. channel' = channel
    BY <1>5, OtherMoves
  <2>2. InChannel(i, p)' <=> InChannel(i, p)
    BY <2>1 DEF InChannel
  <2>3. QED
    BY <1>5, <2>2, QueuePasses
<1>6. CASE FailPackets \/ Present
  <2>1. channel' = channel /\ ~Busy'
    BY <1>6, LeavingGoes DEF Leaves
  <2>2. QED
    BY <2>1 DEF InChannel, InQueue
<1>7. CASE StopCompletion \/ TakeReceipts \/ FinishPending
  <2>1. UNCHANGED <<channel, queue>>
    BY <1>7, OtherMoves
  <2>2. QED
    BY <2>1 DEF InChannel, InQueue, Busy
<1>8. QED
  BY <1>1, <1>2, <1>3, <1>4, <1>5, <1>6, <1>7 DEF Moves

\* A request stays valid while it is being submitted.
LEMMA ValidKeeps ==
  ASSUME NEW packets, Len(packets) \in Nat, BinaryValid(packets),
         \A s \in Binaries : \/ lastOp'[s] = lastOp[s]
                             \/ \A k \in 1..Len(packets) : OpIn(packets[k], s) = "none"
  PROVE  BinaryValid(packets)'
<1>1. \A i \in 1..Len(packets) : UsesOnce(packets[i])
  BY DEF BinaryValid
<1>2. ASSUME NEW s \in Binaries, NEW i \in 0..Len(packets), NEW j \in 0..Len(packets), i < j,
             OpAt(packets, i, s)' = OpAt(packets, j, s)', OpAt(packets, j, s)' # "none"
      PROVE  \E k \in i + 1..j - 1 : OpAt(packets, k, s)' \notin {"none", OpAt(packets, j, s)'}
  <2>1. \A k \in 1..Len(packets) : OpAt(packets, k, s)' = OpAt(packets, k, s)
    BY DEF OpAt
  <2>2. j \in 1..Len(packets)
    BY <1>2
  <2>3. lastOp'[s] = lastOp[s]
    BY <1>2, <2>1, <2>2 DEF OpAt
  <2>4. OpAt(packets, i, s)' = OpAt(packets, i, s)
    BY <2>3 DEF OpAt
  <2>5. PICK k \in i + 1..j - 1 : OpAt(packets, k, s) \notin {"none", OpAt(packets, j, s)}
    BY <1>2, <2>1, <2>2, <2>4 DEF BinaryValid
  <2>6. k \in 1..Len(packets)
    BY <1>2
  <2>7. QED
    BY <2>1, <2>2, <2>5, <2>6
<1>3. QED
  BY <1>1, <1>2 DEF BinaryValid

\* Every step keeps each packet's single use of a binary semaphore.
LEMMA UsedOnceStep == QueueTypeOK /\ Shutdown /\ Numbering /\ UsedOnce /\ [QueueNext]_queueVars => UsedOnce'
<1> SUFFICES ASSUME QueueTypeOK, Shutdown, Numbering, UsedOnce, [QueueNext]_queueVars PROVE UsedOnce'
  OBVIOUS
<1>0. /\ CallOK /\ ThreadOK /\ ObjectsOK /\ ChannelOK
      /\ CallOK' /\ ThreadOK' /\ ChannelOK' /\ (issued \in Nat)'
  BY TypesStep DEF QueueTypeOK, CountersOK
<1>1. ASSUME NEW i, NEW p, InChannel(i, p)' \/ InQueue(i, p)' PROVE UsesOnce(p)
  BY <1>1, AheadSteps DEF UsedOnce, BinaryValid
<1>2. ASSUME InEntry'
      PROVE  /\ OnceIn(queue'.toWait, CurrentPacket')
             /\ \A k \in 1..Len(queue'.toWait) : Waits(CurrentPacket', queue'.toWait[k])
  <2>1. CASE (Receive \/ Observe) /\ Busy' /\ queue'.toWait = CurrentPacket'.waits
    <3>1. UsesOnce(CurrentPacket')
      <4>1. queue'.index \in 1..Len(queue'.request.packets) /\ Len(queue'.request.packets) \in Nat
        <5>1. queue'.request \in Admitted /\ queue'.index \in 1..Len(queue'.request.packets)
          BY <1>0, <2>1 DEF ThreadOK
        <5>2. QED
          BY <5>1, AdmittedFields, RequestFields
      <4>2. queue'.index \in queue'.index..Len(queue'.request.packets)
        BY <4>1
      <4>3. \E i, p : InQueue(i, p)' /\ p = CurrentPacket'
        BY <2>1, <4>2 DEF InQueue, CurrentPacket
      <4>4. QED
        BY <1>1, <4>3
    <3>2. QED
      BY <2>1, <3>1 DEF UsesOnce, OnceIn, Waits
  <2>2. CASE /\ InEntry /\ queue'.request = queue.request /\ queue'.index = queue.index
             /\ queue'.toWait = queue.toWait
    <3>1. CurrentPacket' = CurrentPacket
      BY <2>2 DEF CurrentPacket
    <3>2. QED
      BY <2>2, <3>1 DEF UsedOnce
  <2>3. CASE /\ InEntry /\ queue'.request = queue.request /\ queue'.index = queue.index
             /\ queue.toWait # << >> /\ queue'.toWait = Tail(queue.toWait)
    <3>1. CurrentPacket' = CurrentPacket
      BY <2>3 DEF CurrentPacket
    <3>2. queue.toWait \in Seq(Semaphores)
      BY <1>0 DEF ThreadOK
    <3>3. /\ Len(queue.toWait) \in Nat /\ Len(queue'.toWait) = Len(queue.toWait) - 1
          /\ \A k \in 1..Len(queue'.toWait) : queue'.toWait[k] = queue.toWait[k + 1]
      BY <2>3, <3>2
    <3>4. \A k \in 1..Len(queue'.toWait) : k + 1 \in 1..Len(queue.toWait)
      BY <3>3
    <3>5. OnceIn(queue'.toWait, CurrentPacket)
      <4> SUFFICES ASSUME NEW k \in 1..Len(queue'.toWait), queue'.toWait[k] \in Binaries
                   PROVE  /\ queue'.toWait[k] \notin CurrentPacket.signals
                          /\ \A l \in 1..Len(queue'.toWait) : queue'.toWait[l] = queue'.toWait[k] => l = k
        BY DEF OnceIn
      <4>1. queue'.toWait[k] \notin CurrentPacket.signals
        BY <2>3, <3>3, <3>4 DEF UsedOnce, OnceIn
      <4>2. ASSUME NEW l \in 1..Len(queue'.toWait), queue'.toWait[l] = queue'.toWait[k] PROVE l = k
        <5>1. queue.toWait[l + 1] = queue.toWait[k + 1] /\ queue.toWait[k + 1] \in Binaries
          BY <3>3, <4>2
        <5>2. l + 1 = k + 1
          BY <2>3, <3>4, <5>1 DEF UsedOnce, OnceIn
        <5>3. QED
          BY <3>3, <5>2
      <4>3. QED
        BY <4>1, <4>2
    <3>6. \A k \in 1..Len(queue'.toWait) : Waits(CurrentPacket, queue'.toWait[k])
      BY <2>3, <3>3, <3>4 DEF UsedOnce
    <3>7. QED
      BY <3>1, <3>5, <3>6
  <2>4. QED
    BY <1>0, <1>2, <2>1, <2>2, <2>3, EntryTurns
<1>3. ASSUME call'.stage # "none", NEW packets, packets = call'.request.packets PROVE BinaryValid(packets)'
  <2>1. Len(packets) \in Nat
    <3>1. call'.request \in Requests
      BY <1>0, <1>3 DEF CallOK
    <3>2. QED
      BY <3>1, RequestFields
  <2>2. CASE lastOp' = lastOp
    <3>1. BinaryValid(packets)
      <4>1. (call.stage # "none" /\ call'.request = call.request) \/ BinaryValid(call'.request.packets)
        BY <1>3, BinarySteps
      <4>2. QED
        BY <1>3, <4>1 DEF UsedOnce
    <3>2. QED
      BY <2>1, <2>2, <3>1, ValidKeeps
  <2>3. CASE Admit
    BY <1>3, <2>3 DEF Admit, CallReturns
  <2>4. CASE Acquires
    <3>1. PICK s \in Binaries \cup {NoSemaphore}, f \in Fences \cup {NoFence} : AcquireSync(s, f)
      BY <2>4 DEF Acquires
    <3>2. call' = call
      BY <3>1 DEF AcquireSync, threads
    <3>3. BinaryValid(call.request.packets) /\ Len(call.request.packets) \in Nat
      BY <1>3, <2>1, <3>2 DEF UsedOnce
    <3>4. ASSUME NEW t \in Binaries
          PROVE  \/ lastOp'[t] = lastOp[t]
                 \/ \A k \in 1..Len(call.request.packets) : OpIn(call.request.packets[k], t) = "none"
      <4>1. CASE s \notin Binaries \/ t # s
        BY <1>0, <3>1, <4>1 DEF AcquireSync, ObjectsOK
      <4>2. CASE s \in Binaries /\ t = s
        <5>1. \A p \in PacketsOf(call.request) : t \notin p.signals /\ ~Waits(p, t)
          BY <1>3, <3>1, <3>2, <4>2 DEF AcquireSync, AcquireValid
        <5>2. QED
          BY <5>1 DEF PacketsOf, OpIn
      <4>3. QED
        BY <4>1, <4>2
    <3>5. packets = call.request.packets
      BY <1>3, <3>2
    <3>6. BinaryValid(packets) /\ Len(packets) \in Nat
      BY <3>3, <3>5
    <3>7. QED
      BY <3>4, <3>5, <3>6, ValidKeeps
  <2>5. QED
    BY <2>2, <2>3, <2>4, BinarySteps
<1>4. (InEntry => /\ OnceIn(queue.toWait, CurrentPacket)
                  /\ \A k \in 1..Len(queue.toWait) : Waits(CurrentPacket, queue.toWait[k]))'
  BY <1>2 DEF OnceIn, Waits
<1>5. (call.stage # "none" => BinaryValid(call.request.packets))'
  <2> SUFFICES ASSUME call'.stage # "none" PROVE BinaryValid(call.request.packets)'
    OBVIOUS
  <2>1. PICK packets : packets = call'.request.packets
    OBVIOUS
  <2>2. BinaryValid(packets)'
    BY <1>3, <2>1
  <2>3. QED
    BY <2>1, <2>2 DEF BinaryValid, OpAt
<1>6. (\A i, p : InChannel(i, p) \/ InQueue(i, p) => UsesOnce(p))'
  BY <1>1
<1>7. QED
  BY <1>4, <1>5, <1>6 DEF UsedOnce

DueAhead(i, s, o) == DueInChannel(i, s, o) \/ DueInQueue(i, s, o)

\* A packet with the queue thread is its own or a later one.
LEMMA ArrivingAt ==
  ASSUME QueueTypeOK, [QueueNext]_queueVars, NEW i, NEW p, InQueue(i, p)'
  PROVE  /\ Busy' /\ i \in Nat /\ QueueAt' \in Nat /\ QueueAt' <= i
         /\ i = QueueAt' => p = CurrentPacket'
<1>1. ThreadOK' /\ Busy'
  BY TypesStep DEF QueueTypeOK, InQueue
<1>2. queue'.request \in Admitted /\ queue'.index \in 1..Len(queue'.request.packets)
  BY <1>1 DEF ThreadOK
<1>3. queue'.request.first \in Nat \ {0} /\ Len(queue'.request.packets) \in Nat
  BY <1>2, AdmittedFields, RequestFields
<1>4. QueueAt' = queue'.request.first + queue'.index - 1
  BY <1>1 DEF QueueAt
<1>5. PICK k \in queue'.index..Len(queue'.request.packets) :
        i = queue'.request.first + k - 1 /\ p = queue'.request.packets[k]
  BY DEF InQueue
<1>6. i = QueueAt' => k = queue'.index
  BY <1>2, <1>3, <1>4, <1>5
<1>7. /\ queue'.index \in Nat \ {0} /\ k \in Int /\ queue'.index <= k
      /\ i = queue'.request.first + k - 1
  BY <1>2, <1>3, <1>5
<1>8. i \in Nat /\ QueueAt' \in Nat /\ QueueAt' <= i
  <2>1. ASSUME NEW a \in Nat \ {0}, NEW x \in Nat \ {0}, NEW y \in Int, x <= y
        PROVE  a + y - 1 \in Nat /\ a + x - 1 \in Nat /\ a + x - 1 <= a + y - 1
    BY <2>1
  <2>2. /\ queue'.request.first + k - 1 \in Nat
        /\ queue'.request.first + queue'.index - 1 \in Nat
        /\ queue'.request.first + queue'.index - 1 <= queue'.request.first + k - 1
    BY <1>3, <1>7, <2>1
  <2>3. QED
    BY <1>4, <1>7, <2>2
<1>9. i = QueueAt' => p = CurrentPacket'
  BY <1>5, <1>6 DEF CurrentPacket
<1>10. QED
  BY <1>1, <1>8, <1>9

\* The operations of a request do not change when the queue thread takes it
\* or comes to its next packet.
LEMMA ArrivingDue ==
  ASSUME QueueTypeOK, [QueueNext]_queueVars, InEntry', queue'.toWait = CurrentPacket'.waits,
         NEW i, NEW p, InQueue(i, p)', UsesOnce(p), NEW s \in Binaries, NEW o \in Ops
  PROVE  (IF i = QueueAt' THEN InEntry' /\ NowDue(queue'.toWait, p, s, o) ELSE o = OpIn(p, s))
         <=> o = OpIn(p, s)
<1>1. i = QueueAt' => p = CurrentPacket'
  BY ArrivingAt
<1>2. NowDue(p.waits, p, s, o) <=> o = OpIn(p, s)
  BY OnceIs
<1>3. QED
  BY <1>1, <1>2

\* A step that neither waits, signals, fails nor admits leaves the due operations alone.
LEMMA DueStays ==
  ASSUME QueueTypeOK, Shutdown, Numbering, UsedOnce, [QueueNext]_queueVars,
         ~WaitSemaphore, ~ReserveSignals, ~PresentFails, ~FailPackets, ~Admit \/ ~\E r : Joins(r),
         NEW s \in Binaries, NEW o \in Ops, NEW i
  PROVE  DueAhead(i, s, o)' <=> DueAhead(i, s, o)
<1>0. ThreadOK /\ ChannelOK /\ issued \in Nat
  BY DEF QueueTypeOK, CountersOK
\* Nothing moves.
<1>1. ASSUME \A p : (InChannel(i, p)' <=> InChannel(i, p)) /\ (InQueue(i, p)' <=> InQueue(i, p)),
             QueueAt' = QueueAt, InEntry' <=> InEntry, queue'.toWait = queue.toWait
      PROVE  DueAhead(i, s, o)' <=> DueAhead(i, s, o)
  <2>1. DueInChannel(i, s, o)' <=> DueInChannel(i, s, o)
    BY <1>1 DEF DueInChannel
  <2>2. ASSUME NEW p
        PROVE  (IF i = QueueAt THEN InEntry /\ NowDue(queue.toWait, p, s, o) ELSE o = OpIn(p, s))'
               <=> (IF i = QueueAt THEN InEntry /\ NowDue(queue.toWait, p, s, o) ELSE o = OpIn(p, s))
    <3>1. NowDue(queue.toWait, p, s, o)' <=> NowDue(queue.toWait, p, s, o)
      BY <1>1 DEF NowDue
    <3>2. QED
      BY <1>1, <3>1
  <2>3. DueInQueue(i, s, o)' <=> DueInQueue(i, s, o)
    BY <1>1, <2>2 DEF DueInQueue
  <2>4. QED
    BY <2>1, <2>3 DEF DueAhead
<1>2. CASE ~Moves
  <2>1. SamePlaces /\ (InEntry' <=> InEntry) /\ queue'.toWait = queue.toWait
    BY <1>0, <1>2, QuietPlaces, QuietEntry DEF Moves
  <2>2. QED
    BY <1>1, <2>1, HeldKeeps, StartKeeps
<1>3. CASE Admit
  <2>1. SamePlaces /\ queue' = queue
    BY <1>3, AdmitGoes
  <2>2. (InEntry' <=> InEntry) /\ queue'.toWait = queue.toWait
    BY <2>1 DEF InEntry
  <2>3. QED
    BY <1>1, <2>1, <2>2, HeldKeeps, StartKeeps
<1>4. ASSUME queue' = queue, QueueAt' = QueueAt, \A p : InChannel(i, p)' <=> InChannel(i, p)
      PROVE  DueAhead(i, s, o)' <=> DueAhead(i, s, o)
  BY <1>1, <1>4 DEF InEntry, InQueue, Busy
<1>5. CASE StopQueue
  BY <1>4, <1>5, OtherMoves, ChannelStops, StoppingStarts
<1>6. CASE StopCompletion \/ TakeReceipts \/ FinishPending
  <2>1. UNCHANGED <<channel, queue, issued>>
    BY <1>6, OtherMoves
  <2>2. QED
    BY <1>4, <2>1, SameSide DEF InChannel
<1>7. CASE Present
  <2>1. channel' = channel /\ ~Busy' /\ Busy /\ queue.toWait = << >> /\ queue.request.kind = "present"
    BY <1>7, LeavingGoes DEF Leaves, Present
  <2>2. ~\E p : InQueue(i, p)'
    BY <2>1 DEF InQueue
  <2>3. /\ queue.request \in Requests /\ queue.index \in 1..Len(queue.request.packets)
        /\ Len(queue.request.packets) = 1 /\ queue.request.packets[1].signals = {}
    BY <1>0, <2>1, RequestTyped, RequestFields
  <2>4. ASSUME NEW p, InQueue(i, p) PROVE i = QueueAt /\ p.signals = {}
    <3>1. queue.index = 1
      BY <2>3
    <3>2. PICK k \in 1..1 : i = queue.request.first + k - 1 /\ p = queue.request.packets[k]
      BY <2>3, <2>4, <3>1 DEF InQueue
    <3>3. QED
      BY <2>1, <2>3, <3>1, <3>2 DEF QueueAt
  <2>5. ~DueInQueue(i, s, o)
    <3>1. Len(queue.toWait) = 0
      BY <2>1
    <3>2. QED
      BY <2>4, <3>1 DEF DueInQueue, NowDue
  <2>6. ~DueInQueue(i, s, o)'
    BY <2>2 DEF DueInQueue
  <2>7. DueInChannel(i, s, o)' <=> DueInChannel(i, s, o)
    BY <2>1 DEF DueInChannel, InChannel
  <2>8. QED
    BY <2>5, <2>6, <2>7 DEF DueAhead
<1>8. CASE Receive
  <2>1. \A p : ~InQueue(i, p)
    BY <1>0, <1>8, ReceiveGoes DEF InQueue
  <2>2. \A p : InChannel(i, p) <=> InChannel(i, p)' \/ InQueue(i, p)'
    BY <1>8, <2>1, ChannelPasses
  <2>3. ASSUME NEW p, InQueue(i, p)'
        PROVE  (IF i = QueueAt' THEN InEntry' /\ NowDue(queue'.toWait, p, s, o) ELSE o = OpIn(p, s))
               <=> o = OpIn(p, s)
    <3>1. Busy'
      BY <2>3, ArrivingAt
    <3>2. InEntry'
      <4>1. queue'.stage \in {"drain", "wait", "stopped"}
        BY <1>0, <1>8, ReceiveGoes
      <4>2. QED
        BY <3>1, <4>1 DEF InEntry, EntryStages, Busy, BusyStages
    <3>3. queue'.toWait = CurrentPacket'.waits
      <4>1. Head(channel) # Stop
        BY <1>0, <1>8, <3>1, ReceiveGoes DEF Busy, BusyStages
      <4>2. QED
        BY <1>0, <1>8, <4>1, ReceiveGoes DEF CurrentPacket
    <3>4. UsesOnce(p)
      BY <2>2, <2>3 DEF UsedOnce
    <3>5. QED
      BY <2>3, <3>2, <3>3, <3>4, ArrivingDue
  <2>4. DueInQueue(i, s, o)' <=> \E p : InQueue(i, p)' /\ o = OpIn(p, s)
    <3>1. DueInQueue(i, s, o)' <=> \E p : /\ InQueue(i, p)'
             /\ IF i = QueueAt' THEN InEntry' /\ NowDue(queue'.toWait, p, s, o) ELSE o = OpIn(p, s)
      BY DEF DueInQueue, NowDue
    <3>2. QED
      BY <2>3, <3>1
  <2>5. DueInChannel(i, s, o)' <=> \E p : InChannel(i, p)' /\ o = OpIn(p, s)
    BY DEF DueInChannel, OpIn, Waits
  <2>6. ~DueInQueue(i, s, o)
    BY <2>1 DEF DueInQueue
  <2>7. QED
    BY <2>2, <2>4, <2>5, <2>6 DEF DueAhead, DueInChannel
<1>9. CASE Observe
  <2>1. channel' = channel /\ QueueAt' = QueueAt + 1 /\ QueueAt \in Nat
    BY <1>0, <1>9, OtherMoves, ObservingAt, QueueAtTyped
  <2>2. DueInChannel(i, s, o)' <=> DueInChannel(i, s, o)
    BY <2>1 DEF DueInChannel, InChannel
  <2>3. ~InEntry
    BY <1>0, <1>9, ObserveGoes DEF InEntry, EntryStages
  <2>4. \A p : InQueue(i, p)' => i # QueueAt
    BY <2>1, ArrivingAt
  <2>5. \A p : InQueue(i, p)' <=> InQueue(i, p) /\ i # QueueAt
    BY <1>9, <2>4, QueuePasses
  <2>6. ASSUME NEW p, InQueue(i, p)'
        PROVE  (IF i = QueueAt' THEN InEntry' /\ NowDue(queue'.toWait, p, s, o) ELSE o = OpIn(p, s))
               <=> o = OpIn(p, s)
    <3>1. Busy'
      BY <2>6, ArrivingAt
    <3>2. queue'.stage = "wait"
      BY <1>0, <1>9, <3>1, ObserveGoes DEF Busy, BusyStages
    <3>3. InEntry'
      BY <3>2 DEF InEntry, EntryStages
    <3>4. queue'.toWait = CurrentPacket'.waits
      BY <1>0, <1>9, <3>2, ObserveGoes DEF CurrentPacket
    <3>5. UsesOnce(p)
      BY <2>5, <2>6 DEF UsedOnce
    <3>6. QED
      BY <2>6, <3>3, <3>4, <3>5, ArrivingDue
  <2>7. DueInQueue(i, s, o)' <=> \E p : InQueue(i, p)' /\ o = OpIn(p, s)
    <3>1. DueInQueue(i, s, o)' <=> \E p : /\ InQueue(i, p)'
             /\ IF i = QueueAt' THEN InEntry' /\ NowDue(queue'.toWait, p, s, o) ELSE o = OpIn(p, s)
      BY DEF DueInQueue, NowDue
    <3>2. QED
      BY <2>6, <3>1
  <2>8. DueInQueue(i, s, o) <=> \E p : InQueue(i, p) /\ i # QueueAt /\ o = OpIn(p, s)
    BY <2>3 DEF DueInQueue
  <2>9. DueInQueue(i, s, o)' <=> DueInQueue(i, s, o)
    BY <2>5, <2>7, <2>8
  <2>10. QED
    BY <2>2, <2>9 DEF DueAhead
<1>10. QED
  BY <1>2, <1>3, <1>5, <1>6, <1>7, <1>8, <1>9 DEF Moves

\* Packets in the channel come after the queue thread's.
LEMMA NowInQueue ==
  ASSUME QueueTypeOK, Shutdown, Numbering, Busy, NEW i, NEW s, NEW o
  PROVE  /\ DueInChannel(i, s, o) => i \in QueueAt + 1..issued
         /\ \A p : InQueue(i, p) => i \in QueueAt..issued /\ (i = QueueAt => p = CurrentPacket)
<1>0. ThreadOK /\ ChannelOK /\ issued \in Nat
  BY DEF QueueTypeOK, CountersOK
<1>1. QueueAt \in Nat /\ StartOf(1) \in Nat /\ QueueAt < StartOf(1) /\ StartOf(1) <= issued + 1
  BY <1>0, QueueAtTyped, StartTyped, QueueIsBehind
<1>2. DueInChannel(i, s, o) => i \in Nat /\ StartOf(1) <= i /\ i <= issued
  BY PlacesAre DEF DueInChannel
<1>3. \A p : InQueue(i, p) => i \in Nat /\ QueueAt <= i /\ i < StartOf(1)
  BY PlacesAre
<1>4. \A p : InQueue(i, p) /\ i = QueueAt => p = CurrentPacket
  BY <1>0, NowIs
<1>5. QED
  BY <1>0, <1>1, <1>2, <1>3, <1>4

\* The queue thread comes to an operation of its packet on s.
LEMMA TakesTurn ==
  ASSUME QueueTypeOK, Shutdown, Numbering, NEW s \in Binaries, Alternates(s), NEW o \in Ops,
         Busy, InEntry, NowDue(queue.toWait, CurrentPacket, s, o), SamePlaces, lastOp' = lastOp,
         \A u \in Ops : DueFirst(s, u)' <=> u = o,
         \A u \in Ops : ~(InEntry' /\ NowDue(queue'.toWait, CurrentPacket, s, u))
  PROVE  Alternates(s)'
<1>0. issued \in Nat /\ lastOp[s] \in Ops /\ issued' = issued /\ QueueAt' = QueueAt
  BY StartKeeps DEF QueueTypeOK, CountersOK, ObjectsOK, Ops, SamePlaces
<1>1. Due(QueueAt, s, o)
  BY DueNow
<1>2. QueueAt \in 1..issued
  <2>1. QueueAt \in 0..issued /\ QueueAt \in Nat \ {0}
    BY <1>1, DueTyped
  <2>2. QED
    BY <2>1
<1>3. ASSUME NEW i, NEW u \in Ops
      PROVE  Due(i, s, u)' <=> (i = 0 /\ u = o) \/ (i \in QueueAt + 1..issued /\ Due(i, s, u))
  <2>1. DueInChannel(i, s, u)' <=> DueInChannel(i, s, u)
    BY HeldKeeps DEF DueInChannel, OpIn, Waits
  <2>2. DueInQueue(i, s, u)' <=> \E p : InQueue(i, p) /\ i # QueueAt /\ u = OpIn(p, s)
    <3>1. DueInQueue(i, s, u)' <=>
            \E p : /\ InQueue(i, p)'
                   /\ IF i = QueueAt' THEN InEntry' /\ NowDue(queue'.toWait, p, s, u) ELSE u = OpIn(p, s)
      BY DEF DueInQueue, NowDue, OpIn, Waits
    <3>2. \A p : InQueue(i, p)' <=> InQueue(i, p)
      BY HeldKeeps
    <3>3. \A p : InQueue(i, p) /\ i = QueueAt => p = CurrentPacket
      BY NowInQueue
    <3>4. QED
      BY <1>0, <3>1, <3>2, <3>3
  <2>3. DueInQueue(i, s, u) /\ i # QueueAt <=> \E p : InQueue(i, p) /\ i # QueueAt /\ u = OpIn(p, s)
    BY DEF DueInQueue
  <2>4. DueInQueue(i, s, u) => i \in QueueAt..issued
    BY NowInQueue DEF DueInQueue
  <2>5. DueInChannel(i, s, u) => i \in QueueAt + 1..issued
    BY NowInQueue
  <2>6. Due(i, s, u)' <=> (i = 0 /\ u = o) \/ DueInChannel(i, s, u) \/ (DueInQueue(i, s, u) /\ i # QueueAt)
    BY <2>1, <2>2, <2>3 DEF Due
  <2>7. i \in QueueAt + 1..issued => (Due(i, s, u) <=> DueInChannel(i, s, u) \/ DueInQueue(i, s, u))
    BY <1>2 DEF Due
  <2>8. DueInQueue(i, s, u) /\ i # QueueAt => i \in QueueAt + 1..issued
    BY <1>0, <1>2, <2>4
  <2>9. i \in QueueAt + 1..issued => i # QueueAt
    BY <1>2
  <2>10. QED
    BY <2>5, <2>6, <2>7, <2>8, <2>9
<1>4. QED
  BY <1>0, <1>1, <1>2, <1>3, AlternatesTurns

\* It comes to operations on other semaphores only.
LEMMA OthersTurn ==
  ASSUME QueueTypeOK, Shutdown, Numbering, NEW s \in Binaries, Alternates(s),
         Busy, SamePlaces, lastOp' = lastOp, binary'[s] = binary[s],
         \A u \in Ops : InEntry' /\ NowDue(queue'.toWait, CurrentPacket, s, u)
                        <=> InEntry /\ NowDue(queue.toWait, CurrentPacket, s, u)
  PROVE  Alternates(s)'
<1>0. issued \in Nat /\ lastOp[s] \in Ops /\ issued' = issued /\ QueueAt' = QueueAt
  BY StartKeeps DEF QueueTypeOK, CountersOK, ObjectsOK, Ops, SamePlaces
<1>1. ASSUME NEW i, NEW u \in Ops PROVE Due(i, s, u)' <=> Due(i, s, u)
  <2>1. DueInChannel(i, s, u)' <=> DueInChannel(i, s, u)
    BY HeldKeeps DEF DueInChannel, OpIn, Waits
  <2>2. DueInQueue(i, s, u)' <=>
          \E p : /\ InQueue(i, p)'
                 /\ IF i = QueueAt' THEN InEntry' /\ NowDue(queue'.toWait, p, s, u) ELSE u = OpIn(p, s)
    BY DEF DueInQueue, NowDue, OpIn, Waits
  <2>3. \A p : InQueue(i, p)' <=> InQueue(i, p)
    BY HeldKeeps
  <2>4. \A p : InQueue(i, p) /\ i = QueueAt => p = CurrentPacket
    BY NowInQueue
  <2>5. DueInQueue(i, s, u)' <=> DueInQueue(i, s, u)
    <3>1. \A p : InQueue(i, p) =>
            ((IF i = QueueAt THEN InEntry' /\ NowDue(queue'.toWait, p, s, u) ELSE u = OpIn(p, s))
             <=> (IF i = QueueAt THEN InEntry /\ NowDue(queue.toWait, p, s, u) ELSE u = OpIn(p, s)))
      BY <2>4
    <3>2. QED
      BY <1>0, <2>2, <2>3, <3>1 DEF DueInQueue
  <2>6. DueFirst(s, u)' <=> DueFirst(s, u)
    BY DEF DueFirst
  <2>7. QED
    BY <2>1, <2>5, <2>6 DEF Due
<1>2. QED
  BY <1>0, <1>1, AlternatesKeeps

\* A wait that the queue thread passes.
LEMMA WaitTurns ==
  ASSUME QueueTypeOK, Shutdown, Numbering, UsedOnce, Alternation, WaitSemaphore, SamePlaces, ~lost
  PROVE  Alternation'
<1>0. /\ ThreadOK /\ ObjectsOK /\ queue.stage = "wait" /\ Busy /\ InEntry /\ queue.toWait # << >>
      /\ lastOp' = lastOp
  <2>1. ThreadOK /\ ObjectsOK
    BY DEF QueueTypeOK
  <2>2. queue.stage = "wait" /\ Busy /\ queue.toWait # << >>
    BY <2>1, QueueThreadGoes
  <2>3. lastOp' = lastOp
    BY DEF WaitSemaphore, histories
  <2>4. QED
    BY <2>1, <2>2, <2>3 DEF InEntry, EntryStages
<1> SUFFICES ASSUME NEW s \in Binaries PROVE Alternates(s)'
  BY DEF Alternation
<1> DEFINE w == Head(queue.toWait)
<1>1. Alternates(s)
  BY DEF Alternation
<1>2. CASE queue' = [queue EXCEPT !.stage = "asleep"] /\ binary' = binary
  <2>1. InEntry' /\ queue'.toWait = queue.toWait
    <3>1. queue'.stage = "asleep" /\ queue'.toWait = queue.toWait
      BY <1>0, <1>2, QueueGoes DEF QueueStages, BusyStages
    <3>2. QED
      BY <3>1 DEF InEntry, EntryStages
  <2>2. QED
    BY <1>0, <1>1, <1>2, <2>1, OthersTurn
<1>3. CASE Ready(w) /\ Consume(w) /\ queue' = [queue EXCEPT !.toWait = Tail(@)]
  <2>1. queue'.stage = "wait" /\ queue'.toWait = Tail(queue.toWait) /\ queue.toWait \in Seq(Semaphores)
    BY <1>0, <1>3 DEF ThreadOK
  <2>2. InEntry'
    BY <2>1 DEF InEntry, EntryStages
  <2>3. /\ Len(queue.toWait) \in Nat \ {0} /\ Len(queue'.toWait) = Len(queue.toWait) - 1
        /\ w = queue.toWait[1]
        /\ \A k \in 1..Len(queue'.toWait) : queue'.toWait[k] = queue.toWait[k + 1]
    BY <1>0, <2>1
  <2>4. 1 \in 1..Len(queue.toWait) /\ \A k \in 1..Len(queue'.toWait) : k + 1 \in 1..Len(queue.toWait)
    BY <2>3
  <2>5. \A k \in 1..Len(queue.toWait) : k = 1 \/ (k - 1 \in 1..Len(queue'.toWait) /\ k - 1 + 1 = k)
    BY <2>3
  <2>6. CASE s # w
    <3>1. binary'[s] = binary[s]
      BY <1>0, <1>3, <2>6 DEF Consume, ObjectsOK
    <3>2. (\E k \in 1..Len(queue'.toWait) : queue'.toWait[k] = s)
          <=> (\E k \in 1..Len(queue.toWait) : queue.toWait[k] = s)
      <4>1. ASSUME NEW k \in 1..Len(queue.toWait), queue.toWait[k] = s
            PROVE  \E l \in 1..Len(queue'.toWait) : queue'.toWait[l] = s
        <5>1. k # 1
          BY <2>3, <2>6, <4>1
        <5>2. k - 1 \in 1..Len(queue'.toWait) /\ k - 1 + 1 = k
          BY <2>5, <5>1
        <5>3. queue'.toWait[k - 1] = s
          BY <2>3, <4>1, <5>2
        <5>4. QED
          BY <5>2, <5>3
      <4>2. QED
        BY <2>3, <2>4, <4>1
    <3>3. \A u : NowDue(queue'.toWait, CurrentPacket, s, u) <=> NowDue(queue.toWait, CurrentPacket, s, u)
      BY <3>2 DEF NowDue
    <3>4. QED
      BY <1>0, <1>1, <2>2, <3>1, <3>3, OthersTurn
  <2>7. CASE s = w
    <3>1. binary'[s] = 0
      BY <1>0, <1>3, <2>7 DEF Consume, ObjectsOK
    <3>2. \A u \in Ops : DueFirst(s, u)' <=> u = "wait"
      BY <3>1 DEF DueFirst
    <3>3. NowDue(queue.toWait, CurrentPacket, s, "wait")
      BY <2>3, <2>4, <2>7 DEF NowDue
    <3>4. /\ s \notin CurrentPacket.signals
          /\ \A l \in 1..Len(queue.toWait) : queue.toWait[l] = s => l = 1
      BY <1>0, <2>3, <2>4, <2>7 DEF UsedOnce, OnceIn
    <3>5. \A u \in Ops : ~NowDue(queue'.toWait, CurrentPacket, s, u)
      <4>1. ASSUME NEW k \in 1..Len(queue'.toWait), queue'.toWait[k] = s PROVE FALSE
        <5>1. k + 1 = 1
          BY <2>3, <2>4, <3>4, <4>1
        <5>2. QED
          BY <2>3, <5>1
      <4>2. QED
        BY <3>4, <4>1 DEF NowDue
    <3>6. "wait" \in Ops
      BY DEF Ops
    <3>7. QED
      BY <1>0, <1>1, <3>2, <3>3, <3>5, <3>6, TakesTurn
  <2>8. QED
    BY <2>6, <2>7
<1>4. QED
  BY <1>2, <1>3 DEF WaitSemaphore

\* The semaphores of a packet are free when the queue thread reserves them.
LEMMA SignalsFree ==
  ASSUME QueueTypeOK, Shutdown, Numbering, Alternation, ReserveSignals
  PROVE  \A s \in CurrentPacket.signals : binary[s] = 0
<1>0. ThreadOK /\ Busy /\ InEntry
  <2>1. ThreadOK
    BY DEF QueueTypeOK
  <2>2. Busy /\ queue.stage = "wait"
    BY <2>1, QueueThreadGoes
  <2>3. QED
    BY <2>1, <2>2 DEF InEntry, EntryStages
<1> SUFFICES ASSUME NEW s \in CurrentPacket.signals, binary[s] # 0 PROVE FALSE
  OBVIOUS
<1>1. s \in Binaries
  BY <1>0, RequestTyped
<1>2. Due(QueueAt, s, "signal")
  BY <1>0, DueNow DEF NowDue
<1>3. QueueAt \in 0..issued /\ QueueAt \in Nat \ {0}
  BY <1>2, DueTyped
<1>4. Due(0, s, "signal")
  BY DEF Due, DueFirst
<1>5. 0 \in 0..issued /\ 0 < QueueAt /\ "signal" \in Ops
  <2>1. 0 \in 0..issued /\ 0 < QueueAt
    BY <1>3 DEF QueueTypeOK, CountersOK
  <2>2. "signal" \in Ops
    BY DEF Ops
  <2>3. QED
    BY <2>1, <2>2
<1>6. PICK k \in 0 + 1..QueueAt - 1 : \E u \in Ops \ {"signal"} : Due(k, s, u)
  BY <1>1, <1>2, <1>3, <1>4, <1>5 DEF Alternation, Alternates
<1>7. k = 0 \/ QueueAt <= k
  BY <1>6, DueTyped
<1>8. QED
  BY <1>3, <1>7

\* The queue thread comes to the signals of its packet in their turn.
LEMMA ReserveTurns ==
  ASSUME QueueTypeOK, Shutdown, Numbering, UsedOnce, Alternation, ReserveSignals, SamePlaces
  PROVE  Alternation'
<1>0. /\ ThreadOK /\ ObjectsOK /\ Busy /\ InEntry /\ queue.toWait = << >>
      /\ lastOp' = lastOp
  <2>1. ThreadOK /\ ObjectsOK
    BY DEF QueueTypeOK
  <2>2. queue.stage = "wait" /\ Busy /\ queue.toWait = << >>
    BY <2>1, QueueThreadGoes DEF ReserveSignals
  <2>3. lastOp' = lastOp
    BY DEF ReserveSignals, histories
  <2>4. QED
    BY <2>1, <2>2, <2>3 DEF InEntry, EntryStages
<1>1. binary' = [s \in Binaries |-> IF s \in CurrentPacket.signals THEN 2 ELSE binary[s]]
  BY SignalsFree DEF ReserveSignals
<1>2. ~InEntry'
  BY <1>0, QueueThreadGoes DEF InEntry, EntryStages
<1>3. Len(queue.toWait) = 0
  BY <1>0
<1> SUFFICES ASSUME NEW s \in Binaries PROVE Alternates(s)'
  BY DEF Alternation
<1>4. Alternates(s)
  BY DEF Alternation
<1>5. CASE s \in CurrentPacket.signals
  <2>1. binary'[s] = 2
    BY <1>1, <1>5
  <2>2. \A u \in Ops : DueFirst(s, u)' <=> u = "signal"
    BY <2>1 DEF DueFirst
  <2>3. NowDue(queue.toWait, CurrentPacket, s, "signal") /\ "signal" \in Ops
    BY <1>5 DEF NowDue, Ops
  <2>4. QED
    BY <1>0, <1>2, <1>4, <2>2, <2>3, TakesTurn
<1>6. CASE s \notin CurrentPacket.signals
  <2>1. binary'[s] = binary[s]
    BY <1>1, <1>6
  <2>2. \A u \in Ops : ~NowDue(queue.toWait, CurrentPacket, s, u)
    BY <1>3, <1>6 DEF NowDue
  <2>3. QED
    BY <1>0, <1>2, <1>4, <2>1, <2>2, OthersTurn
<1>7. QED
  BY <1>5, <1>6

\* What is due stays while channel and queue thread rest.
LEMMA DueSame ==
  ASSUME UNCHANGED <<channel, queue, issued>>, NEW i, NEW s, NEW o
  PROVE  DueAhead(i, s, o)' <=> DueAhead(i, s, o)
<1>1. QueueAt' = QueueAt
  BY SameSide
<1>2. DueInChannel(i, s, o)' <=> DueInChannel(i, s, o)
  BY DEF DueInChannel, InChannel, OpIn, Waits
<1>3. DueInQueue(i, s, o)' <=> DueInQueue(i, s, o)
  BY <1>1 DEF DueInQueue, InQueue, Busy, InEntry, NowDue, OpIn, Waits
<1>4. QED
  BY <1>2, <1>3 DEF DueAhead

\* What is due on s ahead is not retired.
LEMMA NoWaitAhead ==
  ASSUME QueueTypeOK, Shutdown, Numbering, UsedOnce, NEW s, AcquireValid(s), NEW i
  PROVE  ~DueAhead(i, s, "wait")
<1>1. \A p \in Unretired : ~Waits(p, s)
  BY DEF AcquireValid
<1>2. ASSUME NEW p, InChannel(i, p) PROVE p \in Unretired
  <2>1. PICK c \in 1..Len(channel) : \E k \in 1..Len(channel[c].packets) : p = channel[c].packets[k]
    BY <1>2 DEF InChannel
  <2>2. p \in PacketsOf(channel[c])
    BY <2>1 DEF PacketsOf
  <2>3. QED
    BY <2>2 DEF Unretired
<1>3. ASSUME NEW p, InQueue(i, p) PROVE p \in Unretired
  <2>1. p \in PacketsFrom(queue)
    BY <1>3 DEF InQueue, PacketsFrom
  <2>2. queue.stage # "recv"
    BY <1>3 DEF InQueue, Busy, BusyStages
  <2>3. p \in (IF queue.stage = "recv" THEN {} ELSE PacketsFrom(queue))
    BY <2>1, <2>2
  <2>4. QED
    BY <2>3 DEF Unretired
<1>4. ASSUME NEW p, "wait" = OpIn(p, s) PROVE Waits(p, s)
  BY <1>4 DEF OpIn
<1>5. ASSUME DueInQueue(i, s, "wait") PROVE FALSE
  <2>1. PICK p : /\ InQueue(i, p)
                 /\ IF i = QueueAt THEN InEntry /\ NowDue(queue.toWait, p, s, "wait") ELSE "wait" = OpIn(p, s)
    BY <1>5 DEF DueInQueue
  <2>2. CASE i = QueueAt
    <3>1. Busy
      BY <2>1 DEF InQueue
    <3>2. p = CurrentPacket
      BY <2>1, <2>2, <3>1, NowIs DEF QueueTypeOK, CountersOK
    <3>3. PICK k \in 1..Len(queue.toWait) : queue.toWait[k] = s
      BY <2>1, <2>2 DEF NowDue
    <3>4. Waits(p, s)
      BY <2>1, <2>2, <3>2, <3>3 DEF UsedOnce
    <3>5. QED
      BY <1>1, <1>3, <2>1, <3>4
  <2>3. CASE i # QueueAt
    BY <1>1, <1>3, <1>4, <2>1, <2>3
  <2>4. QED
    BY <2>2, <2>3
<1>6. ASSUME DueInChannel(i, s, "wait") PROVE FALSE
  <2>1. PICK p : InChannel(i, p) /\ "wait" = OpIn(p, s)
    BY <1>6 DEF DueInChannel
  <2>2. QED
    BY <1>1, <1>2, <1>4, <2>1
<1>7. QED
  BY <1>5, <1>6 DEF DueAhead

\* An acquisition is a signal of its own.
LEMMA AcquireTurns ==
  ASSUME QueueTypeOK, Shutdown, Numbering, UsedOnce, Alternation, Acquires
  PROVE  Alternation'
<1>1. PICK a \in Binaries \cup {NoSemaphore}, f \in Fences \cup {NoFence} : AcquireSync(a, f)
  BY DEF Acquires
<1>2. /\ UNCHANGED <<channel, queue, issued>> /\ binary \in [Binaries -> 0..2] /\ issued \in Nat
      /\ lastOp \in [Binaries -> Ops]
  BY <1>1 DEF AcquireSync, threads, QueueTypeOK, ObjectsOK, CountersOK, Ops
<1> SUFFICES ASSUME NEW s \in Binaries PROVE Alternates(s)'
  BY DEF Alternation
<1>3. Alternates(s)
  BY DEF Alternation
<1>4. CASE a \notin Binaries \/ a # s
  <2>1. binary'[s] = binary[s] /\ lastOp'[s] = lastOp[s]
    BY <1>1, <1>2, <1>4 DEF AcquireSync
  <2>2. ASSUME NEW i, NEW o \in Ops PROVE Due(i, s, o)' <=> Due(i, s, o)
    <3>1. DueAhead(i, s, o)' <=> DueAhead(i, s, o)
      BY <1>2, DueSame
    <3>2. DueFirst(s, o)' <=> DueFirst(s, o)
      BY <2>1 DEF DueFirst
    <3>3. QED
      BY <3>1, <3>2 DEF Due, DueAhead
  <2>3. lastOp[s] \in Ops
    BY <1>2
  <2>4. QED
    BY <1>2, <1>3, <2>1, <2>2, <2>3, AlternatesKeeps
<1>5. CASE a \in Binaries /\ a = s
  <2>1. AcquireValid(s) /\ lastOp[s] = "wait" /\ lastOp'[s] = "signal" /\ binary'[s] = 1
    BY <1>1, <1>2, <1>5 DEF AcquireSync, AcquireValid
  <2>2. \A i : ~DueAhead(i, s, "wait")
    BY <2>1, NoWaitAhead
  <2>3. ASSUME NEW i, DueAhead(i, s, "signal") PROVE FALSE
    <3>1. Due(i, s, "signal") /\ i \in 0..issued
      BY <2>3, DueTyped DEF Due, DueAhead
    <3>2. "signal" \in Ops /\ "signal" # lastOp[s]
      BY <2>1 DEF Ops
    <3>3. PICK k \in i + 1..issued : Due(k, s, "wait")
      BY <1>3, <2>1, <3>1, <3>2 DEF Alternates
    <3>4. k # 0
      BY <1>2, <3>1
    <3>5. DueAhead(k, s, "wait")
      BY <3>3, <3>4 DEF Due, DueAhead
    <3>6. QED
      BY <2>2, <3>5
  <2>4. ASSUME NEW i, NEW o \in Ops PROVE Due(i, s, o)' => i = 0 /\ o = "signal"
    <3>1. ~DueAhead(i, s, o)'
      BY <1>2, <2>2, <2>3, DueSame DEF Ops
    <3>2. DueFirst(s, o)' => o = "signal"
      BY <2>1 DEF DueFirst
    <3>3. QED
      BY <3>1, <3>2 DEF Due, DueAhead
  <2>5. ASSUME NEW o \in Ops, NEW i \in 0..issued', NEW j \in 0..issued', i < j, Due(i, s, o)', Due(j, s, o)'
        PROVE  FALSE
    <3>1. i = 0 /\ j = 0
      BY <2>4, <2>5
    <3>2. QED
      BY <2>5, <3>1
  <2>6. ASSUME NEW o \in Ops, NEW i \in 0..issued', Due(i, s, o)' PROVE o = lastOp'[s]
    BY <2>1, <2>4, <2>6
  <2>7. QED
    BY <2>5, <2>6 DEF Alternates
<1>6. QED
  BY <1>4, <1>5

\* A request that the application is allowed to submit continues the turns.
LEMMA JoinTurns ==
  ASSUME QueueTypeOK, Shutdown, Numbering, UsedOnce, Alternation, Admit, NEW r, Joins(r)
  PROVE  Alternation'
<1>0. /\ call.stage = "admit" /\ binary' = binary /\ queue' = queue /\ CallOK
      /\ lastOp' = BinaryLast(call.request.packets) /\ BinaryValid(call.request.packets)
  <2>1. call.stage = "admit" /\ binary' = binary
    BY DEF Admit
  <2>2. lastOp' = BinaryLast(call.request.packets)
    BY DEF Admit, Joins
  <2>3. BinaryValid(call.request.packets)
    BY <2>1 DEF UsedOnce
  <2>4. QED
    BY <2>1, <2>2, <2>3 DEF Joins, QueueTypeOK
<1>1. r.packets = call.request.packets /\ Len(call.request.packets) \in Nat
  BY <1>0, CallTyped DEF Joins
<1>2. \A i \in 1..Len(channel) : channel[i] # Stop
  <2>1. device = "open"
    BY <1>0 DEF Shutdown
  <2>2. QED
    BY <2>1 DEF Shutdown
<1>3. QueueAt' = QueueAt
  BY <1>2, JoiningStarts
<1> SUFFICES ASSUME NEW s \in Binaries PROVE Alternates(s)'
  BY DEF Alternation
<1>4. ASSUME NEW i, NEW o \in Ops
      PROVE  Due(i, s, o)' <=> Due(i, s, o) \/
               \E k \in 1..Len(call.request.packets) : i = issued + k /\ o = OpIn(call.request.packets[k], s)
  <2>1. DueInChannel(i, s, o)' <=> \E p : InChannel(i, p)' /\ o = OpIn(p, s)
    BY DEF DueInChannel, OpIn, Waits
  <2>2. DueInChannel(i, s, o)' <=> DueInChannel(i, s, o) \/
          \E k \in 1..Len(r.packets) : i = issued + k /\ o = OpIn(r.packets[k], s)
    BY <2>1, HeldJoins DEF DueInChannel
  <2>3. DueInQueue(i, s, o)' <=> DueInQueue(i, s, o)
    BY <1>0, <1>3 DEF DueInQueue, InQueue, Busy, InEntry, NowDue, OpIn, Waits
  <2>4. DueFirst(s, o)' <=> DueFirst(s, o)
    BY <1>0 DEF DueFirst
  <2>5. QED
    BY <1>1, <2>2, <2>3, <2>4 DEF Due
<1>5. Alternates(s)
  BY DEF Alternation
<1>6. \A i : \A o \in Ops : Due(i, s, o) => i \in 0..issued
  BY DueTyped
<1>7. issued' = issued + Len(call.request.packets)
  BY <1>1 DEF Joins
<1>8. QED
  BY <1>0, <1>1, <1>4, <1>5, <1>6, <1>7, AlternatesJoins

\* Numbers are given out by admission only.
LEMMA IssuedSteps ==
  ASSUME QueueTypeOK, [QueueNext]_queueVars
  PROVE  issued' = issued \/ (Admit /\ \E r : Joins(r))
<1>1. CASE ~Moves
  BY <1>1, QuietSteps
<1>2. CASE Moves
  BY <1>2, OtherMoves, AdmitGoes, LeavingGoes DEF Moves, Leaves, SamePlaces
<1>3. QED
  BY <1>1, <1>2

\* Without a failure every step keeps signals and waits in turn.
LEMMA AlternationStep ==
  ASSUME QueueTypeOK, Shutdown, Numbering, UsedOnce, Alternation, ServedPending, [QueueNext]_queueVars,
         ~lost \/ ~WaitSemaphore, ~FailPackets, ~CancelSignals, ~PresentFails
  PROVE  Alternation'
<1>0. lastOp \in [Binaries -> Ops]
  BY DEF QueueTypeOK, ObjectsOK, Ops
<1>m. WaitSemaphore \/ ReserveSignals => SamePlaces
  <2>1. WaitSemaphore \/ ReserveSignals => UNCHANGED <<channel, observed, completion, issued>>
    BY DEF WaitSemaphore, ReserveSignals, QueueOnly, histories
  <2>2. WaitSemaphore \/ ReserveSignals =>
           (Busy' <=> Busy) /\ queue'.request = queue.request /\ queue'.index = queue.index
    <3>1. ThreadOK
      BY DEF QueueTypeOK
    <3>2. WaitSemaphore => queue.stage = "wait" /\ queue'.stage \in {"lose", "asleep", "wait"}
      BY <3>1, QueueThreadGoes
    <3>3. ReserveSignals => queue.stage = "wait" /\ queue'.stage \in {"call", "lose"}
      BY <3>1, QueueThreadGoes
    <3>4. WaitSemaphore \/ ReserveSignals => (Busy' <=> Busy)
      BY <3>2, <3>3 DEF Busy, BusyStages
    <3>5. QED
      BY <3>1, <3>4, QueueThreadGoes
  <2>3. QED
    BY <2>1, <2>2 DEF SamePlaces, InHand
<1>1. CASE WaitSemaphore
  BY <1>1, <1>m, WaitTurns
<1>2. CASE ReserveSignals
  BY <1>2, <1>m, ReserveTurns
<1>3. CASE Acquires
  BY <1>3, AcquireTurns
<1>4. CASE Admit /\ \E r : Joins(r)
  BY <1>4, JoinTurns
\* Whatever is due stays so, and a pending semaphore may become signaled.
<1>5. ASSUME \A s \in Binaries : binary'[s] = 0 <=> binary[s] = 0, lastOp' = lastOp, issued' = issued,
             ~WaitSemaphore, ~ReserveSignals, ~Admit \/ ~\E r : Joins(r)
      PROVE  Alternation'
  <2> SUFFICES ASSUME NEW s \in Binaries PROVE Alternates(s)'
    BY DEF Alternation
  <2>1. ASSUME NEW i, NEW o \in Ops PROVE Due(i, s, o)' <=> Due(i, s, o)
    <3>1. DueAhead(i, s, o)' <=> DueAhead(i, s, o)
      BY <1>5, DueStays
    <3>2. DueFirst(s, o)' <=> DueFirst(s, o)
      BY <1>5 DEF DueFirst
    <3>3. QED
      BY <3>1, <3>2 DEF Due, DueAhead
  <2>2. QED
    BY <1>0, <1>5, <2>1, AlternatesKeeps DEF Alternation
<1>6. CASE PublishSignals /\ ~WaitSemaphore /\ ~ReserveSignals /\ ~Acquires /\ ~(Admit /\ \E r : Joins(r))
  <2>1. binary' = ItemSignals(1) /\ lastOp' = lastOp /\ issued' = issued
    BY <1>6 DEF PublishSignals
  <2>2. \A s \in completion.item.packet.signals : binary[s] = 2
    BY <1>6 DEF ServedPending, Served, PublishSignals
  <2>3. \A s \in Binaries : binary'[s] = 0 <=> binary[s] = 0
    BY <2>1, <2>2 DEF ItemSignals
  <2>4. QED
    BY <1>5, <1>6, <2>1, <2>3
<1>7. CASE ~PublishSignals /\ ~WaitSemaphore /\ ~ReserveSignals /\ ~Acquires /\ ~(Admit /\ \E r : Joins(r))
  <2>1. binary' = binary /\ issued' = issued
    BY <1>7, BinarySteps, IssuedSteps
  <2>2. lastOp' = lastOp
    <3>1. Admit => lastOp' = lastOp
      BY <1>7, AdmitGoes
    <3>2. QED
      BY <1>7, <3>1, BinarySteps
  <2>3. QED
    BY <1>5, <1>7, <2>1, <2>2
<1>8. QED
  BY <1>1, <1>2, <1>3, <1>4, <1>6, <1>7

\* Packets have their signals reserved by one step only.
LEMMA ServedSteps ==
  ASSUME QueueTypeOK, Shutdown, Numbering, [QueueNext]_queueVars, ~ReserveSignals, NEW i, NEW p, Served(i, p)'
  PROVE  (i = 0 /\ p = NoPacket) \/ Served(i, p)
<1>0. ThreadOK /\ CompletionOK /\ ChannelOK
  BY DEF QueueTypeOK
<1> DEFINE Now(q) == q.stage \in {"call", "observe"}
           Settles(c) == c.stage \in {"drain", "signal"} /\ i = c.item.id /\ p = c.item.packet
<1>1. /\ Served(i, p) <=> (Now(queue) /\ i = QueueAt /\ p = CurrentPacket) \/ InObserved(i, p) \/ Settles(completion)
      /\ Served(i, p)' <=> (Now(queue') /\ i = QueueAt' /\ p = CurrentPacket') \/ InObserved(i, p)' \/ Settles(completion')
  BY DEF Served
<1>o. ASSUME observed' = observed PROVE InObserved(i, p)' <=> InObserved(i, p)
  BY <1>o DEF InObserved
<1>c. ASSUME completion' = completion PROVE Settles(completion') <=> Settles(completion)
  BY <1>c
<1>q. ASSUME queue' = queue
      PROVE  Now(queue') /\ i = QueueAt' /\ p = CurrentPacket' => Now(queue) /\ i = QueueAt /\ p = CurrentPacket
  <2>1. Now(queue) => Busy /\ Busy'
    BY <1>q DEF Busy, BusyStages
  <2>2. QED
    BY <1>q, <2>1 DEF QueueAt, CurrentPacket
<1>2. CASE ~Moves
  <2>1. SamePlaces /\ QueueAt' = QueueAt
    BY <1>2, QuietPlaces, StartKeeps
  <2>2. Now(queue') => Now(queue)
    <3>1. CASE QueueThread
      <4>1. ~Now(queue) => ~Now(queue')
        BY <1>0, <1>2, <3>1, QueueThreadGoes DEF QueueThread, Moves
      <4>2. QED
        BY <4>1
    <3>2. CASE queue' = queue \/ queue' = QueueWoken(queue)
      BY <1>0, <3>2, QueueWakes
    <3>3. QED
      BY <3>1, <3>2, ThreadsAlone
  <2>3. CurrentPacket' = CurrentPacket
    BY <2>1 DEF SamePlaces, CurrentPacket
  <2>4. Settles(completion') => Settles(completion)
    <3>1. completion'.stage \in {"drain", "signal"} => completion.stage \in {"drain", "signal"}
      BY <1>2, QuietPlaces DEF CompletionTurns
    <3>2. QED
      BY <2>1, <3>1 DEF SamePlaces
  <2>5. InObserved(i, p)' <=> InObserved(i, p)
    BY <2>1, HeldKeeps
  <2> HIDE DEF Now, Settles
  <2>6. QED
    BY <1>1, <2>1, <2>2, <2>3, <2>4, <2>5
<1>3. CASE Admit \/ StopQueue
  <2>1. UNCHANGED <<queue, observed, completion>>
    BY <1>3 DEF Admit, StopQueue
  <2> HIDE DEF Now, Settles
  <2>2. QED
    BY <1>1, <1>o, <1>c, <1>q, <2>1
<1>4. CASE StopCompletion
  <2>1. UNCHANGED <<queue, completion>>
    BY <1>4, OtherMoves
  <2>2. InObserved(i, p)' <=> InObserved(i, p) \/ (i = 0 /\ p = NoPacket)
    BY <1>4, ObservedCloses
  <2> HIDE DEF Now, Settles
  <2>3. QED
    BY <1>1, <1>c, <1>q, <2>1, <2>2
<1>5. CASE Receive \/ FailPackets \/ Present
  <2>1. UNCHANGED <<observed, completion>>
    BY <1>5, OtherMoves, LeavingGoes DEF Leaves
  <2>2. ~Now(queue')
    BY <1>0, <1>5, ReceiveGoes, QueueThreadGoes
  <2> HIDE DEF Now, Settles
  <2>3. QED
    BY <1>1, <1>o, <1>c, <2>1, <2>2
<1>6. CASE Observe
  <2>1. completion' = completion
    BY <1>6, OtherMoves
  <2>2. ~Now(queue') /\ Now(queue)
    BY <1>0, <1>6, ObserveGoes
  <2>3. InObserved(i, p)' <=> InObserved(i, p) \/ (i = QueueAt /\ p = CurrentPacket)
    BY <1>6, QueuePasses
  <2> HIDE DEF Now, Settles
  <2>4. QED
    BY <1>1, <1>c, <2>1, <2>2, <2>3
<1>7. CASE TakeReceipts
  <2>1. queue' = queue
    BY <1>7, OtherMoves
  <2>2. InObserved(i, p)' => InObserved(i, p)
    BY <1>7, ObservedPasses
  <2>3. Settles(completion') => InObserved(i, p)
    <3>1. Settles(completion') => InCompletion(i, p)'
      BY DEF InCompletion, Settling
    <3>2. QED
      BY <1>7, <3>1, ObservedPasses
  <2> HIDE DEF Now, Settles
  <2>4. QED
    BY <1>1, <1>q, <2>1, <2>2, <2>3
<1>8. CASE FinishPending
  <2>1. UNCHANGED <<queue, observed>>
    BY <1>8, OtherMoves
  <2>2. ~Settles(completion')
    BY <1>0, <1>8, CompletionThreadGoes
  <2> HIDE DEF Now, Settles
  <2>3. QED
    BY <1>1, <1>o, <1>q, <2>1, <2>2
<1>9. QED
  BY <1>2, <1>3, <1>4, <1>5, <1>6, <1>7, <1>8 DEF Moves

\* A packet with its signals reserved is a packet.
LEMMA ServedTyped ==
  ASSUME QueueTypeOK, Shutdown, Numbering, NEW i, NEW p, Served(i, p)
  PROVE  p \in Packets /\ p.signals \subseteq Binaries
<1>0. ThreadOK /\ CompletionOK
  BY DEF QueueTypeOK
<1>1. CASE queue.stage \in {"call", "observe"} /\ p = CurrentPacket
  <2>1. Busy
    BY <1>1 DEF Busy, BusyStages
  <2>2. QED
    BY <1>0, <1>1, <2>1, RequestTyped
<1>2. CASE InObserved(i, p)
  BY <1>2, PlacesAre, PacketFields
<1>3. CASE completion.stage \in {"drain", "signal"} /\ p = completion.item.packet
  <2>1. InHand
    BY <1>3 DEF InHand, InHandStages
  <2>2. QED
    BY <1>0, <1>3, <2>1, ItemTyped
<1>4. QED
  BY <1>1, <1>2, <1>3 DEF Served

\* What the queue thread has reserved stays pending, for one packet.
LEMMA ServedPendingStep ==
  ASSUME QueueTypeOK, Shutdown, Numbering, Alternation, ServedPending, [QueueNext]_queueVars,
         ~FailPackets, ~CancelSignals
  PROVE  ServedPending'
<1>0. ObjectsOK /\ ThreadOK /\ CompletionOK
  BY DEF QueueTypeOK
<1>e. NoPacket.signals = {}
  BY NoPacketIs
<1>1. CASE ReserveSignals
  <2>1. binary' = [s \in Binaries |-> IF s \in CurrentPacket.signals THEN 2 ELSE binary[s]]
    BY <1>1, SignalsFree DEF ReserveSignals
  <2>2. UNCHANGED <<observed, completion>> /\ queue.stage = "wait" /\ queue'.request = queue.request
        /\ queue'.index = queue.index /\ Busy /\ queue'.stage \in {"call", "lose"}
    BY <1>0, <1>1, QueueThreadGoes DEF ReserveSignals, QueueOnly
  <2>3. CurrentPacket' = CurrentPacket /\ QueueAt' = QueueAt
    <3>1. Busy'
      BY <2>2 DEF Busy, BusyStages
    <3>2. QED
      BY <2>2, <3>1 DEF CurrentPacket, QueueAt
  <2>4. ASSUME NEW i, NEW p, Served(i, p)' PROVE (i = QueueAt /\ p = CurrentPacket) \/ Served(i, p)
    <3>1. InObserved(i, p)' <=> InObserved(i, p)
      BY <2>2 DEF InObserved
    <3>2. QED
      BY <2>2, <2>3, <2>4, <3>1 DEF Served
  <2>5. \A s \in CurrentPacket.signals : s \in Binaries /\ binary[s] = 0
    BY <1>0, <1>1, <2>2, SignalsFree, RequestTyped
  <2>6. \A i, p : Served(i, p) => \A s \in p.signals : binary[s] = 2
    BY DEF ServedPending
  <2>7. ASSUME NEW i, NEW p, Served(i, p)', NEW s \in p.signals, s \in Binaries PROVE binary'[s] = 2
    BY <2>1, <2>4, <2>6, <2>7
  <2>8. ASSUME NEW i, NEW p, Served(i, p)' PROVE p.signals \subseteq Binaries
    BY <2>4, <2>5, <2>8, ServedTyped
  <2>9. ASSUME NEW i, NEW p, NEW j, NEW q, Served(i, p)', Served(j, q)', NEW s \in p.signals, s \in q.signals
        PROVE  i = j
    <3>1. CASE Served(i, p) /\ Served(j, q)
      BY <2>9, <3>1 DEF ServedPending
    <3>2. CASE i = QueueAt /\ p = CurrentPacket /\ Served(j, q)
      <4>1. binary[s] = 0 /\ binary[s] = 2
        BY <2>5, <2>6, <2>9, <3>2
      <4>2. QED
        BY <4>1
    <3>3. CASE j = QueueAt /\ q = CurrentPacket /\ Served(i, p)
      <4>1. binary[s] = 0 /\ binary[s] = 2
        BY <2>5, <2>6, <2>9, <3>3
      <4>2. QED
        BY <4>1
    <3>4. QED
      BY <2>4, <2>9, <3>1, <3>2, <3>3
  <2>10. QED
    BY <2>7, <2>8, <2>9 DEF ServedPending
\* No packet is served anew.
<1>2. ASSUME ~ReserveSignals,
             \A i, p : Served(i, p)' => \A s \in p.signals : s \in Binaries /\ binary[s] = 2 => binary'[s] = 2
      PROVE  ServedPending'
  <2>1. \A i, p : Served(i, p)' => (i = 0 /\ p = NoPacket) \/ Served(i, p)
    BY <1>2, ServedSteps
  <2>2. \A i, p : Served(i, p)' => \A s \in p.signals : binary'[s] = 2
    BY <1>e, <1>2, <2>1, ServedTyped DEF ServedPending
  <2>3. \A i, p, j, q : Served(i, p)' /\ Served(j, q)' /\ p.signals \cap q.signals # {} => i = j
    BY <1>e, <2>1 DEF ServedPending
  <2>4. QED
    BY <2>2, <2>3 DEF ServedPending
<1>3. CASE ~ReserveSignals /\ PublishSignals
  <2>1. binary' = ItemSignals(1) /\ completion.stage = "signal" /\ completion'.stage = "finish"
    BY <1>0, <1>3, CompletionThreadGoes DEF PublishSignals
  <2>2. Served(completion.item.id, completion.item.packet) /\ InHand
    BY <2>1 DEF Served, InHand, InHandStages
  <2>3. \A s : binary[s] = 2 /\ s \notin completion.item.packet.signals /\ s \in Binaries => binary'[s] = 2
    BY <2>1 DEF ItemSignals
  <2>4. UNCHANGED <<queue, observed>>
    BY <1>3 DEF PublishSignals, CompletionOnly
  <2>5. ASSUME NEW i, NEW p, Served(i, p)', NEW s \in p.signals, binary[s] = 2, s \in Binaries PROVE binary'[s] = 2
    <3>1. p # NoPacket
      BY <1>e, <2>5
    <3>2. Served(i, p)
      BY <1>3, <2>5, <3>1, ServedSteps
    <3>3. CASE InObserved(i, p)
      <4>1. p \in Packets /\ completion.item.id < i /\ i \in Nat
        BY <2>2, <3>1, <3>3, PlacesAre
      <4>2. completion.item.id # i
        BY <1>0, <2>2, <4>1, ItemTyped
      <4>3. s \notin completion.item.packet.signals
        BY <2>2, <2>5, <3>2, <4>2 DEF ServedPending
      <4>4. QED
        BY <2>3, <2>5, <4>1, <4>3, PacketFields
    <3>4. CASE queue.stage \in {"call", "observe"} /\ i = QueueAt /\ p = CurrentPacket
      <4>1. Busy
        BY <3>4 DEF Busy, BusyStages
      <4>2. completion.item.id < QueueAt /\ QueueAt \in Nat /\ completion.item.id \in Nat
        BY <1>0, <2>2, QueueAtTyped, ItemTyped DEF Numbering, PassedNumbered, QueueTypeOK, CountersOK
      <4>3. completion.item.id # i
        BY <3>4, <4>2
      <4>4. s \notin completion.item.packet.signals
        BY <2>2, <2>5, <3>2, <4>3 DEF ServedPending
      <4>5. s \in Binaries
        BY <1>0, <2>5, <3>4, <4>1, RequestTyped
      <4>6. QED
        BY <2>3, <2>5, <4>4, <4>5
    <3>5. InObserved(i, p) \/ (queue.stage \in {"call", "observe"} /\ i = QueueAt /\ p = CurrentPacket)
      <4>1. InObserved(i, p)' <=> InObserved(i, p)
        BY <2>4 DEF InObserved
      <4>2. completion'.stage \notin {"drain", "signal"}
        BY <2>1
      <4>3. CASE queue'.stage \in {"call", "observe"} /\ i = QueueAt' /\ p = CurrentPacket'
        <5>1. Busy /\ Busy'
          BY <2>4, <4>3 DEF Busy, BusyStages
        <5>2. QED
          BY <2>4, <4>3, <5>1 DEF QueueAt, CurrentPacket
      <4>4. QED
        BY <2>5, <4>1, <4>2, <4>3 DEF Served
    <3>6. QED
      BY <3>3, <3>4, <3>5
  <2>6. QED
    BY <1>2, <1>3, <2>5
<1>4. CASE ~ReserveSignals /\ ~PublishSignals
  <2>1. \A s \in Binaries : binary[s] = 2 => binary'[s] = 2
    <3>1. CASE Acquires
      <4>1. PICK a, f : AcquireSync(a, f)
        BY <3>1 DEF Acquires
      <4>2. binary' = binary \/ (binary' = [binary EXCEPT ![a] = 1] /\ binary[a] = 0)
        BY <4>1 DEF AcquireSync
      <4>3. QED
        BY <1>0, <4>2 DEF ObjectsOK
    <3>2. CASE WaitSemaphore
      <4>1. binary' = binary \/ \E w : binary' = [binary EXCEPT ![w] = 0] /\ binary[w] = 1
        BY <3>2 DEF WaitSemaphore, Consume, Ready
      <4>2. QED
        BY <1>0, <4>1 DEF ObjectsOK
    <3>3. CASE binary' = binary
      BY <3>3
    <3>4. QED
      BY <1>4, <3>1, <3>2, <3>3, BinarySteps
  <2>2. QED
    BY <1>2, <1>4, <2>1
<1>5. QED
  BY <1>1, <1>3, <1>4

\* How the device may be lost.
LEMMA LosingSteps ==
  ASSUME [QueueNext]_queueVars
  PROVE  /\ lost' = lost \/ WorkerLosesDevice \/ LoseDevice \/ CancelSignals \/ DestroyLosesDevice
         /\ device = "destroyed" => device' = "destroyed"
<1>1. lost' = lost \/ WorkerLosesDevice \/ LoseDevice \/ CancelSignals \/ DestroyLosesDevice
  <2> USE DEF queueVars, counts, objects, threads, histories, QueueOnly, CompletionOnly
  <2>1. CASE CallStep \/ ApplicationStep
    BY <2>1 DEF CallStep, ApplicationStep, ReserveValues, ClaimFence, Admit, Submit, ResetFence,
       SignalTimeline, AcquireSync, WaitForFences, WaitTimesOut, Destroy
  <2>2. CASE DestroyStep \/ CheckFences \/ WorkerLosesDevice \/ Notify \/ UNCHANGED queueVars
    BY <2>2 DEF DestroyStep, StopQueue, StopCompletion, CheckFences, Notify
  <2>3. CASE QueueThread
    BY <2>3 DEF QueueThread, Receive, WaitSemaphore, ReserveSignals, Execute, ExecuteFails, Observe,
       FailPackets, DrainForPresent, Present, PresentFails
  <2>4. CASE CompletionThread
    BY <2>4 DEF CompletionThread, TakeReceipts, ReceiptsComplete, ReceiptFails, PublishSignals,
       FinishInFlight, FinishPending
  <2>5. QED
    BY <2>1, <2>2, <2>3, <2>4 DEF QueueNext
<1>2. device = "destroyed" => device' = "destroyed"
  BY DeviceSteps DEF StopQueue, StopCompletion
<1>3. QED
  BY <1>1, <1>2

\* A thread at work finds the device not destroyed.
LEMMA LossAtWork ==
  ASSUME QueueTypeOK, Shutdown, Causes, Busy \/ InHand, lost
  PROVE  failure
<1>1. device # "destroyed"
  <2>1. CASE Busy
    BY <2>1 DEF Shutdown, Closing, Busy, BusyStages
  <2>2. CASE InHand
    BY <2>2 DEF Shutdown, InHand, InHandStages
  <2>3. QED
    BY <2>1, <2>2
<1>2. QED
  BY <1>1 DEF Causes, LossHasACause

\* Without a failure no step of the error paths is taken.
LEMMA FailingSteps ==
  ASSUME QueueTypeOK, Shutdown, Numbering, Causes, [QueueNext]_queueVars, ~failure'
  PROVE  /\ ~failure /\ Alternation /\ ServedPending
         /\ ~lost \/ ~WaitSemaphore
         /\ ~FailPackets /\ ~LoseDevice /\ ~CancelSignals /\ ~PresentFails /\ ~ExecuteFails /\ ~ReceiptFails
         /\ ~WorkerLosesDevice
         /\ ReceiptsComplete => ~lost
<1>0. ThreadOK /\ CompletionOK
  BY DEF QueueTypeOK
<1>1. ~failure
  BY BinarySteps
<1>2. Alternation /\ ServedPending
  BY <1>1 DEF Causes
<1>3. WaitSemaphore => ~lost
  BY <1>0, <1>1, QueueThreadGoes, LossAtWork
<1>4. ~FailPackets /\ ~LoseDevice /\ ~CancelSignals
  BY <1>1 DEF Causes, FailPackets, LoseDevice, CancelSignals
<1>5. ~PresentFails /\ ~ExecuteFails
  <2>1. PresentFails \/ ExecuteFails => Busy
    BY <1>0, QueueThreadGoes
  <2>2. PresentFails \/ ExecuteFails => ~lost
    BY <1>1, <2>1, LossAtWork
  <2>3. QED
    BY <2>2 DEF PresentFails, ExecuteFails
<1>6. ~ReceiptFails /\ ~WorkerLosesDevice
  BY DEF ReceiptFails, WorkerLosesDevice
<1>7. ReceiptsComplete => ~lost
  BY <1>0, <1>1, CompletionThreadGoes, LossAtWork
<1>8. QED
  BY <1>1, <1>2, <1>3, <1>4, <1>5, <1>6, <1>7

\* Every step keeps a lost device its cause, and signals and waits their turns.
LEMMA CausesStep ==
  QueueTypeOK /\ Shutdown /\ Numbering /\ UsedOnce /\ Causes /\ [QueueNext]_queueVars => Causes'
<1> SUFFICES ASSUME QueueTypeOK, Shutdown, Numbering, UsedOnce, Causes, [QueueNext]_queueVars, ~failure'
             PROVE  /\ lost' => device' = "destroyed"
                    /\ queue'.stage \notin {"lose", "fail"}
                    /\ completion'.stage # "cancel"
                    /\ Alternation' /\ ServedPending'
  BY DEF Causes, LossHasACause
<1>0. ThreadOK /\ CompletionOK
  BY DEF QueueTypeOK
<1>1. /\ ~failure /\ Alternation /\ ServedPending
      /\ ~lost \/ ~WaitSemaphore
      /\ ~FailPackets /\ ~LoseDevice /\ ~CancelSignals /\ ~PresentFails /\ ~ExecuteFails /\ ~ReceiptFails
      /\ ~WorkerLosesDevice
      /\ ReceiptsComplete => ~lost
  BY FailingSteps
<1>2. lost' => device' = "destroyed"
  <2>1. lost => device = "destroyed"
    BY <1>1 DEF Causes, LossHasACause
  <2>2. DestroyLosesDevice => device' = "destroyed"
    BY DEF DestroyLosesDevice
  <2>3. QED
    BY <1>1, <2>1, <2>2, LosingSteps
<1>3. queue'.stage \notin {"lose", "fail"}
  <2>0. queue.stage \notin {"lose", "fail"}
    BY <1>1 DEF Causes
  <2>1. CASE WaitSemaphore
    <3>1. \/ queue' = [queue EXCEPT !.toWait = Tail(@)]
          \/ queue' = [queue EXCEPT !.stage = "asleep"]
      BY <1>1, <2>1 DEF WaitSemaphore
    <3>2. queue'.stage \in {"wait", "asleep"}
      BY <1>0, <2>1, <3>1 DEF ThreadOK, WaitSemaphore
    <3>3. QED
      BY <3>2
  <2>2. CASE ReserveSignals
    <3>1. queue' = [queue EXCEPT !.stage = "call"]
      BY <1>1, <2>2, SignalsFree DEF ReserveSignals
    <3>2. QED
      BY <1>0, <3>1 DEF ThreadOK
  <2>3. CASE QueueThread /\ ~WaitSemaphore /\ ~ReserveSignals
    <3>1. Receive => queue'.stage \in {"stopped", "drain", "wait"}
      BY <1>0, ReceiveGoes DEF QueueTypeOK
    <3>2. Observe => queue'.stage \in {"recv", "wait"}
      BY <1>0, ObserveGoes
    <3>3. Execute \/ DrainForPresent \/ Present => queue'.stage \in {"observe", "wait", "recv"}
      BY <1>0, QueueThreadGoes
    <3>4. QED
      BY <1>1, <2>3, <3>1, <3>2, <3>3 DEF QueueThread
  <2>4. CASE queue' = queue \/ queue' = QueueWoken(queue)
    BY <1>0, <2>0, <2>4, QueueWakes
  <2>5. QED
    BY <2>1, <2>2, <2>3, <2>4, ThreadsAlone
<1>4. completion'.stage # "cancel"
  <2>1. CASE CompletionThread
    <3>1. TakeReceipts => completion'.stage \in {"stopped", "drain"}
      BY <1>0, TakeReceiptsGoes DEF QueueTypeOK
    <3>2. ReceiptsComplete => completion'.stage = "signal"
      BY <1>0, <1>1, CompletionThreadGoes
    <3>3. PublishSignals \/ FinishInFlight \/ FinishPending => completion'.stage \in {"finish", "retire", "recv"}
      BY <1>0, CompletionThreadGoes
    <3>4. QED
      BY <1>1, <2>1, <3>1, <3>2, <3>3 DEF CompletionThread
  <2>2. CASE completion' = completion
    BY <1>1, <2>2 DEF Causes
  <2>3. QED
    BY <2>1, <2>2, ThreadsAlone
<1>5. Alternation'
  BY <1>1, AlternationStep
<1>6. ServedPending'
  BY <1>1, ServedPendingStep
<1>7. QED
  BY <1>2, <1>3, <1>4, <1>5, <1>6

\* Nothing was lost and every semaphore has its turn at first.
LEMMA CausesInit == QueueInit => UsedOnce /\ Causes
<1> SUFFICES ASSUME QueueInit PROVE UsedOnce /\ Causes
  OBVIOUS
<1>1. /\ channel = << >> /\ observed = << >> /\ queue.stage = "recv" /\ completion.stage = "recv"
      /\ call.stage = "none" /\ issued = 0 /\ lost = FALSE
      /\ lastOp = [s \in Binaries |-> "wait"] /\ binary = [s \in Binaries |-> 0]
  BY DEF QueueInit
<1>2. ~Busy /\ ~InEntry
  BY <1>1 DEF Busy, BusyStages, InEntry, EntryStages
<1>3. Len(channel) = 0 /\ Len(observed) = 0
  BY <1>1
<1>4. \A i, p : ~InChannel(i, p) /\ ~InQueue(i, p) /\ ~Served(i, p)
  BY <1>1, <1>2, <1>3 DEF InChannel, InQueue, InObserved, Served
<1>5. UsedOnce
  BY <1>1, <1>2, <1>4 DEF UsedOnce
<1>6. ServedPending
  BY <1>4 DEF ServedPending
<1>7. ASSUME NEW s \in Binaries PROVE Alternates(s)
  <2>1. ASSUME NEW i, NEW o, Due(i, s, o) PROVE i = 0 /\ o = "wait"
    BY <1>1, <1>4, <2>1 DEF Due, DueFirst, DueInChannel, DueInQueue
  <2>2. lastOp[s] = "wait"
    BY <1>1
  <2>3. ASSUME NEW i, NEW j, NEW o, i < j, Due(i, s, o), Due(j, s, o) PROVE FALSE
    <3>1. i = 0 /\ j = 0
      BY <2>1, <2>3
    <3>2. QED
      BY <2>3, <3>1
  <2>4. QED
    BY <2>1, <2>2, <2>3 DEF Alternates
<1>8. Causes
  BY <1>1, <1>6, <1>7 DEF Causes, LossHasACause, Alternation
<1>9. QED
  BY <1>5, <1>8

-----------------------------------------------------------------------------
(* What the shared state of the queue promises.                            *)

QueueInv ==
  /\ QueueTypeOK /\ Shutdown /\ Numbering
  /\ FencesAreLast /\ Prefix /\ Counts /\ Promises /\ Owners /\ UsedOnce /\ Causes /\ Sleepers

\* Every step keeps the inductive invariant.
LEMMA QueueInvStep == QueueInv /\ [QueueNext]_queueVars => QueueInv'
<1> SUFFICES ASSUME QueueInv, [QueueNext]_queueVars PROVE QueueInv'
  OBVIOUS
<1>1. QueueTypeOK' /\ Shutdown' /\ Numbering'
  BY TypesStep, ShutdownStep, NumberingStep DEF QueueInv
<1>2. FencesAreLast' /\ Prefix' /\ Counts' /\ Promises'
  BY FencesAreLastStep, PrefixStep, CountsStep, PromisesStep DEF QueueInv
<1>3. Owners' /\ UsedOnce' /\ Causes' /\ Sleepers'
  BY OwnersStep, UsedOnceStep, CausesStep, SleepersStep DEF QueueInv
<1>4. QED
  BY <1>1, <1>2, <1>3 DEF QueueInv

\* The inductive invariant holds at first.
LEMMA QueueInvInit == QueueInit => QueueInv
BY QueueInitTyped, NumberingInit, PrefixInit, CountsInit, PromisesInit, OwnersInit, CausesInit, SleepersInit
   DEF QueueInv

(* The inductive invariant of submission, execution and retirement: the    *)
(* types, the numbers of the packets in the two channels and the three     *)
(* threads, who owes which fence, semaphore and value, and the turns of    *)
(* signals and waits on every binary semaphore (queue::run, completion).   *)
THEOREM QueueCorrect == QueueSpec => []QueueInv
<1>1. QueueInit => QueueInv
  BY QueueInvInit
<1>2. QueueInv /\ [QueueNext]_queueVars => QueueInv'
  BY QueueInvStep
<1>3. QED
  BY <1>1, <1>2, PTL DEF QueueSpec

(* A fence signaled by a submission certifies its packets and every packet *)
(* submitted before: their receipts completed, through the queue, device   *)
(* and completion threads (queue::observe, completion::finish).            *)
THEOREM FencesCertify == QueueSpec => []FenceCertifiesPrefix
<1>1. QueueInv => FenceCertifiesPrefix
  BY DEF QueueInv, Prefix, FenceCertifiesPrefix
<1>2. QED
  BY <1>1, QueueCorrect, PTL

(* Pending counts every packet once, an idle device has settled all its    *)
(* fences, semaphores and promises, timelines stay below what is promised, *)
(* only a failure loses the device, and no wakeup is lost.                 *)
THEOREM SharedStateSound == QueueSpec => []QueueInvariant
<1>1. QueueInv => QueueInvariant
  <2> SUFFICES ASSUME QueueInv PROVE QueueInvariant
    OBVIOUS
  <2>1. PendingCountsPackets
    BY PendingCounted DEF QueueInv
  <2>2. IdleMeansSettled
    BY IdleSettled DEF QueueInv
  <2>3. PromisesAhead
    BY DEF QueueInv, Promises
  <2>4. LossHasACause
    BY DEF QueueInv, Causes
  <2>5. NoLostWakeup
    BY SleepersAre DEF QueueInv
  <2>6. QED
    BY <2>1, <2>2, <2>3, <2>4, <2>5 DEF QueueInvariant
<1>2. QED
  BY <1>1, QueueCorrect, PTL

=============================================================================
