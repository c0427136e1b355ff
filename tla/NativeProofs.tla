----------------------------- MODULE NativeProofs -----------------------------
(***************************************************************************)
(* Proofs about Scheduler and NativeScheduler for any streams, chunks,     *)
(* arenas, limits, number of API threads and behaviour of the wake pipe.   *)
(* SchedulerInvariant is inductive and implies the safety properties that  *)
(* the scheduler run checks on one instance.  The worker's scheduler takes *)
(* only steps of Scheduler, so SchedulerInvariant holds inside the queue;  *)
(* with it NativeInvariant is inductive.  The promises of the shared       *)
(* admission, the absence of lost wakeups and the safety part of the       *)
(* refinement of CompletionContract follow.                                *)
(***************************************************************************)
EXTENDS NativeScheduler, FiniteSetTheorems, TLAPS

-----------------------------------------------------------------------------
(* The portable scheduler.                                                 *)

(* Chunks are pairs of a stream and a position, and no chunk is NoChunk.   *)
LEMMA ChunkFacts ==
    /\ \A s \in Streams : ChunkCount(s) \in Nat
    /\ \A c \in Chunks : /\ c = <<c[1], c[2]>>
                         /\ c[1] \in Streams
                         /\ c[2] \in 1..ChunkCount(c[1])
                         /\ c # NoChunk
    /\ \A s \in Streams : \A k \in 1..ChunkCount(s) : <<s, k>> \in Chunks
<1>1. \A s \in Streams : ChunkCount(s) \in Nat
  BY SchedulerAssumption DEF SchedulerAssumption, ChunkCount
<1>2. \A c \in Chunks : /\ c = <<c[1], c[2]>>
                        /\ c[1] \in Streams
                        /\ c[2] \in 1..ChunkCount(c[1])
  BY DEF Chunks
<1>3. \A c \in Chunks : c # NoChunk
  <2>1. SUFFICES ASSUME NEW c \in Chunks, c = NoChunk PROVE FALSE
    OBVIOUS
  <2>2. c[1] = NoStream
    BY <2>1 DEF NoChunk
  <2>3. QED
    BY <1>2, <2>1, <2>2, SchedulerAssumption DEF SchedulerAssumption
<1>4. \A s \in Streams : \A k \in 1..ChunkCount(s) : <<s, k>> \in Chunks
  BY DEF Chunks
<1>5. QED
  BY <1>1, <1>2, <1>3, <1>4

(* The arena of a chunk.                                                   *)
LEMMA ArenaType == \A c \in Chunks : ArenaOf(c) \in Arenas \cup {NoArena}
<1>1. SUFFICES ASSUME NEW c \in Chunks 
              PROVE  ArenaOf(c) \in Arenas \cup {NoArena}
  OBVIOUS
<1>2. ChunkArenas[c[1]] \in Seq(Arenas \cup {NoArena})
  BY ChunkFacts, SchedulerAssumption DEF SchedulerAssumption
<1>3. c[2] \in 1..Len(ChunkArenas[c[1]])
  BY ChunkFacts DEF ChunkCount
<1>4. QED
  BY <1>2, <1>3 DEF ArenaOf

(* The front job leaves: what Head and Tail mean for the positions left.   *)
LEMMA TailFacts ==
    ASSUME NEW S, NEW q \in Seq(S), q # << >>
    PROVE  /\ Head(q) = q[1]
           /\ Head(q) \in S
           /\ Tail(q) \in Seq(S)
           /\ Len(q) \in Nat
           /\ Len(q) > 0
           /\ Len(Tail(q)) = Len(q) - 1
           /\ \A i \in 1..Len(Tail(q)) : Tail(q)[i] = q[i + 1]
  OBVIOUS

LEMMA InitInvariant == SchedulerInit => SchedulerInvariant
<1>1. SUFFICES ASSUME SchedulerInit PROVE SchedulerInvariant
  OBVIOUS
<1>2. TypeOK
  <2>1. tally \in Seq(Nat)
    BY <1>1 DEF SchedulerInit
  <2>2. next \in [Streams -> Nat] /\ \A s \in Streams : next[s] <= ChunkCount(s)
    BY <1>1, ChunkFacts DEF SchedulerInit
  <2>3. /\ jobs \in Seq(Streams)
        /\ log \in Seq(Streams)
        /\ bytes \in Nat
        /\ receipts \subseteq Chunks
    BY <1>1 DEF SchedulerInit
  <2>4. /\ signal \in [Streams -> {"none", "pending", "ok", "err"}]
        /\ fence \in [Chunks -> {"none", "pending", "complete", "failed"}]
        /\ arenaUse \in [Arenas -> Chunks \cup {NoChunk}]
    BY <1>1 DEF SchedulerInit
  <2>5. QED
    BY <1>1, <2>1, <2>2, <2>3, <2>4 DEF SchedulerInit, TypeOK
<1>3. IsFiniteSet(receipts) /\ Cardinality(receipts) = 0
  BY <1>1, FS_EmptySet DEF SchedulerInit
<1>4. WithinBudgets
  BY <1>1, <1>3, SchedulerAssumption
  DEF SchedulerInit, WithinBudgets, SchedulerAssumption
<1>5. QueueIsTailOfLog /\ DispatchPrefix /\ CompletionCoversPrefix
  BY <1>1 DEF SchedulerInit, QueueIsTailOfLog, Left, DispatchPrefix,
              CompletionCoversPrefix
<1>6. BytesMatchQueue
  BY <1>1 DEF SchedulerInit, BytesMatchQueue, Left
<1>7. SignalsMatchQueue
  BY <1>1 DEF SchedulerInit, SignalsMatchQueue, Left, Settled
<1>8. PoisonIsFinal
  BY <1>1 DEF SchedulerInit, PoisonIsFinal
<1>9. ReceiptsMatchFences /\ LastUserOnly
  BY <1>1, ChunkFacts
  DEF SchedulerInit, ReceiptsMatchFences, LastUserOnly, Accepted, InQueue
<1>10. QED
  BY <1>2, <1>3, <1>4, <1>5, <1>6, <1>7, <1>8, <1>9 DEF SchedulerInvariant

-----------------------------------------------------------------------------
(* The invariant is preserved by every step, action by action.             *)

(* Steps that only move the control point of advance, or raise failure:    *)
(* everything the invariant relates stays in place.                        *)
LEMMA ControlStep ==
    ASSUME SchedulerInvariant,
           delivering = NoStream,
           phase # "drain",
           \/ phase' \in {"idle", "retire", "dispatch"} /\ failure' = failure
           \/ phase' = "drain" /\ failure' = TRUE,
           progressed' \in BOOLEAN,
           UNCHANGED <<jobs, bytes, next, receipts, delivering, log, tally,
                       signal, fence, arenaUse>>
    PROVE  SchedulerInvariant'
<1> USE DEF SchedulerInvariant
<1>1. TypeOK'
  BY DEF TypeOK
<1>2. IsFiniteSet(receipts)' /\ WithinBudgets'
  BY DEF WithinBudgets
<1>3. QueueIsTailOfLog' /\ DispatchPrefix' /\ CompletionCoversPrefix'
  <2>1. QueueIsTailOfLog'
    BY DEF QueueIsTailOfLog, Left
  <2>2. DispatchPrefix'
    BY DEF DispatchPrefix
  <2>3. CompletionCoversPrefix'
    BY DEF CompletionCoversPrefix, StreamComplete
  <2>4. QED
    BY <2>1, <2>2, <2>3
<1>4. BytesMatchQueue' /\ SignalsMatchQueue'
  BY DEF BytesMatchQueue, SignalsMatchQueue, Left, Settled
<1>5. PoisonIsFinal'
  BY DEF PoisonIsFinal
<1>6. ReceiptsMatchFences' /\ LastUserOnly'
  BY DEF ReceiptsMatchFences, LastUserOnly, Accepted, InQueue, StreamComplete
<1>7. QED
  BY <1>1, <1>2, <1>3, <1>4, <1>5, <1>6

(* Outside retirement and drain no delivery is under way.                  *)
LEMMA NotDelivering ==
    ASSUME SchedulerInvariant, phase \in {"idle", "dispatch"}
    PROVE  delivering = NoStream
  BY DEF SchedulerInvariant, SignalsMatchQueue

LEMMA FailStep ==
    ASSUME SchedulerInvariant, Fail PROVE SchedulerInvariant'
  BY ControlStep, NotDelivering DEF Fail, StartFail

LEMMA RetireDoneStep ==
    ASSUME SchedulerInvariant, RetireDone PROVE SchedulerInvariant'
  BY ControlStep DEF RetireDone, SchedulerInvariant, TypeOK

LEMMA DispatchControlStep ==
    ASSUME SchedulerInvariant,
           \/ DispatchDone
           \/ \E c \in Chunks : DispatchBlocked(c) \/ DispatchFails(c)
    PROVE  SchedulerInvariant'
<1>1. CASE DispatchDone
  BY <1>1, ControlStep, NotDelivering
  DEF DispatchDone, SchedulerInvariant, TypeOK
<1>2. ASSUME NEW c \in Chunks, DispatchBlocked(c) PROVE SchedulerInvariant'
  BY <1>2, ControlStep, NotDelivering
  DEF DispatchBlocked, SchedulerInvariant, TypeOK
<1>3. ASSUME NEW c \in Chunks, DispatchFails(c) PROVE SchedulerInvariant'
  BY <1>3, ControlStep, NotDelivering DEF DispatchFails, StartFail
<1>4. QED
  BY <1>1, <1>2, <1>3

(* A retired chunk leaves the poll set only when its fence is complete.    *)
LEMMA PollReceiptsStep ==
    ASSUME SchedulerInvariant, PollReceipts PROVE SchedulerInvariant'
<1>1. delivering = NoStream
  BY NotDelivering DEF PollReceipts
<1>2. CASE \E c \in receipts : fence[c] = "failed"
  BY <1>1, <1>2, ControlStep DEF PollReceipts, StartFail
<1>3. CASE ~\E c \in receipts : fence[c] = "failed"
  <2>1. /\ receipts' = {c \in receipts : fence[c] # "complete"}
        /\ progressed' \in BOOLEAN
        /\ phase = "idle" /\ phase' = "retire"
        /\ UNCHANGED <<jobs, bytes, failure, next, delivering, log, tally,
                       signal, fence, arenaUse>>
    BY <1>3 DEF PollReceipts
  <2> USE DEF SchedulerInvariant
  <2>2. receipts' \subseteq receipts
    BY <2>1
  <2>3. /\ IsFiniteSet(receipts')
        /\ Cardinality(receipts') <= Cardinality(receipts)
    BY <2>2, FS_Subset
  <2>4. Cardinality(receipts) \in Nat /\ Cardinality(receipts') \in Nat
    BY <2>3, FS_CardinalityType
  <2>5. TypeOK'
    BY <2>1, <2>2 DEF TypeOK
  <2>6. WithinBudgets'
    BY <2>1, <2>3, <2>4, SchedulerAssumption
    DEF WithinBudgets, SchedulerAssumption
  <2>7. QueueIsTailOfLog' /\ DispatchPrefix' /\ CompletionCoversPrefix'
    <3>1. QueueIsTailOfLog'
      BY <2>1 DEF QueueIsTailOfLog, Left
    <3>2. DispatchPrefix'
      BY <2>1 DEF DispatchPrefix
    <3>3. CompletionCoversPrefix'
      BY <2>1 DEF CompletionCoversPrefix, StreamComplete
    <3>4. QED
      BY <3>1, <3>2, <3>3
  <2>8. BytesMatchQueue' /\ SignalsMatchQueue'
    BY <1>1, <2>1 DEF BytesMatchQueue, SignalsMatchQueue, Left, Settled
  <2>9. PoisonIsFinal'
    BY <2>1 DEF PoisonIsFinal
  <2>10. ReceiptsMatchFences' /\ LastUserOnly'
    BY <1>1, <2>1
    DEF ReceiptsMatchFences, LastUserOnly, Accepted, InQueue, StreamComplete
  <2>11. QED
    BY <2>3, <2>5, <2>6, <2>7, <2>8, <2>9, <2>10
<1>4. QED
  BY <1>2, <1>3

(* The GPU settles only accepted chunks that were pending.                 *)
LEMMA GpuSettles ==
    ASSUME SchedulerInvariant, NEW c \in Chunks,
           NEW r \in {"complete", "failed"}, FenceSettles(c, r)
    PROVE  SchedulerInvariant'
<1> USE DEF SchedulerInvariant
<1>1. /\ fence[c] = "pending"
      /\ fence' = [fence EXCEPT ![c] = r]
      /\ fence \in [Chunks -> {"none", "pending", "complete", "failed"}]
      /\ UNCHANGED <<jobs, bytes, failure, next, receipts, phase, delivering,
                     progressed, log, tally, signal, arenaUse>>
  BY DEF FenceSettles, TypeOK
<1>2. /\ \A d \in Chunks : fence[d] = "complete" => fence'[d] = "complete"
      /\ \A d \in Chunks : fence'[d] = "none" <=> fence[d] = "none"
      /\ \A d \in Chunks : d # c => fence'[d] = fence[d]
  BY <1>1
<1>3. TypeOK'
  BY <1>1 DEF TypeOK
<1>4. /\ IsFiniteSet(receipts)' /\ WithinBudgets' /\ QueueIsTailOfLog'
      /\ DispatchPrefix' /\ BytesMatchQueue' /\ SignalsMatchQueue'
      /\ PoisonIsFinal'
  <2>1. IsFiniteSet(receipts)' /\ WithinBudgets' /\ PoisonIsFinal'
    BY <1>1 DEF WithinBudgets, PoisonIsFinal
  <2>2. QueueIsTailOfLog' /\ DispatchPrefix' /\ BytesMatchQueue'
    BY <1>1 DEF QueueIsTailOfLog, Left, DispatchPrefix, BytesMatchQueue
  <2>3. SignalsMatchQueue'
    BY <1>1 DEF SignalsMatchQueue, Left, Settled
  <2>4. QED
    BY <2>1, <2>2, <2>3
<1>5. \A s \in Streams : StreamComplete(s) => StreamComplete(s)'
  BY <1>2 DEF StreamComplete
<1>6. CompletionCoversPrefix'
  BY <1>1, <1>5 DEF CompletionCoversPrefix, TypeOK
<1>7. ReceiptsMatchFences'
  <2>1. \A d \in Chunks : Accepted(d) <=> Accepted(d)'
    BY <1>2 DEF Accepted
  <2>2. \A d \in Chunks : InQueue(d[1]) <=> InQueue(d[1])'
    BY <1>1 DEF InQueue
  <2>3. \A d \in Chunks :
            InQueue(d[1])' /\ Accepted(d)' /\ d \notin receipts' =>
                fence'[d] = "complete"
    BY <1>1, <1>2, <2>1, <2>2 DEF ReceiptsMatchFences
  <2>4. QED
    BY <1>1, <1>5, <2>1, <2>3 DEF ReceiptsMatchFences, TypeOK
<1>8. LastUserOnly'
  BY <1>1, <1>2 DEF LastUserOnly, Accepted
<1>9. QED
  BY <1>3, <1>4, <1>6, <1>7, <1>8

(* The front job leaves the queue: Left grows by one, and its new last     *)
(* position is the stream being delivered.                                 *)
LEMMA TakeFrontFacts ==
    ASSUME SchedulerInvariant, TakeFront, UNCHANGED log
    PROVE  /\ Head(jobs) \in Streams
           /\ Head(jobs) = jobs[1]
           /\ jobs' \in Seq(Streams)
           /\ Len(jobs) \in Nat /\ Len(log) \in Nat
           /\ Len(jobs) > 0
           /\ Len(jobs') = Len(jobs) - 1
           /\ \A i \in 1..Len(jobs') : jobs'[i] = jobs[i + 1]
           /\ Left' = Left + 1
           /\ Left \in Nat
           /\ Left + 1 \in 1..Len(log)
           /\ Head(jobs) = log[Left + 1]
           /\ delivering = NoStream
           /\ delivering' = Head(jobs)
           /\ QueueIsTailOfLog'
<1>1. /\ jobs \in Seq(Streams) /\ jobs # << >>
      /\ log \in Seq(Streams)
      /\ jobs' = Tail(jobs)
  BY DEF TakeFront, SchedulerInvariant, TypeOK
<1>2. /\ Head(jobs) \in Streams
      /\ Head(jobs) = jobs[1]
      /\ jobs' \in Seq(Streams)
      /\ Len(jobs) \in Nat /\ Len(log) \in Nat
      /\ Len(jobs) > 0
      /\ Len(jobs') = Len(jobs) - 1
      /\ \A i \in 1..Len(jobs') : jobs'[i] = jobs[i + 1]
  BY <1>1, TailFacts
<1>3. /\ Left' = Left + 1
      /\ Left \in Nat
      /\ Left + 1 \in 1..Len(log)
  BY <1>2 DEF Left, SchedulerInvariant, QueueIsTailOfLog
<1>4. Head(jobs) = log[Left + 1]
  BY <1>2 DEF SchedulerInvariant, QueueIsTailOfLog
<1>5. QueueIsTailOfLog'
  <2>1. \A i \in 1..Len(jobs') : jobs'[i] = log'[Left' + i]
    <3>1. SUFFICES ASSUME NEW i \in 1..Len(jobs')
                   PROVE  jobs'[i] = log'[Left' + i]
      OBVIOUS
    <3>2. i + 1 \in 1..Len(jobs) /\ jobs'[i] = jobs[i + 1]
      BY <1>2
    <3>3. jobs[i + 1] = log[Left + (i + 1)]
      BY <3>2 DEF SchedulerInvariant, QueueIsTailOfLog
    <3>4. Left + (i + 1) = Left' + i
      BY <1>3
    <3>5. QED
      BY <3>2, <3>3, <3>4
  <2>2. QED
    BY <1>2, <2>1 DEF SchedulerInvariant, QueueIsTailOfLog
<1>6. QED
  BY <1>2, <1>3, <1>4, <1>5 DEF TakeFront

(* The signals stay consistent when the front job leaves.                  *)
LEMMA TakeFrontSignals ==
    ASSUME SchedulerInvariant, TakeFront, phase \in {"retire", "drain"},
           UNCHANGED <<log, phase, signal>>
    PROVE  SignalsMatchQueue'
<1>1. /\ \A s \in Streams :
            signal'[s] = "none" <=> \A i \in 1..Len(log') : log'[i] # s
      /\ \A i \in (Left' + 1)..Len(log') : signal'[log'[i]] = "pending"
  BY TakeFrontFacts DEF SchedulerInvariant, SignalsMatchQueue
<1>2. \A i \in 1..Left : Settled(log[i])'
  <2>1. SUFFICES ASSUME NEW i \in 1..Left PROVE Settled(log[i])'
    OBVIOUS
  <2>2. i \in 1..Len(log) /\ log[i] \in Streams
    <3>1. log \in Seq(Streams)
      BY DEF SchedulerInvariant, TypeOK
    <3>2. Left \in Nat /\ Left <= Len(log)
      BY TakeFrontFacts
    <3>3. QED
      BY <3>1, <3>2
  <2>3. delivering # log[i]
    BY <2>2, TakeFrontFacts, SchedulerAssumption DEF SchedulerAssumption
  <2>4. Settled(log[i])
    BY <2>3 DEF SchedulerInvariant, SignalsMatchQueue
  <2>5. QED
    BY <2>4 DEF Settled
<1>3. \A i \in 1..Left' :
          Settled(log[i])' \/ (i = Left' /\ delivering' = log'[i])
  BY <1>2, TakeFrontFacts
<1>4. signal[log[Left + 1]] = "pending"
  BY TakeFrontFacts DEF SchedulerInvariant, SignalsMatchQueue
<1>5. /\ phase' \in {"retire", "drain"}
      /\ Left' > 0
      /\ delivering' = log'[Left']
      /\ ~Settled(delivering)'
  BY <1>4, TakeFrontFacts DEF Settled
<1>6. QED
  BY <1>1, <1>3, <1>5 DEF SignalsMatchQueue, Settled

(* A front job that retires has all its chunks accepted and none pending,  *)
(* so the GPU completed it; its bytes are the first segment of the queue.  *)
LEMMA RetireFrontStep ==
    ASSUME SchedulerInvariant, RetireFront PROVE SchedulerInvariant'
<1>1. /\ phase = "retire"
      /\ TakeFront
      /\ Retirable(Head(jobs))
      /\ bytes' = bytes - Bytes[Head(jobs)]
      /\ progressed' = TRUE
      /\ UNCHANGED <<failure, next, receipts, phase, log, tally, signal, fence,
                     arenaUse>>
  BY DEF RetireFront
<1> USE <1>1 DEF SchedulerInvariant
<1>2. SignalsMatchQueue'
  BY TakeFrontSignals
<1>3. QueueIsTailOfLog'
  BY TakeFrontFacts
<1>4. bytes' = tally[Len(log) + 1] - tally[(Left + 1) + 1] /\ bytes' \in Nat
  <2>1. Bytes[log[Left + 1]] \in Nat
    BY TakeFrontFacts, SchedulerAssumption DEF SchedulerAssumption
  <2>2. /\ tally[(Left + 1) + 1] = tally[Left + 1] + Bytes[log[Left + 1]]
        /\ bytes = tally[Len(log) + 1] - tally[Left + 1]
        /\ tally[(Left + 1) + 1] <= tally[Len(log) + 1]
    <3>1. Left \in Nat /\ Left + 1 \in 1..Len(log) /\ Len(log) \in Nat
      BY TakeFrontFacts
    <3>2. /\ (Left + 1) + 1 \in 1..(Len(log) + 1) /\ Len(log) + 1 \in 1..(Len(log) + 1)
          /\ (Left + 1) + 1 <= Len(log) + 1
      BY <3>1
    <3>3. QED
      BY <3>1, <3>2 DEF BytesMatchQueue
  <2>3. /\ tally[(Left + 1) + 1] \in Nat
        /\ tally[Left + 1] \in Nat
        /\ tally[Len(log) + 1] \in Nat
    <3>1. /\ tally \in Seq(Nat) /\ Len(tally) = Len(log) + 1
          /\ Left \in Nat /\ Left + 1 \in 1..Len(log) /\ Len(log) \in Nat
      BY TakeFrontFacts DEF BytesMatchQueue, TypeOK
    <3>2. \A i \in 1..Len(tally) : tally[i] \in Nat
      BY <3>1
    <3>3. QED
      BY <3>1, <3>2
  <2>4. bytes' = bytes - Bytes[log[Left + 1]]
    BY TakeFrontFacts
  <2>5. QED
    BY <2>1, <2>2, <2>3, <2>4
<1>5. BytesMatchQueue'
  BY <1>4, TakeFrontFacts DEF BytesMatchQueue
<1>6. TypeOK'
  BY <1>4, TakeFrontFacts DEF TypeOK
<1>7. IsFiniteSet(receipts)' /\ DispatchPrefix' /\ LastUserOnly'
  BY DEF DispatchPrefix, LastUserOnly, Accepted
<1>8. CompletionCoversPrefix'
  BY DEF CompletionCoversPrefix, StreamComplete
<1>9. PoisonIsFinal'
  BY DEF PoisonIsFinal, TakeFront
<1>10. StreamComplete(Head(jobs))
  <2>1. SUFFICES ASSUME NEW c \in Chunks, c[1] = Head(jobs)
                 PROVE  fence[c] = "complete"
    BY DEF StreamComplete
  <2>2. InQueue(c[1])
    BY <2>1, TakeFrontFacts DEF InQueue
  <2>3. c \notin receipts /\ c[2] <= next[c[1]]
    BY <2>1, ChunkFacts DEF Retirable, ReceiptsOf
  <2>4. QED
    BY <2>2, <2>3 DEF ReceiptsMatchFences
<1>11. ReceiptsMatchFences'
  <2>1. \A s \in Streams : InQueue(s)' => InQueue(s)
    BY TakeFrontFacts DEF InQueue
  <2>2. \A c \in Chunks :
            InQueue(c[1])' /\ Accepted(c) /\ c \notin receipts =>
                fence[c] = "complete"
    BY <2>1, ChunkFacts DEF ReceiptsMatchFences
  <2>3. QED
    BY <1>10, <2>2, TakeFrontFacts
    DEF ReceiptsMatchFences, Accepted, StreamComplete
<1>12. WithinBudgets'
  <2>1. Bytes[Head(jobs)] \in Nat
    BY TakeFrontFacts, SchedulerAssumption DEF SchedulerAssumption
  <2>2. Len(jobs') <= MaxSubmissions
    BY TakeFrontFacts, SchedulerAssumption
    DEF WithinBudgets, SchedulerAssumption
  <2>3. bytes' <= MaxPendingBytes \/ Len(jobs') <= 1
    <3>1. /\ bytes' = bytes - Bytes[Head(jobs)] /\ bytes \in Nat
          /\ bytes <= MaxPendingBytes \/ Len(jobs) <= 1
          /\ MaxPendingBytes \in Nat
      BY SchedulerAssumption DEF WithinBudgets, TypeOK, SchedulerAssumption
    <3>2. Len(jobs) \in Nat /\ Len(jobs') = Len(jobs) - 1
      BY TakeFrontFacts
    <3>3. QED
      BY <2>1, <3>1, <3>2
  <2>4. QED
    BY <2>2, <2>3 DEF WithinBudgets
<1>13. QED
  BY <1>2, <1>3, <1>5, <1>6, <1>7, <1>8, <1>9, <1>11, <1>12

(* Draining keeps the queue a tail of the log while it empties it.         *)
LEMMA DrainFrontStep ==
    ASSUME SchedulerInvariant, DrainFront PROVE SchedulerInvariant'
<1>1. /\ phase = "drain"
      /\ TakeFront
      /\ receipts' = receipts \ ReceiptsOf(Head(jobs))
      /\ UNCHANGED <<bytes, failure, next, phase, progressed, log, tally,
                     signal, fence, arenaUse>>
  BY DEF DrainFront
<1> USE <1>1 DEF SchedulerInvariant
<1>2. SignalsMatchQueue'
  BY TakeFrontSignals
<1>3. QueueIsTailOfLog'
  BY TakeFrontFacts
<1>4. receipts' \subseteq receipts
  OBVIOUS
<1>5. /\ IsFiniteSet(receipts')
      /\ Cardinality(receipts') <= Cardinality(receipts)
  BY <1>4, FS_Subset
<1>6. Cardinality(receipts) \in Nat /\ Cardinality(receipts') \in Nat
  BY <1>5, FS_CardinalityType
<1>7. TypeOK'
  BY <1>4, TakeFrontFacts DEF TypeOK
<1>8. WithinBudgets'
  <2>1. Cardinality(receipts) <= MaxInFlight /\ Len(jobs) <= MaxSubmissions
    BY DEF WithinBudgets
  <2>2. MaxInFlight \in Nat /\ MaxSubmissions \in Nat
    BY SchedulerAssumption DEF SchedulerAssumption
  <2>3. Len(jobs) \in Nat /\ Len(jobs') = Len(jobs) - 1
    BY TakeFrontFacts
  <2>4. Cardinality(receipts') <= MaxInFlight
    BY <1>5, <1>6, <2>1, <2>2
  <2>5. Len(jobs') <= MaxSubmissions
    BY <2>1, <2>2, <2>3
  <2>6. QED
    BY <2>4, <2>5 DEF WithinBudgets
<1>9. DispatchPrefix' /\ LastUserOnly' /\ BytesMatchQueue'
  BY DEF DispatchPrefix, LastUserOnly, Accepted, BytesMatchQueue
<1>10. CompletionCoversPrefix' /\ PoisonIsFinal'
  BY DEF CompletionCoversPrefix, StreamComplete, PoisonIsFinal
<1>11. ReceiptsMatchFences'
  <2>1. \A s \in Streams : InQueue(s)' => InQueue(s) /\ s # Head(jobs)
    <3>1. SUFFICES ASSUME NEW s \in Streams, NEW i \in 1..Len(jobs'),
                          jobs'[i] = s
                   PROVE  InQueue(s) /\ s # Head(jobs)
      BY DEF InQueue
    <3>2. /\ s = jobs[i + 1]
          /\ i + 1 \in 1..Len(jobs)
          /\ jobs[i + 1] = log[Left + (i + 1)]
      <4>1. /\ Len(jobs) \in Nat /\ Len(jobs') = Len(jobs) - 1
            /\ \A h \in 1..Len(jobs') : jobs'[h] = jobs[h + 1]
        BY TakeFrontFacts
      <4>2. i + 1 \in 1..Len(jobs)
        BY <4>1
      <4>3. QED
        BY <3>1, <4>1, <4>2 DEF QueueIsTailOfLog
    <3>3. Left + (i + 1) # Left + 1 /\ Left + (i + 1) \in 1..Len(log)
      BY <3>2, TakeFrontFacts DEF Left
    <3>4. log[Left + (i + 1)] # log[Left + 1]
      BY <3>3, TakeFrontFacts DEF QueueIsTailOfLog
    <3>5. QED
      BY <3>2, <3>4, TakeFrontFacts DEF InQueue
  <2>2. \A c \in Chunks :
            InQueue(c[1])' /\ Accepted(c) /\ c \notin receipts' =>
                fence[c] = "complete"
    BY <2>1, ChunkFacts DEF ReceiptsMatchFences, ReceiptsOf
  <2>3. QED
    BY <2>2 DEF ReceiptsMatchFences, Accepted, StreamComplete
<1>12. QED
  BY <1>2, <1>3, <1>5, <1>7, <1>8, <1>9, <1>10, <1>11

(* fail ends with an empty queue that keeps no bytes.                      *)
LEMMA DrainDoneStep ==
    ASSUME SchedulerInvariant, DrainDone PROVE SchedulerInvariant'
<1>1. /\ phase = "drain" /\ phase' = "idle"
      /\ delivering = NoStream
      /\ jobs = << >>
      /\ bytes' = 0
      /\ UNCHANGED <<jobs, failure, next, receipts, delivering, progressed,
                     log, tally, signal, fence, arenaUse>>
  BY DEF DrainDone
<1> USE <1>1 DEF SchedulerInvariant
<1>2. TypeOK'
  BY DEF TypeOK
<1>3. Len(jobs) = 0 /\ Len(log) \in Nat /\ Left = Len(log) /\ Left' = Len(log)
  BY DEF Left, TypeOK
<1>4. IsFiniteSet(receipts)' /\ WithinBudgets'
  BY <1>3 DEF WithinBudgets
<1>5. BytesMatchQueue'
  <2>1. tally[Len(log) + 1] \in Nat
    BY <1>3 DEF BytesMatchQueue, TypeOK
  <2>2. QED
    BY <1>3, <2>1 DEF BytesMatchQueue
<1>6. QueueIsTailOfLog' /\ DispatchPrefix' /\ LastUserOnly'
  BY <1>3 DEF QueueIsTailOfLog, DispatchPrefix, LastUserOnly, Accepted
<1>7. SignalsMatchQueue' /\ PoisonIsFinal'
  BY <1>3 DEF SignalsMatchQueue, PoisonIsFinal, Settled
<1>8. CompletionCoversPrefix' /\ ReceiptsMatchFences'
  BY DEF CompletionCoversPrefix, ReceiptsMatchFences, StreamComplete, Accepted,
         InQueue
<1>9. QED
  BY <1>2, <1>4, <1>5, <1>6, <1>7, <1>8

(* Delivery settles the last stream that left the queue.  An Ok is only    *)
(* delivered by an unpoisoned scheduler, which has reported no error yet,  *)
(* so the whole prefix is Ok.                                              *)
LEMMA DeliverStep ==
    ASSUME SchedulerInvariant, Deliver PROVE SchedulerInvariant'
<1> DEFINE r == IF phase = "drain" THEN "err" ELSE "ok"
<1>1. /\ delivering # NoStream
      /\ signal' = [signal EXCEPT ![delivering] = r]
      /\ delivering' = NoStream
      /\ UNCHANGED <<jobs, bytes, failure, next, receipts, phase, progressed,
                     log, tally, fence, arenaUse>>
  BY DEF Deliver
<1> USE <1>1 DEF SchedulerInvariant
<1>2. /\ delivering \in Streams
      /\ signal \in [Streams -> {"none", "pending", "ok", "err"}]
      /\ log \in Seq(Streams)
      /\ Len(log) \in Nat /\ Len(jobs) \in Nat
      /\ r \in {"ok", "err"}
  BY DEF TypeOK
<1>3. /\ phase \in {"retire", "drain"}
      /\ Left > 0 /\ Left \in Nat /\ Left <= Len(log)
      /\ Left' = Left
      /\ delivering = log[Left]
      /\ ~Settled(delivering)
  BY <1>2 DEF SignalsMatchQueue, QueueIsTailOfLog, Left
<1>4. /\ signal'[delivering] = r
      /\ \A s \in Streams : s # delivering => signal'[s] = signal[s]
  BY <1>2
<1>5. \A i \in 1..Len(log) :
          log[i] \in Streams /\ (log[i] = delivering => i = Left)
  BY <1>2, <1>3 DEF QueueIsTailOfLog
<1>6. TypeOK'
  BY <1>2 DEF TypeOK
<1>7. /\ IsFiniteSet(receipts)' /\ WithinBudgets' /\ QueueIsTailOfLog'
      /\ BytesMatchQueue' /\ DispatchPrefix'
  BY DEF WithinBudgets, QueueIsTailOfLog, BytesMatchQueue, DispatchPrefix, Left
<1>8. SignalsMatchQueue'
  <2>1. \A s \in Streams :
            signal'[s] = "none" <=> \A i \in 1..Len(log) : log[i] # s
    BY <1>2, <1>3, <1>4 DEF SignalsMatchQueue
  <2>2. \A i \in (Left + 1)..Len(log) : signal'[log[i]] = "pending"
    BY <1>3, <1>4, <1>5 DEF SignalsMatchQueue
  <2>3. \A i \in 1..Left : Settled(log[i])'
    <3>1. SUFFICES ASSUME NEW i \in 1..Left PROVE Settled(log[i])'
      OBVIOUS
    <3>2. CASE log[i] = delivering
      BY <3>2, <1>2, <1>4 DEF Settled
    <3>3. CASE log[i] # delivering
      <4>1. Settled(log[i])
        BY <3>3 DEF SignalsMatchQueue
      <4>2. QED
        BY <4>1, <3>3, <1>3, <1>4, <1>5 DEF Settled
    <3>4. QED
      BY <3>2, <3>3
  <2>4. QED
    BY <1>3, <2>1, <2>2, <2>3 DEF SignalsMatchQueue, Settled
<1>9. phase = "retire" => ~failure
  BY DEF PoisonIsFinal
<1>10. PoisonIsFinal'
  <2>1. \A s \in Streams : signal'[s] = "err" => failure
    BY <1>3, <1>4, <1>9 DEF PoisonIsFinal
  <2>2. QED
    BY <2>1 DEF PoisonIsFinal
<1>11. \A s \in Streams : StreamComplete(s)' <=> StreamComplete(s)
  BY DEF StreamComplete
<1>12. r = "ok" => StreamComplete(delivering)
  BY <1>3 DEF ReceiptsMatchFences
<1>13. ReceiptsMatchFences'
  <2>1. \A s \in Streams : signal'[s] = "ok" => StreamComplete(s)'
    BY <1>4, <1>11, <1>12 DEF ReceiptsMatchFences
  <2>2. /\ \A c \in Chunks : Accepted(c)' <=> c[2] <= next'[c[1]]
        /\ \A c \in Chunks :
              InQueue(c[1])' /\ Accepted(c)' /\ c \notin receipts' =>
                  fence'[c] = "complete"
    BY DEF ReceiptsMatchFences, Accepted, InQueue
  <2>3. QED
    BY <2>1, <2>2 DEF ReceiptsMatchFences
<1>14. LastUserOnly'
  BY DEF LastUserOnly, Accepted
<1>15. CompletionCoversPrefix'
  <2>1. SUFFICES ASSUME NEW j \in 1..Len(log), signal'[log[j]] = "ok",
                        NEW i \in 1..j
                 PROVE  signal'[log[i]] = "ok" /\ StreamComplete(log[i])
    BY <1>5, <1>11 DEF CompletionCoversPrefix
  <2>2. i \in 1..Len(log) /\ log[i] \in Streams /\ log[j] \in Streams
    BY <1>2, <1>5
  <2>3. CASE j = Left
    <3>1. r = "ok" /\ ~failure
      BY <2>1, <2>3, <1>3, <1>4, <1>9
    <3>2. Settled(log[i])'
      BY <2>3, <1>8, <1>3 DEF SignalsMatchQueue
    <3>3. signal'[log[i]] # "err"
      BY <3>1, <2>2, <1>10 DEF PoisonIsFinal
    <3>4. signal'[log[i]] = "ok"
      BY <3>2, <3>3 DEF Settled
    <3>5. QED
      BY <3>4, <2>2, <1>13, <1>11 DEF ReceiptsMatchFences
  <2>4. CASE j # Left
    <3>1. signal[log[j]] = "ok"
      BY <2>1, <2>2, <2>4, <1>4, <1>5
    <3>2. signal[log[i]] = "ok" /\ StreamComplete(log[i])
      BY <3>1 DEF CompletionCoversPrefix
    <3>3. log[i] # delivering
      BY <3>2, <1>3 DEF Settled
    <3>4. QED
      BY <3>2, <3>3, <2>2, <1>4
  <2>5. QED
    BY <2>3, <2>4
<1>16. QED
  BY <1>6, <1>7, <1>8, <1>10, <1>13, <1>14, <1>15

(* A new stream joins both the queue and the log at the back; it has       *)
(* dispatched nothing.                                                     *)
LEMMA EnqueueStep ==
    ASSUME SchedulerInvariant, NEW s \in Streams, EnqueuePrepared(s)
    PROVE  SchedulerInvariant'
<1>1. /\ phase = "idle" /\ signal[s] = "none" /\ ~Refused(s)
      /\ jobs' = Append(jobs, s)
      /\ bytes' = bytes + Bytes[s]
      /\ log' = Append(log, s)
      /\ tally' = Append(tally, tally[Len(tally)] + Bytes[s])
      /\ signal' = [signal EXCEPT ![s] = "pending"]
      /\ UNCHANGED <<failure, next, receipts, phase, delivering, progressed,
                     fence, arenaUse>>
  BY DEF EnqueuePrepared, Publish
<1>u. /\ phase = "idle"
      /\ UNCHANGED <<failure, next, receipts, phase, delivering, progressed,
                     fence, arenaUse>>
  BY <1>1
<1> USE <1>u
<1>2. /\ jobs \in Seq(Streams) /\ log \in Seq(Streams) /\ tally \in Seq(Nat)
      /\ Len(jobs) \in Nat /\ Len(log) \in Nat /\ Len(jobs) <= Len(log)
      /\ Len(tally) = Len(log) + 1
      /\ signal \in [Streams -> {"none", "pending", "ok", "err"}]
      /\ Bytes[s] \in Nat /\ bytes \in Nat
      /\ MaxSubmissions \in Nat /\ MaxPendingBytes \in Nat
  <2>1. /\ jobs \in Seq(Streams) /\ log \in Seq(Streams)
        /\ tally \in Seq(Nat) /\ bytes \in Nat
        /\ signal \in [Streams -> {"none", "pending", "ok", "err"}]
    BY DEF SchedulerInvariant, TypeOK
  <2>2. Len(jobs) <= Len(log) /\ Len(tally) = Len(log) + 1
    BY DEF SchedulerInvariant, QueueIsTailOfLog, BytesMatchQueue
  <2>3. /\ Bytes[s] \in Nat
        /\ MaxSubmissions \in Nat /\ MaxPendingBytes \in Nat
    BY SchedulerAssumption DEF SchedulerAssumption
  <2>4. QED
    BY <2>1, <2>2, <2>3
<1>3. /\ Len(jobs) \in Nat /\ Len(log) \in Nat /\ Len(jobs) <= Len(log)
      /\ Len(jobs') = Len(jobs) + 1 /\ Len(log') = Len(log) + 1
      /\ Left' = Left /\ Left \in Nat /\ Left <= Len(log)
      /\ \A i \in 1..Len(jobs) : jobs'[i] = jobs[i]
      /\ \A i \in 1..Len(log) : log'[i] = log[i] /\ log[i] \in Streams
      /\ jobs'[Len(jobs) + 1] = s /\ log'[Len(log) + 1] = s
  BY <1>1, <1>2 DEF Left
<1>4. /\ Len(tally') = Len(log) + 2
      /\ \A i \in 1..(Len(log) + 1) : tally'[i] = tally[i] /\ tally[i] \in Nat
      /\ tally'[Len(log) + 2] = tally[Len(log) + 1] + Bytes[s]
  BY <1>1, <1>2
<1>5. \A i \in 1..Len(log) : log[i] # s
  BY <1>1 DEF SchedulerInvariant, SignalsMatchQueue
<1>6. delivering = NoStream
  BY NotDelivering
<1>7. ~failure
  BY <1>1 DEF Refused
<1>8. TypeOK'
  <2>1. /\ jobs' \in Seq(Streams) /\ log' \in Seq(Streams)
        /\ tally' \in Seq(Nat) /\ bytes' \in Nat
        /\ signal' \in [Streams -> {"none", "pending", "ok", "err"}]
    <3>1. jobs' \in Seq(Streams) /\ log' \in Seq(Streams)
      BY <1>1, <1>2
    <3>4. tally' \in Seq(Nat)
      <4>1. tally[Len(tally)] + Bytes[s] \in Nat
        BY <1>2
      <4>2. QED
        BY <1>1, <1>2, <4>1
    <3>2. bytes' \in Nat /\ signal' \in [Streams -> {"none", "pending", "ok", "err"}]
      BY <1>1, <1>2
    <3>3. QED
      BY <3>1, <3>2, <3>4
  <2>2. QED
    BY <2>1 DEF SchedulerInvariant, TypeOK
<1>9. QueueIsTailOfLog'
  <2>1. \A i \in 1..Len(jobs') : jobs'[i] = log'[Left' + i]
    <3>1. SUFFICES ASSUME NEW i \in 1..(Len(jobs) + 1)
                   PROVE  jobs'[i] = log'[Left + i]
      BY <1>3
    <3>2. CASE i = Len(jobs) + 1
      BY <3>2, <1>2, <1>3 DEF Left
    <3>3. CASE i \in 1..Len(jobs)
      <4>1. jobs[i] = log[Left + i]
        BY <3>3 DEF SchedulerInvariant, QueueIsTailOfLog
      <4>2. Left + i \in 1..Len(log)
        BY <3>3, <1>2, <1>3 DEF Left
      <4>3. QED
        BY <4>1, <4>2, <3>3, <1>3
    <3>4. QED
      BY <3>2, <3>3, <1>2
  <2>2. \A i, j \in 1..Len(log') : log'[i] = log'[j] => i = j
    <3>1. SUFFICES ASSUME NEW i \in 1..(Len(log) + 1),
                          NEW j \in 1..(Len(log) + 1),
                          log'[i] = log'[j]
                   PROVE  i = j
      BY <1>3
    <3>2. CASE i \in 1..Len(log) /\ j \in 1..Len(log)
      BY <3>1, <3>2, <1>3 DEF SchedulerInvariant, QueueIsTailOfLog
    <3>3. CASE i = Len(log) + 1 \/ j = Len(log) + 1
      BY <3>1, <3>3, <1>3, <1>5
    <3>4. QED
      BY <3>2, <3>3, <1>3
  <2>3. Len(jobs') <= Len(log')
    BY <1>2, <1>3
  <2>4. QED
    BY <2>1, <2>2, <2>3 DEF QueueIsTailOfLog
<1>10. BytesMatchQueue'
  <2>1. \A i \in 1..Len(log') : tally'[i + 1] = tally'[i] + Bytes[log'[i]]
    <3>1. SUFFICES ASSUME NEW i \in 1..(Len(log) + 1)
                   PROVE  tally'[i + 1] = tally'[i] + Bytes[log'[i]]
      BY <1>3
    <3>2. CASE i = Len(log) + 1
      <4>1. i + 1 = Len(log) + 2 /\ log'[i] = s
        BY <3>2, <1>3
      <4>2. tally'[i] = tally[Len(log) + 1]
        BY <3>2, <1>3, <1>4
      <4>3. QED
        BY <4>1, <4>2, <1>4
    <3>3. CASE i \in 1..Len(log)
      <4>1. tally[i + 1] = tally[i] + Bytes[log[i]]
        BY <3>3 DEF SchedulerInvariant, BytesMatchQueue
      <4>2. i \in 1..(Len(log) + 1) /\ i + 1 \in 1..(Len(log) + 1)
        BY <3>3, <1>2
      <4>3. QED
        BY <3>3, <4>1, <4>2, <1>3, <1>4
    <3>4. QED
      BY <3>2, <3>3, <1>2
  <2>2. \A i, j \in 1..Len(tally') : i <= j => tally'[i] <= tally'[j]
    <3>1. SUFFICES ASSUME NEW i \in 1..(Len(log) + 2),
                          NEW j \in 1..(Len(log) + 2),
                          i <= j
                   PROVE  tally'[i] <= tally'[j]
      BY <1>4
    <3>2. CASE j \in 1..(Len(log) + 1)
      <4>1. i \in 1..(Len(log) + 1)
        BY <3>1, <3>2, <1>3
      <4>2. tally[i] <= tally[j]
        BY <3>1, <3>2, <4>1 DEF SchedulerInvariant, BytesMatchQueue
      <4>3. QED
        BY <3>2, <4>1, <4>2, <1>4
    <3>3. CASE j = Len(log) + 2 /\ i \in 1..(Len(log) + 1)
      <4>1. tally[i] <= tally[Len(log) + 1]
        BY <3>3, <1>2 DEF SchedulerInvariant, BytesMatchQueue
      <4>2. tally[i] \in Nat /\ tally[Len(log) + 1] \in Nat
        BY <3>3, <1>2, <1>4
      <4>3. QED
        BY <3>3, <4>1, <4>2, <1>2, <1>4
    <3>4. CASE i = Len(log) + 2 /\ j = Len(log) + 2
      BY <3>4, <1>2, <1>4
    <3>5. QED
      BY <3>1, <3>2, <3>3, <3>4, <1>2
  <2>3. bytes = tally[Len(log) + 1] - tally[Left + 1]
    BY DEF SchedulerInvariant, BytesMatchQueue
  <2>4. bytes' = tally'[Len(log') + 1] - tally'[Left' + 1]
    <3>1. Len(log') + 1 = Len(log) + 2 /\ Left' + 1 = Left + 1
      BY <1>3
    <3>2. /\ Left + 1 \in 1..(Len(log) + 1) /\ Len(log) + 1 \in 1..(Len(log) + 1)
      BY <1>3
    <3>3. /\ tally'[Left + 1] = tally[Left + 1] /\ tally[Left + 1] \in Nat
          /\ tally[Len(log) + 1] \in Nat
          /\ tally'[Len(log) + 2] = tally[Len(log) + 1] + Bytes[s]
      BY <3>2, <1>4
    <3>4. bytes' = bytes + Bytes[s] /\ Bytes[s] \in Nat
      BY <1>1, <1>2
    <3>5. QED
      BY <2>3, <3>1, <3>3, <3>4
  <2>5. Len(tally') = Len(log') + 1
    BY <1>2, <1>3, <1>4
  <2>6. QED
    BY <2>1, <2>2, <2>4, <2>5 DEF BytesMatchQueue
<1>11. \A i \in 1..Len(log) : signal'[log[i]] = signal[log[i]]
  BY <1>1, <1>2, <1>3, <1>5
<1>12. /\ signal'[s] = "pending"
       /\ \A u \in Streams : u # s => signal'[u] = signal[u]
  BY <1>1, <1>2
<1>13. SignalsMatchQueue'
  <2>1. ASSUME NEW u \in Streams
        PROVE  signal'[u] = "none" <=> \A i \in 1..Len(log') : log'[i] # u
    <3>1. CASE u = s
      BY <3>1, <1>2, <1>3, <1>12
    <3>2. CASE u # s
      <4>1. signal[u] = "none" <=> \A i \in 1..Len(log) : log[i] # u
        BY DEF SchedulerInvariant, SignalsMatchQueue
      <4>2. (\A i \in 1..Len(log) : log[i] # u)
            <=> \A i \in 1..(Len(log) + 1) : log'[i] # u
        BY <3>2, <1>3
      <4>3. QED
        BY <3>2, <4>1, <4>2, <1>3, <1>12
    <3>3. QED
      BY <3>1, <3>2
  <2>2. \A i \in (Left' + 1)..Len(log') : signal'[log'[i]] = "pending"
    <3>1. SUFFICES ASSUME NEW i \in (Left + 1)..(Len(log) + 1)
                   PROVE  signal'[log'[i]] = "pending"
      BY <1>3
    <3>2. CASE i = Len(log) + 1
      BY <3>2, <1>3, <1>12
    <3>3. CASE i # Len(log) + 1
      <4>1. i \in (Left + 1)..Len(log) /\ i \in 1..Len(log)
        BY <3>3, <1>3
      <4>2. signal[log[i]] = "pending"
        BY <4>1 DEF SchedulerInvariant, SignalsMatchQueue
      <4>3. QED
        BY <4>1, <4>2, <1>3, <1>11
    <3>4. QED
      BY <3>2, <3>3
  <2>3. \A i \in 1..Left : Settled(log[i]) \/ (i = Left /\ delivering = log[i])
    BY DEF SchedulerInvariant, SignalsMatchQueue
  <2>4. \A i \in 1..Left' :
            \/ signal'[log'[i]] \in {"ok", "err"}
            \/ i = Left' /\ delivering' = log'[i]
    BY <2>3, <1>3, <1>11 DEF Settled
  <2>5. QED
    BY <2>1, <2>2, <2>4, <1>6 DEF SignalsMatchQueue, Settled
<1>14. PoisonIsFinal'
  BY <1>7, <1>12 DEF SchedulerInvariant, PoisonIsFinal
<1>15. CompletionCoversPrefix'
  <2>1. SUFFICES ASSUME NEW j \in 1..Len(log'), signal'[log'[j]] = "ok",
                        NEW i \in 1..j
                 PROVE  signal'[log'[i]] = "ok" /\ StreamComplete(log'[i])
    BY DEF CompletionCoversPrefix, StreamComplete
  <2>2. j \in 1..Len(log) /\ i \in 1..Len(log)
    BY <2>1, <1>2, <1>3, <1>12
  <2>3. QED
    BY <2>1, <2>2, <1>3, <1>11 DEF SchedulerInvariant, CompletionCoversPrefix
<1>16. next[s] = 0
  BY <1>1 DEF SchedulerInvariant, DispatchPrefix
<1>17. DispatchPrefix'
  <2>1. ASSUME NEW i \in 1..Len(log'), NEW j \in 1..Len(log'),
               i < j, next[log'[j]] > 0
        PROVE  next[log'[i]] = ChunkCount(log'[i])
    <3>1. j \in 1..Len(log) /\ i \in 1..Len(log)
      BY <2>1, <1>3, <1>16
    <3>2. QED
      BY <2>1, <3>1, <1>3 DEF SchedulerInvariant, DispatchPrefix
  <2>2. \A u \in Streams : signal'[u] = "none" => next[u] = 0
    BY <1>12 DEF SchedulerInvariant, DispatchPrefix
  <2>3. QED
    BY <2>1, <2>2 DEF DispatchPrefix
<1>18. ReceiptsMatchFences'
  <2>1. ASSUME NEW c \in Chunks, InQueue(c[1])', Accepted(c), c \notin receipts
        PROVE  fence[c] = "complete"
    <3>1. c[1] # s
      BY <2>1, <1>16, ChunkFacts DEF SchedulerInvariant, ReceiptsMatchFences
    <3>2. InQueue(c[1])
      <4>1. PICK i \in 1..(Len(jobs) + 1) : jobs'[i] = c[1]
        BY <2>1, <1>3 DEF InQueue
      <4>2. i # Len(jobs) + 1
        BY <3>1, <4>1, <1>3
      <4>3. i \in 1..Len(jobs)
        BY <4>2, <1>3
      <4>4. QED
        BY <4>1, <4>3, <1>3 DEF InQueue
    <3>3. QED
      BY <2>1, <3>2 DEF SchedulerInvariant, ReceiptsMatchFences
  <2>2. \A u \in Streams : signal'[u] = "ok" => StreamComplete(u)
    BY <1>12 DEF SchedulerInvariant, ReceiptsMatchFences
  <2>3. \A c \in Chunks : Accepted(c) <=> c[2] <= next[c[1]]
    BY DEF SchedulerInvariant, ReceiptsMatchFences
  <2>4. QED
    BY <2>1, <2>2, <2>3, <1>6 DEF ReceiptsMatchFences, Accepted, StreamComplete
<1>19. LastUserOnly' /\ IsFiniteSet(receipts)'
  BY DEF SchedulerInvariant, LastUserOnly, Accepted
<1>20. WithinBudgets'
  <2>1. Len(jobs') <= MaxSubmissions
    BY <1>1, <1>2, <1>3 DEF Refused, QueueBusy
  <2>2. bytes' <= MaxPendingBytes \/ Len(jobs') <= 1
    <3>1. CASE jobs = << >>
      BY <3>1, <1>2, <1>3
    <3>2. CASE jobs # << >>
      <4>1. ~(bytes + Bytes[s] > MaxPendingBytes)
        BY <3>2, <1>1 DEF Refused, QueueBusy
      <4>2. bytes \in Nat /\ Bytes[s] \in Nat /\ MaxPendingBytes \in Nat
        BY <1>2
      <4>3. bytes' = bytes + Bytes[s]
        BY <1>1
      <4>4. QED
        BY <4>1, <4>2, <4>3
    <3>3. QED
      BY <3>1, <3>2
  <2>3. QED
    BY <2>1, <2>2 DEF SchedulerInvariant, WithinBudgets
<1>21. QED
  BY <1>8, <1>9, <1>10, <1>13, <1>14, <1>15, <1>17, <1>18, <1>19, <1>20
  DEF SchedulerInvariant

(* The accepted chunk is the first that was not accepted before, of the    *)
(* first stream that has one; its arena is free.                           *)
LEMMA SubmitChunkStep ==
    ASSUME SchedulerInvariant, NEW c \in Chunks, SubmitChunk(c)
    PROVE  SchedulerInvariant' /\ fence[c] = "none" /\ ~failure
<1>1. /\ phase = "dispatch" /\ IsNextChunk(c) /\ ~InFlightFull /\ Ready(c)
      /\ fence' = [fence EXCEPT ![c] = "pending"]
      /\ arenaUse' = IF ArenaOf(c) = NoArena THEN arenaUse
                     ELSE [arenaUse EXCEPT ![ArenaOf(c)] = c]
      /\ receipts' = receipts \cup {c}
      /\ next' = [next EXCEPT ![c[1]] = c[2]]
      /\ progressed' = TRUE
  BY DEF SubmitChunk, RecordReceipt
<1>u. UNCHANGED <<jobs, bytes, failure, phase, delivering, log, tally, signal>>
  BY DEF SubmitChunk
<1> USE <1>u
<1>2. PICK p \in 1..Len(jobs) :
          /\ Undispatched(p)
          /\ \A h \in 1..(p - 1) : ~Undispatched(h)
          /\ c = <<jobs[p], next[jobs[p]] + 1>>
  BY <1>1 DEF IsNextChunk
<1>3. /\ jobs \in Seq(Streams) /\ log \in Seq(Streams)
      /\ next \in [Streams -> Nat]
      /\ fence \in [Chunks -> {"none", "pending", "complete", "failed"}]
      /\ arenaUse \in [Arenas -> Chunks \cup {NoChunk}]
      /\ receipts \subseteq Chunks
  BY DEF SchedulerInvariant, TypeOK
<1>4. /\ c[1] = jobs[p] /\ c[2] = next[c[1]] + 1
      /\ c[1] \in Streams /\ next[c[1]] \in Nat /\ c[2] \in Nat
      /\ c[2] <= ChunkCount(c[1])
  BY <1>2, <1>3, ChunkFacts
<1>5. fence[c] = "none"
  BY <1>4 DEF SchedulerInvariant, ReceiptsMatchFences, Accepted
<1>6. ~failure
  BY <1>1, <1>2, <1>3 DEF SchedulerInvariant, PoisonIsFinal
<1>7. delivering = NoStream
  BY <1>1, NotDelivering
<1>8. /\ fence'[c] = "pending"
      /\ \A d \in Chunks : d # c => fence'[d] = fence[d]
      /\ next'[c[1]] = next[c[1]] + 1
      /\ \A s \in Streams : s # c[1] => next'[s] = next[s]
      /\ c \in receipts' /\ \A d : d \in receipts => d \in receipts'
  BY <1>1, <1>3, <1>4
<1>9. /\ Len(jobs) \in Nat /\ Len(log) \in Nat /\ Len(jobs) <= Len(log)
      /\ Left \in Nat /\ Left' = Left
      /\ \A i \in 1..Len(log) : log[i] \in Streams
      /\ \A i \in 1..Len(jobs) : jobs[i] = log[Left + i]
      /\ \A i, j \in 1..Len(log) : log[i] = log[j] => i = j
  <2>1. /\ Len(jobs) \in Nat /\ Len(log) \in Nat
        /\ \A i \in 1..Len(log) : log[i] \in Streams
    BY <1>3
  <2>2. QED
    BY <2>1 DEF SchedulerInvariant, QueueIsTailOfLog, Left
<1>n. \A s \in Streams : /\ next[s] \in Nat /\ ChunkCount(s) \in Nat
                         /\ next[s] <= ChunkCount(s)
  BY <1>3, ChunkFacts DEF SchedulerInvariant, TypeOK
<1>10. TypeOK'
  <2>1. fence' \in [Chunks -> {"none", "pending", "complete", "failed"}]
    BY <1>1, <1>3
  <2>2. next' \in [Streams -> Nat]
    BY <1>1, <1>3, <1>4
  <2>3. \A s \in Streams : next'[s] <= ChunkCount(s)
    BY <1>4, <1>8 DEF SchedulerInvariant, TypeOK
  <2>4. arenaUse' \in [Arenas -> Chunks \cup {NoChunk}]
    BY <1>1, <1>3
  <2>5. receipts' \subseteq Chunks /\ progressed' \in BOOLEAN
    BY <1>1, <1>3
  <2>6. QED
    BY <2>1, <2>2, <2>3, <2>4, <2>5 DEF SchedulerInvariant, TypeOK
<1>11. IsFiniteSet(receipts)' /\ WithinBudgets'
  <2>1. IsFiniteSet(receipts) /\ Cardinality(receipts) \in Nat
    BY FS_CardinalityType DEF SchedulerInvariant
  <2>2. /\ IsFiniteSet(receipts \cup {c})
        /\ \/ Cardinality(receipts \cup {c}) = Cardinality(receipts)
           \/ Cardinality(receipts \cup {c}) = Cardinality(receipts) + 1
    BY <2>1, FS_AddElement
  <2>3. Cardinality(receipts') <= MaxInFlight
    BY <1>1, <2>1, <2>2, SchedulerAssumption
    DEF InFlightFull, SchedulerAssumption
  <2>4. QED
    BY <1>1, <2>2, <2>3 DEF SchedulerInvariant, WithinBudgets
<1>12. QueueIsTailOfLog' /\ BytesMatchQueue'
  BY <1>9 DEF SchedulerInvariant, QueueIsTailOfLog, BytesMatchQueue
<1>13. SignalsMatchQueue' /\ PoisonIsFinal'
  BY <1>9 DEF SchedulerInvariant, SignalsMatchQueue, PoisonIsFinal, Settled
<1>14. /\ Left + p \in 1..Len(log) /\ log[Left + p] = c[1]
       /\ signal[c[1]] = "pending"
  BY <1>4, <1>9 DEF SchedulerInvariant, SignalsMatchQueue, Left
<1>15. \A s \in Streams : StreamComplete(s) => StreamComplete(s)'
  BY <1>5, <1>8 DEF StreamComplete
<1>16. CompletionCoversPrefix'
  BY <1>9, <1>15 DEF SchedulerInvariant, CompletionCoversPrefix
<1>17. ReceiptsMatchFences'
  <2>1. ASSUME NEW d \in Chunks PROVE Accepted(d)' <=> d[2] <= next'[d[1]]
    <3>1. /\ Accepted(d) <=> d[2] <= next[d[1]]
          /\ d = <<d[1], d[2]>> /\ d[1] \in Streams /\ d[2] \in Nat
      BY ChunkFacts DEF SchedulerInvariant, ReceiptsMatchFences
    <3>2. CASE d = c
      BY <3>2, <1>4, <1>8 DEF Accepted
    <3>3. CASE d # c /\ d[1] = c[1]
      <4>1. d[2] # c[2]
        BY <3>1, <3>3, ChunkFacts
      <4>2. QED
        BY <3>1, <3>3, <4>1, <1>4, <1>8 DEF Accepted
    <3>4. CASE d[1] # c[1]
      BY <3>1, <3>4, <1>8 DEF Accepted
    <3>5. QED
      BY <3>2, <3>3, <3>4
  <2>2. ASSUME NEW d \in Chunks, InQueue(d[1]), Accepted(d)', d \notin receipts'
        PROVE  fence'[d] = "complete"
    BY <2>2, <1>8 DEF SchedulerInvariant, ReceiptsMatchFences, Accepted
  <2>3. \A s \in Streams : signal[s] = "ok" => StreamComplete(s)'
    BY <1>15 DEF SchedulerInvariant, ReceiptsMatchFences
  <2>4. QED
    BY <2>1, <2>2, <2>3, <1>7 DEF ReceiptsMatchFences, InQueue
<1>18. LastUserOnly'
  <2>1. SUFFICES ASSUME NEW d \in Chunks, Accepted(d)', ArenaOf(d) # NoArena,
                        arenaUse'[ArenaOf(d)] # d
                 PROVE  fence'[d] = "complete"
    BY DEF LastUserOnly
  <2>2. /\ ArenaOf(d) \in Arenas
        /\ ArenaOf(c) # NoArena => ArenaOf(c) \in Arenas
    BY <2>1, ArenaType
  <2>3. ArenaOf(c) # NoArena => arenaUse'[ArenaOf(c)] = c
    BY <2>2, <1>1, <1>3
  <2>4. d # c
    BY <2>1, <2>3
  <2>5. Accepted(d) /\ fence'[d] = fence[d]
    BY <2>1, <2>4, <1>8 DEF Accepted
  <2>6. CASE arenaUse[ArenaOf(d)] # d
    BY <2>1, <2>5, <2>6 DEF SchedulerInvariant, LastUserOnly
  <2>7. CASE arenaUse[ArenaOf(d)] = d
    <3>1. ArenaOf(c) = ArenaOf(d)
      BY <2>1, <2>2, <2>7, <1>1, <1>3
    <3>2. PreviousUse(c) = d
      BY <2>1, <2>7, <3>1 DEF PreviousUse
    <3>3. QED
      BY <3>2, <2>5, <1>1, ChunkFacts DEF Ready
  <2>8. QED
    BY <2>6, <2>7
<1>19. DispatchPrefix'
  <2>1. ASSUME NEW i \in 1..Len(log), NEW j \in 1..Len(log),
               i < j, next'[log[j]] > 0
        PROVE  next'[log[i]] = ChunkCount(log[i])
    <3>1. CASE j = Left + p
      <4>1. next[log[i]] = ChunkCount(log[i])
        <5>1. CASE i <= Left
          <6>1. Settled(log[i]) /\ signal[log[i]] # "err"
            BY <5>1, <1>6, <1>7, <1>9, SchedulerAssumption
            DEF SchedulerInvariant, SignalsMatchQueue, PoisonIsFinal,
                SchedulerAssumption
          <6>2. StreamComplete(log[i])
            BY <6>1, <1>9 DEF SchedulerInvariant, ReceiptsMatchFences, Settled
          <6>3. CASE ChunkCount(log[i]) = 0
            BY <6>3, <1>9, <1>n
          <6>4. CASE ChunkCount(log[i]) # 0
            <7> DEFINE final == <<log[i], ChunkCount(log[i])>>
            <7>1. /\ final \in Chunks
                  /\ final[1] = log[i] /\ final[2] = ChunkCount(log[i])
              BY <6>4, <1>9, ChunkFacts
            <7>2. Accepted(final)
              BY <6>2, <7>1 DEF StreamComplete, Accepted
            <7>3. ChunkCount(log[i]) <= next[log[i]]
              BY <7>1, <7>2 DEF SchedulerInvariant, ReceiptsMatchFences
            <7>4. QED
              BY <7>3, <1>9, <1>n
          <6>5. QED
            BY <6>3, <6>4
        <5>2. CASE i > Left
          <6>1. i - Left \in 1..(p - 1) /\ i - Left \in 1..Len(jobs)
            BY <2>1, <3>1, <5>2, <1>9
          <6>2. jobs[i - Left] = log[i] /\ ~Undispatched(i - Left)
            <7>1. ~Undispatched(i - Left)
              BY <6>1, <1>2
            <7>2. jobs[i - Left] = log[Left + (i - Left)]
              BY <6>1, <1>9
            <7>3. Left + (i - Left) = i
              BY <1>9
            <7>4. QED
              BY <7>1, <7>2, <7>3
          <6>3. QED
            BY <6>2, <1>9, <1>n DEF Undispatched
        <5>3. QED
          BY <5>1, <5>2, <1>9
      <4>2. log[i] # c[1]
        BY <2>1, <3>1, <1>9, <1>14
      <4>3. QED
        BY <4>1, <4>2, <1>8, <1>9
    <3>2. CASE j # Left + p
      <4>1. log[j] # c[1] /\ next[log[j]] > 0
        BY <2>1, <3>2, <1>8, <1>9, <1>14
      <4>2. next[log[i]] = ChunkCount(log[i])
        BY <2>1, <4>1 DEF SchedulerInvariant, DispatchPrefix
      <4>3. log[i] # c[1]
        BY <4>2, <1>4, <1>9, ChunkFacts
      <4>4. QED
        BY <4>2, <4>3, <1>8, <1>9
    <3>3. QED
      BY <3>1, <3>2
  <2>2. \A s \in Streams : signal[s] = "none" => next'[s] = 0
    BY <1>8, <1>14 DEF SchedulerInvariant, DispatchPrefix
  <2>3. QED
    BY <2>1, <2>2 DEF DispatchPrefix
<1>20. QED
  BY <1>5, <1>6, <1>10, <1>11, <1>12, <1>13, <1>16, <1>17, <1>18, <1>19
  DEF SchedulerInvariant

-----------------------------------------------------------------------------
(* The theorems.                                                           *)

LEMMA StepInvariant ==
    SchedulerInvariant /\ [SchedulerNext]_schedulerVars => SchedulerInvariant'
<1>1. SUFFICES ASSUME SchedulerInvariant, [SchedulerNext]_schedulerVars
               PROVE  SchedulerInvariant'
  OBVIOUS
<1>2. ASSUME NEW s \in Streams, EnqueuePrepared(s) PROVE SchedulerInvariant'
  BY <1>1, <1>2, EnqueueStep
<1>3. CASE Fail
  BY <1>1, <1>3, FailStep
<1>4. CASE PollReceipts
  BY <1>1, <1>4, PollReceiptsStep
<1>5. CASE RetireFront
  BY <1>1, <1>5, RetireFrontStep
<1>6. CASE RetireDone
  BY <1>1, <1>6, RetireDoneStep
<1>7. CASE Deliver
  BY <1>1, <1>7, DeliverStep
<1>8. CASE DispatchDone
  BY <1>1, <1>8, DispatchControlStep
<1>9. CASE DrainFront
  BY <1>1, <1>9, DrainFrontStep
<1>10. CASE DrainDone
  BY <1>1, <1>10, DrainDoneStep
<1>11. ASSUME NEW c \in Chunks, SubmitChunk(c) PROVE SchedulerInvariant'
  BY <1>1, <1>11, SubmitChunkStep
<1>12. ASSUME NEW c \in Chunks, DispatchBlocked(c) \/ DispatchFails(c)
       PROVE  SchedulerInvariant'
  BY <1>1, <1>12, DispatchControlStep
<1>13. ASSUME NEW c \in Chunks, GpuRetires(c) \/ GpuFails(c)
       PROVE  SchedulerInvariant'
  BY <1>1, <1>13, GpuSettles DEF GpuRetires, GpuFails
<1>14. CASE UNCHANGED schedulerVars
  <2>1. /\ TypeOK' /\ IsFiniteSet(receipts)' /\ QueueIsTailOfLog'
        /\ BytesMatchQueue' /\ WithinBudgets' /\ DispatchPrefix'
    BY <1>1, <1>14 DEF schedulerVars, SchedulerInvariant, TypeOK,
       QueueIsTailOfLog, BytesMatchQueue, WithinBudgets, DispatchPrefix, Left
  <2>2. /\ SignalsMatchQueue' /\ PoisonIsFinal' /\ ReceiptsMatchFences'
        /\ LastUserOnly' /\ CompletionCoversPrefix'
    BY <1>1, <1>14 DEF schedulerVars, SchedulerInvariant, SignalsMatchQueue,
       PoisonIsFinal, ReceiptsMatchFences, LastUserOnly,
       CompletionCoversPrefix, Left, Settled, StreamComplete, Accepted, InQueue
  <2>3. QED
    BY <2>1, <2>2 DEF SchedulerInvariant
<1>15. QED
  BY <1>1, <1>2, <1>3, <1>4, <1>5, <1>6, <1>7, <1>8, <1>9, <1>10, <1>11,
     <1>12, <1>13, <1>14
  DEF SchedulerNext, AdvanceStep, GpuStep

(* The invariant holds in every state of every scheduler.                  *)
THEOREM InvariantHolds == SchedulerSpec => []SchedulerInvariant
<1>1. SchedulerInit => SchedulerInvariant
  BY InitInvariant
<1>2. SchedulerInvariant /\ [SchedulerNext]_schedulerVars => SchedulerInvariant'
  BY StepInvariant
<1>3. QED
  BY <1>1, <1>2, PTL DEF SchedulerSpec

(* Types, and in particular that Scheduler::bytes never wraps below zero.  *)
THEOREM TypeCorrect == SchedulerSpec => []TypeOK
<1>1. SchedulerInvariant => TypeOK
  BY DEF SchedulerInvariant
<1>2. QED
  BY <1>1, InvariantHolds, PTL

(* A receipt that reports Ok certifies its whole ordered prefix.           *)
THEOREM CompletionSound == SchedulerSpec => []CompletionCoversPrefix
<1>1. SchedulerInvariant => CompletionCoversPrefix
  BY DEF SchedulerInvariant
<1>2. QED
  BY <1>1, InvariantHolds, PTL

(* Results are published in admission order.                               *)
THEOREM DeliveryOrdered == SchedulerSpec => []OrderedDelivery
<1>1. SchedulerInvariant => OrderedDelivery
  <2>1. SUFFICES ASSUME SchedulerInvariant, NEW j \in 1..Len(log),
                        Settled(log[j]), NEW i \in 1..j
                 PROVE  Settled(log[i])
    BY DEF OrderedDelivery
  <2>2. /\ Len(log) \in Nat /\ Len(jobs) \in Nat /\ Len(jobs) <= Len(log)
        /\ i \in 1..Len(log)
    BY <2>1 DEF SchedulerInvariant, TypeOK, QueueIsTailOfLog
  <2>3. Left \in Nat /\ Left <= Len(log)
    BY <2>2 DEF Left
  <2>4. j <= Left
    BY <2>1, <2>2, <2>3 DEF SchedulerInvariant, SignalsMatchQueue, Settled
  <2>5. CASE i = j
    BY <2>1, <2>5
  <2>6. CASE i # j
    <3>1. i \in 1..Left /\ i # Left
      BY <2>2, <2>3, <2>4, <2>6
    <3>2. QED
      BY <2>1, <3>1 DEF SchedulerInvariant, SignalsMatchQueue
  <2>7. QED
    BY <2>5, <2>6
<1>2. QED
  BY <1>1, InvariantHolds, PTL

(* Chunks reach the device in the order of the streams and within each.    *)
THEOREM DispatchOrdered == SchedulerSpec => []DispatchFIFO
<1>1. SchedulerInvariant => DispatchFIFO
  <2>1. SUFFICES ASSUME SchedulerInvariant, NEW j \in 1..Len(log),
                        NEW k \in 1..ChunkCount(log[j]),
                        Accepted(<<log[j], k>>)
                 PROVE  /\ \A h \in 1..(k - 1) : Accepted(<<log[j], h>>)
                        /\ \A i \in 1..(j - 1) :
                              \A h \in 1..ChunkCount(log[i]) :
                                  Accepted(<<log[i], h>>)
    BY DEF DispatchFIFO
  <2>2. /\ Len(log) \in Nat
        /\ \A i \in 1..Len(log) : log[i] \in Streams
        /\ \A s \in Streams : next[s] \in Nat /\ ChunkCount(s) \in Nat
    <3>1. log \in Seq(Streams) /\ next \in [Streams -> Nat]
      BY <2>1 DEF SchedulerInvariant, TypeOK
    <3>2. QED
      BY <3>1, ChunkFacts
  <2>3. ASSUME NEW s \in Streams, NEW h \in 1..ChunkCount(s)
        PROVE  Accepted(<<s, h>>) <=> h <= next[s]
    BY <2>1, ChunkFacts DEF SchedulerInvariant, ReceiptsMatchFences
  <2>4. k <= next[log[j]]
    BY <2>1, <2>2, <2>3
  <2>5. \A h \in 1..(k - 1) : Accepted(<<log[j], h>>)
    BY <2>2, <2>3, <2>4
  <2>6. ASSUME NEW i \in 1..(j - 1), NEW h \in 1..ChunkCount(log[i])
        PROVE  Accepted(<<log[i], h>>)
    <3>1. i \in 1..Len(log) /\ i < j /\ next[log[j]] > 0
      BY <2>2, <2>4
    <3>2. next[log[i]] = ChunkCount(log[i])
      BY <2>1, <3>1 DEF SchedulerInvariant, DispatchPrefix
    <3>3. QED
      BY <2>2, <2>3, <3>1, <3>2
  <2>7. QED
    BY <2>5, <2>6
<1>2. QED
  BY <1>1, InvariantHolds, PTL

(* No two chunks on the device stage their uploads in the same arena.      *)
THEOREM ArenasExclusive == SchedulerSpec => []ArenaExclusive
<1>1. SchedulerInvariant => ArenaExclusive
  BY DEF SchedulerInvariant, LastUserOnly, ArenaExclusive, Accepted
<1>2. QED
  BY <1>1, InvariantHolds, PTL

(* The budgets of Limits hold at every step.                               *)
THEOREM BudgetsHold == SchedulerSpec => []WithinBudgets
<1>1. SchedulerInvariant => WithinBudgets
  BY DEF SchedulerInvariant
<1>2. QED
  BY <1>1, InvariantHolds, PTL

(* No accepted chunk is submitted again, and none after a failure.         *)
THEOREM NoReplay == SchedulerSpec => NeverReplayed
<1> DEFINE P == \A c \in Chunks :
                   fence'[c] = "pending" /\ fence[c] # "pending" =>
                       fence[c] = "none" /\ ~failure
<1>1. ASSUME SchedulerInvariant, [SchedulerNext]_schedulerVars
      PROVE  [P]_schedulerVars
  <2>0. fence \in [Chunks -> {"none", "pending", "complete", "failed"}]
    BY <1>1 DEF SchedulerInvariant, TypeOK
  <2>1. CASE UNCHANGED fence
    BY <2>1
  <2>2. ASSUME NEW c \in Chunks, SubmitChunk(c) PROVE P
    <3>1. fence[c] = "none" /\ ~failure
      BY <1>1, <2>2, SubmitChunkStep
    <3>2. fence' = [fence EXCEPT ![c] = "pending"]
      BY <2>2 DEF SubmitChunk
    <3>3. QED
      BY <2>0, <3>1, <3>2
  <2>3. ASSUME NEW c \in Chunks, GpuRetires(c) \/ GpuFails(c) PROVE P
    <3>1. PICK r \in {"complete", "failed"} : fence' = [fence EXCEPT ![c] = r]
      BY <2>3 DEF GpuRetires, GpuFails, FenceSettles
    <3>2. QED
      BY <2>0, <3>1
  <2>4. CASE SchedulerNext
    BY <2>1, <2>2, <2>3, <2>4
    DEF SchedulerNext, AdvanceStep, GpuStep, EnqueuePrepared, Fail,
        PollReceipts, RetireFront, RetireDone, Deliver, DispatchDone,
        DrainFront, DrainDone, DispatchBlocked, DispatchFails
  <2>5. QED
    BY <1>1, <2>1, <2>4 DEF schedulerVars
<1>2. QED
  BY <1>1, InvariantHolds, PTL DEF SchedulerSpec, NeverReplayed

(* A published result never changes.                                       *)
THEOREM ResultsFinal == SchedulerSpec => ResultsAreFinal
<1> DEFINE P == \A s \in Streams : Settled(s) => signal'[s] = signal[s]
<1>1. ASSUME SchedulerInvariant, [SchedulerNext]_schedulerVars
      PROVE  [P]_schedulerVars
  <2>0. signal \in [Streams -> {"none", "pending", "ok", "err"}]
    BY <1>1 DEF SchedulerInvariant, TypeOK
  <2>1. CASE UNCHANGED signal
    BY <2>1
  <2>2. ASSUME NEW s \in Streams, EnqueuePrepared(s) PROVE P
    BY <2>0, <2>2 DEF EnqueuePrepared, Settled
  <2>3. CASE Deliver
    <3>1. ~Settled(delivering)
      BY <1>1, <2>3 DEF Deliver, SchedulerInvariant, SignalsMatchQueue
    <3>2. QED
      BY <2>0, <2>3, <3>1 DEF Deliver
  <2>4. CASE SchedulerNext
    BY <2>1, <2>2, <2>3, <2>4
    DEF SchedulerNext, AdvanceStep, GpuStep, SubmitChunk, Fail,
        PollReceipts, RetireFront, RetireDone, DispatchDone, GpuRetires,
        GpuFails, FenceSettles, DrainFront, DrainDone, DispatchBlocked,
        DispatchFails
  <2>5. QED
    BY <1>1, <2>1, <2>4 DEF schedulerVars
<1>2. QED
  BY <1>1, InvariantHolds, PTL DEF SchedulerSpec, ResultsAreFinal

-----------------------------------------------------------------------------
(* The queue's worker and its callers.                                     *)

(* What the typing of a state says about lengths and positions.            *)
LEMMA NativeFacts ==
    ASSUME SchedulerInvariant, NativeInvariant
    PROVE  /\ jobs \in Seq(Streams) /\ log \in Seq(Streams)
           /\ pending \in Seq(Streams) /\ taken \in Seq(Streams)
           /\ order \in Seq(Streams) /\ total \in Seq(Nat)
           /\ Len(jobs) \in Nat /\ Len(log) \in Nat /\ Len(pending) \in Nat
           /\ Len(taken) \in Nat /\ Len(order) \in Nat
           /\ LeftInbox \in Nat /\ Len(log) <= LeftInbox
           /\ LeftInbox + Len(pending) + Len(taken) = Len(order)
           /\ Len(jobs) <= Len(log)
           /\ Left \in Nat /\ Left + Len(jobs) = Len(log)
           /\ count = Len(pending) + Len(jobs) + Len(taken)
           /\ count \in Nat /\ count <= Len(order)
           /\ \A i \in 1..Len(order) :
                 order[i] \in Streams /\ Bytes[order[i]] \in Nat
           /\ Len(total) = Len(order) + 1
           /\ \A i \in 1..(Len(order) + 1) : total[i] \in Nat
           /\ \A s \in Streams : s # NoStream
<1>1. /\ jobs \in Seq(Streams) /\ log \in Seq(Streams)
      /\ Len(jobs) <= Len(log)
  BY DEF SchedulerInvariant, TypeOK, QueueIsTailOfLog
<1>2. /\ pending \in Seq(Streams) /\ taken \in Seq(Streams)
      /\ order \in Seq(Streams) /\ total \in Seq(Nat) /\ count \in Nat
  BY DEF NativeInvariant, NativeTypeOK
<1>3. /\ Len(jobs) \in Nat /\ Len(log) \in Nat /\ Len(pending) \in Nat
      /\ Len(taken) \in Nat /\ Len(order) \in Nat
  BY <1>1, <1>2
<1>4. /\ LeftInbox \in Nat /\ Len(log) <= LeftInbox
      /\ LeftInbox + Len(pending) + Len(taken) = Len(order)
      /\ Left \in Nat /\ Left + Len(jobs) = Len(log)
  BY <1>1, <1>3 DEF NativeInvariant, OrderSplits, LeftInbox, Left
<1>5. count = Len(pending) + Len(jobs) + Len(taken)
  BY DEF NativeInvariant, ReservationsCoverStreams
<1>6. count <= Len(order)
  BY <1>1, <1>3, <1>4, <1>5
<1>7. \A i \in 1..Len(order) : order[i] \in Streams /\ Bytes[order[i]] \in Nat
  BY <1>2, SchedulerAssumption DEF SchedulerAssumption
<1>8. Len(total) = Len(order) + 1
  BY DEF NativeInvariant, BytesMatchReservations
<1>9. \A i \in 1..(Len(order) + 1) : total[i] \in Nat
  BY <1>2, <1>8
<1>10. \A s \in Streams : s # NoStream
  BY SchedulerAssumption DEF SchedulerAssumption
<1>11. QED
  BY <1>1, <1>2, <1>3, <1>4, <1>5, <1>6, <1>7, <1>8, <1>9, <1>10

(* The parts of it that most steps need: positions, then elements.          *)
LEMMA NativeLengths ==
    ASSUME SchedulerInvariant, NativeInvariant
    PROVE  /\ Len(log) \in Nat /\ Len(order) \in Nat
           /\ LeftInbox \in Nat /\ Left \in Nat
           /\ Left <= Len(log) /\ Len(log) <= LeftInbox
           /\ LeftInbox <= Len(order) /\ Len(log) <= Len(order)
<1>1. /\ Len(log) \in Nat /\ Len(order) \in Nat
      /\ LeftInbox \in Nat /\ Left \in Nat
      /\ Len(jobs) \in Nat /\ Len(pending) \in Nat /\ Len(taken) \in Nat
  BY NativeFacts
<1>2. /\ Left + Len(jobs) = Len(log) /\ Len(log) <= LeftInbox
      /\ LeftInbox + Len(pending) + Len(taken) = Len(order)
  BY NativeFacts
<1>3. QED
  BY <1>1, <1>2

LEMMA NativeElements ==
    ASSUME SchedulerInvariant, NativeInvariant
    PROVE  /\ Len(order) \in Nat
           /\ \A i \in 1..Len(order) : order[i] \in Streams
BY NativeFacts

LEMMA NativeTotals ==
    ASSUME SchedulerInvariant, NativeInvariant
    PROVE  /\ Len(order) \in Nat /\ Len(total) = Len(order) + 1
           /\ \A i \in 1..(Len(order) + 1) : total[i] \in Nat
BY NativeFacts

LEMMA EmptyLength == ASSUME NEW q, q = << >> PROVE Len(q) = 0
OBVIOUS

LEMMA NativeInitInvariant == NativeInit => NativeInvariant
<1>1. SUFFICES ASSUME NativeInit PROVE NativeInvariant
  OBVIOUS
<1>2. NativeTypeOK
  <2>1. total \in Seq(Nat) /\ pending \in Seq(Streams) /\ taken \in Seq(Streams)
        /\ order \in Seq(Streams)
    BY <1>1 DEF NativeInit
  <2>2. QED
    BY <1>1, <2>1 DEF NativeInit, NativeTypeOK
<1>3. Len(order) = 0 /\ Len(log) = 0 /\ Len(pending) = 0 /\ Len(taken) = 0
      /\ Len(jobs) = 0 /\ LeftInbox = 0
  <2>1. /\ order = << >> /\ log = << >> /\ pending = << >>
        /\ taken = << >> /\ jobs = << >>
    BY <1>1 DEF NativeInit, SchedulerInit
  <2>2. Len(order) = 0 /\ Len(log) = 0 /\ Len(pending) = 0
        /\ Len(taken) = 0 /\ Len(jobs) = 0
    BY <2>1, EmptyLength
  <2>3. QED
    BY <2>2 DEF LeftInbox
<1>4. OrderSplits /\ RejectionsReported
  <2>1. pending = << >> /\ dropped = {} /\ rejecting = NoStream
    BY <1>1 DEF NativeInit
  <2>2. OrderSplits
    BY <1>3, <2>1 DEF OrderSplits
  <2>3. RejectionsReported
    BY <1>3, <2>1 DEF RejectionsReported
  <2>4. QED
    BY <2>2, <2>3
<1>5. WorkerMatchesPhase /\ FailureIsShared
  <2>1. /\ phase = "idle" /\ ~failure /\ ~admFailure /\ worker = "start"
        /\ taken = << >> /\ signal = [s \in Streams |-> "none"]
    BY <1>1 DEF NativeInit, SchedulerInit
  <2>2. QED
    BY <1>3, <2>1 DEF WorkerMatchesPhase, FailureIsShared
<1>6. BytesMatchReservations
  <2>1. total = <<0>> /\ tally = <<0>> /\ count = 0 /\ admBytes = 0
    BY <1>1 DEF NativeInit, SchedulerInit
  <2>2. Len(total) = 1 /\ total[1] = 0 /\ tally[1] = 0
    BY <2>1
  <2>3. QED
    BY <1>3, <2>1, <2>2 DEF BytesMatchReservations
<1>7. WaitersKnowTheirStream /\ WakesAreRemembered /\ WaitIdleDrains
  <2>1. /\ count = 0 /\ ~signalled /\ worker = "start"
        /\ caller = [c \in Callers |-> "idle"]
    BY <1>1 DEF NativeInit
  <2>2. QED
    BY <2>1 DEF WaitersKnowTheirStream, WakesAreRemembered, WaitIdleDrains
<1>8. ReservationsCoverStreams
  <2>1. count = 0 /\ admBytes = 0 /\ last = NoStream
    BY <1>1 DEF NativeInit
  <2>2. QED
    BY <1>3, <2>1, SchedulerAssumption
    DEF ReservationsCoverStreams, SchedulerAssumption
<1>9. QED
  BY <1>2, <1>4, <1>5, <1>6, <1>7, <1>8 DEF NativeInvariant

-----------------------------------------------------------------------------
(* The scheduler inside the queue.                                         *)

(* Whatever the queue does, its scheduler takes a step of Scheduler or     *)
(* none at all.                                                            *)
LEMMA SchedulerInside ==
    ASSUME NativeTypeOK, [NativeNext]_nativeVars
    PROVE  [SchedulerNext]_schedulerVars
<1>1. ASSUME NEW c \in Callers, CallerStep(c) PROVE UNCHANGED schedulerVars
  BY <1>1 DEF CallerStep, Enqueue, NotifySwap, NotifyWrite, NotifyRetract,
              WaitIdle, IsIdle, WaitReturns, Resume, Drop
<1>2. CASE Transfer
  <2>1. Head(pending) \in Streams
    BY <1>2, TailFacts DEF Transfer, NativeTypeOK
  <2>2. QED
    BY <1>2, <2>1 DEF Transfer, SchedulerNext
<1>3. CASE Advance \/ AdvanceFinishes \/ WorkerDrains
  BY <1>3 DEF Advance, AdvanceFinishes, AdvanceKeepsReservations, WorkerDrains,
              SchedulerNext, AdvanceStep
<1>4. CASE WorkerFail
  BY <1>4 DEF WorkerFail, SchedulerNext
<1>5. CASE \/ WorkerStart \/ ConsumeRead \/ ConsumeClear \/ TransferDone
           \/ Check \/ Wake \/ RejectFront \/ RejectComplete \/ RejectDone
           \/ WorkerErrs
  BY <1>5 DEF WorkerStart, ConsumeRead, ConsumeClear, TransferDone, Check, Wake,
              RejectFront, RejectComplete, RejectDone, WorkerErrs,
              WorkerControl
<1>6. CASE Gpu
  BY <1>6 DEF Gpu, SchedulerNext
<1>7. CASE UNCHANGED nativeVars
  BY <1>7 DEF nativeVars
<1>8. QED
  BY <1>1, <1>2, <1>3, <1>4, <1>5, <1>6, <1>7 DEF NativeNext, WorkerStep

(* What the GPU completed stays completed.                                 *)
LEMMA CompleteStays ==
    ASSUME SchedulerInvariant, [SchedulerNext]_schedulerVars
    PROVE  \A s \in Streams : StreamComplete(s) => StreamComplete(s)'
<1>0. fence \in [Chunks -> {"none", "pending", "complete", "failed"}]
  BY DEF SchedulerInvariant, TypeOK
<1>1. CASE UNCHANGED fence
  BY <1>1 DEF StreamComplete
<1>2. ASSUME NEW c \in Chunks, SubmitChunk(c)
      PROVE  \A s \in Streams : StreamComplete(s) => StreamComplete(s)'
  <2>1. fence[c] = "none"
    BY <1>2, SubmitChunkStep
  <2>2. fence' = [fence EXCEPT ![c] = "pending"]
    BY <1>2 DEF SubmitChunk
  <2>3. QED
    BY <1>0, <2>1, <2>2 DEF StreamComplete
<1>3. ASSUME NEW c \in Chunks, GpuRetires(c) \/ GpuFails(c)
      PROVE  \A s \in Streams : StreamComplete(s) => StreamComplete(s)'
  <2>1. PICK r \in {"complete", "failed"} :
            fence[c] = "pending" /\ fence' = [fence EXCEPT ![c] = r]
    BY <1>3 DEF GpuRetires, GpuFails, FenceSettles
  <2>2. QED
    BY <1>0, <2>1 DEF StreamComplete
<1>4. QED
  BY <1>1, <1>2, <1>3
  DEF SchedulerNext, AdvanceStep, GpuStep, EnqueuePrepared, Fail,
      PollReceipts, RetireFront, RetireDone, Deliver, DispatchDone,
      DrainFront, DrainDone, DispatchBlocked, DispatchFails, schedulerVars

-----------------------------------------------------------------------------
(* Steps of the API threads.                                               *)

(* What is left alone when nothing moves through the queue.                *)
LEMMA QueueAlone ==
    ASSUME NativeInvariant,
           UNCHANGED <<schedulerVars, admissionVars, workerVars, acceptedVars>>
    PROVE  /\ OrderSplits' /\ RejectionsReported' /\ WorkerMatchesPhase'
           /\ FailureIsShared' /\ BytesMatchReservations'
           /\ ReservationsCoverStreams'
           /\ LeftInbox' = LeftInbox
           /\ \A s \in Streams : StreamComplete(s)' = StreamComplete(s)
<1> USE DEF NativeInvariant, schedulerVars, admissionVars, workerVars,
            acceptedVars
<1>1. LeftInbox' = LeftInbox
  BY DEF LeftInbox
<1>2. OrderSplits' /\ RejectionsReported'
  BY <1>1 DEF OrderSplits, RejectionsReported
<1>3. WorkerMatchesPhase' /\ FailureIsShared'
  BY <1>1 DEF WorkerMatchesPhase, FailureIsShared
<1>4. BytesMatchReservations' /\ ReservationsCoverStreams'
  BY DEF BytesMatchReservations, ReservationsCoverStreams
<1>5. \A s \in Streams : StreamComplete(s)' = StreamComplete(s)
  BY DEF StreamComplete
<1>6. QED
  BY <1>1, <1>2, <1>3, <1>4, <1>5

(* With nothing outstanding and no failure published, the GPU is done with *)
(* every stream ever accepted: this is what is_idle relies on.             *)
LEMMA EmptyMeansDone ==
    ASSUME SchedulerInvariant, NativeInvariant, count = 0, ~admFailure
    PROVE  \A i \in 1..Len(order) : StreamComplete(order[i])
<1>1. Len(pending) = 0 /\ Len(taken) = 0 /\ Len(jobs) = 0
  BY NativeFacts
<1>2. LeftInbox = Len(log)
  BY DEF NativeInvariant, WorkerMatchesPhase
<1>3. Len(order) = Len(log) /\ Left = Len(log)
  BY <1>1, <1>2, NativeFacts
<1>4. SUFFICES ASSUME NEW i \in 1..Len(order) PROVE StreamComplete(order[i])
  OBVIOUS
<1>5. order[i] = log[i] /\ i \in 1..Left /\ log[i] \in Streams
  BY <1>3, NativeFacts DEF NativeInvariant, OrderSplits
<1>6. Settled(log[i]) \/ delivering = log[i]
  BY <1>5 DEF SchedulerInvariant, SignalsMatchQueue
<1>7. CASE Settled(log[i])
  <2>1. signal[log[i]] = "ok"
    BY <1>5, <1>7 DEF Settled, NativeInvariant, FailureIsShared
  <2>2. QED
    BY <1>5, <2>1 DEF SchedulerInvariant, ReceiptsMatchFences
<1>8. CASE delivering = log[i]
  <2>1. delivering # NoStream
    BY <1>5, <1>8, NativeFacts
  <2>2. phase = "retire"
    BY <2>1 DEF SchedulerInvariant, SignalsMatchQueue, NativeInvariant,
                FailureIsShared
  <2>3. QED
    BY <1>5, <1>8, <2>1, <2>2 DEF SchedulerInvariant, ReceiptsMatchFences
<1>9. QED
  BY <1>6, <1>7, <1>8

(* A receipt that reports Ok makes its whole prefix complete.              *)
LEMMA OkMeansPrefixDone ==
    ASSUME SchedulerInvariant, NativeInvariant,
           NEW m \in 1..Len(order), Receipt(order[m]) = "ok"
    PROVE  \A i \in 1..m : StreamComplete(order[i])
<1>1. order[m] \in Streams /\ signal[order[m]] = "ok"
  BY NativeFacts DEF Receipt
<1>2. PICK j \in 1..Len(log) : log[j] = order[m]
  BY <1>1 DEF SchedulerInvariant, SignalsMatchQueue
<1>3. j = m
  <2>1. order[j] = order[m] /\ j \in 1..Len(order)
    <3>1. order[j] = log[j]
      BY DEF NativeInvariant, OrderSplits
    <3>2. j \in 1..Len(order)
      BY NativeLengths
    <3>3. QED
      BY <1>2, <3>1, <3>2
  <2>2. QED
    BY <2>1 DEF NativeInvariant, OrderSplits
<1>4. SUFFICES ASSUME NEW i \in 1..m PROVE StreamComplete(order[i])
  OBVIOUS
<1>5. i \in 1..Len(log) /\ order[i] = log[i]
  <2>1. Len(log) \in Nat /\ Len(order) \in Nat
    BY NativeFacts
  <2>2. i \in 1..Len(log)
    BY <1>2, <1>3, <2>1
  <2>3. QED
    BY <2>2 DEF NativeInvariant, OrderSplits
<1>6. QED
  BY <1>1, <1>2, <1>3, <1>5 DEF SchedulerInvariant, CompletionCoversPrefix

(* The calls of notify.  The flag is left set only by a call that goes on  *)
(* to write, and a call that finds it set relies on that one.              *)
LEMMA NotifyStep ==
    ASSUME SchedulerInvariant, NativeInvariant, NEW c \in Callers,
           \/ NotifySwap(c)
           \/ \E outcome \in WriteOutcomes : NotifyWrite(c, outcome)
           \/ NotifyRetract(c)
    PROVE  NativeInvariant'
<1>1. UNCHANGED <<schedulerVars, admissionVars, workerVars, closing,
                  acceptedVars, waitFor, mark>>
  BY DEF NotifySwap, NotifyWrite, NotifyRetract
<1>2. /\ OrderSplits' /\ RejectionsReported' /\ WorkerMatchesPhase'
      /\ FailureIsShared' /\ BytesMatchReservations'
      /\ ReservationsCoverStreams'
      /\ \A s \in Streams : StreamComplete(s)' = StreamComplete(s)
  BY <1>1, QueueAlone
<1>3. /\ caller \in [Callers -> {"idle", "notify", "write", "retract",
                                 "waiting", "drained"}]
      /\ signalled \in BOOLEAN /\ pipe \in Nat
  BY DEF NativeInvariant, NativeTypeOK
<1>4. PICK w \in {"idle", "write", "retract"} :
          caller' = [caller EXCEPT ![c] = w]
  BY DEF NotifySwap, NotifyWrite, NotifyRetract
<1>5. signalled' \in BOOLEAN /\ pipe' \in Nat
  <2>1. CASE NotifySwap(c)
    BY <1>3, <2>1 DEF NotifySwap
  <2>2. ASSUME NEW outcome \in WriteOutcomes, NotifyWrite(c, outcome)
        PROVE  signalled' \in BOOLEAN /\ pipe' \in Nat
    BY <1>3, <2>2 DEF NotifyWrite
  <2>3. CASE NotifyRetract(c)
    BY <1>3, <2>3 DEF NotifyRetract
  <2>4. QED
    BY <2>1, <2>2, <2>3
<1>6. NativeTypeOK'
  BY <1>1, <1>3, <1>4, <1>5
  DEF NativeInvariant, NativeTypeOK, admissionVars, workerVars, acceptedVars
<1>7. WaitersKnowTheirStream'
  BY <1>1, <1>3, <1>4
  DEF NativeInvariant, WaitersKnowTheirStream, admissionVars, acceptedVars
<1>8. WaitIdleDrains'
  <2>1. SUFFICES ASSUME NEW d \in Callers, caller'[d] = "drained",
                        NEW i \in 1..mark[d]
                 PROVE  StreamComplete(order[i])'
    BY <1>1 DEF WaitIdleDrains
  <2>2. caller[d] = "drained"
    BY <1>3, <1>4, <2>1
  <2>3. StreamComplete(order[i]) /\ order[i] \in Streams
    BY <2>2, NativeFacts
    DEF NativeInvariant, WaitIdleDrains, WaitersKnowTheirStream, NativeTypeOK
  <2>4. QED
    BY <1>1, <1>2, <2>3 DEF acceptedVars
<1>9. WakesAreRemembered'
  <2>1. SUFFICES ASSUME "lost" \notin WriteOutcomes
                 PROVE  WakesAreRemembered'
    BY <1>1 DEF WakesAreRemembered
  <2>2. UNCHANGED <<worker, pending, closing, count>>
    BY <1>1 DEF workerVars, admissionVars
  <2>3. CASE NotifySwap(c)
    <3>1. /\ signalled' = TRUE /\ pipe' = pipe
          /\ caller[c] = "notify"
          /\ caller' = [caller EXCEPT ![c] = IF signalled THEN "idle"
                                             ELSE "write"]
      BY <2>3 DEF NotifySwap
    <3>2. CASE signalled
      <4>1. \A d \in Callers : d # c => caller'[d] = caller[d]
        BY <1>3, <3>1
      <4>2. \/ pipe' > 0
            \/ worker' = "clear"
            \/ \E d \in Callers : caller'[d] = "write"
        BY <2>1, <2>2, <3>1, <3>2, <4>1
        DEF NativeInvariant, WakesAreRemembered
      <4>3. QED
        BY <2>1, <2>2, <4>2 DEF WakesAreRemembered, Notifying
    <3>3. CASE ~signalled
      <4>1. caller'[c] = "write"
        BY <1>3, <3>1, <3>3
      <4>2. QED
        BY <4>1 DEF WakesAreRemembered, Notifying
    <3>4. QED
      BY <3>2, <3>3
  <2>4. CASE \E outcome \in WriteOutcomes : NotifyWrite(c, outcome)
    <3>1. pipe' = pipe + 1
      BY <2>1, <2>4 DEF NotifyWrite
    <3>2. QED
      BY <1>3, <3>1 DEF WakesAreRemembered, Notifying
  <2>5. CASE NotifyRetract(c)
    <3>1. /\ signalled' = FALSE /\ pipe' = pipe
          /\ caller[c] = "retract"
          /\ caller' = [caller EXCEPT ![c] = "idle"]
      BY <2>5 DEF NotifyRetract
    <3>2. \A d \in Callers : caller[d] # "retract" => caller'[d] = caller[d]
      BY <1>3, <3>1
    <3>3. Notifying => Notifying'
      BY <3>1, <3>2 DEF Notifying
    <3>4. QED
      BY <2>1, <2>2, <3>1, <3>3 DEF NativeInvariant, WakesAreRemembered
  <2>6. QED
    BY <2>3, <2>4, <2>5
<1>10. QED
  BY <1>2, <1>6, <1>7, <1>8, <1>9 DEF NativeInvariant

(* The calls that wait for the queue.  What they capture under the lock    *)
(* is the newest accepted stream, and what they return on is its receipt,  *)
(* or an empty queue.                                                      *)
LEMMA WaitStep ==
    ASSUME SchedulerInvariant, NativeInvariant, NEW c \in Callers,
           WaitIdle(c) \/ IsIdle(c) \/ WaitReturns(c) \/ Resume(c)
    PROVE  NativeInvariant'
<1>1. UNCHANGED <<schedulerVars, admissionVars, wakeVars, workerVars, closing,
                  acceptedVars>>
  BY DEF WaitIdle, IsIdle, WaitReturns, Resume
<1>2. /\ OrderSplits' /\ RejectionsReported' /\ WorkerMatchesPhase'
      /\ FailureIsShared' /\ BytesMatchReservations'
      /\ ReservationsCoverStreams'
      /\ \A s \in Streams : StreamComplete(s)' = StreamComplete(s)
  BY <1>1, QueueAlone
<1>3. /\ caller \in [Callers -> {"idle", "notify", "write", "retract",
                                 "waiting", "drained"}]
      /\ waitFor \in [Callers -> Streams \cup {NoStream}]
      /\ mark \in [Callers -> Nat]
      /\ last \in Streams \cup {NoStream}
  BY DEF NativeInvariant, NativeTypeOK
<1>4. PICK w \in {"idle", "waiting", "drained"} :
          /\ caller[c] \in {"idle", "waiting", "drained"}
          /\ caller' = [caller EXCEPT ![c] = w]
  BY DEF WaitIdle, IsIdle, WaitReturns, Resume
<1>5. /\ waitFor' \in [Callers -> Streams \cup {NoStream}]
      /\ mark' \in [Callers -> Nat]
      /\ \A d \in Callers : d # c =>
            waitFor'[d] = waitFor[d] /\ mark'[d] = mark[d]
  BY <1>3, NativeLengths DEF WaitIdle, IsIdle, WaitReturns, Resume
<1>6. NativeTypeOK'
  <2>1. UNCHANGED <<pending, count, admBytes, last, admFailure, closing,
                    signalled, pipe, worker, taken, rejecting, dropped, order,
                    total>>
    BY <1>1 DEF admissionVars, wakeVars, workerVars, acceptedVars
  <2>2. caller' \in [Callers -> {"idle", "notify", "write", "retract",
                                 "waiting", "drained"}]
    BY <1>3, <1>4
  <2>3. QED
    BY <1>5, <2>1, <2>2 DEF NativeInvariant, NativeTypeOK
(* The call that this step is part of.                                     *)
<1>7. /\ caller'[c] \in {"waiting", "drained"} => mark'[c] <= Len(order)
      /\ caller'[c] = "waiting" =>
            mark'[c] # 0 /\ waitFor'[c] = order[mark'[c]]
      /\ caller'[c] = "drained" =>
            \A i \in 1..mark'[c] : StreamComplete(order[i])
  <2>1. CASE WaitIdle(c)
    <3>1. /\ waitFor'[c] = last /\ mark'[c] = Len(order)
          /\ caller'[c] = IF last = NoStream THEN "drained" ELSE "waiting"
          /\ ~admFailure
      BY <1>3, <2>1 DEF WaitIdle
    <3>2. CASE last = NoStream
      <4>1. count = 0
        BY <3>2 DEF NativeInvariant, ReservationsCoverStreams
      <4>2. QED
        BY <3>1, <3>2, <4>1, EmptyMeansDone, NativeFacts
    <3>3. CASE last # NoStream
      <4>1. count # 0
        BY <3>3 DEF NativeInvariant, ReservationsCoverStreams
      <4>2. Len(order) # 0 /\ last = order[Len(order)]
        BY <4>1, NativeFacts DEF NativeInvariant, WaitersKnowTheirStream
      <4>3. QED
        BY <3>1, <3>3, <4>2, NativeFacts
    <3>4. QED
      BY <3>2, <3>3
  <2>2. CASE IsIdle(c)
    <3>1. mark'[c] = Len(order) /\ caller'[c] = "drained"
          /\ ~admFailure /\ count = 0
      BY <1>3, <2>2 DEF IsIdle
    <3>2. QED
      BY <3>1, EmptyMeansDone, NativeFacts
  <2>3. CASE WaitReturns(c)
    <3>1. /\ caller[c] = "waiting" /\ mark'[c] = mark[c]
          /\ caller'[c] = IF Receipt(waitFor[c]) = "ok" THEN "drained"
                          ELSE "idle"
      BY <1>3, <2>3 DEF WaitReturns
    <3>2. /\ mark[c] <= Len(order) /\ mark[c] # 0
          /\ waitFor[c] = order[mark[c]]
      BY <3>1 DEF NativeInvariant, WaitersKnowTheirStream
    <3>3. mark[c] \in 1..Len(order)
      BY <1>3, <3>2, NativeLengths
    <3>4. CASE Receipt(waitFor[c]) = "ok"
      <4>1. \A i \in 1..mark[c] : StreamComplete(order[i])
        BY <3>2, <3>3, <3>4, OkMeansPrefixDone
      <4>2. QED
        BY <3>1, <3>2, <3>4, <4>1
    <3>5. CASE Receipt(waitFor[c]) # "ok"
      BY <3>1, <3>5
    <3>6. QED
      BY <3>4, <3>5
  <2>4. CASE Resume(c)
    BY <1>3, <2>4 DEF Resume
  <2>5. QED
    BY <2>1, <2>2, <2>3, <2>4
<1>8. WaitersKnowTheirStream'
  <2>1. UNCHANGED <<order, last, count>>
    BY <1>1 DEF acceptedVars, admissionVars
  <2>2. SUFFICES ASSUME NEW d \in Callers, d # c
                 PROVE  /\ caller'[d] \in {"waiting", "drained"} =>
                              mark'[d] <= Len(order)
                        /\ caller'[d] = "waiting" =>
                              mark'[d] # 0 /\ waitFor'[d] = order[mark'[d]]
    BY <1>7, <2>1 DEF NativeInvariant, WaitersKnowTheirStream
  <2>3. caller'[d] = caller[d]
    BY <1>3, <1>4, <2>2
  <2>4. QED
    BY <1>5, <2>2, <2>3 DEF NativeInvariant, WaitersKnowTheirStream
<1>9. WaitIdleDrains'
  <2>1. order' = order
    BY <1>1 DEF acceptedVars
  <2>2. SUFFICES ASSUME NEW d \in Callers, caller'[d] = "drained",
                        NEW i \in 1..mark'[d]
                 PROVE  StreamComplete(order[i])'
    BY DEF WaitIdleDrains
  <2>3. StreamComplete(order[i])
    <3>1. CASE d = c
      BY <1>7, <2>2, <3>1
    <3>2. CASE d # c
      <4>1. caller[d] = "drained" /\ mark'[d] = mark[d]
        BY <1>3, <1>4, <1>5, <2>2, <3>2
      <4>2. QED
        BY <2>2, <4>1 DEF NativeInvariant, WaitIdleDrains
    <3>3. QED
      BY <3>1, <3>2
  <2>4. i \in 1..Len(order)
    <3>1. mark'[d] <= Len(order)
      BY <1>8, <2>1, <2>2 DEF WaitersKnowTheirStream
    <3>2. QED
      BY <1>5, <2>2, <3>1, NativeLengths
  <2>5. QED
    BY <1>2, <2>1, <2>3, <2>4, NativeFacts
<1>10. WakesAreRemembered'
  <2>1. UNCHANGED <<worker, pending, closing, count, signalled, pipe>>
    BY <1>1 DEF workerVars, admissionVars, wakeVars
  <2>2. \A d \in Callers : caller[d] \in {"notify", "write"} =>
                              caller'[d] = caller[d]
    BY <1>3, <1>4
  <2>3. Notifying => Notifying'
    BY <2>1, <2>2 DEF Notifying
  <2>4. QED
    BY <2>1, <2>2, <2>3 DEF NativeInvariant, WakesAreRemembered
<1>11. QED
  BY <1>2, <1>6, <1>8, <1>9, <1>10 DEF NativeInvariant

LEMMA DropStep ==
    ASSUME SchedulerInvariant, NativeInvariant, NEW c \in Callers, Drop(c)
    PROVE  NativeInvariant'
<1>1. /\ UNCHANGED <<schedulerVars, admissionVars, wakeVars, workerVars,
                     acceptedVars, waitFor, mark>>
      /\ closing' = TRUE
      /\ caller' = [caller EXCEPT ![c] = "notify"]
      /\ \A d \in Callers : caller[d] = "idle"
  BY DEF Drop
<1>2. /\ OrderSplits' /\ RejectionsReported' /\ WorkerMatchesPhase'
      /\ FailureIsShared' /\ BytesMatchReservations'
      /\ ReservationsCoverStreams'
  BY <1>1, QueueAlone
<1>3. caller \in [Callers -> {"idle", "notify", "write", "retract",
                              "waiting", "drained"}]
  BY DEF NativeInvariant, NativeTypeOK
<1>4. /\ caller'[c] = "notify"
      /\ \A d \in Callers : caller'[d] \notin {"waiting", "drained"}
  BY <1>1, <1>3
<1>5. NativeTypeOK'
  BY <1>1, <1>3
  DEF NativeInvariant, NativeTypeOK, admissionVars, wakeVars, workerVars,
      acceptedVars
<1>6. WaitersKnowTheirStream' /\ WaitIdleDrains'
  BY <1>1, <1>4
  DEF NativeInvariant, WaitersKnowTheirStream, WaitIdleDrains, admissionVars,
      acceptedVars
<1>7. WakesAreRemembered'
  BY <1>1, <1>4
  DEF NativeInvariant, WakesAreRemembered, Notifying, wakeVars, workerVars
<1>8. QED
  BY <1>2, <1>5, <1>6, <1>7 DEF NativeInvariant

(* An accepted stream is new, joins the order behind everything else, and  *)
(* fits into the budgets.                                                  *)
LEMMA EnqueueFacts ==
    ASSUME SchedulerInvariant, NativeInvariant,
           NEW c \in Callers, NEW s \in Streams, Enqueue(c, s)
    PROVE  /\ \A i \in 1..Len(order) : order[i] # s
           /\ taken = << >> /\ LeftInbox = Len(log) /\ LeftInbox' = LeftInbox
           /\ pending' = Append(pending, s) /\ Len(pending') = Len(pending) + 1
           /\ pending' \in Seq(Streams)
           /\ \A i \in 1..Len(pending) : pending'[i] = pending[i]
           /\ pending'[Len(pending) + 1] = s
           /\ Len(order') = Len(order) + 1 /\ order' \in Seq(Streams)
           /\ \A i \in 1..Len(order) : order'[i] = order[i]
           /\ order'[Len(order) + 1] = s
           /\ Len(total') = Len(total) + 1 /\ total' \in Seq(Nat)
           /\ \A i \in 1..Len(total) : total'[i] = total[i]
           /\ total'[Len(total) + 1] = total[Len(total)] + Bytes[s]
           /\ Bytes[s] \in Nat
<1>1. \A i \in 1..Len(order) : order[i] # s
  <2>1. SUFFICES ASSUME NEW i \in 1..Len(order), order[i] = s PROVE FALSE
    OBVIOUS
  <2>2. Receipt(s) = "none"
    BY DEF Enqueue
  <2>3. QED
    BY <2>1, <2>2 DEF Receipt, Settled
<1>2. taken = << >> /\ LeftInbox = Len(log)
  BY DEF Enqueue, NativeInvariant, WorkerMatchesPhase
<1>3. Bytes[s] \in Nat
  BY SchedulerAssumption DEF SchedulerAssumption
<1>4. /\ pending' = Append(pending, s) /\ order' = Append(order, s)
      /\ total' = Append(total, total[Len(total)] + Bytes[s])
      /\ taken' = taken
  BY DEF Enqueue, Admit, workerVars
<1>5. total[Len(total)] + Bytes[s] \in Nat
  BY <1>3, NativeTotals
<1>6. /\ Len(pending') = Len(pending) + 1
      /\ pending' \in Seq(Streams)
      /\ \A i \in 1..Len(pending) : pending'[i] = pending[i]
      /\ pending'[Len(pending) + 1] = s
  BY <1>4, NativeFacts
<1>7. /\ Len(order') = Len(order) + 1 /\ order' \in Seq(Streams)
      /\ \A i \in 1..Len(order) : order'[i] = order[i]
      /\ order'[Len(order) + 1] = s
  BY <1>4, NativeFacts
<1>8. /\ Len(total') = Len(total) + 1 /\ total' \in Seq(Nat)
      /\ \A i \in 1..Len(total) : total'[i] = total[i]
      /\ total'[Len(total) + 1] = total[Len(total)] + Bytes[s]
  BY <1>4, <1>5, NativeFacts
<1>9. LeftInbox' = LeftInbox
  BY <1>4, <1>6, <1>7, NativeFacts DEF LeftInbox
<1>10. QED
  BY <1>1, <1>2, <1>3, <1>4, <1>6, <1>7, <1>8, <1>9

LEMMA EnqueueNativeStep ==
    ASSUME SchedulerInvariant, NativeInvariant,
           NEW c \in Callers, NEW s \in Streams, Enqueue(c, s)
    PROVE  NativeInvariant'
<1>e. /\ \A i \in 1..Len(order) : order[i] # s
      /\ LeftInbox' = LeftInbox
      /\ Len(pending') = Len(pending) + 1
      /\ \A i \in 1..Len(pending) : pending'[i] = pending[i]
      /\ pending'[Len(pending) + 1] = s
      /\ Len(order') = Len(order) + 1
      /\ \A i \in 1..Len(order) : order'[i] = order[i]
      /\ order'[Len(order) + 1] = s
      /\ Len(total') = Len(total) + 1
      /\ \A i \in 1..Len(total) : total'[i] = total[i]
      /\ total'[Len(total) + 1] = total[Len(total)] + Bytes[s]
      /\ Bytes[s] \in Nat
  BY EnqueueFacts
<1>g. /\ taken = << >> /\ LeftInbox = Len(log)
      /\ pending' \in Seq(Streams) /\ order' \in Seq(Streams)
      /\ total' \in Seq(Nat)
  BY EnqueueFacts
<1>f. /\ Len(jobs) \in Nat /\ Len(log) \in Nat /\ Len(pending) \in Nat
      /\ Len(taken) = 0 /\ Len(order) \in Nat /\ Len(total) = Len(order) + 1
      /\ LeftInbox = Len(log) /\ LeftInbox + Len(pending) = Len(order)
      /\ count = Len(pending) + Len(jobs)
      /\ count \in Nat /\ count <= Len(order)
      /\ s # NoStream
      /\ \A i \in 1..(Len(order) + 1) : total[i] \in Nat
  <2>1. Len(taken) = 0 /\ LeftInbox = Len(log)
    BY <1>g, EmptyLength
  <2>2. QED
    BY <2>1, NativeFacts
<1>1. /\ UNCHANGED <<schedulerVars, admFailure, wakeVars, workerVars, closing,
                     waitFor, mark>>
      /\ caller[c] = "idle"
      /\ caller' = [caller EXCEPT ![c] = "notify"]
      /\ count' = count + 1 /\ admBytes' = admBytes + Bytes[s] /\ last' = s
      /\ ~AdmissionBusy(s) /\ Bytes[s] <= MaxStreamBytes /\ ~admFailure
  BY DEF Enqueue, Admit
<1>2. UNCHANGED <<jobs, log, tally, signal, fence, phase, failure, delivering,
                  worker, taken, rejecting, dropped, signalled, pipe>>
  BY <1>1 DEF schedulerVars, workerVars, wakeVars
<1>3. /\ caller \in [Callers -> {"idle", "notify", "write", "retract",
                                 "waiting", "drained"}]
      /\ admBytes \in Nat /\ count \in Nat
      /\ waitFor \in [Callers -> Streams \cup {NoStream}]
      /\ mark \in [Callers -> Nat]
  BY DEF NativeInvariant, NativeTypeOK
<1>4. /\ caller'[c] = "notify"
      /\ \A d \in Callers : d # c => caller'[d] = caller[d]
  BY <1>1, <1>3
<1>5. NativeTypeOK'
  <2>1. admBytes' \in Nat /\ count' \in Nat
    BY <1>1, <1>3, <1>e
  <2>2. last' \in Streams \cup {NoStream}
    BY <1>1
  <2>3. caller' \in [Callers -> {"idle", "notify", "write", "retract",
                                 "waiting", "drained"}]
    BY <1>1, <1>3
  <2>4. QED
    BY <1>1, <1>2, <1>3, <1>g, <2>1, <2>2, <2>3
    DEF NativeInvariant, NativeTypeOK
<1>6. OrderSplits'
  <2>1. Len(log') <= LeftInbox'
        /\ \A i \in 1..Len(log') : order'[i] = log'[i]
    BY <1>2, <1>e, <1>f DEF NativeInvariant, OrderSplits
  <2>2. \A i \in 1..Len(pending') : pending'[i] = order'[LeftInbox' + i]
    <3>1. SUFFICES ASSUME NEW i \in 1..Len(pending')
                   PROVE  pending'[i] = order'[LeftInbox + i]
      BY <1>e
    <3>2. CASE i = Len(pending) + 1
      <4>1. LeftInbox + i = Len(order) + 1
        <5>1. /\ LeftInbox \in Nat /\ Len(pending) \in Nat
              /\ LeftInbox + Len(pending) = Len(order)
          BY <1>f
        <5>2. QED
          BY <3>2, <5>1
      <4>2. QED
        BY <3>2, <4>1, <1>e
    <3>3. CASE i \in 1..Len(pending)
      <4>1. pending[i] = order[LeftInbox + i]
        BY <3>3 DEF NativeInvariant, OrderSplits
      <4>2. LeftInbox + i \in 1..Len(order)
        BY <3>3, <1>f
      <4>3. QED
        BY <3>3, <4>1, <4>2, <1>e
    <3>4. i \in 1..Len(pending) \/ i = Len(pending) + 1
      <4>1. i \in 1..(Len(pending) + 1)
        BY <1>e, <3>1
      <4>2. QED
        BY <1>f, <4>1
    <3>5. QED
      BY <3>2, <3>3, <3>4
  <2>3. taken' = << >> /\ Len(taken') = 0
    BY <1>2, <1>f, <1>g
  <2>4. \A i \in 1..Len(order') : i \in 1..Len(order) \/ i = Len(order) + 1
    <3>1. 1..Len(order') = 1..(Len(order) + 1)
      BY <1>e
    <3>2. QED
      BY <1>f, <3>1
  <2>5. \A i, j \in 1..Len(order') : order'[i] = order'[j] => i = j
    <3>1. SUFFICES ASSUME NEW i \in 1..Len(order'), NEW j \in 1..Len(order'),
                          order'[i] = order'[j]
                   PROVE  i = j
      OBVIOUS
    <3>2. CASE i \in 1..Len(order) /\ j \in 1..Len(order)
      <4>1. order[i] = order[j]
        BY <1>e, <3>1, <3>2
      <4>2. QED
        BY <3>2, <4>1 DEF NativeInvariant, OrderSplits
    <3>3. CASE i \in 1..Len(order) /\ j = Len(order) + 1
      BY <1>e, <3>1, <3>3
    <3>4. CASE i = Len(order) + 1 /\ j \in 1..Len(order)
      BY <1>e, <3>1, <3>4
    <3>5. QED
      BY <2>4, <3>2, <3>3, <3>4
  <2>6. \A i \in 1..Len(order') : Bytes[order'[i]] <= MaxStreamBytes
    <3>1. SUFFICES ASSUME NEW i \in 1..Len(order')
                   PROVE  Bytes[order'[i]] <= MaxStreamBytes
      OBVIOUS
    <3>2. CASE i \in 1..Len(order)
      <4>1. order'[i] = order[i]
        BY <1>e, <3>2
      <4>2. QED
        BY <3>2, <4>1 DEF NativeInvariant, OrderSplits
    <3>3. CASE i = Len(order) + 1
      BY <1>1, <1>e, <3>3
    <3>4. QED
      BY <2>4, <3>2, <3>3
  <2>7. QED
    BY <2>1, <2>2, <2>3, <2>5, <2>6 DEF OrderSplits
<1>7. RejectionsReported'
  <2>1. \A i \in (Len(log) + 1)..LeftInbox : FALSE
    BY <1>e, <1>f
  <2>2. \A t \in dropped : FALSE
    BY <2>1 DEF NativeInvariant, RejectionsReported
  <2>3. rejecting = NoStream
    BY <1>e, <1>f DEF NativeInvariant, RejectionsReported
  <2>4. LeftInbox' = LeftInbox
    BY <1>e
  <2>5. QED
    BY <1>2, <2>1, <2>2, <2>3, <2>4 DEF RejectionsReported
<1>8. WorkerMatchesPhase' /\ FailureIsShared'
  <2>1. worker \notin {"draining", "reject"}
    BY <1>1 DEF NativeInvariant, WorkerMatchesPhase
  <2>2. LeftInbox' = Len(log') /\ taken' = << >>
    BY <1>2, <1>e, <1>g
  <2>3. WorkerMatchesPhase'
    BY <1>2, <2>1, <2>2 DEF NativeInvariant, WorkerMatchesPhase
  <2>4. FailureIsShared'
    BY <1>1, <1>2 DEF NativeInvariant, FailureIsShared
  <2>5. QED
    BY <2>3, <2>4
<1>9. BytesMatchReservations'
  <2>1. Len(total') = Len(order') + 1
    BY <1>e, <1>f
  <2>2. total[Len(total)] \in Nat /\ Len(total) = Len(order) + 1
    BY <1>f
  <2>3. \A i \in 1..Len(order') : total'[i + 1] = total'[i] + Bytes[order'[i]]
    <3>1. SUFFICES ASSUME NEW i \in 1..Len(order')
                   PROVE  total'[i + 1] = total'[i] + Bytes[order'[i]]
      OBVIOUS
    <3>2. CASE i \in 1..Len(order)
      <4>1. total[i + 1] = total[i] + Bytes[order[i]]
        BY <3>2 DEF NativeInvariant, BytesMatchReservations
      <4>2. i \in 1..Len(total) /\ i + 1 \in 1..Len(total)
        BY <1>f, <3>2
      <4>3. QED
        BY <1>e, <3>2, <4>1, <4>2
    <3>3. CASE i = Len(order) + 1
      <4>1. i = Len(total) /\ i \in 1..Len(total)
        BY <1>f, <3>3
      <4>2. order'[i] = s /\ total'[i] = total[i]
        BY <1>e, <3>3, <4>1
      <4>3. QED
        BY <1>e, <4>1, <4>2
    <3>4. i \in 1..Len(order) \/ i = Len(order) + 1
      <4>1. i \in 1..(Len(order) + 1)
        BY <1>e, <3>1
      <4>2. QED
        BY <1>f, <4>1
    <3>5. QED
      BY <3>2, <3>3, <3>4
  <2>4. \A i, j \in 1..Len(total') : i <= j => total'[i] <= total'[j]
    <3>1. SUFFICES ASSUME NEW i \in 1..Len(total'), NEW j \in 1..Len(total'),
                          i <= j
                   PROVE  total'[i] <= total'[j]
      OBVIOUS
    <3>2. /\ i \in 1..Len(total) \/ i = Len(total) + 1
          /\ j \in 1..Len(total) \/ j = Len(total) + 1
          /\ j \in 1..Len(total) => i \in 1..Len(total)
      <4>1. i \in 1..(Len(total) + 1) /\ j \in 1..(Len(total) + 1)
        BY <1>e, <3>1
      <4>2. Len(total) \in Nat
        BY <1>f
      <4>3. QED
        BY <3>1, <4>1, <4>2
    <3>3. CASE j \in 1..Len(total)
      <4>1. total[i] <= total[j]
        BY <3>1, <3>2, <3>3 DEF NativeInvariant, BytesMatchReservations
      <4>2. QED
        BY <1>e, <3>2, <3>3, <4>1
    <3>4. CASE j = Len(total) + 1 /\ i \in 1..Len(total)
      <4>1. total[i] <= total[Len(total)]
        <5>1. Len(total) \in 1..Len(total) /\ i <= Len(total)
          BY <1>f, <3>4
        <5>2. QED
          BY <3>4, <5>1 DEF NativeInvariant, BytesMatchReservations
      <4>2. total[i] \in Nat
        BY <1>f, <3>4
      <4>3. total'[i] = total[i] /\ total'[j] = total[Len(total)] + Bytes[s]
        BY <1>e, <3>4
      <4>4. Bytes[s] \in Nat
        BY <1>e
      <4>5. QED
        BY <2>2, <4>1, <4>2, <4>3, <4>4
    <3>5. CASE j = Len(total) + 1 /\ i = Len(total) + 1
      <4>1. total'[i] \in Nat
        BY <1>e, <2>2, <3>5
      <4>2. QED
        BY <3>5, <4>1
    <3>6. QED
      BY <3>2, <3>3, <3>4, <3>5
  <2>5. \A i \in 1..(Len(log') + 1) : total'[i] = tally'[i]
    <3>1. SUFFICES ASSUME NEW i \in 1..(Len(log) + 1)
                   PROVE  total'[i] = tally[i]
      BY <1>2
    <3>2. total[i] = tally[i]
      BY DEF NativeInvariant, BytesMatchReservations
    <3>3. i \in 1..Len(total)
      BY <1>f
    <3>4. QED
      BY <1>e, <3>2, <3>3
  <2>6. admBytes' = total'[Len(order') + 1] - total'[Len(order') + 1 - count']
    <3>1. admBytes = total[Len(order) + 1] - total[Len(order) + 1 - count]
      BY DEF NativeInvariant, BytesMatchReservations
    <3>2. Len(order') + 1 - count' = Len(order) + 1 - count
      <4>1. Len(order') = Len(order) + 1
        BY <1>e
      <4>2. QED
        BY <1>1, <1>f, <4>1
    <3>3. Len(order) + 1 - count \in 1..Len(total)
      BY <1>f
    <3>4. total'[Len(order') + 1] = total[Len(order) + 1] + Bytes[s]
      BY <1>e, <1>f
    <3>5. total'[Len(order) + 1 - count] = total[Len(order) + 1 - count]
      BY <1>e, <3>3
    <3>6. total[Len(order) + 1] \in Nat /\ total[Len(order) + 1 - count] \in Nat
      BY <1>f, <3>3
    <3>7. Bytes[s] \in Nat
      BY <1>e
    <3>8. admBytes' = admBytes + Bytes[s]
      BY <1>1
    <3>9. QED
      BY <3>1, <3>2, <3>4, <3>5, <3>6, <3>7, <3>8
  <2>7. QED
    BY <2>1, <2>3, <2>4, <2>5, <2>6 DEF BytesMatchReservations
<1>10. ReservationsCoverStreams'
  <2>1. count <= MaxSubmissions /\ count # MaxSubmissions
    BY <1>1 DEF NativeInvariant, ReservationsCoverStreams, AdmissionBusy
  <2>2. count' <= MaxSubmissions
    BY <1>1, <1>3, <2>1, SchedulerAssumption DEF SchedulerAssumption
  <2>3. admBytes' <= MaxPendingBytes \/ count' <= 1
    BY <1>1, <1>3, <1>e, SchedulerAssumption
    DEF AdmissionBusy, SchedulerAssumption
  <2>4. count' = Len(pending') + Len(jobs') + Len(taken')
    BY <1>1, <1>2, <1>e, <1>f
  <2>5. count' # 0 /\ last' # NoStream
    BY <1>1, <1>3, <1>f
  <2>6. QED
    BY <2>2, <2>3, <2>4, <2>5 DEF ReservationsCoverStreams
<1>11. WaitersKnowTheirStream' /\ WaitIdleDrains'
  <2>1. last' = order'[Len(order')]
    BY <1>1, <1>e
  <2>2. ASSUME NEW d \in Callers, caller'[d] \in {"waiting", "drained"}
        PROVE  /\ caller[d] = caller'[d]
               /\ mark'[d] = mark[d] /\ waitFor'[d] = waitFor[d]
               /\ mark[d] <= Len(order) /\ mark[d] \in Nat
    BY <1>1, <1>3, <1>4, <2>2 DEF NativeInvariant, WaitersKnowTheirStream
  <2>3. WaitersKnowTheirStream'
    <3>1. SUFFICES ASSUME NEW d \in Callers,
                          caller'[d] \in {"waiting", "drained"}
                   PROVE  /\ mark'[d] <= Len(order')
                          /\ caller'[d] = "waiting" =>
                                mark'[d] # 0 /\ waitFor'[d] = order'[mark'[d]]
      BY <2>1 DEF WaitersKnowTheirStream
    <3>2. mark'[d] <= Len(order')
      BY <2>2, <3>1, <1>e, <1>f
    <3>3. ASSUME caller'[d] = "waiting"
          PROVE  mark'[d] # 0 /\ waitFor'[d] = order'[mark'[d]]
      <4>1. mark[d] # 0 /\ waitFor[d] = order[mark[d]]
        BY <2>2, <3>1, <3>3 DEF NativeInvariant, WaitersKnowTheirStream
      <4>2. mark[d] \in 1..Len(order)
        BY <2>2, <3>1, <4>1, <1>f
      <4>3. QED
        BY <2>2, <3>1, <4>1, <4>2, <1>e
    <3>4. QED
      BY <3>2, <3>3
  <2>4. WaitIdleDrains'
    <3>1. SUFFICES ASSUME NEW d \in Callers, caller'[d] = "drained",
                          NEW i \in 1..mark'[d]
                   PROVE  StreamComplete(order[i])'
      BY DEF WaitIdleDrains
    <3>2. i \in 1..mark[d] /\ caller[d] = "drained" /\ i \in 1..Len(order)
      BY <2>2, <3>1, <1>f
    <3>3. StreamComplete(order[i])
      BY <3>1, <3>2 DEF NativeInvariant, WaitIdleDrains
    <3>4. order'[i] = order[i]
      BY <3>2, <1>e
    <3>5. QED
      BY <1>2, <3>3, <3>4 DEF StreamComplete
  <2>5. QED
    BY <2>3, <2>4
<1>12. WakesAreRemembered'
  BY <1>1, <1>2, <1>4 DEF NativeInvariant, WakesAreRemembered, Notifying
<1>13. QED
  BY <1>5, <1>6, <1>7, <1>8, <1>9, <1>10, <1>11, <1>12 DEF NativeInvariant

-----------------------------------------------------------------------------
(* Steps of the worker outside its scheduler.                              *)

(* The worker leaves the callers alone.                                    *)
LEMMA CallersKept ==
    ASSUME SchedulerInvariant, NativeInvariant,
           [SchedulerNext]_schedulerVars,
           UNCHANGED <<callerVars, closing, acceptedVars>>,
           count' # 0 => last' = order[Len(order)]
    PROVE  WaitersKnowTheirStream' /\ WaitIdleDrains'
<1>1. UNCHANGED <<caller, waitFor, mark, order>>
  BY DEF callerVars, acceptedVars
<1>2. WaitersKnowTheirStream'
  BY <1>1 DEF NativeInvariant, WaitersKnowTheirStream
<1>3. WaitIdleDrains'
  <2>1. SUFFICES ASSUME NEW c \in Callers, caller[c] = "drained",
                        NEW i \in 1..mark[c]
                 PROVE  StreamComplete(order[i])'
    BY <1>1 DEF WaitIdleDrains
  <2>2. StreamComplete(order[i])
    BY <2>1 DEF NativeInvariant, WaitIdleDrains
  <2>3. mark[c] \in Nat /\ mark[c] <= Len(order)
    BY <2>1 DEF NativeInvariant, NativeTypeOK, WaitersKnowTheirStream
  <2>4. order[i] \in Streams
    BY <2>1, <2>3, NativeElements
  <2>5. StreamComplete(order[i])'
    BY <1>1, <2>2, <2>4, CompleteStays
  <2>6. QED
    BY <2>5
<1>4. QED
  BY <1>2, <1>3

(* Wakeups are remembered as long as the worker neither looks at the event *)
(* nor goes to sleep, and only it empties the inbox.                       *)
LEMMA WakesKept ==
    ASSUME NativeInvariant, UNCHANGED <<wakeVars, callerVars>>,
           worker # "clear", worker' # "park",
           worker' \in {"advance", "advancing", "check"} /\ pending' # << >> =>
               /\ worker \in {"advance", "advancing", "check", "park"}
               /\ pending # << >>
    PROVE  WakesAreRemembered'
<1>1. UNCHANGED <<signalled, pipe, caller>>
  BY DEF wakeVars, callerVars
<1>2. Notifying' = Notifying
  BY <1>1 DEF Notifying
<1>3. QED
  BY <1>1, <1>2 DEF NativeInvariant, WakesAreRemembered

(* The loop around the scheduler.                                          *)
LEMMA WorkerLoopStep ==
    ASSUME SchedulerInvariant, NativeInvariant,
           \/ WorkerErrs \/ WorkerStart \/ ConsumeRead \/ ConsumeClear
           \/ TransferDone \/ Check \/ Wake \/ RejectDone
    PROVE  NativeInvariant'
<1>1. UNCHANGED <<schedulerVars, callerVars, closing, acceptedVars,
                  admissionVars, taken, rejecting, dropped>>
  BY DEF WorkerErrs, WorkerStart, ConsumeRead, ConsumeClear, TransferDone,
         Check, Wake, RejectDone, WorkerControl
<1>2. UNCHANGED <<jobs, log, tally, signal, fence, phase, failure, delivering,
                  progressed, pending, count, admBytes, last, admFailure,
                  order, total, caller, waitFor, mark>>
  BY <1>1 DEF schedulerVars, admissionVars, acceptedVars, callerVars
<1>3. LeftInbox' = LeftInbox
  BY <1>1, <1>2 DEF LeftInbox
<1>4. OrderSplits' /\ BytesMatchReservations' /\ FailureIsShared'
  BY <1>1, <1>2, <1>3
  DEF NativeInvariant, OrderSplits, BytesMatchReservations, FailureIsShared
<1>5. ReservationsCoverStreams'
  BY <1>1, <1>2 DEF NativeInvariant, ReservationsCoverStreams
<1>6. /\ worker \in {"start", "consume", "clear", "transfer", "check", "park",
                     "reject"}
      /\ worker' \in {"consume", "clear", "transfer", "advance", "check",
                      "park", "fail", "dead"}
      /\ worker = "reject" => worker' = "dead" /\ rejecting = NoStream
      /\ failure => worker' \in {"fail", "dead"}
      /\ signalled' \in BOOLEAN /\ pipe' \in Nat
  <2>1. failure => worker \notin {"start", "consume", "clear", "transfer",
                                  "park"}
    BY DEF NativeInvariant, WorkerMatchesPhase
  <2>2. signalled \in BOOLEAN /\ pipe \in Nat
    BY DEF NativeInvariant, NativeTypeOK
  <2>3. signalled' \in BOOLEAN /\ pipe' \in Nat
    <3>1. CASE UNCHANGED wakeVars
      BY <2>2, <3>1 DEF wakeVars
    <3>2. CASE ConsumeRead
      <4>1. signalled' = signalled
        BY <3>2 DEF ConsumeRead
      <4>2. pipe' \in Nat
        BY <2>2, <3>2 DEF ConsumeRead
      <4>3. QED
        BY <2>2, <4>1, <4>2
    <3>3. CASE ConsumeClear
      <4>1. signalled' = FALSE /\ pipe' = pipe
        BY <3>3 DEF ConsumeClear
      <4>2. QED
        BY <2>2, <4>1
    <3>4. QED
      BY <3>1, <3>2, <3>3
      DEF WorkerErrs, WorkerStart, TransferDone, Check, Wake, RejectDone
  <2>4. CASE WorkerErrs \/ WorkerStart \/ Wake \/ TransferDone
    BY <2>1, <2>3, <2>4 DEF WorkerErrs, WorkerStart, Wake, TransferDone
  <2>5. CASE ConsumeRead \/ ConsumeClear
    BY <2>1, <2>3, <2>5 DEF ConsumeRead, ConsumeClear
  <2>6. CASE Check \/ RejectDone
    BY <2>3, <2>6 DEF Check, RejectDone
  <2>7. QED
    BY <2>4, <2>5, <2>6
<1>7. NativeTypeOK'
  BY <1>1, <1>2, <1>6 DEF NativeInvariant, NativeTypeOK
<1>8. WorkerMatchesPhase'
  <2>1. phase = "idle"
    BY <1>6 DEF NativeInvariant, WorkerMatchesPhase
  <2>2. taken = << >>
    BY <1>6 DEF NativeInvariant, WorkerMatchesPhase, RejectDone, WorkerErrs,
                WorkerStart, ConsumeRead, ConsumeClear, TransferDone, Check,
                Wake
  <2>3. LeftInbox # Len(log) => worker = "reject" /\ admFailure
    BY <1>6 DEF NativeInvariant, WorkerMatchesPhase
  <2>4. QED
    BY <1>1, <1>2, <1>3, <1>6, <2>1, <2>2, <2>3 DEF WorkerMatchesPhase
<1>9. RejectionsReported'
  <2>1. rejecting = NoStream
    BY <1>6 DEF NativeInvariant, RejectionsReported
  <2>2. QED
    BY <1>1, <1>2, <1>3, <2>1 DEF NativeInvariant, RejectionsReported
<1>10. WaitersKnowTheirStream' /\ WaitIdleDrains'
  <2>1. count' # 0 => last' = order[Len(order)]
    BY <1>2 DEF NativeInvariant, WaitersKnowTheirStream
  <2>2. QED
    BY <1>1, <2>1, CallersKept
<1>11. WakesAreRemembered'
  <2>1. CASE ConsumeRead
    <3>1. /\ worker = "consume" /\ signalled' = signalled
          /\ worker' = IF pipe > 0 THEN "clear" ELSE "transfer"
          /\ pipe' = IF pipe > 0 THEN pipe - 1 ELSE 0
          /\ pipe \in Nat
      BY <2>1 DEF ConsumeRead, NativeInvariant, NativeTypeOK
    <3>2. QED
      BY <1>2, <3>1 DEF NativeInvariant, WakesAreRemembered
  <2>2. CASE ConsumeClear
    <3>1. signalled' = FALSE /\ worker' = "transfer"
      BY <2>2 DEF ConsumeClear
    <3>2. QED
      BY <3>1 DEF WakesAreRemembered
  <2>3. CASE Check /\ worker' = "park"
    <3>1. /\ worker = "check" /\ ~MayExit /\ UNCHANGED wakeVars
      BY <2>3 DEF Check
    <3>2. ~(closing /\ count = 0)
      <4>1. SUFFICES ASSUME closing, count = 0 PROVE FALSE
        OBVIOUS
      <4>2. Len(jobs) = 0 /\ jobs \in Seq(Streams)
        BY <4>1, NativeFacts
      <4>3. QED
        BY <3>1, <4>1, <4>2 DEF MayExit
    <3>3. Notifying' = Notifying /\ UNCHANGED <<signalled, pipe>>
      BY <1>2, <3>1 DEF Notifying, wakeVars
    <3>4. QED
      BY <1>1, <1>2, <2>3, <3>1, <3>2, <3>3
      DEF NativeInvariant, WakesAreRemembered
  <2>4. CASE /\ \/ WorkerErrs \/ WorkerStart \/ TransferDone \/ Wake
                \/ RejectDone \/ Check
             /\ worker' # "park"
    <3>1. /\ worker # "clear"
          /\ UNCHANGED wakeVars
          /\ worker' \in {"advance", "advancing", "check"} => pending = << >>
      BY <2>4 DEF WorkerErrs, WorkerStart, TransferDone, Wake, RejectDone,
                  Check
    <3>2. QED
      BY <1>1, <1>2, <2>4, <3>1, WakesKept
  <2>5. QED
    BY <2>1, <2>2, <2>3, <2>4
    DEF WorkerErrs, WorkerStart, TransferDone, Wake, RejectDone
<1>12. QED
  BY <1>4, <1>5, <1>7, <1>8, <1>9, <1>10, <1>11 DEF NativeInvariant

-----------------------------------------------------------------------------
(* Steps of the worker inside its scheduler.                               *)

(* The shared admission keeps room in the worker's queue: the bytes it     *)
(* counts are those of the queue and of the whole inbox.                   *)
LEMMA RoomInside ==
    ASSUME SchedulerInvariant, NativeInvariant PROVE TransferNeverRefused
<1>1. SUFFICES ASSUME worker = "transfer", pending # << >>
               PROVE  ~Refused(Head(pending))
  BY DEF TransferNeverRefused
<1>2. ~failure /\ phase = "idle" /\ LeftInbox = Len(log) /\ taken = << >>
  BY <1>1 DEF NativeInvariant, WorkerMatchesPhase
<1>3. /\ Head(pending) = pending[1] /\ Len(pending) > 0
      /\ Len(pending) \in Nat
  BY <1>1, TailFacts, NativeFacts
<1>4. /\ Len(jobs) \in Nat /\ Len(log) \in Nat /\ Len(taken) = 0
      /\ count = Len(pending) + Len(jobs)
      /\ Len(log) + Len(pending) = Len(order)
      /\ Left \in Nat /\ Left + Len(jobs) = Len(log)
  BY <1>2, NativeFacts, EmptyLength
<1>5. Head(pending) = order[Len(log) + 1] /\ Len(log) + 1 \in 1..Len(order)
  <2>1. pending[1] = order[LeftInbox + 1]
    BY <1>3 DEF NativeInvariant, OrderSplits
  <2>2. QED
    BY <1>2, <1>3, <1>4, <2>1
<1>6. Bytes[Head(pending)] \in Nat /\ Bytes[Head(pending)] <= MaxStreamBytes
  <2>1. Bytes[order[Len(log) + 1]] \in Nat
    BY <1>5, NativeFacts
  <2>2. Bytes[order[Len(log) + 1]] <= MaxStreamBytes
    BY <1>5 DEF NativeInvariant, OrderSplits
  <2>3. QED
    BY <1>5, <2>1, <2>2
<1>7. Len(jobs) < MaxSubmissions
  <2>1. count <= MaxSubmissions
    BY DEF NativeInvariant, ReservationsCoverStreams
  <2>2. QED
    BY <1>3, <1>4, <2>1, SchedulerAssumption DEF SchedulerAssumption
<1>8. bytes + Bytes[Head(pending)] <= admBytes
  <2>1. bytes = tally[Len(log) + 1] - tally[Left + 1]
    BY <1>2 DEF SchedulerInvariant, BytesMatchQueue
  <2>2. /\ total[Len(log) + 1] = tally[Len(log) + 1]
        /\ total[Left + 1] = tally[Left + 1]
    <3>1. Len(log) + 1 \in 1..(Len(log) + 1) /\ Left + 1 \in 1..(Len(log) + 1)
      BY <1>4
    <3>2. QED
      BY <3>1 DEF NativeInvariant, BytesMatchReservations
  <2>3. total[Len(log) + 2] = total[Len(log) + 1] + Bytes[Head(pending)]
    <3>1. total[(Len(log) + 1) + 1]
              = total[Len(log) + 1] + Bytes[order[Len(log) + 1]]
      BY <1>5 DEF NativeInvariant, BytesMatchReservations
    <3>2. (Len(log) + 1) + 1 = Len(log) + 2
      BY <1>4
    <3>3. QED
      BY <1>5, <3>1, <3>2
  <2>4. total[Len(log) + 2] <= total[Len(order) + 1]
    <3>1. /\ Len(log) + 2 \in 1..Len(total) /\ Len(order) + 1 \in 1..Len(total)
          /\ Len(log) + 2 <= Len(order) + 1
      <4>1. Len(total) = Len(order) + 1
        BY NativeFacts
      <4>2. QED
        BY <1>3, <1>4, <4>1
    <3>2. QED
      BY <3>1 DEF NativeInvariant, BytesMatchReservations
  <2>5. admBytes = total[Len(order) + 1] - total[Left + 1]
    <3>1. admBytes = total[Len(order) + 1] - total[Len(order) + 1 - count]
      BY DEF NativeInvariant, BytesMatchReservations
    <3>2. Len(order) + 1 - count = Left + 1
      BY <1>3, <1>4
    <3>3. QED
      BY <3>1, <3>2
  <2>6. /\ total[Len(log) + 1] \in Nat /\ total[Left + 1] \in Nat
        /\ total[Len(log) + 2] \in Nat /\ total[Len(order) + 1] \in Nat
    <3>1. /\ Len(log) + 1 \in 1..(Len(order) + 1)
          /\ Left + 1 \in 1..(Len(order) + 1)
          /\ Len(log) + 2 \in 1..(Len(order) + 1)
          /\ Len(order) + 1 \in 1..(Len(order) + 1)
      BY <1>3, <1>4
    <3>2. QED
      BY <3>1, NativeTotals
  <2>7. bytes = total[Len(log) + 1] - total[Left + 1]
    BY <2>1, <2>2
  <2>8. bytes + Bytes[Head(pending)] = total[Len(log) + 2] - total[Left + 1]
    BY <1>6, <2>3, <2>6, <2>7
  <2>9. QED
    BY <2>4, <2>5, <2>6, <2>8
<1>9. jobs # << >> => bytes + Bytes[Head(pending)] <= MaxPendingBytes
  <2>1. SUFFICES ASSUME jobs # << >>
                 PROVE  bytes + Bytes[Head(pending)] <= MaxPendingBytes
    OBVIOUS
  <2>2. Len(jobs) > 0
    BY <2>1, NativeFacts
  <2>3. admBytes <= MaxPendingBytes
    <3>1. ~(count <= 1)
      BY <1>3, <1>4, <2>2
    <3>2. QED
      BY <3>1 DEF NativeInvariant, ReservationsCoverStreams
  <2>4. bytes \in Nat /\ admBytes \in Nat
    BY DEF SchedulerInvariant, TypeOK, NativeInvariant, NativeTypeOK
  <2>5. QED
    BY <1>6, <1>8, <2>3, <2>4, SchedulerAssumption DEF SchedulerAssumption
<1>10. jobs # << >> => Bytes[Head(pending)] <= MaxPendingBytes
  <2>1. bytes \in Nat
    BY DEF SchedulerInvariant, TypeOK
  <2>2. QED
    BY <1>6, <1>9, <2>1, SchedulerAssumption DEF SchedulerAssumption
<1>11. ~QueueBusy(Head(pending))
  <2>1. ~(Len(jobs) >= MaxSubmissions)
    BY <1>4, <1>7, SchedulerAssumption DEF SchedulerAssumption
  <2>2. jobs # << >> => /\ ~(Bytes[Head(pending)] > MaxPendingBytes)
                        /\ ~(bytes + Bytes[Head(pending)] > MaxPendingBytes)
    <3>1. bytes \in Nat /\ MaxPendingBytes \in Nat
      BY SchedulerAssumption DEF SchedulerInvariant, TypeOK, SchedulerAssumption
    <3>2. QED
      BY <1>6, <1>9, <1>10, <3>1
  <2>3. QED
    BY <2>1, <2>2 DEF QueueBusy
<1>12. ~(Bytes[Head(pending)] > MaxStreamBytes)
  BY <1>6, SchedulerAssumption DEF SchedulerAssumption
<1>13. QED
  BY <1>2, <1>11, <1>12 DEF Refused

LEMMA AppendFacts ==
    ASSUME NEW S, NEW q \in Seq(S), NEW e \in S
    PROVE  /\ Append(q, e) \in Seq(S)
           /\ Len(Append(q, e)) = Len(q) + 1
           /\ \A i \in 1..Len(q) : Append(q, e)[i] = q[i]
           /\ Append(q, e)[Len(q) + 1] = e
  OBVIOUS

(* The oldest stream of the inbox becomes the newest of the worker's queue.*)
LEMMA TransferStep ==
    ASSUME SchedulerInvariant, NativeInvariant, Transfer
    PROVE  NativeInvariant'
<1>1. /\ worker = "transfer" /\ pending # << >> /\ pending' = Tail(pending)
      /\ ~Refused(Head(pending))
  BY RoomInside DEF Transfer, TransferNeverRefused
<1>2. /\ EnqueuePrepared(Head(pending))
      /\ UNCHANGED <<count, admBytes, last, admFailure, dropped, worker,
                     wakeVars, taken, rejecting, callerVars, closing,
                     acceptedVars>>
  BY <1>1 DEF Transfer
<1>3. UNCHANGED <<order, total, signalled, pipe, caller, waitFor, mark>>
  BY <1>2 DEF acceptedVars, wakeVars, callerVars
<1>4. ~failure /\ phase = "idle" /\ LeftInbox = Len(log) /\ taken = << >>
  BY <1>1 DEF NativeInvariant, WorkerMatchesPhase
<1>5. /\ Head(pending) = pending[1] /\ Head(pending) \in Streams
      /\ Len(pending) > 0 /\ Len(pending) \in Nat
      /\ pending' \in Seq(Streams) /\ Len(pending') = Len(pending) - 1
      /\ \A i \in 1..Len(pending') : pending'[i] = pending[i + 1]
  BY <1>1, TailFacts, NativeFacts
<1>6. /\ Len(jobs) \in Nat /\ Len(log) \in Nat /\ Len(taken) = 0
      /\ count = Len(pending) + Len(jobs)
      /\ Len(log) + Len(pending) = Len(order)
      /\ Len(total) = Len(order) + 1
  BY <1>4, NativeFacts, EmptyLength
<1>7. /\ UNCHANGED <<failure, phase, delivering, fence>>
      /\ Len(jobs') = Len(jobs) + 1
      /\ Len(log') = Len(log) + 1
      /\ \A i \in 1..Len(log) : log'[i] = log[i]
      /\ log'[Len(log) + 1] = Head(pending)
      /\ signal' = [signal EXCEPT ![Head(pending)] = "pending"]
  <2>1. jobs' = Append(jobs, Head(pending)) /\ log' = Append(log, Head(pending))
    BY <1>2 DEF EnqueuePrepared, Publish
  <2>2. jobs \in Seq(Streams) /\ log \in Seq(Streams)
    BY NativeFacts
  <2>3. /\ Len(jobs') = Len(jobs) + 1
        /\ Len(log') = Len(log) + 1
        /\ \A i \in 1..Len(log) : log'[i] = log[i]
        /\ log'[Len(log) + 1] = Head(pending)
    BY <1>5, <2>1, <2>2, AppendFacts
  <2>4. QED
    BY <1>2, <2>3 DEF EnqueuePrepared
<1>8. LeftInbox' = LeftInbox + 1 /\ LeftInbox' = Len(log')
  <2>1. LeftInbox' = Len(order) - (Len(pending) - 1) - 0
    BY <1>2, <1>3, <1>5, <1>6 DEF LeftInbox
  <2>2. /\ Len(log) \in Nat /\ Len(pending) \in Nat
        /\ Len(order) = Len(log) + Len(pending)
        /\ LeftInbox = Len(log) /\ Len(log') = Len(log) + 1
    BY <1>4, <1>5, <1>6, <1>7
  <2>3. QED
    BY <2>1, <2>2
<1>9. Head(pending) = order[Len(log) + 1]
  <2>1. pending[1] = order[LeftInbox + 1]
    BY <1>5 DEF NativeInvariant, OrderSplits
  <2>2. QED
    BY <1>4, <1>5, <2>1
<1>10. NativeTypeOK'
  BY <1>2, <1>3, <1>5 DEF NativeInvariant, NativeTypeOK
<1>11. OrderSplits'
  <2>1. \A i \in 1..Len(log') : order[i] = log'[i]
    <3>1. SUFFICES ASSUME NEW i \in 1..(Len(log) + 1) PROVE order[i] = log'[i]
      BY <1>7
    <3>2. CASE i \in 1..Len(log)
      BY <1>7, <3>2 DEF NativeInvariant, OrderSplits
    <3>3. CASE i = Len(log) + 1
      BY <1>7, <1>9, <3>3
    <3>4. QED
      BY <1>6, <3>2, <3>3
  <2>2. \A i \in 1..Len(pending') : pending'[i] = order[LeftInbox' + i]
    <3>1. SUFFICES ASSUME NEW i \in 1..Len(pending')
                   PROVE  pending'[i] = order[LeftInbox' + i]
      OBVIOUS
    <3>2. pending'[i] = pending[i + 1] /\ i + 1 \in 1..Len(pending)
      BY <1>5
    <3>3. pending[i + 1] = order[LeftInbox + (i + 1)]
      BY <3>2 DEF NativeInvariant, OrderSplits
    <3>4. LeftInbox + (i + 1) = LeftInbox' + i
      BY <1>4, <1>6, <1>8
    <3>5. QED
      BY <3>2, <3>3, <3>4
  <2>3. \A i \in 1..Len(taken') : taken'[i] = order[LeftInbox' + i]
    BY <1>2, <1>6
  <2>4. QED
    BY <1>2, <1>3, <1>4, <1>6, <1>7, <1>8, <2>1, <2>2, <2>3
    DEF NativeInvariant, OrderSplits
<1>12. RejectionsReported'
  <2>1. \A i \in (Len(log) + 1)..LeftInbox : FALSE
    BY <1>4, <1>6
  <2>2. dropped = {}
    BY <2>1 DEF NativeInvariant, RejectionsReported
  <2>3. rejecting = NoStream
    BY <1>1 DEF NativeInvariant, RejectionsReported
  <2>4. \A i \in (Len(log') + 1)..LeftInbox' : FALSE
    BY <1>6, <1>7, <1>8
  <2>5. QED
    BY <1>2, <2>2, <2>3, <2>4 DEF RejectionsReported
<1>13. WorkerMatchesPhase'
  BY <1>1, <1>2, <1>4, <1>7, <1>8 DEF WorkerMatchesPhase
<1>14. FailureIsShared'
  <2>1. signal \in [Streams -> {"none", "pending", "ok", "err"}]
    BY DEF SchedulerInvariant, TypeOK
  <2>2. \A s \in Streams : signal'[s] = "err" => signal[s] = "err"
    BY <1>7, <2>1
  <2>3. QED
    BY <1>2, <1>7, <2>2 DEF NativeInvariant, FailureIsShared
<1>15. BytesMatchReservations'
  <2>1. Len(tally) = Len(log) + 1 /\ tally \in Seq(Nat)
    BY DEF SchedulerInvariant, BytesMatchQueue, TypeOK
  <2>2. tally' = Append(tally, tally[Len(tally)] + Bytes[Head(pending)])
    BY <1>2 DEF EnqueuePrepared, Publish
  <2>3. tally[Len(tally)] + Bytes[Head(pending)] \in Nat
    <3>1. Bytes[Head(pending)] \in Nat
      BY <1>5, SchedulerAssumption DEF SchedulerAssumption
    <3>2. tally[Len(tally)] \in Nat
      BY <1>6, <2>1
    <3>3. QED
      BY <3>1, <3>2
  <2>4. /\ \A i \in 1..Len(tally) : tally'[i] = tally[i]
        /\ tally'[Len(tally) + 1] = tally[Len(tally)] + Bytes[Head(pending)]
    BY <2>1, <2>2, <2>3, AppendFacts
  <2>5. \A i \in 1..(Len(log') + 1) : total[i] = tally'[i]
    <3>1. SUFFICES ASSUME NEW i \in 1..(Len(log) + 2) PROVE total[i] = tally'[i]
      BY <1>6, <1>7
    <3>2. CASE i \in 1..(Len(log) + 1)
      <4>1. total[i] = tally[i]
        BY <3>2 DEF NativeInvariant, BytesMatchReservations
      <4>2. QED
        BY <2>1, <2>4, <3>2, <4>1
    <3>3. CASE i = Len(log) + 2
      <4>1. Len(log) + 1 \in 1..Len(order) /\ (Len(log) + 1) + 1 = Len(log) + 2
        BY <1>5, <1>6
      <4>2. total[Len(log) + 2] = total[Len(log) + 1] + Bytes[Head(pending)]
        BY <1>9, <4>1 DEF NativeInvariant, BytesMatchReservations
      <4>3. total[Len(log) + 1] = tally[Len(log) + 1]
        BY <1>6 DEF NativeInvariant, BytesMatchReservations
      <4>4. QED
        BY <2>1, <2>4, <3>3, <4>1, <4>2, <4>3
    <3>4. QED
      BY <1>6, <3>2, <3>3
  <2>6. QED
    BY <1>2, <1>3, <2>5 DEF NativeInvariant, BytesMatchReservations
<1>16. ReservationsCoverStreams'
  <2>1. count' = Len(pending') + Len(jobs') + Len(taken')
    BY <1>2, <1>5, <1>6, <1>7
  <2>2. QED
    BY <1>2, <2>1 DEF NativeInvariant, ReservationsCoverStreams
<1>17. WaitersKnowTheirStream' /\ WaitIdleDrains'
  <2>1. [SchedulerNext]_schedulerVars
    BY <1>2, <1>5 DEF SchedulerNext
  <2>2. count' # 0 => last' = order[Len(order)]
    BY <1>2 DEF NativeInvariant, WaitersKnowTheirStream
  <2>3. QED
    BY <1>2, <2>1, <2>2, CallersKept
<1>18. WakesAreRemembered'
  BY <1>1, <1>2, WakesKept
<1>19. QED
  BY <1>10, <1>11, <1>12, <1>13, <1>14, <1>15, <1>16, <1>17, <1>18
  DEF NativeInvariant

(* A finished stream gives back what it had reserved: it is the oldest of  *)
(* those the reservation counts.                                           *)
LEMMA FinishStep ==
    ASSUME SchedulerInvariant, NativeInvariant,
           worker \in {"advancing", "draining"},
           \/ RetireFront /\ FinishSignal(Head(jobs), FALSE)
           \/ DrainFront /\ FinishSignal(Head(jobs), TRUE),
           UNCHANGED <<pending, wakeVars, workerVars, callerVars, closing,
                       acceptedVars>>
    PROVE  NativeInvariant'
<1>1. /\ TakeFront
      /\ phase \in {"retire", "drain"}
      /\ UNCHANGED <<failure, phase, log, tally, signal>>
      /\ count' = count - 1
      /\ admBytes' = admBytes - Bytes[Head(jobs)]
      /\ last' = IF count = 1 THEN NoStream ELSE last
  BY DEF RetireFront, DrainFront, FinishSignal
<1>2. UNCHANGED <<order, total, taken, rejecting, dropped, worker, signalled,
                  pipe, caller, waitFor, mark>>
  BY DEF acceptedVars, workerVars, wakeVars, callerVars
<1>3. [SchedulerNext]_schedulerVars
  BY DEF SchedulerNext, AdvanceStep
<1>4. /\ Len(jobs) \in Nat /\ Len(jobs) > 0 /\ Len(jobs') = Len(jobs) - 1
      /\ Left \in Nat /\ Head(jobs) = log[Left + 1]
      /\ Left + 1 \in 1..Len(log)
  BY <1>1, TakeFrontFacts
<1>5. /\ Len(log) \in Nat /\ Len(pending) \in Nat /\ Len(taken) \in Nat
      /\ count = Len(pending) + Len(jobs) + Len(taken)
      /\ LeftInbox = Len(log) /\ Left + Len(jobs) = Len(log)
      /\ LeftInbox + Len(pending) + Len(taken) = Len(order)
      /\ count \in Nat
  <2>1. LeftInbox = Len(log)
    BY DEF NativeInvariant, WorkerMatchesPhase
  <2>2. QED
    BY <2>1, NativeFacts
<1>6. LeftInbox' = LeftInbox
  BY <1>2 DEF LeftInbox
<1>7. Len(order) + 1 - count = Left + 1
      /\ Len(order) + 1 - count' = Left + 2
  <2>1. /\ Left \in Nat /\ Len(jobs) \in Nat /\ count' = count - 1
    BY <1>1, <1>4
  <2>2. Left + count = Len(order)
    <3>1. /\ Len(pending) \in Nat /\ Len(taken) \in Nat /\ Len(log) \in Nat
          /\ count = Len(pending) + Len(jobs) + Len(taken)
          /\ Left + Len(jobs) = Len(log)
      BY <1>5
    <3>2. Len(log) + Len(pending) + Len(taken) = Len(order)
      BY <1>5
    <3>3. QED
      BY <2>1, <3>1, <3>2
  <2>3. count \in Nat
    BY <1>5
  <2>4. QED
    BY <2>1, <2>2, <2>3
<1>8. /\ total[Left + 2] = total[Left + 1] + Bytes[Head(jobs)]
      /\ total[Left + 1] \in Nat /\ Bytes[Head(jobs)] \in Nat
      /\ total[Left + 2] \in Nat /\ total[Len(order) + 1] \in Nat
      /\ total[Left + 2] <= total[Len(order) + 1]
  <2>1. /\ Left + 1 \in 1..Len(order) /\ (Left + 1) + 1 = Left + 2
        /\ Left + 1 \in 1..(Len(order) + 1)
        /\ Left + 2 \in 1..(Len(order) + 1)
        /\ Len(order) + 1 \in 1..(Len(order) + 1)
        /\ Left + 2 <= Len(order) + 1
    BY <1>4, <1>5
  <2>2. Head(jobs) = order[Left + 1]
    BY <1>4 DEF NativeInvariant, OrderSplits
  <2>3. total[Left + 2] = total[Left + 1] + Bytes[Head(jobs)]
    BY <2>1, <2>2 DEF NativeInvariant, BytesMatchReservations
  <2>4. /\ total[Left + 1] \in Nat /\ Bytes[Head(jobs)] \in Nat
        /\ total[Left + 2] \in Nat /\ total[Len(order) + 1] \in Nat
    BY <2>1, <2>2, NativeFacts
  <2>5. total[Left + 2] <= total[Len(order) + 1]
    BY <2>1 DEF NativeInvariant, BytesMatchReservations
  <2>6. QED
    BY <2>3, <2>4, <2>5
<1>9. admBytes' = total[Len(order) + 1] - total[Left + 2]
  <2>1. admBytes = total[Len(order) + 1] - total[Left + 1]
    <3>1. admBytes = total[Len(order) + 1] - total[Len(order) + 1 - count]
      BY DEF NativeInvariant, BytesMatchReservations
    <3>2. QED
      BY <1>7, <3>1
  <2>2. QED
    BY <1>1, <1>8, <2>1
<1>10. admBytes' \in Nat /\ admBytes' <= admBytes
  <2>1. admBytes \in Nat /\ admBytes' = admBytes - Bytes[Head(jobs)]
    BY <1>1 DEF NativeInvariant, NativeTypeOK
  <2>2. /\ total[Left + 2] \in Nat /\ total[Len(order) + 1] \in Nat
        /\ Bytes[Head(jobs)] \in Nat /\ total[Left + 2] <= total[Len(order) + 1]
    BY <1>8
  <2>3. admBytes' \in Nat
    BY <1>9, <2>2
  <2>4. admBytes' <= admBytes
    BY <2>1, <2>2
  <2>5. QED
    BY <2>3, <2>4
<1>11. admFailure => admFailure'
  BY DEF FinishSignal
<1>12. NativeTypeOK'
  <2>1. count' \in Nat
    BY <1>1, <1>4, <1>5
  <2>2. last' \in Streams \cup {NoStream}
    BY <1>1 DEF NativeInvariant, NativeTypeOK
  <2>3. admBytes' \in Nat /\ admFailure' \in BOOLEAN
    <3>1. admBytes' \in Nat
      BY <1>10
    <3>2. admFailure' \in BOOLEAN
      BY DEF FinishSignal
    <3>3. QED
      BY <3>1, <3>2
  <2>4. pending' = pending /\ closing' = closing
    OBVIOUS
  <2>5. QED
    BY <1>2, <2>1, <2>2, <2>3, <2>4 DEF NativeInvariant, NativeTypeOK
<1>13. OrderSplits' /\ RejectionsReported'
  BY <1>1, <1>2, <1>6 DEF NativeInvariant, OrderSplits, RejectionsReported
<1>14. WorkerMatchesPhase'
  BY <1>1, <1>2, <1>6, <1>11 DEF NativeInvariant, WorkerMatchesPhase
<1>15. FailureIsShared'
  <2>1. CASE RetireFront /\ FinishSignal(Head(jobs), FALSE)
    <3>1. phase = "retire" /\ admFailure' = admFailure
      BY <2>1 DEF RetireFront, FinishSignal, NativeInvariant, NativeTypeOK
    <3>2. QED
      BY <1>1, <3>1 DEF NativeInvariant, FailureIsShared
  <2>2. CASE DrainFront /\ FinishSignal(Head(jobs), TRUE)
    <3>1. admFailure' /\ failure
      BY <2>2 DEF DrainFront, FinishSignal, SchedulerInvariant, PoisonIsFinal
    <3>2. QED
      BY <1>1, <3>1 DEF FailureIsShared
  <2>3. QED
    BY <2>1, <2>2
<1>16. BytesMatchReservations'
  BY <1>1, <1>2, <1>7, <1>9 DEF NativeInvariant, BytesMatchReservations
<1>17. ReservationsCoverStreams'
  <2>1. count' = Len(pending') + Len(jobs') + Len(taken')
    BY <1>1, <1>2, <1>4, <1>5
  <2>2. count' <= MaxSubmissions
    <3>1. count <= MaxSubmissions
      BY DEF NativeInvariant, ReservationsCoverStreams
    <3>2. QED
      BY <1>1, <1>5, <3>1, SchedulerAssumption DEF SchedulerAssumption
  <2>3. admBytes' <= MaxPendingBytes \/ count' <= 1
    <3>1. admBytes <= MaxPendingBytes \/ count <= 1
      BY DEF NativeInvariant, ReservationsCoverStreams
    <3>2. admBytes \in Nat
      BY DEF NativeInvariant, NativeTypeOK
    <3>3. /\ count \in Nat /\ count' = count - 1
          /\ admBytes' \in Nat /\ admBytes' <= admBytes
      BY <1>1, <1>5, <1>10
    <3>4. MaxPendingBytes \in Nat
      BY SchedulerAssumption DEF SchedulerAssumption
    <3>5. QED
      BY <3>1, <3>2, <3>3, <3>4
  <2>4. count' = 0 <=> last' = NoStream
    <3>1. count # 0 /\ last # NoStream
      BY <1>4, <1>5 DEF NativeInvariant, ReservationsCoverStreams
    <3>2. QED
      BY <1>1, <1>5, <3>1
  <2>5. count' = 0 => admBytes' = 0
    <3>1. count' = 0 => Left + 2 = Len(order) + 1
      BY <1>4, <1>5, <1>7
    <3>2. QED
      BY <1>8, <1>9, <3>1
  <2>6. QED
    BY <2>1, <2>2, <2>3, <2>4, <2>5 DEF ReservationsCoverStreams
<1>18. WaitersKnowTheirStream' /\ WaitIdleDrains'
  <2>1. count' # 0 => last' = order[Len(order)]
    BY <1>1, <1>4, <1>5 DEF NativeInvariant, WaitersKnowTheirStream
  <2>2. QED
    BY <1>3, <2>1, CallersKept
<1>19. WakesAreRemembered'
  BY <1>2, WakesKept
<1>20. QED
  BY <1>12, <1>13, <1>14, <1>15, <1>16, <1>17, <1>18, <1>19
  DEF NativeInvariant

(* Steps of the scheduler, or of the GPU, that leave its queue as it is.   *)
LEMMA QueueKept ==
    ASSUME SchedulerInvariant, NativeInvariant,
           [SchedulerNext]_schedulerVars,
           UNCHANGED <<jobs, log, tally, admissionVars, wakeVars, taken,
                       rejecting, dropped, callerVars, closing, acceptedVars>>,
           rejecting # NoStream => worker' = worker
    PROVE  /\ OrderSplits' /\ RejectionsReported' /\ BytesMatchReservations'
           /\ ReservationsCoverStreams' /\ WaitersKnowTheirStream'
           /\ WaitIdleDrains' /\ LeftInbox' = LeftInbox
           /\ worker' \in {"start", "consume", "clear", "transfer", "advance",
                           "advancing", "check", "park", "fail", "draining",
                           "reject", "dead"} => NativeTypeOK'
<1>1. UNCHANGED <<pending, count, admBytes, last, admFailure, order, total,
                  signalled, pipe, caller, waitFor, mark>>
  BY DEF admissionVars, acceptedVars, wakeVars, callerVars
<1>2. LeftInbox' = LeftInbox
  BY <1>1 DEF LeftInbox
<1>3. OrderSplits' /\ RejectionsReported'
  BY <1>1, <1>2 DEF NativeInvariant, OrderSplits, RejectionsReported
<1>4. BytesMatchReservations' /\ ReservationsCoverStreams'
  BY <1>1 DEF NativeInvariant, BytesMatchReservations, ReservationsCoverStreams
<1>5. WaitersKnowTheirStream' /\ WaitIdleDrains'
  <2>1. count' # 0 => last' = order[Len(order)]
    BY <1>1 DEF NativeInvariant, WaitersKnowTheirStream
  <2>2. QED
    BY <2>1, CallersKept
<1>6. worker' \in {"start", "consume", "clear", "transfer", "advance",
                   "advancing", "check", "park", "fail", "draining",
                   "reject", "dead"} => NativeTypeOK'
  BY <1>1 DEF NativeInvariant, NativeTypeOK
<1>7. QED
  BY <1>2, <1>3, <1>4, <1>5, <1>6

(* A call of advance that completes no stream.                             *)
LEMMA AdvanceNativeStep ==
    ASSUME SchedulerInvariant, NativeInvariant, Advance
    PROVE  NativeInvariant'
<1>1. /\ UNCHANGED <<admissionVars, wakeVars, taken, rejecting, dropped,
                     callerVars, closing, acceptedVars>>
      /\ worker \in {"advance", "advancing"}
      /\ worker' = IF phase' = "idle" THEN "check" ELSE "advancing"
  BY DEF Advance
<1>2. /\ UNCHANGED <<jobs, log, tally>>
      /\ [SchedulerNext]_schedulerVars
  BY DEF Advance, AdvanceKeepsReservations, PollReceipts, RetireDone, Deliver,
         DispatchDone, DrainDone, SubmitChunk, DispatchBlocked, DispatchFails,
         SchedulerNext, AdvanceStep
<1>3. rejecting = NoStream
  BY <1>1 DEF NativeInvariant, RejectionsReported
<1>4. /\ OrderSplits' /\ RejectionsReported' /\ BytesMatchReservations'
      /\ ReservationsCoverStreams' /\ WaitersKnowTheirStream'
      /\ WaitIdleDrains' /\ LeftInbox' = LeftInbox /\ NativeTypeOK'
  BY <1>1, <1>2, <1>3, QueueKept
<1>5. /\ failure /\ phase # "drain" => ~failure'
      /\ worker = "advance" => ~failure /\ phase = "idle"
      /\ worker = "advancing" /\ failure => phase = "drain"
      /\ phase = "drain" /\ delivering # NoStream => admFailure
      /\ admFailure => failure
  BY <1>1 DEF NativeInvariant, WorkerMatchesPhase, FailureIsShared
(* What the step does to the state of the scheduler.                       *)
<1>6. /\ phase' \in {"idle", "retire", "dispatch", "drain"}
      /\ failure' => phase' = "drain" \/ (phase = "drain" /\ phase' = "idle")
      /\ failure => failure'
      /\ phase' = "drain" /\ phase # "drain" => delivering' = NoStream
      /\ phase = "drain" => delivering' = delivering \/ delivering' = NoStream
  <2>1. CASE worker = "advance" /\ PollReceipts
    BY <1>5, <2>1, NotDelivering DEF PollReceipts, StartFail
  <2>2. CASE worker = "advancing" /\ AdvanceKeepsReservations
    <3>1. failure => phase = "drain"
      BY <1>5, <2>2
    <3>2. CASE RetireDone \/ DispatchDone \/ \E c \in Chunks : DispatchBlocked(c)
      BY <3>1, <3>2 DEF RetireDone, DispatchDone, DispatchBlocked
    <3>3. CASE Deliver
      <4>1. phase \in {"retire", "drain"}
        BY <3>3 DEF Deliver, SchedulerInvariant, SignalsMatchQueue
      <4>2. QED
        BY <3>1, <3>3, <4>1 DEF Deliver
    <3>4. CASE DrainDone
      BY <3>4 DEF DrainDone
    <3>5. CASE \E c \in Chunks : SubmitChunk(c)
      BY <3>1, <3>5 DEF SubmitChunk
    <3>6. CASE \E c \in Chunks : DispatchFails(c)
      BY <3>6, NotDelivering DEF DispatchFails, StartFail
    <3>7. QED
      BY <2>2, <3>2, <3>3, <3>4, <3>5, <3>6 DEF AdvanceKeepsReservations
  <2>3. QED
    BY <2>1, <2>2 DEF Advance
<1>7. UNCHANGED <<admFailure, pending, taken>>
  BY <1>1 DEF admissionVars
<1>8. WorkerMatchesPhase'
  <2>1. LeftInbox' = Len(log') /\ taken' = << >>
    BY <1>1, <1>2, <1>4, <1>7 DEF NativeInvariant, WorkerMatchesPhase
  <2>2. QED
    BY <1>1, <1>6, <2>1 DEF WorkerMatchesPhase
<1>9. FailureIsShared'
  <2>1. \A s \in Streams : signal'[s] = "err" => admFailure
    <3>1. CASE UNCHANGED signal
      BY <3>1 DEF NativeInvariant, FailureIsShared
    <3>2. CASE Deliver
      <4>1. /\ signal' = [signal EXCEPT ![delivering] =
                              IF phase = "drain" THEN "err" ELSE "ok"]
            /\ delivering # NoStream
            /\ signal \in [Streams -> {"none", "pending", "ok", "err"}]
        BY <3>2 DEF Deliver, SchedulerInvariant, TypeOK
      <4>2. \A s \in Streams : signal[s] = "err" => admFailure
        BY DEF NativeInvariant, FailureIsShared
      <4>3. CASE phase = "drain"
        BY <1>5, <4>1, <4>3
      <4>4. CASE phase # "drain"
        BY <4>1, <4>2, <4>4
      <4>5. QED
        BY <4>3, <4>4
    <3>3. QED
      BY <3>1, <3>2
      DEF Advance, AdvanceKeepsReservations, PollReceipts, RetireDone,
          DispatchDone, DrainDone, SubmitChunk, DispatchBlocked, DispatchFails
  <2>2. phase' = "drain" /\ delivering' # NoStream => admFailure
    BY <1>5, <1>6
  <2>3. QED
    BY <1>5, <1>6, <1>7, <2>1, <2>2 DEF FailureIsShared
<1>10. WakesAreRemembered'
  BY <1>1, <1>7, WakesKept
<1>11. QED
  BY <1>4, <1>8, <1>9, <1>10 DEF NativeInvariant

LEMMA GpuNativeStep ==
    ASSUME SchedulerInvariant, NativeInvariant, Gpu PROVE NativeInvariant'
<1>1. /\ UNCHANGED <<admissionVars, wakeVars, workerVars, callerVars, closing,
                     acceptedVars>>
      /\ UNCHANGED <<jobs, log, tally, phase, failure, delivering, signal>>
      /\ [SchedulerNext]_schedulerVars
  BY DEF Gpu, GpuStep, GpuRetires, GpuFails, FenceSettles, SchedulerNext
<1>2. UNCHANGED <<admFailure, pending, worker, taken, rejecting, dropped>>
  BY <1>1 DEF admissionVars, workerVars
<1>3. worker' \in {"start", "consume", "clear", "transfer", "advance",
                   "advancing", "check", "park", "fail", "draining",
                   "reject", "dead"}
  BY <1>2 DEF NativeInvariant, NativeTypeOK
<1>4. /\ OrderSplits' /\ RejectionsReported' /\ BytesMatchReservations'
      /\ ReservationsCoverStreams' /\ WaitersKnowTheirStream'
      /\ WaitIdleDrains' /\ LeftInbox' = LeftInbox /\ NativeTypeOK'
  BY <1>1, <1>2, <1>3, QueueKept
<1>5. WorkerMatchesPhase' /\ FailureIsShared'
  BY <1>1, <1>2, <1>4 DEF NativeInvariant, WorkerMatchesPhase, FailureIsShared
<1>6. WakesAreRemembered'
  <2>1. UNCHANGED <<signalled, pipe, caller, closing, count>>
    BY <1>1 DEF wakeVars, callerVars, admissionVars
  <2>2. Notifying' = Notifying
    BY <2>1 DEF Notifying
  <2>3. QED
    BY <1>2, <2>1, <2>2 DEF NativeInvariant, WakesAreRemembered
<1>7. QED
  BY <1>4, <1>5, <1>6 DEF NativeInvariant

-----------------------------------------------------------------------------
(* The failure path.                                                       *)

(* The inbox is taken as it is, and the failure published with it.         *)
LEMMA WorkerFailStep ==
    ASSUME SchedulerInvariant, NativeInvariant, WorkerFail
    PROVE  NativeInvariant'
<1>1. /\ worker = "fail" /\ worker' = "draining"
      /\ admFailure' = TRUE /\ taken' = pending /\ pending' = << >>
      /\ phase = "idle" /\ phase' = "drain" /\ failure' = TRUE
      /\ UNCHANGED <<jobs, log, tally, signal, fence, delivering>>
      /\ UNCHANGED <<count, admBytes, last, wakeVars, rejecting, dropped,
                     callerVars, closing, acceptedVars>>
  BY DEF WorkerFail, TakeInbox, Fail, StartFail
<1>2. UNCHANGED <<order, total, signalled, pipe, caller, waitFor, mark>>
  BY <1>1 DEF acceptedVars, wakeVars, callerVars
<1>3. taken = << >> /\ LeftInbox = Len(log)
  BY <1>1 DEF NativeInvariant, WorkerMatchesPhase
<1>4. /\ Len(taken) = 0 /\ Len(pending') = 0 /\ Len(pending) \in Nat
      /\ Len(order) \in Nat /\ Len(jobs) \in Nat
  BY <1>1, <1>3, EmptyLength, NativeFacts
<1>5. LeftInbox' = LeftInbox
  BY <1>1, <1>2, <1>4 DEF LeftInbox
<1>6. NativeTypeOK'
  <2>1. pending' \in Seq(Streams)
    BY <1>1
  <2>2. QED
    BY <1>1, <1>2, <2>1 DEF NativeInvariant, NativeTypeOK
<1>7. OrderSplits'
  <2>1. \A i \in 1..Len(taken') : taken'[i] = order'[LeftInbox' + i]
    BY <1>1, <1>2, <1>5 DEF NativeInvariant, OrderSplits
  <2>2. \A i \in 1..Len(pending') : pending'[i] = order'[LeftInbox' + i]
    BY <1>4
  <2>3. QED
    BY <1>1, <1>2, <1>5, <2>1, <2>2 DEF NativeInvariant, OrderSplits
<1>8. RejectionsReported'
  <2>1. rejecting = NoStream
    BY <1>1 DEF NativeInvariant, RejectionsReported
  <2>2. QED
    BY <1>1, <1>2, <1>5, <2>1 DEF NativeInvariant, RejectionsReported
<1>9. WorkerMatchesPhase'
  BY <1>1, <1>3, <1>5 DEF WorkerMatchesPhase
<1>10. FailureIsShared'
  BY <1>1 DEF FailureIsShared
<1>11. BytesMatchReservations'
  BY <1>1, <1>2 DEF NativeInvariant, BytesMatchReservations
<1>12. ReservationsCoverStreams'
  <2>1. count' = Len(pending') + Len(jobs') + Len(taken')
    BY <1>1, <1>4, NativeFacts
  <2>2. QED
    BY <1>1, <2>1 DEF NativeInvariant, ReservationsCoverStreams
<1>13. WaitersKnowTheirStream' /\ WaitIdleDrains'
  <2>1. [SchedulerNext]_schedulerVars
    BY DEF WorkerFail, SchedulerNext
  <2>2. count' # 0 => last' = order[Len(order)]
    BY <1>1 DEF NativeInvariant, WaitersKnowTheirStream
  <2>3. QED
    BY <1>1, <2>1, <2>2, CallersKept
<1>14. WakesAreRemembered'
  BY <1>1, WakesKept
<1>15. QED
  BY <1>6, <1>7, <1>8, <1>9, <1>10, <1>11, <1>12, <1>13, <1>14
  DEF NativeInvariant

LEMMA WorkerDrainsStep ==
    ASSUME SchedulerInvariant, NativeInvariant, WorkerDrains
    PROVE  NativeInvariant'
<1>1. /\ worker = "draining" /\ phase = "drain" /\ admFailure /\ failure
      /\ pending = << >>
      /\ UNCHANGED <<pending, wakeVars, taken, rejecting, dropped, callerVars,
                     closing, acceptedVars>>
  BY DEF WorkerDrains, NativeInvariant, WorkerMatchesPhase, FailureIsShared
<1>2. CASE DrainFront /\ FinishSignal(Head(jobs), TRUE) /\ UNCHANGED worker
  BY <1>1, <1>2, FinishStep DEF workerVars
<1>3. CASE /\ Deliver \/ DrainDone
           /\ worker' = IF phase' = "idle" THEN "reject" ELSE "draining"
           /\ UNCHANGED <<count, admBytes, last, admFailure>>
  <2>1. /\ UNCHANGED <<jobs, log, tally, failure>>
        /\ UNCHANGED admissionVars
        /\ [SchedulerNext]_schedulerVars
        /\ phase' \in {"drain", "idle"}
        /\ worker' \in {"reject", "draining"}
    BY <1>1, <1>3 DEF Deliver, DrainDone, SchedulerNext, AdvanceStep,
                      admissionVars
  <2>2. rejecting = NoStream
    BY <1>1 DEF NativeInvariant, RejectionsReported
  <2>3. /\ OrderSplits' /\ RejectionsReported' /\ BytesMatchReservations'
        /\ ReservationsCoverStreams' /\ WaitersKnowTheirStream'
        /\ WaitIdleDrains' /\ LeftInbox' = LeftInbox /\ NativeTypeOK'
    BY <1>1, <2>1, <2>2, QueueKept
  <2>4. LeftInbox' = Len(log')
    BY <1>1, <2>1, <2>3 DEF NativeInvariant, WorkerMatchesPhase
  <2>5. WorkerMatchesPhase'
    BY <1>1, <1>3, <2>1, <2>4 DEF WorkerMatchesPhase
  <2>6. FailureIsShared'
    BY <1>1, <1>3, <2>1 DEF FailureIsShared
  <2>7. WakesAreRemembered'
    BY <1>1, <2>1, WakesKept
  <2>8. QED
    BY <2>3, <2>5, <2>6, <2>7 DEF NativeInvariant
<1>4. QED
  BY <1>2, <1>3 DEF WorkerDrains

(* By then the worker's queue is empty, so the oldest stream with a        *)
(* reservation is the front of what was taken from the inbox.              *)
LEMMA RejectFrontStep ==
    ASSUME SchedulerInvariant, NativeInvariant, RejectFront
    PROVE  NativeInvariant'
<1>1. /\ worker = "reject" /\ rejecting = NoStream /\ taken # << >>
      /\ count' = count - 1
      /\ admBytes' = admBytes - Bytes[Head(taken)]
      /\ last' = IF count = 1 THEN NoStream ELSE last
      /\ admFailure' = TRUE
      /\ rejecting' = Head(taken) /\ taken' = Tail(taken)
      /\ UNCHANGED <<pending, wakeVars, worker, dropped, schedulerVars,
                     callerVars, closing, acceptedVars>>
  BY DEF RejectFront, FinishSignal, WorkerControl
<1>2. UNCHANGED <<jobs, log, tally, signal, phase, failure, delivering, order,
                  total, signalled, pipe, caller, waitFor, mark>>
  BY <1>1 DEF schedulerVars, acceptedVars, wakeVars, callerVars
<1>3. /\ Head(taken) = taken[1] /\ Head(taken) \in Streams
      /\ Len(taken) > 0 /\ Len(taken) \in Nat
      /\ taken' \in Seq(Streams) /\ Len(taken') = Len(taken) - 1
      /\ \A i \in 1..Len(taken') : taken'[i] = taken[i + 1]
  BY <1>1, TailFacts, NativeFacts
<1>4. admFailure /\ failure /\ phase = "idle" /\ pending = << >> /\ jobs = << >>
  <2>1. admFailure /\ phase # "drain" /\ pending = << >>
        /\ phase \in {"idle", "retire", "dispatch", "drain"}
    BY <1>1 DEF NativeInvariant, WorkerMatchesPhase, SchedulerInvariant, TypeOK
  <2>2. failure
    BY <2>1 DEF NativeInvariant, FailureIsShared
  <2>3. phase = "idle"
    BY <1>1 DEF NativeInvariant, WorkerMatchesPhase
  <2>4. QED
    BY <2>1, <2>2, <2>3 DEF SchedulerInvariant, PoisonIsFinal
<1>5. /\ Len(pending) = 0 /\ Len(jobs) = 0
      /\ count = Len(taken) /\ LeftInbox + Len(taken) = Len(order)
      /\ LeftInbox \in Nat /\ Len(order) \in Nat /\ Len(log) \in Nat
      /\ Len(log) <= LeftInbox
  <2>1. Len(pending) = 0 /\ Len(jobs) = 0
    BY <1>4, EmptyLength
  <2>2. QED
    BY <2>1, NativeFacts
<1>6. LeftInbox' = LeftInbox + 1
  <2>1. LeftInbox' = Len(order) - 0 - (Len(taken) - 1)
    BY <1>1, <1>2, <1>3, <1>5 DEF LeftInbox
  <2>2. /\ LeftInbox \in Nat /\ Len(taken) \in Nat
        /\ Len(order) = LeftInbox + Len(taken)
    BY <1>3, <1>5
  <2>3. QED
    BY <2>1, <2>2
<1>7. /\ Head(taken) = order[LeftInbox + 1]
      /\ LeftInbox + 1 \in 1..Len(order)
  <2>1. taken[1] = order[LeftInbox + 1]
    BY <1>3 DEF NativeInvariant, OrderSplits
  <2>2. QED
    BY <1>3, <1>5, <2>1
<1>8. /\ total[LeftInbox + 2] = total[LeftInbox + 1] + Bytes[Head(taken)]
      /\ total[LeftInbox + 1] \in Nat /\ Bytes[Head(taken)] \in Nat
      /\ total[LeftInbox + 2] \in Nat /\ total[Len(order) + 1] \in Nat
      /\ total[LeftInbox + 2] <= total[Len(order) + 1]
      /\ admBytes = total[Len(order) + 1] - total[LeftInbox + 1]
  <2>1. /\ (LeftInbox + 1) + 1 = LeftInbox + 2
        /\ LeftInbox + 1 \in 1..(Len(order) + 1)
        /\ LeftInbox + 2 \in 1..(Len(order) + 1)
        /\ Len(order) + 1 \in 1..(Len(order) + 1)
        /\ LeftInbox + 2 <= Len(order) + 1
        /\ Len(order) + 1 - count = LeftInbox + 1
    <3>1. /\ Len(taken) \in Nat /\ Len(taken) > 0 /\ LeftInbox \in Nat
          /\ count = Len(taken) /\ Len(order) = LeftInbox + Len(taken)
      BY <1>3, <1>5
    <3>2. QED
      BY <3>1
  <2>2. total[LeftInbox + 2] = total[LeftInbox + 1] + Bytes[Head(taken)]
    BY <1>7, <2>1 DEF NativeInvariant, BytesMatchReservations
  <2>3. /\ total[LeftInbox + 1] \in Nat /\ Bytes[Head(taken)] \in Nat
        /\ total[LeftInbox + 2] \in Nat /\ total[Len(order) + 1] \in Nat
    BY <1>7, <2>1, NativeFacts
  <2>4. total[LeftInbox + 2] <= total[Len(order) + 1]
    BY <2>1 DEF NativeInvariant, BytesMatchReservations
  <2>5. admBytes = total[Len(order) + 1] - total[LeftInbox + 1]
    <3>1. admBytes = total[Len(order) + 1] - total[Len(order) + 1 - count]
      BY DEF NativeInvariant, BytesMatchReservations
    <3>2. QED
      BY <2>1, <3>1
  <2>6. QED
    BY <2>2, <2>3, <2>4, <2>5
<1>9. /\ admBytes' = total[Len(order) + 1] - total[LeftInbox + 2]
      /\ admBytes' \in Nat /\ admBytes' <= admBytes
  <2>1. admBytes' = admBytes - Bytes[Head(taken)]
    BY <1>1
  <2>2. /\ total[LeftInbox + 2] = total[LeftInbox + 1] + Bytes[Head(taken)]
        /\ total[LeftInbox + 1] \in Nat /\ Bytes[Head(taken)] \in Nat
        /\ total[LeftInbox + 2] \in Nat /\ total[Len(order) + 1] \in Nat
        /\ total[LeftInbox + 2] <= total[Len(order) + 1]
        /\ admBytes = total[Len(order) + 1] - total[LeftInbox + 1]
    BY <1>8
  <2>3. admBytes' = total[Len(order) + 1] - total[LeftInbox + 2]
    BY <2>1, <2>2
  <2>4. admBytes' \in Nat
    BY <2>2, <2>3
  <2>5. admBytes' <= admBytes
    BY <2>2, <2>3
  <2>6. QED
    BY <2>3, <2>4, <2>5
<1>10. NativeTypeOK'
  <2>1. count' \in Nat
    BY <1>1, <1>3, <1>5
  <2>2. last' \in Streams \cup {NoStream}
    BY <1>1 DEF NativeInvariant, NativeTypeOK
  <2>3. /\ admBytes' \in Nat /\ admFailure' \in BOOLEAN
        /\ rejecting' \in Streams \cup {NoStream}
        /\ taken' \in Seq(Streams)
    BY <1>1, <1>3, <1>9
  <2>4. QED
    BY <1>1, <1>2, <2>1, <2>2, <2>3 DEF NativeInvariant, NativeTypeOK
<1>11. OrderSplits'
  <2>1. \A i \in 1..Len(taken') : taken'[i] = order[LeftInbox' + i]
    <3>1. SUFFICES ASSUME NEW i \in 1..Len(taken')
                   PROVE  taken'[i] = order[LeftInbox' + i]
      OBVIOUS
    <3>2. taken'[i] = taken[i + 1] /\ i + 1 \in 1..Len(taken)
      BY <1>3
    <3>3. taken[i + 1] = order[LeftInbox + (i + 1)]
      BY <3>2 DEF NativeInvariant, OrderSplits
    <3>4. LeftInbox + (i + 1) = LeftInbox' + i
      BY <1>3, <1>5, <1>6
    <3>5. QED
      BY <3>2, <3>3, <3>4
  <2>2. \A i \in 1..Len(pending') : pending'[i] = order[LeftInbox' + i]
    BY <1>1, <1>5
  <2>3. Len(log) <= LeftInbox' /\ pending' = << >>
    BY <1>1, <1>4, <1>5, <1>6
  <2>4. QED
    BY <1>2, <2>1, <2>2, <2>3 DEF NativeInvariant, OrderSplits
<1>12. RejectionsReported'
  <2>1. \A s \in dropped : \E i \in (Len(log) + 1)..LeftInbox : order[i] = s
    BY DEF NativeInvariant, RejectionsReported
  <2>2. \A i \in (Len(log) + 1)..LeftInbox : order[i] \in dropped
    <3>1. SUFFICES ASSUME NEW i \in (Len(log) + 1)..LeftInbox
                   PROVE  order[i] \in dropped
      OBVIOUS
    <3>2. i \in 1..Len(order)
      BY <1>3, <1>5
    <3>3. order[i] # NoStream
      BY <3>2, NativeFacts
    <3>4. QED
      BY <1>1, <3>3 DEF NativeInvariant, RejectionsReported
  <2>3. rejecting' \notin dropped
    <3>1. SUFFICES ASSUME Head(taken) \in dropped PROVE FALSE
      BY <1>1
    <3>2. PICK i \in (Len(log) + 1)..LeftInbox : order[i] = Head(taken)
      BY <2>1, <3>1
    <3>3. i \in 1..Len(order) /\ i # LeftInbox + 1
      BY <1>3, <1>5
    <3>4. QED
      BY <1>7, <3>2, <3>3 DEF NativeInvariant, OrderSplits
  <2>4. \A i \in (Len(log) + 1)..(LeftInbox + 1) :
            i \in (Len(log) + 1)..LeftInbox \/ i = LeftInbox + 1
    BY <1>5
  <2>5. \A i \in (Len(log) + 1)..LeftInbox : i \in (Len(log) + 1)..(LeftInbox + 1)
    BY <1>5
  <2>6. LeftInbox + 1 > Len(log)
    BY <1>5
  <2>7. QED
    BY <1>1, <1>2, <1>6, <1>7, <2>1, <2>2, <2>3, <2>4, <2>5, <2>6
    DEF RejectionsReported
<1>13. WorkerMatchesPhase'
  BY <1>1, <1>2, <1>4 DEF WorkerMatchesPhase
<1>14. FailureIsShared'
  BY <1>1, <1>2, <1>4 DEF FailureIsShared
<1>15. BytesMatchReservations'
  <2>1. Len(order) + 1 - count' = LeftInbox + 2
    BY <1>1, <1>3, <1>5
  <2>2. admBytes' = total[Len(order) + 1] - total[Len(order) + 1 - count']
    BY <1>9, <2>1
  <2>3. QED
    BY <1>2, <2>2 DEF NativeInvariant, BytesMatchReservations
<1>16. ReservationsCoverStreams'
  <2>1. count' = Len(pending') + Len(jobs') + Len(taken')
    BY <1>1, <1>2, <1>3, <1>5
  <2>2. count' <= MaxSubmissions
    <3>1. count <= MaxSubmissions
      BY DEF NativeInvariant, ReservationsCoverStreams
    <3>2. QED
      BY <1>1, <1>3, <1>5, <3>1, SchedulerAssumption DEF SchedulerAssumption
  <2>3. admBytes' <= MaxPendingBytes \/ count' <= 1
    <3>1. admBytes <= MaxPendingBytes \/ count <= 1
      BY DEF NativeInvariant, ReservationsCoverStreams
    <3>2. admBytes \in Nat
      BY DEF NativeInvariant, NativeTypeOK
    <3>3. MaxPendingBytes \in Nat
      BY SchedulerAssumption DEF SchedulerAssumption
    <3>4. count \in Nat /\ count' <= count /\ count' \in Nat
      BY <1>1, <1>3, <1>5
    <3>5. admBytes' \in Nat /\ admBytes' <= admBytes
      BY <1>9
    <3>6. QED
      BY <3>1, <3>2, <3>3, <3>4, <3>5
  <2>4. count' = 0 <=> last' = NoStream
    <3>1. count # 0 /\ last # NoStream
      BY <1>3, <1>5 DEF NativeInvariant, ReservationsCoverStreams
    <3>2. QED
      BY <1>1, <1>3, <1>5, <3>1
  <2>5. count' = 0 => admBytes' = 0
    <3>1. count' = 0 => LeftInbox + 2 = Len(order) + 1
      BY <1>1, <1>3, <1>5
    <3>2. QED
      BY <1>8, <1>9, <3>1
  <2>6. QED
    BY <2>1, <2>2, <2>3, <2>4, <2>5 DEF ReservationsCoverStreams
<1>17. WaitersKnowTheirStream' /\ WaitIdleDrains'
  <2>1. count' # 0 => last' = order[Len(order)]
    BY <1>1, <1>3, <1>5 DEF NativeInvariant, WaitersKnowTheirStream
  <2>2. QED
    BY <1>1, <2>1, CallersKept
<1>18. WakesAreRemembered'
  BY <1>1, WakesKept
<1>19. QED
  BY <1>10, <1>11, <1>12, <1>13, <1>14, <1>15, <1>16, <1>17, <1>18
  DEF NativeInvariant

LEMMA RejectCompleteStep ==
    ASSUME SchedulerInvariant, NativeInvariant, RejectComplete
    PROVE  NativeInvariant'
<1>1. /\ worker = "reject" /\ rejecting # NoStream
      /\ dropped' = dropped \cup {rejecting} /\ rejecting' = NoStream
      /\ UNCHANGED <<admissionVars, wakeVars, worker, taken, schedulerVars,
                     callerVars, closing, acceptedVars>>
  BY DEF RejectComplete, WorkerControl
<1>2. UNCHANGED <<pending, count, admBytes, last, admFailure, jobs, log, tally,
                  signal, phase, failure, delivering, order, total, signalled,
                  pipe, caller, waitFor, mark>>
  BY <1>1 DEF admissionVars, schedulerVars, acceptedVars, wakeVars, callerVars
<1>3. LeftInbox' = LeftInbox
  BY <1>1, <1>2 DEF LeftInbox
<1>4. NativeTypeOK'
  <2>1. rejecting \in Streams
    BY <1>1 DEF NativeInvariant, NativeTypeOK
  <2>2. QED
    BY <1>1, <1>2, <2>1 DEF NativeInvariant, NativeTypeOK
<1>5. OrderSplits' /\ WorkerMatchesPhase' /\ FailureIsShared'
  BY <1>1, <1>2, <1>3
  DEF NativeInvariant, OrderSplits, WorkerMatchesPhase, FailureIsShared
<1>6. BytesMatchReservations' /\ ReservationsCoverStreams'
  BY <1>1, <1>2
  DEF NativeInvariant, BytesMatchReservations, ReservationsCoverStreams
<1>7. RejectionsReported'
  <2>1. /\ LeftInbox > Len(log) /\ rejecting = order[LeftInbox]
        /\ LeftInbox \in (Len(log) + 1)..LeftInbox
    <3>1. LeftInbox > Len(log) /\ rejecting = order[LeftInbox]
      BY <1>1 DEF NativeInvariant, RejectionsReported
    <3>2. LeftInbox \in Nat /\ Len(log) \in Nat
      BY NativeFacts
    <3>3. QED
      BY <3>1, <3>2
  <2>2. QED
    BY <1>1, <1>2, <1>3, <2>1 DEF NativeInvariant, RejectionsReported
<1>8. WaitersKnowTheirStream' /\ WaitIdleDrains'
  <2>1. count' # 0 => last' = order[Len(order)]
    BY <1>2 DEF NativeInvariant, WaitersKnowTheirStream
  <2>2. QED
    BY <1>1, <2>1, CallersKept
<1>9. WakesAreRemembered'
  BY <1>1, WakesKept
<1>10. QED
  BY <1>4, <1>5, <1>6, <1>7, <1>8, <1>9 DEF NativeInvariant

-----------------------------------------------------------------------------
(* The theorems.                                                           *)

LEMMA NativeStepInvariant ==
    ASSUME SchedulerInvariant, NativeInvariant, [NativeNext]_nativeVars
    PROVE  NativeInvariant'
<1>1. ASSUME NEW c \in Callers, CallerStep(c) PROVE NativeInvariant'
  <2>1. ASSUME NEW s \in Streams, Enqueue(c, s) PROVE NativeInvariant'
    BY <2>1, EnqueueNativeStep
  <2>2. CASE \/ NotifySwap(c)
             \/ \E outcome \in WriteOutcomes : NotifyWrite(c, outcome)
             \/ NotifyRetract(c)
    BY <2>2, NotifyStep
  <2>3. CASE WaitIdle(c) \/ IsIdle(c) \/ WaitReturns(c) \/ Resume(c)
    BY <2>3, WaitStep
  <2>4. CASE Drop(c)
    BY <2>4, DropStep
  <2>5. QED
    BY <1>1, <2>1, <2>2, <2>3, <2>4 DEF CallerStep
<1>2. CASE \/ WorkerErrs \/ WorkerStart \/ ConsumeRead \/ ConsumeClear
           \/ TransferDone \/ Check \/ Wake \/ RejectDone
  BY <1>2, WorkerLoopStep
<1>3. CASE Transfer
  BY <1>3, TransferStep
<1>4. CASE Advance
  BY <1>4, AdvanceNativeStep
<1>5. CASE AdvanceFinishes
  BY <1>5, FinishStep DEF AdvanceFinishes
<1>6. CASE WorkerFail
  BY <1>6, WorkerFailStep
<1>7. CASE WorkerDrains
  BY <1>7, WorkerDrainsStep
<1>8. CASE RejectFront
  BY <1>8, RejectFrontStep
<1>9. CASE RejectComplete
  BY <1>9, RejectCompleteStep
<1>10. CASE Gpu
  BY <1>10, GpuNativeStep
<1>11. CASE UNCHANGED nativeVars
  <2>1. UNCHANGED <<schedulerVars, admissionVars, wakeVars, workerVars,
                    callerVars, closing, acceptedVars>>
    BY <1>11 DEF nativeVars
  <2>2. UNCHANGED <<worker, pending, count, signalled, pipe, caller, waitFor,
                    mark>>
    BY <2>1 DEF workerVars, admissionVars, wakeVars, callerVars
  <2>3. /\ OrderSplits' /\ RejectionsReported' /\ WorkerMatchesPhase'
        /\ FailureIsShared' /\ BytesMatchReservations'
        /\ ReservationsCoverStreams'
    BY <2>1, QueueAlone
  <2>4. NativeTypeOK'
    BY <2>1
    DEF NativeInvariant, NativeTypeOK, admissionVars, wakeVars, workerVars,
        callerVars, acceptedVars
  <2>5. WaitersKnowTheirStream' /\ WaitIdleDrains'
    <3>1. count' # 0 => last' = order[Len(order)]
      BY <2>1 DEF NativeInvariant, WaitersKnowTheirStream, admissionVars
    <3>2. QED
      BY <2>1, <3>1, CallersKept
  <2>6. WakesAreRemembered'
    <3>1. Notifying' = Notifying
      BY <2>2 DEF Notifying
    <3>2. QED
      BY <2>1, <2>2, <3>1 DEF NativeInvariant, WakesAreRemembered
  <2>7. QED
    BY <2>3, <2>4, <2>5, <2>6 DEF NativeInvariant
<1>12. QED
  BY <1>1, <1>2, <1>3, <1>4, <1>5, <1>6, <1>7, <1>8, <1>9, <1>10, <1>11
  DEF NativeNext, WorkerStep

(* The scheduler is used as it demands: the invariant proved of it alone   *)
(* holds inside the queue, and with it the one of the queue.               *)
THEOREM NativeInvariantHolds ==
    NativeSpec => [](SchedulerInvariant /\ NativeInvariant)
<1>1. NativeInit => SchedulerInvariant /\ NativeInvariant
  BY InitInvariant, NativeInitInvariant DEF NativeInit
<1>2. ASSUME SchedulerInvariant /\ NativeInvariant, [NativeNext]_nativeVars
      PROVE  SchedulerInvariant' /\ NativeInvariant'
  <2>1. [SchedulerNext]_schedulerVars
    BY <1>2, SchedulerInside DEF NativeInvariant
  <2>2. SchedulerInvariant'
    BY <1>2, <2>1, StepInvariant
  <2>3. QED
    BY <1>2, <2>2, NativeStepInvariant
<1>3. QED
  BY <1>1, <1>2, PTL DEF NativeSpec

(* What the shared admission lets in, the worker's queue never refuses     *)
(* (Worker::run, "The shared admission already reserved capacity"): every  *)
(* conjunct of the invariant the run checks holds for any limits and any   *)
(* number of API threads.                                                  *)
THEOREM AdmissionSound == NativeSpec => []AdmissionInvariant
<1>1. SchedulerInvariant /\ NativeInvariant => AdmissionInvariant
  BY RoomInside DEF AdmissionInvariant
<1>2. QED
  BY <1>1, NativeInvariantHolds, PTL

(* is_idle and a successful wait_idle mean that the GPU has completed      *)
(* every stream accepted before the call looked, so that the caller may    *)
(* read back and detach resources.                                         *)
THEOREM IdleMeansDrained == NativeSpec => []WaitIdleDrains
<1>1. SchedulerInvariant /\ NativeInvariant => WaitIdleDrains
  BY DEF NativeInvariant
<1>2. QED
  BY <1>1, NativeInvariantHolds, PTL

(* Unless a write to the wake pipe is lost, the worker never sleeps on     *)
(* work, or on the end of the queue, without a wakeup on its way, for any  *)
(* number of notifiers and whatever else the writes answer: the 100 ms     *)
(* timeout of its poll is needed for lost writes only.                     *)
THEOREM NoWakeupLost ==
    ASSUME "lost" \notin WriteOutcomes
    PROVE  NativeSpec => []NoLostWakeup
<1>1. NativeInvariant => NoLostWakeup
  BY DEF NativeInvariant, WakesAreRemembered, NoLostWakeup, Notifying
<1>2. QED
  BY <1>1, NativeInvariantHolds, PTL

-----------------------------------------------------------------------------
(* The queue implements CompletionContract, as far as safety goes.         *)

(* The abstract state that a state of the queue stands for.                *)
Executed == {s \in Streams : Receipt(s) # "none" /\ StreamComplete(s)}
Receipts == [s \in Streams |-> Receipt(s)]

(* What the holders of receipts see of a step.                             *)
LEMMA ViewKept ==
    ASSUME UNCHANGED <<order, dropped, signal, fence>>
    PROVE  Executed' = Executed /\ Receipts' = Receipts
<1>1. \A s \in Streams : Receipt(s)' = Receipt(s)
  BY DEF Receipt, Settled
<1>2. \A s \in Streams : StreamComplete(s)' = StreamComplete(s)
  BY DEF StreamComplete
<1>3. QED
  BY <1>1, <1>2 DEF Executed, Receipts

LEMMA ViewSame ==
    ASSUME \A s \in Streams : Receipt(s)' = Receipt(s),
           \A s \in Streams : StreamComplete(s)' = StreamComplete(s)
    PROVE  Executed' = Executed /\ Receipts' = Receipts
  BY DEF Executed, Receipts

LEMMA ContractStutters ==
    ASSUME UNCHANGED <<order, admFailure>>,
           Executed' = Executed, Receipts' = Receipts
    PROVE  UNCHANGED Contract!contractVars
  BY DEF Contract!contractVars, Executed, Receipts

LEMMA ContractPoison ==
    ASSUME UNCHANGED order, admFailure' = TRUE,
           Executed' = Executed, Receipts' = Receipts
    PROVE  Contract!ContractNext
<1>1. Contract!Poison
  BY DEF Contract!Poison, Executed, Receipts
<1>2. QED
  BY <1>1 DEF Contract!ContractNext

LEMMA ContractReport ==
    ASSUME SchedulerInvariant, NativeInvariant,
           NEW k \in 1..Len(order), UNCHANGED <<order, admFailure>>,
           Receipt(order[k]) = "pending",
           \A h \in 1..(k - 1) : Receipt(order[h]) # "pending",
           NEW result \in {"ok", "err"},
           result = "ok" => ~admFailure /\ StreamComplete(order[k]),
           result = "err" => admFailure,
           Receipts' = [Receipts EXCEPT ![order[k]] = result],
           \A s \in Streams : StreamComplete(s)' = StreamComplete(s)
    PROVE  Contract!ContractNext
<1>1. order[k] \in Streams /\ \A h \in 1..(k - 1) : order[h] \in Streams
  <2>1. /\ Len(order) \in Nat
        /\ \A i \in 1..Len(order) : order[i] \in Streams
    BY NativeFacts
  <2>2. QED
    BY <2>1
<1>2. \A s \in Streams : Receipt(s)' # "none" <=> Receipt(s) # "none"
  <2>1. \A s \in Streams : Receipt(s)' = IF s = order[k] THEN result
                                         ELSE Receipt(s)
    BY <1>1 DEF Receipts
  <2>2. QED
    BY <2>1
<1>3. Executed' = Executed
  BY <1>2 DEF Executed
<1>4. Contract!IsOldest(order[k])
  BY <1>1 DEF Contract!IsOldest
<1>5. order[k] \in Executed \/ result = "err"
  BY <1>1 DEF Executed
<1>6. Contract!Report(order[k])
  BY <1>3, <1>4, <1>5 DEF Contract!Report, Executed, Receipts
<1>7. QED
  BY <1>1, <1>6 DEF Contract!ContractNext

(* A new stream has no receipt, and the contract accepts it.               *)
LEMMA EnqueueAccepts ==
    ASSUME SchedulerInvariant, NativeInvariant,
           NEW c \in Callers, NEW s \in Streams, Enqueue(c, s)
    PROVE  Contract!ContractNext
<1>1. /\ Receipt(s) = "none" /\ ~admFailure /\ order' = Append(order, s)
      /\ UNCHANGED <<schedulerVars, admFailure, workerVars>>
  BY DEF Enqueue
<1>2. UNCHANGED <<signal, fence, dropped, log>>
  BY <1>1 DEF schedulerVars, workerVars
<1>3. /\ \A i \in 1..Len(order) : order[i] # s
      /\ Len(order') = Len(order) + 1
      /\ \A i \in 1..Len(order) : order'[i] = order[i]
      /\ order'[Len(order) + 1] = s
      /\ Len(order) \in Nat
  BY EnqueueFacts, NativeFacts
<1>4. \A t \in Streams : StreamComplete(t)' = StreamComplete(t)
  BY <1>2 DEF StreamComplete
<1>5. Receipt(s)' = "pending"
  <2>1. s \notin dropped
    BY <1>1 DEF Receipt
  <2>2. ~Settled(s)
    <3>1. \A i \in 1..Len(log) : log[i] # s
      <4>1. \A i \in 1..Len(log) : i \in 1..Len(order) /\ order[i] = log[i]
        BY NativeLengths DEF NativeInvariant, OrderSplits
      <4>2. QED
        BY <1>3, <4>1
    <3>2. signal[s] = "none"
      BY <3>1 DEF SchedulerInvariant, SignalsMatchQueue
    <3>3. QED
      BY <3>2 DEF Settled
  <2>3. ~Settled(s)'
    BY <1>2, <2>2 DEF Settled
  <2>4. Len(order) + 1 \in 1..Len(order')
    BY <1>3
  <2>5. QED
    BY <1>2, <1>3, <2>1, <2>3, <2>4 DEF Receipt
<1>6. \A t \in Streams : t # s => Receipt(t)' = Receipt(t)
  <2>1. SUFFICES ASSUME NEW t \in Streams, t # s
                 PROVE  Receipt(t)' = Receipt(t)
    OBVIOUS
  <2>2. (\A i \in 1..Len(order') : order'[i] # t)
            <=> (\A i \in 1..Len(order) : order[i] # t)
    <3>1. \A i \in 1..Len(order') : i \in 1..Len(order) \/ i = Len(order) + 1
      BY <1>3
    <3>2. 1..Len(order) \subseteq 1..Len(order')
      BY <1>3
    <3>3. QED
      BY <1>3, <2>1, <3>1, <3>2
  <2>3. Settled(t)' = Settled(t)
    BY <1>2 DEF Settled
  <2>4. QED
    BY <1>2, <2>2, <2>3 DEF Receipt
<1>7. Receipts' = [Receipts EXCEPT ![s] = "pending"]
  BY <1>5, <1>6 DEF Receipts
<1>8. Executed' \in {Executed, Executed \cup {s}}
  <2>1. s \notin Executed
    BY <1>1 DEF Executed
  <2>2. \A t \in Streams : t # s => (t \in Executed' <=> t \in Executed)
    BY <1>4, <1>6 DEF Executed
  <2>3. Executed \subseteq Streams /\ Executed' \subseteq Streams
    BY DEF Executed
  <2>4. CASE s \in Executed'
    <3>1. Executed' = Executed \cup {s}
      BY <2>2, <2>3, <2>4
    <3>2. QED
      BY <3>1
  <2>5. CASE s \notin Executed'
    <3>1. Executed' = Executed
      BY <2>1, <2>2, <2>3, <2>5
    <3>2. QED
      BY <3>1
  <2>6. QED
    BY <2>4, <2>5
<1>9. Contract!Accept(s)
  BY <1>1, <1>7, <1>8 DEF Contract!Accept, Executed, Receipts
<1>10. QED
  BY <1>9 DEF Contract!ContractNext

(* Transport::complete reports the oldest stream that is not reported.     *)
LEMMA DeliverReports ==
    ASSUME SchedulerInvariant, NativeInvariant, Deliver,
           UNCHANGED <<order, admFailure, dropped>>
    PROVE  Contract!ContractNext
<1>1. /\ delivering # NoStream
      /\ signal' = [signal EXCEPT ![delivering] =
                        IF phase = "drain" THEN "err" ELSE "ok"]
      /\ UNCHANGED fence
  BY DEF Deliver
<1>2. /\ phase \in {"retire", "drain"} /\ Left > 0 /\ delivering = log[Left]
      /\ ~Settled(delivering)
  BY <1>1 DEF SchedulerInvariant, SignalsMatchQueue
<1>3. /\ Left \in 1..Len(log) /\ Left \in 1..Len(order)
      /\ Len(log) \in Nat /\ Len(order) \in Nat
      /\ Len(log) <= Len(order) /\ Left \in Nat
  BY <1>2, NativeLengths
<1>4. delivering = order[Left] /\ delivering \in Streams
  BY <1>2, <1>3, NativeFacts DEF NativeInvariant, OrderSplits
(* The streams reported from the inbox came later.                         *)
<1>5. \A h \in 1..Len(log) : order[h] \notin dropped
  <2>1. SUFFICES ASSUME NEW h \in 1..Len(log), order[h] \in dropped PROVE FALSE
    OBVIOUS
  <2>2. PICK i \in (Len(log) + 1)..LeftInbox : order[i] = order[h]
    BY <2>1 DEF NativeInvariant, RejectionsReported
  <2>3. i \in 1..Len(order) /\ h \in 1..Len(order) /\ i # h
    <3>1. LeftInbox \in Nat /\ LeftInbox <= Len(order)
      BY NativeLengths
    <3>2. QED
      BY <1>3, <3>1
  <2>4. QED
    BY <2>2, <2>3 DEF NativeInvariant, OrderSplits
<1>6. Receipt(order[Left]) = "pending"
  <2>1. delivering \notin dropped
    BY <1>3, <1>4, <1>5
  <2>2. QED
    BY <1>2, <1>3, <1>4, <2>1 DEF Receipt
<1>7. \A h \in 1..(Left - 1) : Receipt(order[h]) # "pending"
  <2>1. SUFFICES ASSUME NEW h \in 1..(Left - 1)
                 PROVE  Receipt(order[h]) # "pending"
    OBVIOUS
  <2>2. /\ h \in 1..Left /\ h # Left /\ h \in 1..Len(log)
        /\ h \in 1..Len(order)
    BY <1>3
  <2>3. order[h] = log[h]
    BY <2>2 DEF NativeInvariant, OrderSplits
  <2>4. Settled(order[h])
    BY <2>2, <2>3 DEF SchedulerInvariant, SignalsMatchQueue
  <2>5. QED
    BY <2>2, <2>4 DEF Receipt, Settled
<1>8. DEFINE result == IF phase = "drain" THEN "err" ELSE "ok"
<1>9. /\ result = "ok" => ~admFailure /\ StreamComplete(order[Left])
      /\ result = "err" => admFailure
  <2>1. CASE phase = "drain"
    BY <1>1, <2>1 DEF NativeInvariant, FailureIsShared
  <2>2. CASE phase = "retire"
    <3>1. ~failure
      BY <1>1, <2>2 DEF SchedulerInvariant, PoisonIsFinal
    <3>2. ~admFailure
      BY <3>1 DEF NativeInvariant, FailureIsShared
    <3>3. StreamComplete(delivering)
      BY <1>1, <2>2 DEF SchedulerInvariant, ReceiptsMatchFences
    <3>4. QED
      BY <1>4, <2>2, <3>2, <3>3
  <2>3. QED
    BY <1>2, <2>1, <2>2
<1>10. Receipts' = [Receipts EXCEPT ![order[Left]] = result]
  <2>1. signal \in [Streams -> {"none", "pending", "ok", "err"}]
    BY DEF SchedulerInvariant, TypeOK
  <2>2. \A s \in Streams : s # delivering => signal'[s] = signal[s]
    BY <1>1, <2>1
  <2>3. \A s \in Streams : Receipt(s)' = IF s = delivering THEN result
                                         ELSE Receipt(s)
    <3>1. SUFFICES ASSUME NEW s \in Streams
                   PROVE  Receipt(s)' = IF s = delivering THEN result
                                        ELSE Receipt(s)
      OBVIOUS
    <3>2. CASE s # delivering
      BY <2>2, <3>2 DEF Receipt, Settled
    <3>3. CASE s = delivering
      <4>1. signal'[s] = result
        BY <1>1, <2>1, <3>3
      <4>2. Settled(s)'
        BY <4>1 DEF Settled
      <4>3. s \notin dropped' /\ ~(\A i \in 1..Len(order') : order'[i] # s)
        BY <1>3, <1>4, <1>5, <3>3
      <4>4. QED
        BY <3>3, <4>1, <4>2, <4>3 DEF Receipt
    <3>4. QED
      BY <3>2, <3>3
  <2>4. QED
    BY <1>4, <2>3 DEF Receipts
<1>11. \A s \in Streams : StreamComplete(s)' = StreamComplete(s)
  BY <1>1 DEF StreamComplete
<1>12. result \in {"ok", "err"}
  OBVIOUS
<1>13. QED
  BY <1>3, <1>6, <1>7, <1>9, <1>10, <1>11, <1>12, ContractReport

(* The failure path reports what it took, oldest first, after everything   *)
(* the worker's scheduler was given.                                       *)
LEMMA RejectReports ==
    ASSUME SchedulerInvariant, NativeInvariant, RejectComplete
    PROVE  Contract!ContractNext
<1>1. /\ worker = "reject" /\ rejecting # NoStream
      /\ dropped' = dropped \cup {rejecting}
      /\ UNCHANGED <<signal, fence, order, admFailure>>
  BY DEF RejectComplete, WorkerControl, schedulerVars, acceptedVars,
         admissionVars
<1>2. /\ LeftInbox > Len(log) /\ rejecting = order[LeftInbox]
      /\ rejecting \notin dropped
  BY <1>1 DEF NativeInvariant, RejectionsReported
<1>3. /\ LeftInbox \in 1..Len(order) /\ LeftInbox \in Nat
      /\ Len(log) \in Nat /\ Len(order) \in Nat
  <2>1. /\ LeftInbox \in Nat /\ LeftInbox <= Len(order)
        /\ Len(log) \in Nat /\ Len(order) \in Nat
    BY NativeFacts
  <2>2. QED
    BY <1>2, <2>1
<1>4. admFailure /\ jobs = << >> /\ delivering = NoStream
  <2>1. admFailure /\ phase # "drain"
    BY <1>1 DEF NativeInvariant, WorkerMatchesPhase
  <2>2. failure
    BY <2>1 DEF NativeInvariant, FailureIsShared
  <2>3. QED
    BY <2>1, <2>2 DEF SchedulerInvariant, PoisonIsFinal
<1>5. Left = Len(log)
  <2>1. Len(jobs) = 0
    BY <1>4, EmptyLength
  <2>2. QED
    BY <2>1, NativeFacts
<1>6. signal[order[LeftInbox]] = "none"
  <2>1. order[LeftInbox] \in Streams
    BY <1>3, NativeFacts
  <2>2. \A i \in 1..Len(log) : log[i] # order[LeftInbox]
    <3>1. SUFFICES ASSUME NEW i \in 1..Len(log), log[i] = order[LeftInbox]
                   PROVE  FALSE
      OBVIOUS
    <3>2. order[i] = order[LeftInbox] /\ i \in 1..Len(order) /\ i # LeftInbox
      <4>1. i \in 1..Len(order) /\ i # LeftInbox
        <5>1. LeftInbox <= Len(order) /\ i <= Len(log) /\ i \in Nat /\ i > 0
          BY <1>3
        <5>2. QED
          BY <1>2, <1>3, <5>1
      <4>2. QED
        BY <3>1, <4>1 DEF NativeInvariant, OrderSplits
    <3>3. QED
      BY <1>3, <3>2 DEF NativeInvariant, OrderSplits
  <2>3. QED
    BY <2>1, <2>2 DEF SchedulerInvariant, SignalsMatchQueue
<1>7. Receipt(order[LeftInbox]) = "pending"
  BY <1>2, <1>3, <1>6 DEF Receipt, Settled
<1>8. \A h \in 1..(LeftInbox - 1) : Receipt(order[h]) # "pending"
  <2>1. SUFFICES ASSUME NEW h \in 1..(LeftInbox - 1)
                 PROVE  Receipt(order[h]) # "pending"
    OBVIOUS
  <2>2. CASE h \in 1..Len(log)
    <3>1. order[h] = log[h] /\ log[h] \in Streams
      BY <2>2, NativeLengths, NativeElements DEF NativeInvariant, OrderSplits
    <3>2. Settled(order[h])
      <4>1. Settled(log[h]) \/ delivering = log[h]
        BY <1>5, <2>2 DEF SchedulerInvariant, SignalsMatchQueue
      <4>2. log[h] # NoStream
        BY <3>1, NativeFacts
      <4>3. QED
        BY <1>4, <3>1, <4>1, <4>2
    <3>3. QED
      BY <3>2 DEF Receipt, Settled
  <2>3. CASE h \in (Len(log) + 1)..(LeftInbox - 1)
    <3>1. h \in (Len(log) + 1)..LeftInbox /\ h # LeftInbox
      BY <1>3, <2>3
    <3>2. order[h] \in dropped
      BY <3>1 DEF NativeInvariant, RejectionsReported
    <3>3. QED
      BY <3>2 DEF Receipt
  <2>4. QED
    BY <1>3, <2>2, <2>3
<1>9. Receipts' = [Receipts EXCEPT ![order[LeftInbox]] = "err"]
  <2>1. \A s \in Streams : Receipt(s)' = IF s = rejecting THEN "err"
                                         ELSE Receipt(s)
    <3>1. SUFFICES ASSUME NEW s \in Streams
                   PROVE  Receipt(s)' = IF s = rejecting THEN "err"
                                        ELSE Receipt(s)
      OBVIOUS
    <3>2. CASE s = rejecting
      BY <1>1, <3>2 DEF Receipt
    <3>3. CASE s # rejecting
      <4>1. s \in dropped' <=> s \in dropped
        BY <1>1, <3>3
      <4>2. QED
        BY <1>1, <3>3, <4>1 DEF Receipt, Settled
    <3>4. QED
      BY <3>2, <3>3
  <2>2. order[LeftInbox] \in Streams
    BY <1>3, NativeFacts
  <2>3. QED
    BY <1>2, <2>1, <2>2 DEF Receipts
<1>10. \A s \in Streams : StreamComplete(s)' = StreamComplete(s)
  BY <1>1 DEF StreamComplete
<1>11. QED
  BY <1>1, <1>3, <1>4, <1>7, <1>8, <1>9, <1>10, ContractReport

(* The device retires the last chunk of a stream, or any other chunk.      *)
LEMMA GpuExecutes ==
    ASSUME SchedulerInvariant, NativeInvariant, Gpu
    PROVE  Contract!ContractNext \/ UNCHANGED Contract!contractVars
<1>1. UNCHANGED <<order, admFailure, dropped, signal>>
  BY DEF Gpu, GpuStep, GpuRetires, GpuFails, FenceSettles, admissionVars,
         workerVars, acceptedVars
<1>2. PICK c \in Chunks, r \in {"complete", "failed"} :
          fence[c] = "pending" /\ fence' = [fence EXCEPT ![c] = r]
  BY DEF Gpu, GpuStep, GpuRetires, GpuFails, FenceSettles
<1>3. fence \in [Chunks -> {"none", "pending", "complete", "failed"}]
  BY DEF SchedulerInvariant, TypeOK
<1>4. c[1] \in Streams
  BY ChunkFacts
<1>5. \A s \in Streams : Receipt(s)' = Receipt(s)
  BY <1>1 DEF Receipt, Settled
<1>6. Receipts' = Receipts
  BY <1>5 DEF Receipts
<1>7. \A s \in Streams : s # c[1] => StreamComplete(s)' = StreamComplete(s)
  <2>1. SUFFICES ASSUME NEW s \in Streams, s # c[1]
                 PROVE  StreamComplete(s)' = StreamComplete(s)
    OBVIOUS
  <2>2. \A d \in Chunks : d[1] = s => fence'[d] = fence[d]
    BY <1>2, <1>3, <2>1
  <2>3. QED
    BY <2>2 DEF StreamComplete
<1>8. ~StreamComplete(c[1])
  BY <1>2 DEF StreamComplete
<1>9. Receipt(c[1]) # "none"
  <2>1. /\ c[2] \in Nat /\ c[2] > 0 /\ next[c[1]] \in Nat
        /\ c[2] <= next[c[1]]
    <3>1. Accepted(c)
      BY <1>2 DEF Accepted
    <3>2. c[2] <= next[c[1]]
      BY <3>1 DEF SchedulerInvariant, ReceiptsMatchFences
    <3>3. c[2] \in 1..ChunkCount(c[1]) /\ ChunkCount(c[1]) \in Nat
      BY <1>4, ChunkFacts
    <3>4. next[c[1]] \in Nat
      BY <1>4 DEF SchedulerInvariant, TypeOK
    <3>5. QED
      BY <3>2, <3>3, <3>4
  <2>2. signal[c[1]] # "none"
    <3>1. next[c[1]] # 0
      BY <2>1
    <3>2. QED
      BY <1>4, <3>1 DEF SchedulerInvariant, DispatchPrefix
  <2>3. PICK i \in 1..Len(log) : log[i] = c[1]
    BY <1>4, <2>2 DEF SchedulerInvariant, SignalsMatchQueue
  <2>4. order[i] = c[1] /\ i \in 1..Len(order)
    <3>1. Len(log) <= Len(order) /\ Len(order) \in Nat /\ Len(log) \in Nat
      BY NativeFacts
    <3>2. QED
      BY <2>3, <3>1 DEF NativeInvariant, OrderSplits
  <2>5. QED
    BY <2>2, <2>4 DEF Receipt
<1>10. CASE StreamComplete(c[1])'
  <2>1. Executed' = Executed \cup {c[1]}
    BY <1>4, <1>5, <1>7, <1>9, <1>10 DEF Executed
  <2>2. Contract!Execute(c[1])
    BY <1>1, <1>4, <1>6, <1>9, <2>1 DEF Contract!Execute, Executed, Receipts
  <2>3. QED
    BY <1>4, <2>2 DEF Contract!ContractNext
<1>11. CASE ~StreamComplete(c[1])'
  <2>1. Executed' = Executed
    BY <1>4, <1>5, <1>7, <1>8, <1>11 DEF Executed
  <2>2. QED
    BY <1>1, <1>6, <2>1, ContractStutters
<1>12. QED
  BY <1>10, <1>11

(* Chunks are dispatched without anybody's receipt noticing.               *)
LEMMA SubmitUnseen ==
    ASSUME SchedulerInvariant, NativeInvariant,
           NEW c \in Chunks, SubmitChunk(c), UNCHANGED <<order, dropped>>
    PROVE  Executed' = Executed /\ Receipts' = Receipts
<1>1. fence[c] = "none" /\ fence' = [fence EXCEPT ![c] = "pending"]
      /\ UNCHANGED signal
  BY SubmitChunkStep DEF SubmitChunk
<1>2. fence \in [Chunks -> {"none", "pending", "complete", "failed"}]
  BY DEF SchedulerInvariant, TypeOK
<1>3. \A d \in Chunks : fence'[d] = "complete" <=> fence[d] = "complete"
  BY <1>1, <1>2
<1>4. \A s \in Streams : StreamComplete(s)' = StreamComplete(s)
  BY <1>3 DEF StreamComplete
<1>5. \A s \in Streams : Receipt(s)' = Receipt(s)
  BY <1>1 DEF Receipt, Settled
<1>6. QED
  BY <1>4, <1>5, ViewSame

(* The worker's queue takes over a stream whose holder sees it pending     *)
(* already.                                                                *)
LEMMA TransferUnseen ==
    ASSUME SchedulerInvariant, NativeInvariant, Transfer
    PROVE  UNCHANGED Contract!contractVars
<1>1. /\ worker = "transfer" /\ pending # << >>
      /\ ~Refused(Head(pending))
  BY RoomInside DEF Transfer, TransferNeverRefused
<1>2. /\ EnqueuePrepared(Head(pending))
      /\ UNCHANGED <<admFailure, dropped, order>>
  BY <1>1 DEF Transfer, acceptedVars
<1>3. /\ signal[Head(pending)] = "none"
      /\ signal' = [signal EXCEPT ![Head(pending)] = "pending"]
      /\ UNCHANGED fence
  BY <1>2 DEF EnqueuePrepared
<1>4. signal \in [Streams -> {"none", "pending", "ok", "err"}]
  BY DEF SchedulerInvariant, TypeOK
<1>5. \A s \in Streams : Settled(s)' = Settled(s)
                         /\ (Settled(s) => signal'[s] = signal[s])
  BY <1>3, <1>4 DEF Settled
<1>6. \A s \in Streams : Receipt(s)' = Receipt(s)
  BY <1>2, <1>5 DEF Receipt
<1>7. \A s \in Streams : StreamComplete(s)' = StreamComplete(s)
  BY <1>3 DEF StreamComplete
<1>8. QED
  BY <1>2, <1>6, <1>7, ViewSame, ContractStutters

LEMMA ContractStep ==
    ASSUME SchedulerInvariant, NativeInvariant, [NativeNext]_nativeVars
    PROVE  Contract!ContractNext \/ UNCHANGED Contract!contractVars
<1>1. ASSUME NEW c \in Callers, NEW s \in Streams, Enqueue(c, s)
      PROVE  Contract!ContractNext
  BY <1>1, EnqueueAccepts
(* Everything that neither accepts, nor reports, nor executes, nor fails.  *)
<1>2. ASSUME UNCHANGED <<order, admFailure, dropped, signal, fence>>
      PROVE  UNCHANGED Contract!contractVars
  BY <1>2, ViewKept, ContractStutters
<1>3. ASSUME UNCHANGED <<order, dropped, signal, fence>>, admFailure' = TRUE
      PROVE  Contract!ContractNext
  BY <1>3, ViewKept, ContractPoison
<1>4. ASSUME NEW c \in Callers,
             \/ NotifySwap(c)
             \/ \E outcome \in WriteOutcomes : NotifyWrite(c, outcome)
             \/ NotifyRetract(c) \/ WaitIdle(c) \/ IsIdle(c)
             \/ WaitReturns(c) \/ Resume(c) \/ Drop(c)
      PROVE  UNCHANGED <<order, admFailure, dropped, signal, fence>>
  BY <1>4 DEF NotifySwap, NotifyWrite, NotifyRetract, WaitIdle, IsIdle,
              WaitReturns, Resume, Drop, schedulerVars, admissionVars,
              workerVars, acceptedVars
<1>5. ASSUME \/ WorkerErrs \/ WorkerStart \/ ConsumeRead \/ ConsumeClear
             \/ TransferDone \/ Check \/ Wake \/ RejectDone
      PROVE  UNCHANGED <<order, admFailure, dropped, signal, fence>>
  BY <1>5 DEF WorkerErrs, WorkerStart, ConsumeRead, ConsumeClear, TransferDone,
              Check, Wake, RejectDone, WorkerControl, schedulerVars,
              admissionVars, acceptedVars
<1>6. CASE Advance
  <2>1. UNCHANGED <<order, admFailure, dropped>>
    BY <1>6 DEF Advance, admissionVars, acceptedVars
  <2>2. CASE Deliver
    BY <2>1, <2>2, DeliverReports
  <2>3. CASE \E c \in Chunks : SubmitChunk(c)
    BY <2>1, <2>3, SubmitUnseen, ContractStutters
  <2>4. CASE \/ PollReceipts \/ RetireDone \/ DispatchDone \/ DrainDone
             \/ \E c \in Chunks : DispatchBlocked(c) \/ DispatchFails(c)
    <3>1. UNCHANGED <<signal, fence>>
      BY <2>4 DEF PollReceipts, RetireDone, DispatchDone, DrainDone,
                  DispatchBlocked, DispatchFails
    <3>2. QED
      BY <1>2, <2>1, <3>1
  <2>5. QED
    BY <1>6, <2>2, <2>3, <2>4 DEF Advance, AdvanceKeepsReservations
<1>7. CASE AdvanceFinishes
  <2>1. UNCHANGED <<order, dropped>>
    BY <1>7 DEF AdvanceFinishes, workerVars, acceptedVars
  <2>2. CASE RetireFront /\ FinishSignal(Head(jobs), FALSE)
    <3>1. UNCHANGED <<signal, fence, admFailure>>
      BY <2>2 DEF RetireFront, FinishSignal, NativeInvariant, NativeTypeOK
    <3>2. QED
      BY <1>2, <2>1, <3>1
  <2>3. CASE DrainFront /\ FinishSignal(Head(jobs), TRUE)
    <3>1. UNCHANGED <<signal, fence>> /\ admFailure' = TRUE
      BY <2>3 DEF DrainFront, FinishSignal
    <3>2. QED
      BY <1>3, <2>1, <3>1
  <2>4. QED
    BY <1>7, <2>2, <2>3 DEF AdvanceFinishes
<1>8. CASE WorkerFail
  <2>1. UNCHANGED <<order, dropped, signal, fence>> /\ admFailure' = TRUE
    BY <1>8 DEF WorkerFail, Fail, acceptedVars
  <2>2. QED
    BY <1>3, <2>1
<1>9. CASE WorkerDrains
  <2>1. UNCHANGED <<order, dropped>>
    BY <1>9 DEF WorkerDrains, acceptedVars
  <2>2. CASE DrainFront /\ FinishSignal(Head(jobs), TRUE)
    <3>1. UNCHANGED <<signal, fence>> /\ admFailure' = TRUE
      BY <2>2 DEF DrainFront, FinishSignal
    <3>2. QED
      BY <1>3, <2>1, <3>1
  <2>3. CASE Deliver /\ UNCHANGED admFailure
    BY <2>1, <2>3, DeliverReports
  <2>4. CASE DrainDone /\ UNCHANGED admFailure
    <3>1. UNCHANGED <<signal, fence>>
      BY <2>4 DEF DrainDone
    <3>2. QED
      BY <1>2, <2>1, <2>4, <3>1
  <2>5. QED
    BY <1>9, <2>2, <2>3, <2>4 DEF WorkerDrains
<1>10. CASE RejectFront
  <2>1. UNCHANGED <<order, dropped, signal, fence>> /\ admFailure' = TRUE
    BY <1>10 DEF RejectFront, FinishSignal, WorkerControl, schedulerVars,
                 acceptedVars
  <2>2. QED
    BY <1>3, <2>1
<1>11. CASE UNCHANGED nativeVars
  <2>1. UNCHANGED <<order, admFailure, dropped, signal, fence>>
    BY <1>11 DEF nativeVars, acceptedVars, admissionVars, workerVars,
                 schedulerVars
  <2>2. QED
    BY <1>2, <2>1
<1>12. QED
  BY <1>1, <1>2, <1>4, <1>5, <1>6, <1>7, <1>8, <1>9, <1>10, <1>11,
     TransferUnseen, RejectReports, GpuExecutes
  DEF NativeNext, CallerStep, WorkerStep

(* The queue implements the safety part of the completion contract: its    *)
(* inbox, the worker's queue and the failure paths together accept each    *)
(* stream once, report every accepted stream in order, Complete only when  *)
(* the GPU completed it and nothing failed before, and nothing but errors  *)
(* after a failure.  KeepsContract adds the liveness that TLC checks.      *)
THEOREM QueueKeepsContract ==
    NativeSpec =>
        Contract!ContractInit /\ [][Contract!ContractNext]_(Contract!contractVars)
<1>1. NativeInit => Contract!ContractInit
  <2>1. SUFFICES ASSUME NativeInit PROVE Contract!ContractInit
    OBVIOUS
  <2>2. order = << >> /\ Len(order) = 0 /\ dropped = {} /\ ~admFailure
    BY <2>1, EmptyLength DEF NativeInit
  <2>3. \A s \in Streams : Receipt(s) = "none"
    BY <2>2 DEF Receipt
  <2>4. QED
    BY <2>1, <2>2, <2>3 DEF Contract!ContractInit, NativeInit
<1>2. SchedulerInvariant /\ NativeInvariant /\ [NativeNext]_nativeVars
        => [Contract!ContractNext]_(Contract!contractVars)
  BY ContractStep
<1>3. QED
  BY <1>1, <1>2, NativeInvariantHolds, PTL DEF NativeSpec
=============================================================================
