------------------------------ MODULE Scheduler ------------------------------
(***************************************************************************)
(* The portable dispatch scheduler of sgfx-core                            *)
(* (crates/sgfx-core/src/backend/support/scheduler.rs): bounded logical    *)
(* admission of command streams, ordered native dispatch of their chunks,  *)
(* and ordered delivery of one result per stream.                          *)
(*                                                                         *)
(* The scheduler is private to one worker thread, so its operations run    *)
(* one after the other.  What interleaves with them is the transport: the  *)
(* GPU retires chunks at any time and in any order, and whoever holds a    *)
(* receipt sees a result as soon as the scheduler delivers it.  A call of  *)
(* advance is therefore several steps, one per visible transport call.     *)
(*                                                                         *)
(* A stream is one Job; its chunks are numbered from 1.  Only the total    *)
(* size of a stream matters, so Bytes gives the sum that Job::prepare      *)
(* computes (a sum that overflows usize is a size above MaxStreamBytes).   *)
(***************************************************************************)
EXTENDS Naturals, Sequences, FiniteSets

CONSTANTS
    Streams,          \* command streams, each submitted at most once
    Arenas,           \* upload staging arenas shared by chunks
    NoArena,          \* a chunk that stages nothing
    NoStream,         \* no stream
    ChunkArenas,      \* for each stream the arena of each of its chunks
    Bytes,            \* for each stream its size
    MaxSubmissions,   \* Limits::submissions
    MaxPendingBytes,  \* Limits::pending_bytes
    MaxStreamBytes,   \* Limits::stream_bytes
    MaxInFlight       \* Limits::in_flight

(* Limits::validate: every limit is positive.  NoArena and NoStream are     *)
(* markers, not members of the sets they complete.                         *)
ASSUME SchedulerAssumption ==
    /\ MaxSubmissions \in Nat \ {0}
    /\ MaxPendingBytes \in Nat \ {0}
    /\ MaxStreamBytes \in Nat \ {0}
    /\ MaxInFlight \in Nat \ {0}
    /\ NoArena \notin Arenas
    /\ NoStream \notin Streams
    /\ ChunkArenas \in [Streams -> Seq(Arenas \cup {NoArena})]
    /\ Bytes \in [Streams -> Nat]

ChunkCount(s) == Len(ChunkArenas[s])

(* The chunks of all streams; the arena a chunk stages its uploads in.     *)
Chunks == UNION {{<<s, k>> : k \in 1..ChunkCount(s)} : s \in Streams}
NoChunk == <<NoStream, 0>>
ArenaOf(c) == ChunkArenas[c[1]][c[2]]

VARIABLES
    jobs,        \* Scheduler::jobs: the admitted, unretired streams, oldest first
    bytes,       \* Scheduler::bytes
    failure,     \* Scheduler::failure is Some
    next,        \* Job::next of each stream: how many chunks were accepted
    receipts,    \* the unretired receipts of all jobs
    phase,       \* where the current call of the scheduler stands
    delivering,  \* stream whose Transport::complete call is under way
    progressed,  \* the result of advance
    log,         \* every stream ever admitted, in order (history)
    tally,       \* tally[n + 1]: size of the first n streams of log (history)
    signal,      \* the result each receipt holder sees
    fence,       \* GPU state of every chunk (external)
    arenaUse     \* UploadArena::completion: last chunk that used the arena

schedulerVars == <<jobs, bytes, failure, next, receipts, phase, delivering,
                   progressed, log, tally, signal, fence, arenaUse>>

-----------------------------------------------------------------------------
(* Admission.                                                              *)

(* The Busy condition of enqueue_prepared: a full queue, or a stream that  *)
(* does not fit beside what is already held.  An empty queue admits any    *)
(* stream up to MaxStreamBytes, which then stays alone.                    *)
QueueBusy(s) ==
    \/ Len(jobs) >= MaxSubmissions
    \/ /\ jobs # << >>
       /\ \/ Bytes[s] > MaxPendingBytes
          \/ bytes + Bytes[s] > MaxPendingBytes

Refused(s) ==
    \/ failure
    \/ Bytes[s] > MaxStreamBytes
    \/ QueueBusy(s)

(* Publication: the job joins the back of the queue.                       *)
Publish(s) ==
    /\ jobs' = Append(jobs, s)
    /\ bytes' = bytes + Bytes[s]
    /\ log' = Append(log, s)
    /\ tally' = Append(tally, tally[Len(tally)] + Bytes[s])

(* enqueue_prepared: a refused job changes nothing.                        *)
EnqueuePrepared(s) ==
    /\ phase = "idle"
    /\ signal[s] = "none"
    /\ ~Refused(s)
    /\ Publish(s)
    /\ signal' = [signal EXCEPT ![s] = "pending"]
    /\ UNCHANGED <<failure, next, receipts, phase, delivering, progressed,
                   fence, arenaUse>>

-----------------------------------------------------------------------------
(* Failure and delivery.                                                   *)

(* fail: poison the scheduler, then drain every job with the error.        *)
StartFail ==
    /\ failure' = TRUE
    /\ progressed' = TRUE
    /\ phase' = "drain"

Fail ==
    /\ phase = "idle"
    /\ StartFail
    /\ UNCHANGED <<jobs, bytes, next, receipts, delivering, log, tally, signal,
                   fence, arenaUse>>

(* Mutant: the front job leaves without its signal being completed.        *)
MutantDropFront ==
    /\ jobs # << >>
    /\ delivering = NoStream
    /\ delivering' = NoStream
    /\ jobs' = Tail(jobs)

(* The front job leaves the queue; its signal is completed next.           *)
TakeFront ==
    /\ jobs # << >>
    /\ delivering = NoStream
    /\ delivering' = Head(jobs)
    /\ jobs' = Tail(jobs)

ReceiptsOf(s) == {c \in receipts : c[1] = s}

DrainFront ==
    /\ phase = "drain"
    /\ TakeFront
    /\ receipts' = receipts \ ReceiptsOf(Head(jobs))
    /\ UNCHANGED <<bytes, failure, next, phase, progressed, log, tally, signal,
                   fence, arenaUse>>

DrainDone ==
    /\ phase = "drain"
    /\ delivering = NoStream
    /\ jobs = << >>
    /\ bytes' = 0
    /\ phase' = "idle"
    /\ UNCHANGED <<jobs, failure, next, receipts, delivering, progressed,
                   log, tally, signal, fence, arenaUse>>

(* Transport::complete: the receipt holder sees the result.                *)
Deliver ==
    /\ delivering # NoStream
    /\ signal' = [signal EXCEPT ![delivering] =
                    IF phase = "drain" THEN "err" ELSE "ok"]
    /\ delivering' = NoStream
    /\ UNCHANGED <<jobs, bytes, failure, next, receipts, phase, progressed,
                   log, tally, fence, arenaUse>>

-----------------------------------------------------------------------------
(* advance.                                                                *)

(* The polling pass.  Receipts of retired chunks leave the poll set in any *)
(* order; a failed one fails the scheduler.  The pass is one step: GPU     *)
(* completions are independent of each other, so polling receipts one by   *)
(* one reaches no other state.                                             *)
PollReceipts ==
    /\ phase = "idle"
    /\ IF \E c \in receipts : fence[c] = "failed"
       THEN StartFail /\ UNCHANGED receipts
       ELSE /\ receipts' = {c \in receipts : fence[c] # "complete"}
            /\ progressed' = (receipts' # receipts)
            /\ phase' = "retire"
            /\ UNCHANGED failure
    /\ UNCHANGED <<jobs, bytes, next, delivering, log, tally, signal, fence,
                   arenaUse>>

(* Mutant: a job with undispatched chunks retires.                         *)
MutantRetirable(s) == ReceiptsOf(s) = {}

(* A job retires when all its chunks were dispatched and none is pending.  *)
Retirable(s) == next[s] = ChunkCount(s) /\ ReceiptsOf(s) = {}

RetireFront ==
    /\ phase = "retire"
    /\ TakeFront
    /\ Retirable(Head(jobs))
    /\ bytes' = bytes - Bytes[Head(jobs)]
    /\ progressed' = TRUE
    /\ UNCHANGED <<failure, next, receipts, phase, log, tally, signal, fence,
                   arenaUse>>

RetireDone ==
    /\ phase = "retire"
    /\ delivering = NoStream
    /\ jobs # << >> => ~Retirable(Head(jobs))
    /\ phase' = "dispatch"
    /\ UNCHANGED <<jobs, bytes, failure, next, receipts, delivering,
                   progressed, log, tally, signal, fence, arenaUse>>

(* The next chunk to dispatch: the first undispatched chunk of the first   *)
(* job that has one.                                                       *)
Undispatched(i) == next[jobs[i]] < ChunkCount(jobs[i])

(* Mutant: a later job passes one that still has chunks to dispatch.       *)
MutantIsNextChunk(c) ==
    \E i \in 1..Len(jobs) :
        Undispatched(i) /\ c = <<jobs[i], next[jobs[i]] + 1>>

IsNextChunk(c) ==
    \E i \in 1..Len(jobs) :
        /\ Undispatched(i)
        /\ \A h \in 1..(i - 1) : ~Undispatched(h)
        /\ c = <<jobs[i], next[jobs[i]] + 1>>

(* Transport::ready: the previous user of the chunk's arena has retired.   *)
PreviousUse(c) == IF ArenaOf(c) = NoArena THEN NoChunk ELSE arenaUse[ArenaOf(c)]

(* Mutant: the arena is taken over while its previous user is in flight.   *)
MutantReady(c) == PreviousUse(c) # NoChunk => fence[PreviousUse(c)] # "failed"

Ready(c) == PreviousUse(c) # NoChunk => fence[PreviousUse(c)] = "complete"
ReadyFails(c) == PreviousUse(c) # NoChunk /\ fence[PreviousUse(c)] = "failed"

(* Mutant: off by one.                                                     *)
MutantInFlightFull == Cardinality(receipts) > MaxInFlight

InFlightFull == Cardinality(receipts) >= MaxInFlight

(* Mutant: the chunk stays the next one after it was accepted.             *)
MutantRecordReceipt(c) ==
    /\ receipts' = receipts \cup {c}
    /\ next' = next

RecordReceipt(c) ==
    /\ receipts' = receipts \cup {c}
    /\ next' = [next EXCEPT ![c[1]] = c[2]]

(* Transport::submit accepts the chunk.                                    *)
SubmitChunk(c) ==
    /\ phase = "dispatch"
    /\ IsNextChunk(c)
    /\ ~InFlightFull
    /\ Ready(c)
    /\ fence' = [fence EXCEPT ![c] = "pending"]
    /\ arenaUse' = IF ArenaOf(c) = NoArena THEN arenaUse
                   ELSE [arenaUse EXCEPT ![ArenaOf(c)] = c]
    /\ RecordReceipt(c)
    /\ progressed' = TRUE
    /\ UNCHANGED <<jobs, bytes, failure, phase, delivering, log, tally, signal>>

(* Every return of the dispatch loop that leaves the exact next chunk in   *)
(* place: the in-flight budget is used up, the arena is still in use, or   *)
(* the transport answers Busy.                                             *)
DispatchBlocked(c) ==
    /\ phase = "dispatch"
    /\ IsNextChunk(c)
    /\ InFlightFull \/ ~ReadyFails(c)
    /\ phase' = "idle"
    /\ UNCHANGED <<jobs, bytes, failure, next, receipts, delivering,
                   progressed, log, tally, signal, fence, arenaUse>>

(* ready or submit reports an error.                                       *)
DispatchFails(c) ==
    /\ phase = "dispatch"
    /\ IsNextChunk(c)
    /\ ~InFlightFull
    /\ Ready(c) \/ ReadyFails(c)
    /\ StartFail
    /\ UNCHANGED <<jobs, bytes, next, receipts, delivering, log, tally, signal,
                   fence, arenaUse>>

DispatchDone ==
    /\ phase = "dispatch"
    /\ \A i \in 1..Len(jobs) : ~Undispatched(i)
    /\ phase' = "idle"
    /\ UNCHANGED <<jobs, bytes, failure, next, receipts, delivering,
                   progressed, log, tally, signal, fence, arenaUse>>

-----------------------------------------------------------------------------
(* The GPU (external): an accepted chunk retires or fails, in any order.   *)

FenceSettles(c, result) ==
    /\ fence[c] = "pending"
    /\ fence' = [fence EXCEPT ![c] = result]
    /\ UNCHANGED <<jobs, bytes, failure, next, receipts, phase, delivering,
                   progressed, log, tally, signal, arenaUse>>

GpuRetires(c) == FenceSettles(c, "complete")
GpuFails(c) == FenceSettles(c, "failed")

-----------------------------------------------------------------------------
SchedulerInit ==
    /\ jobs = << >>
    /\ bytes = 0
    /\ failure = FALSE
    /\ next = [s \in Streams |-> 0]
    /\ receipts = {}
    /\ phase = "idle"
    /\ delivering = NoStream
    /\ progressed = FALSE
    /\ log = << >>
    /\ tally = <<0>>
    /\ signal = [s \in Streams |-> "none"]
    /\ fence = [c \in Chunks |-> "none"]
    /\ arenaUse = [a \in Arenas |-> NoChunk]

(* The steps of one call of advance, or of the drain it may end in.        *)
AdvanceStep ==
    \/ PollReceipts
    \/ RetireFront
    \/ RetireDone
    \/ Deliver
    \/ DispatchDone
    \/ DrainFront
    \/ DrainDone
    \/ \E c \in Chunks :
          \/ SubmitChunk(c)
          \/ DispatchBlocked(c)
          \/ DispatchFails(c)

GpuStep == \E c \in Chunks : GpuRetires(c) \/ GpuFails(c)

SchedulerNext ==
    \/ \E s \in Streams : EnqueuePrepared(s)
    \/ Fail
    \/ AdvanceStep
    \/ GpuStep

SchedulerSpec == SchedulerInit /\ [][SchedulerNext]_schedulerVars

(* The worker calls advance whenever a transport handle is ready or its    *)
(* poll times out, so the steps of the scheduler never stop; the device    *)
(* settles every chunk it accepted.  A transport may answer Busy, but not  *)
(* for ever to a chunk it could take again and again.                      *)
SchedulerFairness ==
    /\ WF_schedulerVars(AdvanceStep)
    /\ SF_schedulerVars(\E c \in Chunks : SubmitChunk(c))
    /\ \A c \in Chunks : WF_schedulerVars(GpuRetires(c) \/ GpuFails(c))

FairSchedulerSpec == SchedulerSpec /\ SchedulerFairness

-----------------------------------------------------------------------------
(* Properties.                                                             *)

TypeOK ==
    /\ jobs \in Seq(Streams)
    /\ bytes \in Nat
    /\ failure \in BOOLEAN
    /\ next \in [Streams -> Nat]
    /\ \A s \in Streams : next[s] <= ChunkCount(s)
    /\ receipts \subseteq Chunks
    /\ phase \in {"idle", "retire", "dispatch", "drain"}
    /\ delivering \in Streams \cup {NoStream}
    /\ progressed \in BOOLEAN
    /\ log \in Seq(Streams)
    /\ tally \in Seq(Nat)
    /\ signal \in [Streams -> {"none", "pending", "ok", "err"}]
    /\ fence \in [Chunks -> {"none", "pending", "complete", "failed"}]
    /\ arenaUse \in [Arenas -> Chunks \cup {NoChunk}]

Accepted(c) == fence[c] # "none"
Settled(s) == signal[s] \in {"ok", "err"}
StreamComplete(s) == \A c \in Chunks : c[1] = s => fence[c] = "complete"

(* A successful receipt certifies its whole ordered prefix: when the       *)
(* holder of a stream sees Ok, every stream admitted earlier was already   *)
(* reported Ok and the GPU retired every chunk of all of them, whatever    *)
(* order the completions arrived in.  Hence a failed stream is never       *)
(* followed by a successful one (advance, "Even a later fence observed     *)
(* first cannot certify its queue prefix").                                *)
CompletionCoversPrefix ==
    \A j \in 1..Len(log) : signal[log[j]] = "ok" =>
        \A i \in 1..j : signal[log[i]] = "ok" /\ StreamComplete(log[i])

(* Results, of either kind, are published in admission order.              *)
OrderedDelivery ==
    \A j \in 1..Len(log) : Settled(log[j]) =>
        \A i \in 1..j : Settled(log[i])

(* Native dispatch is FIFO: a chunk reaches the device only after every    *)
(* earlier chunk of its stream and every chunk of every earlier stream     *)
(* (advance, "later jobs cannot pass it").                                 *)
DispatchFIFO ==
    \A j \in 1..Len(log) : \A k \in 1..ChunkCount(log[j]) :
        Accepted(<<log[j], k>>) =>
            /\ \A h \in 1..(k - 1) : Accepted(<<log[j], h>>)
            /\ \A i \in 1..(j - 1) : \A h \in 1..ChunkCount(log[i]) :
                  Accepted(<<log[i], h>>)

(* The staging memory of an arena is written for one chunk at a time: of   *)
(* the chunks that stage in it at most one is still on the device          *)
(* (Transport::ready).                                                     *)
ArenaExclusive ==
    \A c, d \in Chunks :
        /\ c # d
        /\ ArenaOf(c) = ArenaOf(d)
        /\ ArenaOf(c) # NoArena
        => ~(fence[c] = "pending" /\ fence[d] = "pending")

(* The budgets hold at every step: the chunks that are not yet observed as *)
(* retired, the admitted streams, and the bytes they keep alive.  Only a   *)
(* lone stream may exceed the byte budget.                                 *)
WithinBudgets ==
    /\ Cardinality(receipts) <= MaxInFlight
    /\ Len(jobs) <= MaxSubmissions
    /\ phase # "drain" => (bytes <= MaxPendingBytes \/ Len(jobs) <= 1)

(* An accepted chunk is never submitted again, and a poisoned scheduler    *)
(* submits nothing (advance, "accepted chunks are never replayed").        *)
NeverReplayed ==
    [][\A c \in Chunks :
          fence'[c] = "pending" /\ fence[c] # "pending" =>
              fence[c] = "none" /\ ~failure]_schedulerVars

(* A published result is final: fail after a delivery cannot turn an Ok    *)
(* into an error, and nothing is delivered twice.                          *)
ResultsAreFinal ==
    [][\A s \in Streams : Settled(s) => signal'[s] = signal[s]]_schedulerVars

(* Every admitted stream is eventually reported, ok or failed.             *)
EveryStreamSettles ==
    \A s \in Streams : signal[s] = "pending" ~> Settled(s)

-----------------------------------------------------------------------------
(* The inductive invariant behind the safety properties.                   *)

(* How many streams have left the queue.                                   *)
Left == Len(log) - Len(jobs)

InQueue(s) == \E i \in 1..Len(jobs) : jobs[i] = s

(* The queue is the tail of the log, and no stream was admitted twice.     *)
QueueIsTailOfLog ==
    /\ Len(jobs) <= Len(log)
    /\ \A i \in 1..Len(jobs) : jobs[i] = log[Left + i]
    /\ \A i, j \in 1..Len(log) : log[i] = log[j] => i = j

(* bytes is the size of that tail, except while fail drains it.            *)
BytesMatchQueue ==
    /\ Len(tally) = Len(log) + 1
    /\ \A i \in 1..Len(log) : tally[i + 1] = tally[i] + Bytes[log[i]]
    /\ \A i, j \in 1..Len(tally) : i <= j => tally[i] <= tally[j]
    /\ phase # "drain" => bytes = tally[Len(log) + 1] - tally[Left + 1]

(* Queued streams are pending; those that left are settled, except the one *)
(* whose delivery is under way.                                            *)
SignalsMatchQueue ==
    /\ \A s \in Streams :
          signal[s] = "none" <=> \A i \in 1..Len(log) : log[i] # s
    /\ \A i \in (Left + 1)..Len(log) : signal[log[i]] = "pending"
    /\ \A i \in 1..Left :
          Settled(log[i]) \/ (i = Left /\ delivering = log[i])
    /\ delivering # NoStream =>
          /\ phase \in {"retire", "drain"}
          /\ Left > 0
          /\ delivering = log[Left]
          /\ ~Settled(delivering)

(* Once poisoned, the queue is empty outside the drain, so nothing is      *)
(* dispatched or reported Ok any more.                                     *)
PoisonIsFinal ==
    /\ phase = "drain" => failure
    /\ failure /\ phase # "drain" => jobs = << >> /\ delivering = NoStream
    /\ \A s \in Streams : signal[s] = "err" => failure

(* Of a queued stream, the chunks before next were accepted, and those no  *)
(* longer among the receipts were retired by the GPU.                      *)
ReceiptsMatchFences ==
    /\ \A c \in Chunks : Accepted(c) <=> c[2] <= next[c[1]]
    /\ \A c \in Chunks :
          InQueue(c[1]) /\ Accepted(c) /\ c \notin receipts =>
              fence[c] = "complete"
    /\ \A s \in Streams : signal[s] = "ok" => StreamComplete(s)
    /\ phase = "retire" /\ delivering # NoStream => StreamComplete(delivering)

(* Only the last user of an arena may still be on the device.              *)
LastUserOnly ==
    \A c \in Chunks :
        /\ Accepted(c)
        /\ ArenaOf(c) # NoArena
        /\ arenaUse[ArenaOf(c)] # c
        => fence[c] = "complete"

(* A stream that started dispatch has its whole prefix dispatched, and was *)
(* admitted.                                                               *)
DispatchPrefix ==
    /\ \A i, j \in 1..Len(log) :
          i < j /\ next[log[j]] > 0 => next[log[i]] = ChunkCount(log[i])
    /\ \A s \in Streams : signal[s] = "none" => next[s] = 0

(* The conjunction that every step preserves.  It is checked as an         *)
(* invariant on the instance and proved inductive in NativeProofs.         *)
SchedulerInvariant ==
    /\ TypeOK
    /\ IsFiniteSet(receipts)
    /\ QueueIsTailOfLog
    /\ BytesMatchQueue
    /\ SignalsMatchQueue
    /\ PoisonIsFinal
    /\ ReceiptsMatchFences
    /\ LastUserOnly
    /\ DispatchPrefix
    /\ CompletionCoversPrefix
    /\ WithinBudgets
=============================================================================
