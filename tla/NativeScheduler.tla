--------------------------- MODULE NativeScheduler ---------------------------
(***************************************************************************)
(* The VirGL queue worker                                                  *)
(* (crates/sgfx-backend-scarlet-virgl/src/dispatch.rs): a thread that owns *)
(* a private Scheduler, and the admission inbox through which API threads  *)
(* hand it command streams.                                                *)
(*                                                                         *)
(* Threads: the callers of NativeScheduler (enqueue, wait_idle, is_idle,   *)
(* drop), the worker, and the GPU.  A step of this module is one critical  *)
(* section of the admission mutex, one access to the wake event, or one    *)
(* step of the private scheduler.  The wake event is a flag and a pipe: a  *)
(* notifier swaps the flag and then writes a byte, the worker reads the    *)
(* byte and then clears the flag.                                          *)
(***************************************************************************)
EXTENDS Scheduler

CONSTANTS
    Callers,        \* API threads
    WriteOutcomes   \* what a write to the wake pipe may do (external):
                    \*   "ok", "uncertain" (the byte arrived, the answer is an
                    \*   error), "lost" (no byte)

ASSUME NativeAssumption ==
    /\ Callers # {}
    /\ WriteOutcomes \subseteq {"ok", "uncertain", "lost"}
    /\ "ok" \in WriteOutcomes

VARIABLES
    pending,     \* Admission::pending: streams not yet taken by the worker
    count,       \* Admission::count: pending plus the worker's streams
    admBytes,    \* Admission::bytes
    last,        \* Admission::last
    admFailure,  \* Admission::failure is Some, and Shared::failed
    closing,     \* Shared::closing
    signalled,   \* Event::signalled of Shared::wake
    pipe,        \* bytes in its pipe (external)
    worker,      \* where Worker::run stands
    taken,       \* the inbox that Worker::fail took, not yet completed
    rejecting,   \* stream of taken whose Signal::complete is under way
    dropped,     \* streams completed with an error straight from the inbox
    order,       \* every accepted stream, in order of acceptance (history)
    total,       \* total[n + 1]: size of the first n streams of order (history)
    caller,      \* where each API thread stands
    waitFor,     \* the signal a wait_idle call waits for
    mark         \* how many streams were accepted at its capture (history)

admissionVars == <<pending, count, admBytes, last, admFailure>>
wakeVars == <<signalled, pipe>>
workerVars == <<worker, taken, rejecting, dropped>>
callerVars == <<caller, waitFor, mark>>
acceptedVars == <<order, total>>
nativeVars == <<schedulerVars, admissionVars, wakeVars, workerVars, callerVars,
                closing, acceptedVars>>

(* What the holder of a receipt sees (Signal::poll).                       *)
Receipt(s) ==
    IF s \in dropped THEN "err"
    ELSE IF \A i \in 1..Len(order) : order[i] # s THEN "none"
    ELSE IF Settled(s) THEN signal[s]
    ELSE "pending"

-----------------------------------------------------------------------------
(* The API threads.                                                        *)

(* Mutant: the byte budget is checked against the worker's own queue.      *)
MutantAdmissionBusy(s) ==
    \/ count = MaxSubmissions
    \/ /\ count # 0
       /\ \/ Bytes[s] > MaxPendingBytes
          \/ bytes + Bytes[s] > MaxPendingBytes

AdmissionBusy(s) ==
    \/ count = MaxSubmissions
    \/ /\ count # 0
       /\ \/ Bytes[s] > MaxPendingBytes
          \/ admBytes + Bytes[s] > MaxPendingBytes

Admit(s) ==
    /\ pending' = Append(pending, s)
    /\ count' = count + 1
    /\ admBytes' = admBytes + Bytes[s]
    /\ last' = s

(* NativeScheduler::enqueue up to the unlock; the notification follows.    *)
Enqueue(c, s) ==
    /\ caller[c] = "idle"
    /\ ~closing
    /\ Receipt(s) = "none"
    /\ Bytes[s] <= MaxStreamBytes
    /\ ~admFailure
    /\ ~AdmissionBusy(s)
    /\ Admit(s)
    /\ order' = Append(order, s)
    /\ total' = Append(total, total[Len(total)] + Bytes[s])
    /\ caller' = [caller EXCEPT ![c] = "notify"]
    /\ UNCHANGED <<schedulerVars, admFailure, wakeVars, workerVars, closing,
                   waitFor, mark>>

(* Event::notify: swap the flag, write the byte if it was clear, and clear *)
(* the flag again if the write reports anything but one byte.              *)
NotifySwap(c) ==
    /\ caller[c] = "notify"
    /\ signalled' = TRUE
    /\ caller' = [caller EXCEPT ![c] = IF signalled THEN "idle" ELSE "write"]
    /\ UNCHANGED <<schedulerVars, admissionVars, pipe, workerVars, closing,
                   acceptedVars, waitFor, mark>>

NotifyWrite(c, outcome) ==
    /\ caller[c] = "write"
    /\ pipe' = IF outcome = "lost" THEN pipe ELSE pipe + 1
    /\ caller' = [caller EXCEPT ![c] = IF outcome = "ok" THEN "idle"
                                       ELSE "retract"]
    /\ UNCHANGED <<schedulerVars, admissionVars, signalled, workerVars,
                   closing, acceptedVars, waitFor, mark>>

NotifyRetract(c) ==
    /\ caller[c] = "retract"
    /\ signalled' = FALSE
    /\ caller' = [caller EXCEPT ![c] = "idle"]
    /\ UNCHANGED <<schedulerVars, admissionVars, pipe, workerVars, closing,
                   acceptedVars, waitFor, mark>>

(* wait_idle captures the last signal under the lock, then waits for it.   *)
(* With nothing outstanding it returns Ok at once, as is_idle answers      *)
(* true.  "drained" is the point just after Ok was returned.               *)
WaitIdle(c) ==
    /\ caller[c] = "idle"
    /\ ~closing
    /\ ~admFailure
    /\ waitFor' = [waitFor EXCEPT ![c] = last]
    /\ mark' = [mark EXCEPT ![c] = Len(order)]
    /\ caller' = [caller EXCEPT ![c] = IF last = NoStream THEN "drained"
                                       ELSE "waiting"]
    /\ UNCHANGED <<schedulerVars, admissionVars, wakeVars, workerVars, closing,
                   acceptedVars>>

IsIdle(c) ==
    /\ caller[c] = "idle"
    /\ ~closing
    /\ ~admFailure
    /\ count = 0
    /\ mark' = [mark EXCEPT ![c] = Len(order)]
    /\ caller' = [caller EXCEPT ![c] = "drained"]
    /\ UNCHANGED <<schedulerVars, admissionVars, wakeVars, workerVars, closing,
                   acceptedVars, waitFor>>

(* Signal::wait without a timeout returns once the result is set.          *)
WaitReturns(c) ==
    /\ caller[c] = "waiting"
    /\ Receipt(waitFor[c]) \in {"ok", "err"}
    /\ caller' = [caller EXCEPT ![c] = IF Receipt(waitFor[c]) = "ok"
                                       THEN "drained" ELSE "idle"]
    /\ UNCHANGED <<schedulerVars, admissionVars, wakeVars, workerVars, closing,
                   acceptedVars, waitFor, mark>>

Resume(c) ==
    /\ caller[c] = "drained"
    /\ caller' = [caller EXCEPT ![c] = "idle"]
    /\ UNCHANGED <<schedulerVars, admissionVars, wakeVars, workerVars, closing,
                   acceptedVars, waitFor, mark>>

(* Drop for NativeScheduler: no call can be under way any more.            *)
Drop(c) ==
    /\ ~closing
    /\ \A d \in Callers : caller[d] = "idle"
    /\ closing' = TRUE
    /\ caller' = [caller EXCEPT ![c] = "notify"]
    /\ UNCHANGED <<schedulerVars, admissionVars, wakeVars, workerVars, acceptedVars,
                   waitFor, mark>>

-----------------------------------------------------------------------------
(* Shared::finish_signal: the critical section that returns a stream's     *)
(* reservation.  Signal::complete follows outside the lock.                *)

FinishSignal(s, failed) ==
    /\ count' = count - 1
    /\ admBytes' = admBytes - Bytes[s]
    /\ admFailure' = (admFailure \/ failed)
    /\ last' = IF count = 1 THEN NoStream ELSE last

-----------------------------------------------------------------------------
(* Worker::run.                                                            *)

(* Outside advance the worker leaves the scheduler and the callers alone.  *)
WorkerControl == UNCHANGED <<schedulerVars, callerVars, closing, acceptedVars>>

(* The reservation of the poll set may fail; consume and the blocking poll *)
(* may report an error: Worker::fail follows.                              *)
WorkerErrs ==
    /\ worker \in {"start", "consume", "park"}
    /\ worker' = "fail"
    /\ UNCHANGED <<admissionVars, wakeVars, taken, rejecting, dropped>>
    /\ WorkerControl

WorkerStart ==
    /\ worker = "start"
    /\ worker' = "consume"
    /\ UNCHANGED <<admissionVars, wakeVars, taken, rejecting, dropped>>
    /\ WorkerControl

(* Event::consume: read the byte if there is one, then clear the flag.     *)
ConsumeRead ==
    /\ worker = "consume"
    /\ pipe' = IF pipe > 0 THEN pipe - 1 ELSE 0
    /\ worker' = IF pipe > 0 THEN "clear" ELSE "transfer"
    /\ UNCHANGED <<admissionVars, signalled, taken, rejecting, dropped>>
    /\ WorkerControl

(* Mutant: the flag stays set, so that later notifications are swallowed.  *)
MutantConsumeClear ==
    /\ worker = "clear"
    /\ worker' = "transfer"
    /\ UNCHANGED <<admissionVars, wakeVars, taken, rejecting, dropped>>
    /\ WorkerControl

ConsumeClear ==
    /\ worker = "clear"
    /\ signalled' = FALSE
    /\ worker' = "transfer"
    /\ UNCHANGED <<admissionVars, pipe, taken, rejecting, dropped>>
    /\ WorkerControl

(* One round of the transfer loop.  A refused stream is completed with an  *)
(* error and the worker fails.                                             *)
Transfer ==
    /\ worker = "transfer"
    /\ pending # << >>
    /\ pending' = Tail(pending)
    /\ IF Refused(Head(pending))
       THEN /\ FinishSignal(Head(pending), TRUE)
            /\ dropped' = dropped \cup {Head(pending)}
            /\ worker' = "fail"
            /\ UNCHANGED schedulerVars
       ELSE /\ EnqueuePrepared(Head(pending))
            /\ UNCHANGED <<count, admBytes, last, admFailure, dropped, worker>>
    /\ UNCHANGED <<wakeVars, taken, rejecting, callerVars, closing, acceptedVars>>

TransferDone ==
    /\ worker = "transfer"
    /\ pending = << >>
    /\ worker' = "advance"
    /\ UNCHANGED <<admissionVars, wakeVars, taken, rejecting, dropped>>
    /\ WorkerControl

(* Scheduler::advance on the private scheduler; a finished stream returns  *)
(* its reservation before its signal is completed.                         *)
AdvanceKeepsReservations ==
    \/ RetireDone
    \/ Deliver
    \/ DispatchDone
    \/ DrainDone
    \/ \E c \in Chunks :
          SubmitChunk(c) \/ DispatchBlocked(c) \/ DispatchFails(c)

Advance ==
    /\ \/ worker = "advance" /\ PollReceipts
       \/ worker = "advancing" /\ AdvanceKeepsReservations
    /\ worker' = IF phase' = "idle" THEN "check" ELSE "advancing"
    /\ UNCHANGED <<admissionVars, wakeVars, taken, rejecting, dropped,
                   callerVars, closing, acceptedVars>>

AdvanceFinishes ==
    /\ worker = "advancing"
    /\ \/ RetireFront /\ FinishSignal(Head(jobs), FALSE)
       \/ DrainFront /\ FinishSignal(Head(jobs), TRUE)
    /\ UNCHANGED <<pending, wakeVars, workerVars, callerVars, closing, acceptedVars>>

MayExit == jobs = << >> /\ closing /\ count = 0

(* After advance: fail if the scheduler did, leave, go on, or sleep.       *)
Check ==
    /\ worker = "check"
    /\ worker' = IF failure THEN "fail"
                 ELSE IF MayExit THEN "dead"
                 ELSE IF progressed THEN "consume"
                 ELSE "park"
    /\ UNCHANGED <<admissionVars, wakeVars, taken, rejecting, dropped>>
    /\ WorkerControl

(* The blocking poll returns when a handle is ready or its timeout passed. *)
Wake ==
    /\ worker = "park"
    /\ worker' = "consume"
    /\ UNCHANGED <<admissionVars, wakeVars, taken, rejecting, dropped>>
    /\ WorkerControl

(* Mutants: the inbox is left in place; it is completed back to front.     *)
MutantLeaveInbox == taken' = << >> /\ pending' = pending
MutantReverseInbox ==
    /\ taken' = [i \in 1..Len(pending) |-> pending[Len(pending) + 1 - i]]
    /\ pending' = << >>

TakeInbox == taken' = pending /\ pending' = << >>

(* Worker::fail: publish the failure and take the inbox in one critical    *)
(* section, fail the scheduler, then complete what was taken.              *)
WorkerFail ==
    /\ worker = "fail"
    /\ admFailure' = TRUE
    /\ TakeInbox
    /\ Fail
    /\ worker' = "draining"
    /\ UNCHANGED <<count, admBytes, last, wakeVars, rejecting, dropped,
                   callerVars, closing, acceptedVars>>

WorkerDrains ==
    /\ worker = "draining"
    /\ \/ DrainFront /\ FinishSignal(Head(jobs), TRUE) /\ UNCHANGED worker
       \/ /\ Deliver \/ DrainDone
          /\ worker' = IF phase' = "idle" THEN "reject" ELSE "draining"
          /\ UNCHANGED <<count, admBytes, last, admFailure>>
    /\ UNCHANGED <<pending, wakeVars, taken, rejecting, dropped, callerVars,
                   closing, acceptedVars>>

RejectFront ==
    /\ worker = "reject"
    /\ rejecting = NoStream
    /\ taken # << >>
    /\ FinishSignal(Head(taken), TRUE)
    /\ rejecting' = Head(taken)
    /\ taken' = Tail(taken)
    /\ UNCHANGED <<pending, wakeVars, worker, dropped>>
    /\ WorkerControl

RejectComplete ==
    /\ worker = "reject"
    /\ rejecting # NoStream
    /\ dropped' = dropped \cup {rejecting}
    /\ rejecting' = NoStream
    /\ UNCHANGED <<admissionVars, wakeVars, worker, taken>>
    /\ WorkerControl

RejectDone ==
    /\ worker = "reject"
    /\ rejecting = NoStream
    /\ taken = << >>
    /\ worker' = "dead"
    /\ UNCHANGED <<admissionVars, wakeVars, taken, rejecting, dropped>>
    /\ WorkerControl

(* The GPU, independent of every thread.                                   *)
Gpu ==
    /\ GpuStep
    /\ UNCHANGED <<admissionVars, wakeVars, workerVars, callerVars, closing,
                   acceptedVars>>

-----------------------------------------------------------------------------
NativeInit ==
    /\ SchedulerInit
    /\ pending = << >> /\ count = 0 /\ admBytes = 0 /\ last = NoStream
    /\ admFailure = FALSE
    /\ closing = FALSE
    /\ signalled = FALSE /\ pipe = 0
    /\ worker = "start"
    /\ taken = << >> /\ rejecting = NoStream /\ dropped = {}
    /\ order = << >> /\ total = <<0>>
    /\ caller = [c \in Callers |-> "idle"]
    /\ waitFor = [c \in Callers |-> NoStream]
    /\ mark = [c \in Callers |-> 0]

WorkerStep ==
    \/ WorkerStart \/ ConsumeRead \/ ConsumeClear
    \/ Transfer \/ TransferDone
    \/ Advance \/ AdvanceFinishes
    \/ Check \/ Wake
    \/ WorkerFail \/ WorkerDrains
    \/ RejectFront \/ RejectComplete \/ RejectDone

CallerStep(c) ==
    \/ \E s \in Streams : Enqueue(c, s)
    \/ NotifySwap(c)
    \/ \E outcome \in WriteOutcomes : NotifyWrite(c, outcome)
    \/ NotifyRetract(c)
    \/ WaitIdle(c) \/ IsIdle(c) \/ WaitReturns(c) \/ Resume(c)
    \/ Drop(c)

NativeNext ==
    \/ \E c \in Callers : CallerStep(c)
    \/ WorkerStep
    \/ WorkerErrs
    \/ Gpu

NativeSpec == NativeInit /\ [][NativeNext]_nativeVars

(* The worker thread always takes its next step: its blocking poll has a   *)
(* timeout.  A thread inside notify finishes it, and a waiter whose signal *)
(* is set returns.  The GPU settles what it accepted, and does not answer  *)
(* Busy for ever to a chunk it could take.                                 *)
NativeFairness ==
    /\ WF_nativeVars(WorkerStep)
    /\ SF_nativeVars(Advance /\ \E c \in Chunks : SubmitChunk(c))
    /\ \A c \in Callers :
          /\ WF_nativeVars(NotifySwap(c))
          /\ WF_nativeVars(\E outcome \in WriteOutcomes : NotifyWrite(c, outcome))
          /\ WF_nativeVars(NotifyRetract(c))
          /\ WF_nativeVars(WaitReturns(c))
    /\ \A c \in Chunks : WF_nativeVars((GpuRetires(c) \/ GpuFails(c)) /\ Gpu)

FairNativeSpec == NativeSpec /\ NativeFairness

-----------------------------------------------------------------------------
(* Properties.                                                             *)

(* The worker's private queue has room for every stream the shared         *)
(* admission let in, so the transfer never has to fail the queue           *)
(* (Worker::run, "The shared admission already reserved capacity").        *)
TransferNeverRefused ==
    worker = "transfer" /\ pending # << >> => ~Refused(Head(pending))

(* The shared reservation covers exactly the streams that are in the       *)
(* inbox, in the worker's queue or taken by its failure, and last is       *)
(* forgotten when and only when nothing is outstanding.                    *)
ReservationsCoverStreams ==
    /\ count = Len(pending) + Len(jobs) + Len(taken)
    /\ count <= MaxSubmissions
    /\ admBytes <= MaxPendingBytes \/ count <= 1
    /\ count = 0 <=> last = NoStream
    /\ count = 0 => admBytes = 0

(* The worker never sleeps on work nobody will wake it for: while it is    *)
(* parked with a stream in the inbox, or with the queue closed and         *)
(* nothing left, there is a byte in the pipe or a notifier about to write  *)
(* one.  Holds as long as no write is lost; the 100 ms poll timeout is     *)
(* only the fallback for that.                                             *)
NoLostWakeup ==
    worker = "park" /\ (pending # << >> \/ (closing /\ count = 0)) =>
        pipe > 0 \/ \E c \in Callers : caller[c] \in {"notify", "write"}

(* A drained caller may read and detach resources: when wait_idle returns  *)
(* Ok or is_idle answers true, every stream accepted before it looked has  *)
(* been executed completely by the GPU.                                    *)
WaitIdleDrains ==
    \A c \in Callers : caller[c] = "drained" =>
        \A i \in 1..mark[c] : StreamComplete(order[i])

(* Every accepted stream is reported, also when the queue is dropped with  *)
(* work outstanding, wakes are lost, or the worker fails.                  *)
EveryReceiptSettles ==
    \A s \in Streams : Receipt(s) = "pending" ~> Receipt(s) \in {"ok", "err"}

(* The queue keeps the portable completion contract: the inbox, the        *)
(* worker's queue and its failure paths together report every accepted     *)
(* stream in order, Complete only after the GPU retired its whole prefix.  *)
Contract ==
    INSTANCE CompletionContract WITH
        Submissions <- Streams,
        accepted <- order,
        executed <- {s \in Streams : Receipt(s) # "none" /\ StreamComplete(s)},
        receipt <- [s \in Streams |-> Receipt(s)],
        poisoned <- admFailure

KeepsContract == Contract!ContractSpec

-----------------------------------------------------------------------------
(* The inductive invariant behind the safety properties.                   *)

NativeTypeOK ==
    /\ pending \in Seq(Streams)
    /\ count \in Nat
    /\ admBytes \in Nat
    /\ last \in Streams \cup {NoStream}
    /\ admFailure \in BOOLEAN
    /\ closing \in BOOLEAN
    /\ signalled \in BOOLEAN
    /\ pipe \in Nat
    /\ worker \in {"start", "consume", "clear", "transfer", "advance",
                   "advancing", "check", "park", "fail", "draining", "reject",
                   "dead"}
    /\ taken \in Seq(Streams)
    /\ rejecting \in Streams \cup {NoStream}
    /\ dropped \subseteq Streams
    /\ order \in Seq(Streams)
    /\ total \in Seq(Nat)
    /\ caller \in [Callers -> {"idle", "notify", "write", "retract", "waiting",
                               "drained"}]
    /\ waitFor \in [Callers -> Streams \cup {NoStream}]
    /\ mark \in [Callers -> Nat]

(* How many of the accepted streams have left the inbox.                   *)
LeftInbox == Len(order) - Len(pending) - Len(taken)

(* The accepted streams are, in order: those the worker's scheduler was    *)
(* given, those rejected by the failure path, and those still in the inbox *)
(* or taken from it.                                                       *)
OrderSplits ==
    /\ Len(log) <= LeftInbox
    /\ \A i \in 1..Len(log) : order[i] = log[i]
    /\ \A i \in 1..Len(pending) : pending[i] = order[LeftInbox + i]
    /\ \A i \in 1..Len(taken) : taken[i] = order[LeftInbox + i]
    /\ pending = << >> \/ taken = << >>
    /\ \A i, j \in 1..Len(order) : order[i] = order[j] => i = j
    /\ \A i \in 1..Len(order) : Bytes[order[i]] <= MaxStreamBytes

(* The rejected streams are reported, except the one under way.            *)
RejectionsReported ==
    /\ \A s \in dropped : \E i \in (Len(log) + 1)..LeftInbox : order[i] = s
    /\ \A i \in (Len(log) + 1)..LeftInbox :
          order[i] \in dropped \/ (i = LeftInbox /\ rejecting = order[i])
    /\ rejecting # NoStream =>
          /\ worker = "reject"
          /\ LeftInbox > Len(log)
          /\ rejecting = order[LeftInbox]
          /\ rejecting \notin dropped

(* Where the worker stands and where its scheduler stands.                 *)
WorkerMatchesPhase ==
    /\ phase # "idle" <=> worker \in {"advancing", "draining"}
    /\ worker = "draining" => phase = "drain"
    /\ failure => worker \in {"advancing", "check", "fail", "draining",
                              "reject", "dead"}
    /\ failure /\ worker = "advancing" => phase = "drain"
    /\ worker \in {"draining", "reject"} => admFailure /\ pending = << >>
    /\ taken # << >> => worker \in {"draining", "reject"}
    /\ LeftInbox # Len(log) => admFailure /\ worker \in {"reject", "dead"}

(* Nobody sees an error before the shared admission is failed.             *)
FailureIsShared ==
    /\ admFailure => failure
    /\ \A s \in Streams : signal[s] = "err" => admFailure
    /\ phase = "drain" /\ delivering # NoStream => admFailure

(* The reserved bytes are those of the newest count streams.               *)
BytesMatchReservations ==
    /\ Len(total) = Len(order) + 1
    /\ \A i \in 1..Len(order) : total[i + 1] = total[i] + Bytes[order[i]]
    /\ \A i, j \in 1..Len(total) : i <= j => total[i] <= total[j]
    /\ \A i \in 1..(Len(log) + 1) : total[i] = tally[i]
    /\ admBytes = total[Len(order) + 1] - total[Len(order) + 1 - count]

(* While something is outstanding, last is the newest accepted stream, and *)
(* a waiter waits for the stream that was the newest when it looked.       *)
WaitersKnowTheirStream ==
    /\ count # 0 => last = order[Len(order)]
    /\ \A c \in Callers :
          /\ caller[c] \in {"waiting", "drained"} => mark[c] <= Len(order)
          /\ caller[c] = "waiting" =>
                mark[c] # 0 /\ waitFor[c] = order[mark[c]]

Notifying == pipe > 0 \/ \E c \in Callers : caller[c] \in {"notify", "write"}

(* A set flag stands for a byte that is in the pipe, about to be written,  *)
(* or just read; and what was put into the inbox after the worker emptied  *)
(* it has a wakeup on its way, whether the worker sleeps yet or not.       *)
WakesAreRemembered ==
    "lost" \notin WriteOutcomes =>
        /\ signalled =>
              \/ pipe > 0
              \/ worker = "clear"
              \/ \E c \in Callers : caller[c] = "write"
        /\ worker \in {"advance", "advancing", "check", "park"}
              /\ pending # << >> => Notifying
        /\ worker = "park" /\ closing /\ count = 0 => Notifying

(* What every step of the queue preserves, proved in NativeProofs.         *)
NativeInvariant ==
    /\ NativeTypeOK
    /\ OrderSplits
    /\ RejectionsReported
    /\ WorkerMatchesPhase
    /\ FailureIsShared
    /\ BytesMatchReservations
    /\ WaitersKnowTheirStream
    /\ WakesAreRemembered
    /\ ReservationsCoverStreams
    /\ WaitIdleDrains

(* The promises of the shared admission: what it lets in the worker never  *)
(* refuses, it counts what is outstanding, and a caller that finds it      *)
(* drained finds the GPU done (SharedQueue, Worker::run, wait_idle); with  *)
(* the invariant they rest on.                                             *)
AdmissionInvariant == TransferNeverRefused /\ NativeInvariant
=============================================================================
