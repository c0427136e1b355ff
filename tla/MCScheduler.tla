----------------------------- MODULE MCScheduler -----------------------------
(***************************************************************************)
(* Two subjects over the same scheduler.  "scheduler": Scheduler alone,    *)
(* advance called at any time; s1 reuses its own arena and exceeds the     *)
(* byte budget, so it is admitted alone; s2, s3 and s4 contend for the     *)
(* arena and for the two submissions.  "queue": the worker of              *)
(* NativeScheduler with two producers of s3 and s4, and wakeups that may   *)
(* be lost.                                                                *)
(***************************************************************************)
EXTENDS NativeScheduler, TLC

CONSTANTS s1, s2, s3, s4, a1, c1, c2

VARIABLE subject

MCStreams == {s1, s2, s3, s4}
MCArenas == {a1}
MCChunkArenas ==
    s1 :> <<a1, a1>> @@ s2 :> <<NoArena, a1>> @@ s3 :> <<a1>> @@ s4 :> <<a1>>
MCBytes == s1 :> 5 @@ s2 :> 1 @@ s3 :> 2 @@ s4 :> 1

mcVars == <<nativeVars, subject>>
queueVars == <<admissionVars, wakeVars, workerVars, callerVars, closing, acceptedVars>>

Alone(A) == subject = "scheduler" /\ A /\ UNCHANGED <<subject, queueVars>>
Queue(A) == subject = "queue" /\ A /\ UNCHANGED subject
Either(A) == A /\ UNCHANGED <<subject, queueVars>>

MCInit == NativeInit /\ subject \in {"scheduler", "queue"}

(* SchedulerNext, and NativeNext with the two streams of its producers.    *)
MCNext ==
    \/ Alone(\E s \in Streams : EnqueuePrepared(s))
    \/ Alone(Fail)
    \/ Alone(AdvanceStep)
    \/ Queue(/\ \E c \in Callers : CallerStep(c)
             /\ order' \in Seq({s3, s4})
             /\ caller'[c2] \notin {"waiting", "drained"})
    \/ Queue(WorkerStep)
    \/ Queue(WorkerErrs)
    \/ Either(GpuStep)

(* SchedulerFairness and NativeFairness: the subject never changes, so one *)
(* condition on the steps of either is a condition on each; of the steps   *)
(* of a caller only one is possible at a time, and a chunk settles once,   *)
(* so that a GPU that goes on settles every chunk.                         *)
MCFairness ==
    /\ WF_mcVars(Alone(AdvanceStep) \/ Queue(WorkerStep))
    /\ SF_mcVars(\E c \in Chunks : Alone(SubmitChunk(c))
                                   \/ Queue(Advance /\ SubmitChunk(c)))
    /\ WF_mcVars(Either(GpuStep))
    /\ \A c \in Callers : WF_mcVars(Queue(
          \/ NotifySwap(c)
          \/ \E outcome \in WriteOutcomes : NotifyWrite(c, outcome)
          \/ NotifyRetract(c)
          \/ WaitReturns(c)))

MCSpec == MCInit /\ [][MCNext]_mcVars /\ MCFairness
=============================================================================
