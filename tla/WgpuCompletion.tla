---------------------------- MODULE WgpuCompletion ----------------------------
(* Tracked submissions of the WGPU backend: the tracking slots, the private *)
(* marker buffer of a submission, the callbacks that observe it, receipts,  *)
(* the validation lock around WGPU's error scopes, and the loss of the      *)
(* device.                                                                  *)
(*                                                                          *)
(* Threads own clones of the Device; each has its own Resources.  WGPU is   *)
(* external: its queue retires submissions in order, Device::poll calls the *)
(* callbacks of what has retired (mapping callbacks before work-done ones)  *)
(* and the loss callback last; error scopes are one stack per device.       *)
EXTENDS Naturals, Sequences, FiniteSets, SequencesExt, Absent

CONSTANTS Threads, Limit, MaxSubmissions

\* None is no thread and no marker: it stands for Option::None.
ASSUME WgpuCompletionAssumption ==
  /\ Limit \in Nat \ {0} /\ MaxSubmissions \in Nat
  /\ IsFiniteSet(Threads) /\ None \notin Threads
  /\ None \notin [observation : 0..2, slot : BOOLEAN]

VARIABLES
  call,      \* [Threads -> the submission or readback a thread is in]
  guard,     \* the holder of Device::validation, or None
  scopes,    \* WGPU's error scopes: the threads that pushed them
  captured,  \* [Threads -> the threads whose errors its scopes have caught]
  pending,   \* Tracker::pending
  lost,      \* Tracker::lost
  fate,      \* the device is gone; the loss callback has not run yet
  work,      \* how many submissions are on the WGPU queue
  retired,   \* how many of them have retired
  marker,    \* [submission -> its marker: pending map callback, slot held, observation]
  receipts   \* submissions whose receipt somebody holds

completionVars ==
  <<call, guard, scopes, captured, pending, lost, fate, work, retired, marker, receipts>>

Submissions == 1..MaxSubmissions
IdleCall == [pc |-> "idle", index |-> None]
At(t, pc) == call[t].pc = pc
Goto(t, pc) == call' = [call EXCEPT ![t].pc = pc]

-----------------------------------------------------------------------------
(* WGPU (external).                                                         *)

\* Device::poll: callbacks of what has retired, then the loss callback.  After
\* the loss nothing more retires; mappings fail and callbacks still run.
Observe(n) ==
  CASE marker[n] = None -> None
    [] marker[n] # None /\ (n <= retired \/ fate) ->
         [observation |-> IF marker[n].observation # 0 THEN marker[n].observation
                          ELSE IF n <= retired THEN 1 ELSE 2,
          slot |-> FALSE]
    [] OTHER -> marker[n]
Polled == [n \in Submissions |-> Observe(n)]
Freed == Cardinality({n \in Submissions : marker[n] # None /\ marker[n].slot /\ ~Polled[n].slot})
Poll ==
  /\ marker' = Polled
  /\ pending' = pending - Freed
  /\ lost' = fate

Retire ==
  /\ ~fate /\ retired < work
  /\ retired' = retired + 1
  /\ UNCHANGED <<call, guard, scopes, captured, pending, lost, fate, work, marker, receipts>>
LoseDevice ==
  /\ ~fate /\ fate' = TRUE
  /\ UNCHANGED <<call, guard, scopes, captured, pending, lost, work, retired, marker, receipts>>

\* An error of a call of t reaches the innermost scope, whoever pushed it.
Caught(t) == IF scopes = <<>> THEN captured
             ELSE [captured EXCEPT ![Last(scopes)] = @ \cup {t}]

-----------------------------------------------------------------------------
(* Queue::submit_tracked.                                                   *)

\* Ownership and topology checks, a poll, the loss check.
SubmitTracked(t) ==
  /\ At(t, "idle") /\ work < MaxSubmissions
  /\ Poll
  /\ call' = [call EXCEPT ![t] = [IdleCall EXCEPT !.pc = IF lost' THEN "idle" ELSE "reserve"]]
  /\ UNCHANGED <<guard, scopes, captured, fate, work, retired, receipts>>

\* Tracker::reserve: Busy when all slots are taken.
Reserve(t) ==
  /\ At(t, "reserve")
  /\ IF pending < Limit THEN pending' = pending + 1 /\ Goto(t, "marker")
     ELSE Goto(t, "idle") /\ UNCHANGED pending
  /\ UNCHANGED <<guard, scopes, captured, lost, fate, work, retired, marker, receipts>>

\* The validation lock and the error scopes of a call.
(* Mutant: scopes are pushed without the lock.                              *)
MutantLock(t, from, to) ==
  /\ At(t, from) /\ Goto(t, to)
  /\ scopes' = Append(scopes, t)
  /\ captured' = [captured EXCEPT ![t] = {}]
  /\ UNCHANGED <<guard, pending, lost, fate, work, retired, marker, receipts>>
Lock(t, from, to) ==
  /\ At(t, from) /\ guard = None
  /\ guard' = t /\ Goto(t, to)
  /\ scopes' = Append(scopes, t)
  /\ captured' = [captured EXCEPT ![t] = {}]
  /\ UNCHANGED <<pending, lost, fate, work, retired, marker, receipts>>

\* create_buffer of the marker in `validated`; refused, the slot is dropped.
CreateMarker(t, error) ==
  /\ At(t, "creating")
  /\ guard' = IF guard = t THEN None ELSE guard
  /\ captured' = IF error THEN Caught(t) ELSE captured
  /\ scopes' = Front(scopes)
  /\ IF captured'[t] # {} THEN Goto(t, "idle") /\ pending' = pending - 1
     ELSE Goto(t, "checked") /\ UNCHANGED pending
  /\ UNCHANGED <<lost, fate, work, retired, marker, receipts>>

\* submit_inner: poll again, check the loss.
CheckLoss(t) ==
  /\ At(t, "checked") \/ At(t, "untracked")
  /\ Poll
  /\ call' = [call EXCEPT ![t].pc = CASE ~lost' /\ At(t, "checked") -> "encode"
                                      [] ~lost' /\ At(t, "untracked") -> "encodeOnly"
                                      [] lost' /\ At(t, "checked") -> "checkpoint"
                                      [] OTHER -> "idle"]
  /\ UNCHANGED <<guard, scopes, captured, fate, work, retired, receipts>>

\* encode_commands and Queue::submit, each in `validated`; an error in either
\* leaves the stream unsubmitted.
EncodeAndSubmit(t, tracked, error) ==
  /\ At(t, IF tracked THEN "encoding" ELSE "encodingOnly") /\ work < MaxSubmissions
  /\ guard' = IF guard = t THEN None ELSE guard
  /\ captured' = IF error THEN Caught(t) ELSE captured
  /\ scopes' = Front(scopes)
  /\ IF captured'[t] # {} \/ error
     THEN /\ Goto(t, IF tracked THEN "checkpoint" ELSE "idle")
          /\ UNCHANGED work
     ELSE /\ work' = work + 1
          /\ call' = [call EXCEPT ![t].pc = IF tracked THEN "receipt" ELSE "idle",
                                  ![t].index = work']
  /\ UNCHANGED <<pending, lost, fate, retired, marker, receipts>>

\* After an error: a submission that only clears the marker.
Checkpoint(t) ==
  /\ At(t, "checkpoint") /\ work < MaxSubmissions
  /\ work' = work + 1
  /\ call' = [call EXCEPT ![t].pc = "receipt", ![t].index = work']
  /\ UNCHANGED <<guard, scopes, captured, pending, lost, fate, retired, marker, receipts>>

\* Submission::new: the marker is mapped, the slot goes to the work-done
\* callback, the caller has a receipt.
NewSubmission(t) ==
  /\ At(t, "receipt")
  /\ marker' = [marker EXCEPT ![call[t].index] = [observation |-> 0, slot |-> TRUE]]
  /\ receipts' = receipts \cup {call[t].index}
  /\ call' = [call EXCEPT ![t] = IdleCall]
  /\ UNCHANGED <<guard, scopes, captured, pending, lost, fate, work, retired>>

-----------------------------------------------------------------------------
(* Queue::submit and the blocking readbacks.                                *)

SubmitUntracked(t) ==
  /\ At(t, "idle") /\ Goto(t, "untracked")
  /\ UNCHANGED <<guard, scopes, captured, pending, lost, fate, work, retired, marker, receipts>>

\* read_buffer and read_texture_mip hold the lock while the GPU works.
BeginRead(t) ==
  /\ At(t, "idle") /\ Goto(t, "read")
  /\ UNCHANGED <<guard, scopes, captured, pending, lost, fate, work, retired, marker, receipts>>
SubmitRead(t, error) ==
  /\ At(t, "reading") /\ work < MaxSubmissions
  /\ captured' = IF error THEN Caught(t) ELSE captured
  /\ scopes' = Front(scopes)
  /\ IF lost \/ error
     THEN Goto(t, "idle") /\ guard' = None /\ UNCHANGED work
     ELSE /\ work' = work + 1
          /\ call' = [call EXCEPT ![t].pc = "mapping", ![t].index = work']
          /\ UNCHANGED guard
  /\ UNCHANGED <<pending, lost, fate, retired, marker, receipts>>
\* map_readback: poll until the copy has retired.
MapReadback(t) ==
  /\ At(t, "mapping") /\ (fate \/ call[t].index <= retired)
  /\ Poll
  /\ call' = [call EXCEPT ![t] = IdleCall]
  /\ guard' = None
  /\ UNCHANGED <<scopes, captured, fate, work, retired, receipts>>

-----------------------------------------------------------------------------
(* Receipts.                                                                *)

(* Mutant: the loss of the device is not looked at.                         *)
MutantStatus(n) == CASE marker[n].observation = 0 -> "pending"
                     [] marker[n].observation = 1 -> "complete"
                     [] OTHER -> "unobserved"
Status(n) == IF lost THEN "lost"
             ELSE CASE marker[n].observation = 0 -> "pending"
                    [] marker[n].observation = 1 -> "complete"
                    [] OTHER -> "unobserved"

\* poll, one round of a timed wait.
PollReceipt(n) ==
  /\ n \in receipts /\ Poll
  /\ UNCHANGED <<call, guard, scopes, captured, fate, work, retired, receipts>>
\* wait(None): WaitForSubmissionIndex returns when n has retired.
WaitReceipt(n) ==
  /\ n \in receipts /\ (n <= retired \/ fate)
  /\ Poll
  /\ receipts' = receipts \ {n}
  /\ UNCHANGED <<call, guard, scopes, captured, fate, work, retired>>
\* The slot and the marker belong to the callback, not to the receipt.
DropReceipt(n) ==
  /\ n \in receipts /\ receipts' = receipts \ {n}
  /\ UNCHANGED <<call, guard, scopes, captured, pending, lost, fate, work, retired, marker>>

-----------------------------------------------------------------------------
CompletionInit ==
  /\ call = [t \in Threads |-> IdleCall] /\ guard = None /\ scopes = <<>>
  /\ captured = [t \in Threads |-> {}] /\ pending = 0 /\ lost = FALSE /\ fate = FALSE
  /\ work = 0 /\ retired = 0 /\ marker = [n \in Submissions |-> None] /\ receipts = {}

Begin(t) == SubmitTracked(t) \/ SubmitUntracked(t) \/ BeginRead(t)
Proceed(t) ==
  \/ Reserve(t) \/ CheckLoss(t) \/ Checkpoint(t) \/ NewSubmission(t) \/ MapReadback(t)
  \/ Lock(t, "marker", "creating") \/ Lock(t, "encode", "encoding")
  \/ Lock(t, "encodeOnly", "encodingOnly") \/ Lock(t, "read", "reading")
  \/ \E error \in BOOLEAN : CreateMarker(t, error) \/ SubmitRead(t, error)
       \/ EncodeAndSubmit(t, TRUE, error) \/ EncodeAndSubmit(t, FALSE, error)

CompletionNext ==
  \/ \E t \in Threads : Begin(t) \/ Proceed(t)
  \/ \E n \in Submissions : PollReceipt(n) \/ WaitReceipt(n) \/ DropReceipt(n)
  \/ Retire \/ LoseDevice
CompletionSpec == CompletionInit /\ [][CompletionNext]_completionVars

-----------------------------------------------------------------------------
(* Properties.                                                              *)

\* The steps of a call, those that hold a slot before their submission exists,
\* and those inside error scopes.
Reserved == {"marker", "creating", "checked", "encode", "encoding", "checkpoint", "receipt"}
Scoped == {"creating", "encoding", "encodingOnly", "reading"}
Stages == Reserved \cup Scoped
            \cup {"idle", "reserve", "untracked", "encodeOnly", "read", "mapping"}
Marked(n) == marker[n] # None

CompletionTypeOK ==
  /\ call \in [Threads -> [pc : Stages, index : Nat \cup {None}]]
  /\ guard \in Threads \cup {None} /\ scopes \in Seq(Threads)
  /\ captured \in [Threads -> SUBSET Threads]
  /\ pending \in Nat /\ lost \in BOOLEAN /\ fate \in BOOLEAN
  /\ work \in 0..MaxSubmissions /\ retired \in 0..work
  /\ marker \in [Submissions -> {None} \cup [observation : 0..2, slot : BOOLEAN]]
  /\ receipts \subseteq Submissions

\* The validation lock is held by the call whose scopes are on the stack, and
\* by a readback that waits for the GPU after it popped its own.
LockGuardsScopes ==
  /\ \A t \in Threads : call[t].pc \in Scoped \cup {"mapping"} <=> guard = t
  /\ scopes = IF guard # None /\ call[guard].pc # "mapping" THEN <<guard>> ELSE <<>>

\* The slots that are taken are those of calls under way and of submissions
\* that are not observed yet, never more than the limit, and a receipt that is
\* dropped gives nothing back early (completion.rs, PendingSlot).
Inside == {t \in Threads : call[t].pc \in Reserved}
Holding == {n \in Submissions : Marked(n) /\ marker[n].slot}
SlotsCoverWork ==
  /\ pending = Cardinality(Inside) + Cardinality(Holding)
  /\ pending <= Limit
  /\ \A n \in Submissions : Marked(n) /\ marker[n].observation = 0 => n \in Holding

\* A receipt and its marker belong to one submission that reached the queue:
\* no other call is about to map the same marker; success is observed after
\* the submission retired, and the loss after it happened.
MarkersFollowWork ==
  /\ lost => fate
  /\ receipts \subseteq {n \in Submissions : Marked(n)}
  /\ \A n \in Submissions :
      Marked(n) => n <= work /\ (marker[n].observation = 1 => n <= retired)
  /\ \A t \in Threads : At(t, "receipt") =>
      /\ call[t].index \in 1..work /\ ~Marked(call[t].index)
      /\ \A u \in Threads : At(u, "receipt") /\ call[u].index = call[t].index => u = t

\* A receipt says complete only when the GPU has retired its submission and
\* all earlier ones, and never after the device was found lost.
CompleteMeansRetired ==
  \A n \in receipts : Status(n) = "complete" => n <= retired /\ ~lost

\* An error scope catches only the errors of the call that pushed it
\* (Device::validation: scopes belong to the device, not to a thread).
ErrorsReachTheirCall == \A t \in Threads : captured[t] \subseteq {t}

\* The invariant of tracked submissions: slots and receipts tell the truth.
CompletionInvariant ==
  /\ CompletionTypeOK /\ LockGuardsScopes
  /\ SlotsCoverWork /\ MarkersFollowWork /\ CompleteMeansRetired

\* What a receipt has once reported stays so, but for the loss of the device.
AnswersAreFinal ==
  \A n \in receipts : Status(n) # "pending" => Status(n)' \in {Status(n), "lost"}

=============================================================================
