----------------------------- MODULE BufferShadow -----------------------------
(***************************************************************************)
(* How the VirGL backend keeps the GPU copy of a buffer equal to the       *)
(* contents the application wrote                                          *)
(* (crates/sgfx-backend-scarlet-virgl/src/ir_execute.rs, virgl.rs,         *)
(* compute_ir.rs).                                                         *)
(*                                                                         *)
(* A stream's writes are planned over the accepted CPU shadows and become  *)
(* the shadows only when the stream is accepted.  Before a stream draws    *)
(* from a buffer, the buffer is prepared: the words that changed since the *)
(* revision the GPU copy holds are uploaded, or all of them when the delta *)
(* does not start at that revision.  A tracked stream stages its uploads   *)
(* and sends them with the checkpoint; a synchronous stream sends each at  *)
(* once.  Contents are sequences of 4-byte words, the granularity to which *)
(* uploads are aligned; the GPU executes accepted packets in order, so an  *)
(* upload takes effect here when it is accepted.                           *)
(***************************************************************************)
EXTENDS Integers, Sequences, FiniteSets, Absent

CONSTANTS
    Buffers,
    Words,           \* size of every buffer, in words
    Values,          \* contents of a word; 0 is the fill of growth gaps
    Invalid,         \* the values a canonical vertex record may not hold
    MaxIntervals,    \* MAX_BUFFER_DIRTY_INTERVALS
    MaxRevision,     \* bound: revisions explored
    SyncFailsLate    \* whether a synchronous stream may fail after one of its
                     \* buffers was prepared (external: a transport error)

ASSUME ShadowAssumption ==
    /\ Words \in Nat \ {0}
    /\ Values \subseteq Nat /\ 0 \in Values /\ Invalid \subseteq Nat
    /\ MaxIntervals \in Nat \ {0} /\ MaxRevision \in Nat
    /\ SyncFailsLate \in BOOLEAN

NoRevision == -1          \* no revision validated or uploaded
Full == {0}               \* the emptied interval list: repair everything
Junk == -1                \* storage nothing was written to

VARIABLES
    shadow,      \* IrResources::buffer_shadows
    canonical,   \* IrResources::canonical_buffer_revisions
    uploaded,    \* IrBuffer::uploaded_revision
    physical,    \* contents of the GPU buffers (external)
    failed,      \* IrResources::submission_failed
    doing,       \* where submit_ir_async or submit_ir stands
    mode,        \* the SubmitMode of the stream under way
    updates,     \* BufferOnlyPlan::updates
    drawn,       \* the buffers the stream's draws bind
    prepared,    \* prepared_buffers
    staged,      \* the uploads in the stream's packets
    snapshot,    \* IrStateSnapshot::buffers
    exact        \* every draw read what the stream had written (history)

resourceVars == <<shadow, canonical, uploaded, physical>>
streamVars == <<mode, updates, drawn, prepared, staged, snapshot>>
shadowVars == <<resourceVars, streamVars, failed, doing, exact>>

-----------------------------------------------------------------------------
(* Contents and deltas.                                                    *)

(* What a buffer holds after v is written to the words lo..hi; growth is   *)
(* filled with zeros.                                                      *)
Written(bytes, lo, hi, new) ==
    [i \in 1..(IF hi > Len(bytes) THEN hi ELSE Len(bytes)) |->
        IF i \in lo..hi THEN new[i]
        ELSE IF i <= Len(bytes) THEN bytes[i]
        ELSE 0]

Changed(old, new) ==
    {i \in 1..Len(new) : i > Len(old) \/ old[i] # new[i]}

(* changed_buffer_bytes: one range around everything that changed.         *)
ChangedRange(old, new) ==
    {i \in 1..Len(new) : \E lo, hi \in Changed(old, new) : lo <= i /\ i <= hi}

Runs(words) == {i \in words : i - 1 \notin words}

(* BufferIntervals::include, range by range: adjacent intervals join, and  *)
(* one interval too many empties the list for good.                        *)
Include(dirty, words) ==
    IF \/ dirty = Full
       \/ words = Full
       \/ \E k \in words :
             /\ k + 1 \notin words
             /\ Cardinality(Runs(dirty \cup {w \in words : w <= k}))
                  > MaxIntervals
    THEN Full
    ELSE dirty \cup words

(* Mutant: the earlier delta's words are lost when a stream adds its own.  *)
MutantMergedUpload(b, update) ==
    IF shadow[b].upload # None
    THEN [base |-> shadow[b].upload.base, dirty |-> update.dirty]
    ELSE update

(* BufferShadow::merged_upload.                                            *)
MergedUpload(b, update) ==
    IF /\ shadow[b].upload # None
       /\ update.base = shadow[b].revision
       /\ shadow[b].upload.base < shadow[b].revision
    THEN [base |-> shadow[b].upload.base,
          dirty |-> Include(update.dirty, shadow[b].upload.dirty)]
    ELSE update

(* What the stream under way sees of a buffer: the shadow under its plan.  *)
Planned(b) == IF updates[b] = None THEN shadow[b].bytes ELSE updates[b].bytes

Revision(b) == IF updates[b] = None THEN shadow[b].revision
               ELSE shadow[b].revision + 1

Upload(b) == IF updates[b] = None THEN shadow[b].upload
             ELSE MergedUpload(b, updates[b].upload)

(* ir_buffer_upload_ranges: a delta is safe only on its exact base.        *)
UploadRanges(b) ==
    IF \/ Upload(b) = None
       \/ uploaded[b] # Upload(b).base
       \/ Upload(b).base >= Revision(b)
       \/ Upload(b).dirty = Full
    THEN 1..Len(Planned(b))
    ELSE Upload(b).dirty

Uploads(contents, words, bytes) ==
    [w \in DOMAIN contents |-> IF w \in words THEN bytes[w] ELSE contents[w]]

Matches(contents, bytes) == \A w \in 1..Len(bytes) : contents[w] = bytes[w]

ValidRecords(bytes) ==
    Len(bytes) > 0 /\ \A i \in 1..Len(bytes) : bytes[i] \notin Invalid

-----------------------------------------------------------------------------
(* Planning a stream.                                                      *)

BeginStream(m) ==
    /\ doing = "idle"
    /\ ~failed
    /\ doing' = "plan"
    /\ mode' = m
    /\ updates' = [b \in Buffers |-> None]
    /\ drawn' = {} /\ prepared' = {} /\ staged' = << >>
    /\ snapshot' = uploaded
    /\ UNCHANGED <<resourceVars, failed, exact>>

(* BufferOnlyPlan::write: an unchanged write leaves no trace, the first    *)
(* change of a buffer starts its next revision.                            *)
PlanBytes(b, new) ==
    /\ Changed(Planned(b), new) # {}
    /\ shadow[b].revision < MaxRevision
    /\ updates' =
          [updates EXCEPT ![b] =
              [bytes |-> new,
               upload |->
                 IF updates[b] = None
                 THEN [base |-> shadow[b].revision,
                       dirty |-> ChangedRange(Planned(b), new)]
                 ELSE [updates[b].upload EXCEPT !.dirty =
                          Include(@, ChangedRange(Planned(b), new))]]]

WriteBuffer(b, lo, hi, v) ==
    /\ doing = "plan"
    /\ drawn = {}
    /\ PlanBytes(b, Written(Planned(b), lo, hi, [i \in lo..hi |-> v]))
    /\ UNCHANGED <<resourceVars, mode, drawn, prepared, staged, snapshot, failed, doing, exact>>

(* BufferOnlyPlan::copy reads a snapshot of the source, zeros where        *)
(* nothing was written.                                                    *)
CopyBuffer(source, b, lo, hi) ==
    /\ doing = "plan"
    /\ drawn = {}
    /\ PlanBytes(b, Written(Planned(b), lo, hi,
          [i \in lo..hi |-> IF i <= Len(Planned(source)) THEN Planned(source)[i]
                            ELSE 0]))
    /\ UNCHANGED <<resourceVars, mode, drawn, prepared, staged, snapshot, failed, doing, exact>>

NeedsValidation(b) == canonical[b] # Revision(b)

(* The pass: each buffer drawn must hold valid records, unless its         *)
(* revision was validated before.                                          *)
PlanDraws(D) ==
    /\ doing = "plan"
    /\ \A b \in D :
          /\ Len(Planned(b)) > 0
          /\ NeedsValidation(b) => ValidRecords(Planned(b))
    /\ drawn' = D
    /\ doing' = "prepare"
    /\ UNCHANGED <<resourceVars, mode, updates, prepared, staged, snapshot, failed, exact>>

-----------------------------------------------------------------------------
(* Every way a stream can end without being accepted.                      *)

(* A tracked stream sent nothing and restores its snapshot; a synchronous  *)
(* one keeps what it sent.                                                 *)
Restore(up) == uploaded' = IF mode = "tracked" THEN snapshot ELSE up

(* The call returns and its plan, packets and snapshot are dropped.        *)
Return ==
    /\ doing' = "idle"
    /\ mode' = "tracked"
    /\ updates' = [b \in Buffers |-> None]
    /\ drawn' = {} /\ prepared' = {} /\ staged' = << >>
    /\ snapshot' = [b \in Buffers |-> NoRevision]
    /\ UNCHANGED failed

Refuse == Return /\ UNCHANGED <<shadow, canonical, exact>>

PlanRejected ==
    /\ doing = "plan"
    /\ Restore(uploaded)
    /\ Refuse
    /\ UNCHANGED physical

(* prepare_ir_buffer fails between two packets.                            *)
PrepareFails(b) ==
    /\ doing = "prepare"
    /\ b \in drawn \ prepared
    /\ uploaded[b] # Revision(b)
    /\ mode = "tracked" \/ prepared = {} \/ SyncFailsLate
    /\ Restore([uploaded EXCEPT ![b] = NoRevision])
    /\ IF mode = "tracked"
       THEN UNCHANGED physical
       ELSE \E k \in 0..Words : physical' =
               [physical EXCEPT ![b] =
                   Uploads(@, {w \in UploadRanges(b) : w <= k}, Planned(b))]
    /\ Refuse

EventsFail ==
    /\ doing = "prepare"
    /\ drawn \subseteq prepared
    /\ mode = "tracked" \/ drawn = {} \/ SyncFailsLate
    /\ Restore(uploaded)
    /\ Refuse
    /\ UNCHANGED physical

(* The scheduler refuses the stream: Busy, or an error.                    *)
CheckpointRefused ==
    /\ doing = "prepare"
    /\ drawn \subseteq prepared
    /\ mode = "tracked"
    /\ Restore(uploaded)
    /\ Refuse
    /\ UNCHANGED physical

-----------------------------------------------------------------------------
(* Preparation, acceptance and publication.                                *)

PrepareBuffer(b) ==
    /\ doing = "prepare"
    /\ b \in drawn \ prepared
    /\ prepared' = prepared \cup {b}
    /\ uploaded' = [uploaded EXCEPT ![b] = Revision(b)]
    /\ IF uploaded[b] = Revision(b)
       THEN UNCHANGED <<physical, staged>>
       ELSE LET up == [buffer |-> b, words |-> UploadRanges(b)]
            IN  IF mode = "tracked"
                THEN staged' = Append(staged, up) /\ UNCHANGED physical
                ELSE /\ physical' = [physical EXCEPT ![b] =
                                        Uploads(@, up.words, Planned(b))]
                     /\ UNCHANGED staged
    /\ UNCHANGED <<shadow, canonical, mode, updates, drawn, snapshot,
                   failed, doing, exact>>

(* The GPU copies once the stream's staged uploads have arrived.           *)
Arrived ==
    [b \in Buffers |->
        Uploads(physical[b],
                UNION {staged[i].words : i \in {j \in 1..Len(staged) :
                                                  staged[j].buffer = b}},
                Planned(b))]

(* PreparedBufferOnlyPlan::publish, and the deltas of the prepared buffers *)
(* cleared.                                                                *)
Published(b) ==
    [bytes |-> Planned(b),
     revision |-> Revision(b),
     upload |-> IF b \in prepared THEN None ELSE Upload(b)]

(* The checkpoint accepted the tracked stream, or every event of the       *)
(* synchronous one succeeded: the draws read the GPU copies, the plan      *)
(* becomes the shadow and its validations are kept.                        *)
Accept ==
    /\ doing = "prepare"
    /\ drawn \subseteq prepared
    /\ physical' = Arrived
    /\ exact' = (exact /\ \A b \in drawn : Matches(Arrived[b], Planned(b)))
    /\ shadow' = [b \in Buffers |-> Published(b)]
    /\ canonical' = [b \in Buffers |-> IF b \in drawn THEN Revision(b)
                                       ELSE canonical[b]]
    /\ Return
    /\ UNCHANGED uploaded

-----------------------------------------------------------------------------
(* Compute streams run on storage of their own and are read back.          *)

ForgetTag(b) == canonical' = [canonical EXCEPT ![b] = NoRevision]

ComputeStream(b, lo, hi, v) ==
    /\ doing = "idle"
    /\ ~failed
    /\ shadow[b].revision < MaxRevision
    /\ shadow' = [shadow EXCEPT ![b] =
          [bytes |-> Written(Written(shadow[b].bytes, Words, Words,
                                     [i \in {Words} |->
                                        IF Words <= Len(shadow[b].bytes)
                                        THEN shadow[b].bytes[Words] ELSE 0]),
                             lo, hi, [i \in lo..hi |-> v]),
           revision |-> shadow[b].revision + 1,
           upload |-> None]]
    /\ ForgetTag(b)
    /\ UNCHANGED <<uploaded, physical, streamVars, failed, doing, exact>>

(* A dispatch fails after the device accepted part of the stream, or a     *)
(* fenced cleanup does: the cache refuses everything from then on.         *)
CacheFails ==
    /\ doing = "idle"
    /\ ~failed
    /\ failed' = TRUE
    /\ UNCHANGED <<resourceVars, streamVars, doing, exact>>

(* release_buffer: the slot starts again at revision 0.                    *)
ReleaseShadow(b) ==
    /\ doing = "idle"
    /\ ~failed
    /\ shadow' = [shadow EXCEPT ![b] =
                     [bytes |-> << >>, revision |-> 0, upload |-> None]]
    /\ ForgetTag(b)
    /\ uploaded' = [uploaded EXCEPT ![b] = NoRevision]
    /\ physical' = [physical EXCEPT ![b] = [w \in 1..Words |-> Junk]]
    /\ UNCHANGED <<streamVars, failed, doing, exact>>

-----------------------------------------------------------------------------
ShadowInit ==
    /\ shadow = [b \in Buffers |->
                    [bytes |-> << >>, revision |-> 0, upload |-> None]]
    /\ canonical = [b \in Buffers |-> NoRevision]
    /\ uploaded = [b \in Buffers |-> NoRevision]
    /\ physical = [b \in Buffers |-> [w \in 1..Words |-> Junk]]
    /\ failed = FALSE
    /\ doing = "idle"
    /\ mode = "tracked"
    /\ updates = [b \in Buffers |-> None]
    /\ drawn = {} /\ prepared = {} /\ staged = << >>
    /\ snapshot = [b \in Buffers |-> NoRevision]
    /\ exact = TRUE

\* The calls on the buffers of B.
CallsOn(B) ==
    \/ \E m \in {"tracked", "synchronous"} : BeginStream(m)
    \/ \E b \in B, lo, hi \in 1..Words, v \in Values :
          /\ lo <= hi
          /\ WriteBuffer(b, lo, hi, v) \/ ComputeStream(b, lo, hi, v)
    \/ \E source, b \in B, lo, hi \in 1..Words :
          lo <= hi /\ CopyBuffer(source, b, lo, hi)
    \/ \E D \in SUBSET B : PlanDraws(D)
    \/ PlanRejected
    \/ \E b \in B : PrepareBuffer(b) \/ PrepareFails(b) \/ ReleaseShadow(b)
    \/ EventsFail
    \/ CheckpointRefused
    \/ Accept
    \/ CacheFails

ShadowNext == CallsOn(Buffers)

ShadowSpec == ShadowInit /\ [][ShadowNext]_shadowVars

-----------------------------------------------------------------------------
(* Properties.                                                             *)

(* Every draw reads, from the GPU copy of the buffer it binds, exactly     *)
(* what the application had written when the stream was recorded: deltas,  *)
(* merged deltas, full repairs, refused streams, compute results and       *)
(* released slots never leave a stale word.                                *)
DrawsReadWrites == exact

(* The rule deltas live by: a GPU copy at the shadow's revision holds the  *)
(* shadow's contents, and one at the base of the shadow's delta differs    *)
(* from them at most in the delta's words.                                 *)
GpuCopyFollowsShadow ==
    doing = "idle" => \A b \in Buffers :
        /\ uploaded[b] = shadow[b].revision =>
              Matches(physical[b], shadow[b].bytes)
        /\ shadow[b].upload # None =>
              \/ uploaded[b] # shadow[b].upload.base
              \/ shadow[b].upload.dirty = Full
              \/ \A w \in (1..Len(shadow[b].bytes)) \ shadow[b].upload.dirty :
                    physical[b][w] = shadow[b].bytes[w]

(* A canonical tag at the shadow's revision means its records are valid,   *)
(* although the slot may have been released and its revisions restarted,   *)
(* or a compute stream replaced its contents.                              *)
CanonicalTagIsCurrent ==
    \A b \in Buffers : canonical[b] = shadow[b].revision =>
        ValidRecords(shadow[b].bytes)

(* The invariant of the shadows: draws read what was written, because GPU  *)
(* copies follow revisions and tags belong to contents (IrBuffer).         *)
ShadowInvariant == DrawsReadWrites /\ GpuCopyFollowsShadow /\ CanonicalTagIsCurrent

=============================================================================
