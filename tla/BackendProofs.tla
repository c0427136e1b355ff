----------------------------- MODULE BackendProofs -----------------------------
(***************************************************************************)
(* Proofs about what the two backends do for a submission, for any value   *)
(* of the constants.                                                       *)
(*                                                                         *)
(* VirGL: the buffers' GPU copies (BufferShadow), where every step keeps   *)
(* ShadowInv but the failure of a synchronous stream after it prepared a   *)
(* buffer, and the chunks, arenas and receipt of a tracked call            *)
(* (SubmitMode), where SubmitInv is inductive.                             *)
(*                                                                         *)
(* WGPU: the tracked submissions (WgpuCompletion), for any number of       *)
(* threads, slots and submissions, with errors in any call, callbacks in   *)
(* any poll and the loss of the device at any step.                        *)
(***************************************************************************)
EXTENDS BufferShadow, SubmitMode, WgpuCompletion, NaturalSets,
        SequenceTheorems, FiniteSetTheorems, TLAPS

-----------------------------------------------------------------------------
(* VirGL buffers: the inductive invariant of BufferShadow.                 *)

Contents == {s \in Seq(Nat) : Len(s) <= Words}
Deltas == [base : Nat, dirty : SUBSET Nat]
Shadows == [bytes : Contents, revision : Nat, upload : Deltas \cup {None}]
StagedUploads == [buffer : Buffers, words : SUBSET Nat]

ShadowTypeOK ==
  /\ shadow \in [Buffers -> Shadows]
  /\ updates \in [Buffers -> [bytes : Contents, upload : Deltas] \cup {None}]
  /\ canonical \in [Buffers -> Int]
  /\ uploaded \in [Buffers -> Int] /\ snapshot \in [Buffers -> Int]
  /\ DOMAIN physical = Buffers /\ \A b \in Buffers : DOMAIN physical[b] = 1..Words
  /\ doing \in {"idle", "plan", "prepare"} /\ mode \in {"tracked", "synchronous"}
  /\ drawn \subseteq Buffers /\ prepared \subseteq drawn
  /\ staged \in Seq(StagedUploads)

\* A GPU copy at revision up is what the shadow's revision and delta say.
CopyFollows(b, up) ==
  /\ up <= shadow[b].revision
  /\ up = shadow[b].revision => Matches(physical[b], shadow[b].bytes)
  /\ shadow[b].upload # None =>
       /\ shadow[b].upload.base < shadow[b].revision
       /\ up = shadow[b].upload.base /\ shadow[b].upload.dirty # Full =>
            \A w \in (1..Len(shadow[b].bytes)) \ shadow[b].upload.dirty :
              physical[b][w] = shadow[b].bytes[w]

\* What a stream writes differs from the shadow at most in its delta.
UpdateFits(b) ==
  updates[b] # None =>
    /\ updates[b].upload.base = shadow[b].revision
    /\ updates[b].upload.dirty # Full =>
         \A w \in (1..Len(updates[b].bytes)) \ updates[b].upload.dirty :
           w <= Len(shadow[b].bytes) /\ shadow[b].bytes[w] = updates[b].bytes[w]

TagFits(b) ==
  /\ canonical[b] <= shadow[b].revision
  /\ canonical[b] = shadow[b].revision => ValidRecords(shadow[b].bytes)

StagedWords(b) ==
  UNION {staged[i].words : i \in {j \in 1..Len(staged) : staged[j].buffer = b}}

\* The copy of a prepared buffer has, or has staged, all that was written.
Covered(b) ==
  /\ uploaded[b] = Revision(b)
  /\ \A w \in 1..Len(Planned(b)) : w \in StagedWords(b) \/ physical[b][w] = Planned(b)[w]

\* What a buffer that is not prepared keeps while a stream is under way.
Untouched(b) ==
  uploaded[b] = snapshot[b] /\ StagedWords(b) = {} /\ CopyFollows(b, uploaded[b])

\* What holds between BeginStream and the end of the stream.
StreamFits ==
  /\ \A b \in Buffers : UpdateFits(b)
  /\ \A b \in Buffers \ prepared : Untouched(b)
  /\ \A b \in prepared : Covered(b)
  /\ mode = "tracked" => \A b \in Buffers : CopyFollows(b, snapshot[b])
  /\ mode = "synchronous" => staged = << >>
  /\ doing = "plan" => drawn = {}
  /\ \A b \in drawn : ValidRecords(Planned(b))

ShadowInv ==
  /\ ShadowTypeOK
  /\ exact = TRUE
  /\ \A b \in Buffers : TagFits(b)
  /\ doing = "idle" => \A b \in Buffers : CopyFollows(b, uploaded[b])
  /\ doing # "idle" => StreamFits

-----------------------------------------------------------------------------
(* Contents and deltas.                                                    *)

\* What the types say of one buffer.
LEMMA ShadowFields ==
  ASSUME ShadowTypeOK, NEW b \in Buffers
  PROVE  /\ shadow[b].bytes \in Contents /\ shadow[b].revision \in Nat
         /\ shadow[b].upload # None => shadow[b].upload \in Deltas
         /\ updates[b] # None => updates[b].bytes \in Contents /\ updates[b].upload \in Deltas
         /\ uploaded[b] \in Int /\ snapshot[b] \in Int /\ canonical[b] \in Int
         /\ DOMAIN physical[b] = 1..Words
         /\ Planned(b) \in Contents /\ Revision(b) \in Nat
<1>1. shadow[b] \in Shadows /\ updates[b] \in [bytes : Contents, upload : Deltas] \cup {None}
  BY DEF ShadowTypeOK
<1>2. /\ shadow[b].bytes \in Contents /\ shadow[b].revision \in Nat
      /\ shadow[b].upload # None => shadow[b].upload \in Deltas
      /\ updates[b] # None => updates[b].bytes \in Contents /\ updates[b].upload \in Deltas
  BY <1>1 DEF Shadows
<1>3. uploaded[b] \in Int /\ snapshot[b] \in Int /\ canonical[b] \in Int
      /\ DOMAIN physical[b] = 1..Words
  BY DEF ShadowTypeOK
<1>4. QED
  BY <1>2, <1>3 DEF Planned, Revision

\* What the types say of contents.
LEMMA ContentsFields ==
  ASSUME NEW s \in Contents
  PROVE  /\ s \in Seq(Nat) /\ Len(s) \in Nat /\ Len(s) <= Words
         /\ \A w \in 1..Len(s) : s[w] \in Nat
BY DEF Contents

\* What the types say of a delta.
LEMMA DeltaFields ==
  ASSUME NEW d \in Deltas
  PROVE  d.base \in Nat /\ d.dirty \in SUBSET Nat
BY DEF Deltas

\* A write within the buffer leaves contents of the buffer.
LEMMA WrittenFacts ==
  ASSUME NEW s \in Contents, NEW lo \in 1..Words, NEW hi \in 1..Words, NEW new,
         \A i \in lo..hi : new[i] \in Nat
  PROVE  Written(s, lo, hi, new) \in Contents
<1> DEFINE n == IF hi > Len(s) THEN hi ELSE Len(s)
           t == [i \in 1..n |-> IF i \in lo..hi THEN new[i] ELSE IF i <= Len(s) THEN s[i] ELSE 0]
<1>1. Words \in Nat
  BY ShadowAssumption DEF ShadowAssumption
<1>2. Len(s) \in Nat /\ Len(s) <= Words /\ \A w \in 1..Len(s) : s[w] \in Nat
  BY ContentsFields
<1>3. n \in Nat /\ n <= Words
  BY <1>1, <1>2
<1>4. Written(s, lo, hi, new) = t
  BY DEF Written
<1> HIDE DEF n
<1>5. t \in [1..n -> Nat]
  BY <1>2, <1>3
<1>6. t \in Seq(Nat) /\ Len(t) = n
  BY <1>3, <1>5
<1>7. QED
  BY <1>3, <1>4, <1>6 DEF Contents

\* Adding words to a delta keeps those it has, or repairs everything.
LEMMA IncludeFacts ==
  ASSUME NEW dirty \in SUBSET Nat, NEW words \in SUBSET Nat
  PROVE  /\ Include(dirty, words) \in SUBSET Nat
         /\ Include(dirty, words) # Full =>
              /\ dirty # Full /\ words # Full
              /\ Include(dirty, words) = dirty \cup words
BY DEF Include, Full

\* Outside the range of a change nothing changed.
LEMMA ChangedRangeFacts ==
  ASSUME NEW s \in Contents, NEW t \in Contents
  PROVE  /\ ChangedRange(s, t) \in SUBSET Nat
         /\ \A w \in (1..Len(t)) \ ChangedRange(s, t) : w <= Len(s) /\ s[w] = t[w]
<1>1. Len(s) \in Nat /\ Len(t) \in Nat
  BY ContentsFields
<1>2. ASSUME NEW w \in 1..Len(t), w \notin ChangedRange(s, t) PROVE w <= Len(s) /\ s[w] = t[w]
  <2>1. w \notin Changed(s, t)
    BY <1>1, <1>2 DEF ChangedRange
  <2>2. QED
    BY <1>1, <1>2, <2>1 DEF Changed
<1>3. QED
  BY <1>1, <1>2 DEF ChangedRange

\* What the delta of a stream under way says of the GPU copy.
LEMMA UploadFollows ==
  ASSUME ShadowTypeOK, NEW b \in Buffers, UpdateFits(b), NEW up \in Int, CopyFollows(b, up)
  PROVE  /\ up <= Revision(b)
         /\ up = Revision(b) => Matches(physical[b], Planned(b))
         /\ Upload(b) # None =>
              /\ Upload(b) \in Deltas /\ Upload(b).base < Revision(b)
              /\ up = Upload(b).base /\ Upload(b).dirty # Full =>
                   \A w \in (1..Len(Planned(b))) \ Upload(b).dirty : physical[b][w] = Planned(b)[w]
<1>0. /\ shadow[b].bytes \in Contents /\ shadow[b].revision \in Nat
      /\ shadow[b].upload # None => shadow[b].upload \in Deltas
      /\ updates[b] # None => updates[b].bytes \in Contents /\ updates[b].upload \in Deltas
  BY ShadowFields
<1>1. CASE updates[b] = None
  BY <1>0, <1>1 DEF CopyFollows, Planned, Revision, Upload
<1>2. CASE updates[b] # None
  <2> DEFINE old == shadow[b].upload
             new == updates[b].upload
  <2>1. /\ Planned(b) = updates[b].bytes /\ Revision(b) = shadow[b].revision + 1
        /\ Upload(b) = MergedUpload(b, new)
    BY <1>2 DEF Planned, Revision, Upload
  <2>2. /\ new \in Deltas /\ new.base = shadow[b].revision /\ new.dirty \in SUBSET Nat
        /\ new.base \in Nat
        /\ new.dirty # Full =>
             \A w \in (1..Len(Planned(b))) \ new.dirty :
               w <= Len(shadow[b].bytes) /\ shadow[b].bytes[w] = Planned(b)[w]
    BY <1>0, <1>2, <2>1, DeltaFields DEF UpdateFits
  <2>3. up <= shadow[b].revision /\ up # Revision(b) /\ up <= Revision(b)
    BY <1>0, <2>1 DEF CopyFollows
  <2>4. Len(shadow[b].bytes) \in Nat /\ Len(Planned(b)) \in Nat
    BY <1>0, <1>2, <2>1, ContentsFields
  <2>5. CASE old # None /\ old.base < shadow[b].revision
    <3> DEFINE both == Include(new.dirty, old.dirty)
    <3>1. Upload(b) = [base |-> old.base, dirty |-> both]
      BY <2>1, <2>2, <2>5 DEF MergedUpload
    <3>2. old.base \in Nat /\ old.dirty \in SUBSET Nat
      BY <1>0, <2>5, DeltaFields
    <3>3. /\ both \in SUBSET Nat
          /\ both # Full => new.dirty # Full /\ old.dirty # Full /\ both = new.dirty \cup old.dirty
      BY <2>2, <3>2, IncludeFacts
    <3> HIDE DEF both
    <3>4. Upload(b).base = old.base /\ Upload(b).dirty = both
      BY <3>1
    <3>5. Upload(b) \in Deltas /\ Upload(b).base < Revision(b)
      BY <1>0, <2>1, <2>5, <3>1, <3>2, <3>3 DEF Deltas
    <3>6. ASSUME up = Upload(b).base, both # Full, NEW w \in 1..Len(Planned(b)), w \notin both
          PROVE  physical[b][w] = Planned(b)[w]
      <4>1. w <= Len(shadow[b].bytes) /\ shadow[b].bytes[w] = Planned(b)[w]
        BY <2>2, <3>3, <3>6
      <4>2. w \in (1..Len(shadow[b].bytes)) \ old.dirty
        BY <2>4, <3>3, <3>6, <4>1
      <4>3. physical[b][w] = shadow[b].bytes[w]
        BY <2>5, <3>3, <3>4, <3>6, <4>2 DEF CopyFollows
      <4>4. QED
        BY <4>1, <4>3
    <3>7. QED
      BY <2>3, <3>4, <3>5, <3>6
  <2>6. CASE ~(old # None /\ old.base < shadow[b].revision)
    <3>1. Upload(b) = new
      BY <2>1, <2>6 DEF MergedUpload
    <3>2. Upload(b) \in Deltas /\ Upload(b).base < Revision(b)
      BY <1>0, <2>1, <2>2, <3>1
    <3>3. ASSUME up = Upload(b).base, new.dirty # Full, NEW w \in 1..Len(Planned(b)), w \notin new.dirty
          PROVE  physical[b][w] = Planned(b)[w]
      <4>1. w <= Len(shadow[b].bytes) /\ shadow[b].bytes[w] = Planned(b)[w]
        BY <2>2, <3>3
      <4>2. Matches(physical[b], shadow[b].bytes) /\ w \in 1..Len(shadow[b].bytes)
        BY <2>2, <2>4, <3>1, <3>3, <4>1 DEF CopyFollows
      <4>3. QED
        BY <4>1, <4>2 DEF Matches
    <3>4. QED
      BY <2>3, <3>1, <3>2, <3>3
  <2>7. QED
    BY <2>5, <2>6
<1>3. QED
  BY <1>1, <1>2

\* What is uploaded and what the copy has already are the whole buffer.
LEMMA UploadCovers ==
  ASSUME ShadowTypeOK, NEW b \in Buffers, UpdateFits(b), CopyFollows(b, uploaded[b])
  PROVE  /\ UploadRanges(b) \in SUBSET Nat
         /\ \A w \in 1..Len(Planned(b)) : w \in UploadRanges(b) \/ physical[b][w] = Planned(b)[w]
<1>1. uploaded[b] \in Int /\ Len(Planned(b)) \in Nat
  BY ShadowFields, ContentsFields
<1>2. CASE UploadRanges(b) = 1..Len(Planned(b))
  BY <1>1, <1>2
<1>3. CASE UploadRanges(b) # 1..Len(Planned(b))
  <2>1. /\ Upload(b) # None /\ uploaded[b] = Upload(b).base /\ Upload(b).dirty # Full
        /\ UploadRanges(b) = Upload(b).dirty
    BY <1>3 DEF UploadRanges
  <2>2. Upload(b) \in Deltas
    BY <1>1, <2>1, UploadFollows
  <2>3. \A w \in (1..Len(Planned(b))) \ Upload(b).dirty : physical[b][w] = Planned(b)[w]
    BY <1>1, <2>1, UploadFollows
  <2>4. QED
    BY <2>1, <2>2, <2>3, DeltaFields
<1>4. QED
  BY <1>2, <1>3

-----------------------------------------------------------------------------
(* Every step keeps the invariant.                                         *)

\* Empty shadows have no copies, no deltas and no tags.
LEMMA InitShadowInv == ShadowInit => ShadowInv
<1> SUFFICES ASSUME ShadowInit PROVE ShadowInv
  OBVIOUS
<1> DEFINE empty == [bytes |-> << >>, revision |-> 0, upload |-> None]
<1>1. Words \in Nat /\ NoRevision = -1
  BY ShadowAssumption DEF ShadowAssumption, NoRevision
<1>2. << >> \in Contents
  BY <1>1 DEF Contents
<1>3. empty \in Shadows
  BY <1>2 DEF Shadows
<1>4. shadow = [b \in Buffers |-> empty]
  BY DEF ShadowInit
<1>5. empty.revision = 0 /\ empty.upload = None
  OBVIOUS
<1> HIDE DEF empty
<1>6. ShadowTypeOK
  <2>1. << >> \in Seq(StagedUploads)
    OBVIOUS
  <2>2. shadow \in [Buffers -> Shadows]
    BY <1>3, <1>4
  <2>3. updates \in [Buffers -> [bytes : Contents, upload : Deltas] \cup {None}]
    BY DEF ShadowInit
  <2>4. QED
    BY <1>1, <2>1, <2>2, <2>3 DEF ShadowTypeOK, ShadowInit
<1>7. ASSUME NEW b \in Buffers PROVE TagFits(b) /\ CopyFollows(b, uploaded[b])
  <2>1. shadow[b] = empty /\ canonical[b] = -1 /\ uploaded[b] = -1
    BY <1>1, <1>4 DEF ShadowInit
  <2>2. QED
    BY <1>5, <2>1 DEF TagFits, CopyFollows
<1>8. QED
  BY <1>6, <1>7 DEF ShadowInv, ShadowInit

\* What the invariant says while a stream is under way.
LEMMA WhileStreaming ==
  ASSUME ShadowInv, doing # "idle"
  PROVE  ShadowTypeOK /\ StreamFits /\ exact = TRUE /\ \A b \in Buffers : TagFits(b)
BY DEF ShadowInv

\* A stream begins with nothing planned and the copies in its snapshot.
LEMMA BeginStreamKeeps == ASSUME ShadowInv, NEW m \in {"tracked", "synchronous"}, BeginStream(m) PROVE ShadowInv'
<1>1. /\ doing = "idle" /\ doing' = "plan" /\ mode' = m
      /\ updates' = [b \in Buffers |-> None] /\ drawn' = {} /\ prepared' = {} /\ staged' = << >>
      /\ snapshot' = uploaded
      /\ UNCHANGED <<shadow, canonical, uploaded, physical, failed, exact>>
  BY DEF BeginStream, resourceVars
<1>2. ShadowTypeOK /\ \A b \in Buffers : TagFits(b) /\ CopyFollows(b, uploaded[b])
  BY <1>1 DEF ShadowInv
<1>3. << >> \in Seq(StagedUploads) /\ 1..Len(<< >>) = {}
  OBVIOUS
<1>4. ShadowTypeOK'
  BY <1>1, <1>2, <1>3 DEF ShadowTypeOK
<1>5. ASSUME NEW b \in Buffers
      PROVE  TagFits(b)' /\ UpdateFits(b)' /\ Untouched(b)' /\ CopyFollows(b, snapshot[b])'
  <2>1. StagedWords(b)' = {}
    BY <1>1, <1>3 DEF StagedWords
  <2>2. TagFits(b)' /\ CopyFollows(b, snapshot[b])' /\ CopyFollows(b, uploaded[b])'
    BY <1>1, <1>2 DEF TagFits, CopyFollows
  <2>3. UpdateFits(b)'
    BY <1>1 DEF UpdateFits
  <2>4. QED
    BY <1>1, <2>1, <2>2, <2>3 DEF Untouched
<1>6. StreamFits'
  BY <1>1, <1>5 DEF StreamFits
<1>7. QED
  BY <1>1, <1>2, <1>4, <1>5, <1>6 DEF ShadowInv

\* A write or a copy changes the plan and nothing else.
LEMMA PlanKeeps ==
  ASSUME ShadowInv, doing = "plan", drawn = {}, NEW b \in Buffers, NEW new \in Contents,
         PlanBytes(b, new),
         UNCHANGED <<resourceVars, mode, drawn, prepared, staged, snapshot, failed, doing, exact>>
  PROVE  ShadowInv'
<1>1. ShadowTypeOK /\ StreamFits /\ exact = TRUE /\ \A c \in Buffers : TagFits(c)
  BY WhileStreaming
<1>2. /\ UNCHANGED <<shadow, canonical, uploaded, physical, mode, drawn, prepared, staged,
                     snapshot, failed, doing, exact>>
      /\ prepared = {}
  BY <1>1 DEF resourceVars, ShadowTypeOK
<1> DEFINE range == ChangedRange(Planned(b), new)
           delta == IF updates[b] = None THEN [base |-> shadow[b].revision, dirty |-> range]
                    ELSE [updates[b].upload EXCEPT !.dirty = Include(@, range)]
           update == [bytes |-> new, upload |-> delta]
<1>3. updates' = [updates EXCEPT ![b] = update]
  BY DEF PlanBytes
<1>4. /\ Planned(b) \in Contents /\ shadow[b].bytes \in Contents /\ shadow[b].revision \in Nat
      /\ updates[b] # None => updates[b].upload \in Deltas /\ updates[b].bytes \in Contents
  BY <1>1, ShadowFields
<1>5. /\ range \in SUBSET Nat
      /\ \A w \in (1..Len(new)) \ range : w <= Len(Planned(b)) /\ Planned(b)[w] = new[w]
  BY <1>4, ChangedRangeFacts
<1> HIDE DEF range
<1>6. /\ delta \in Deltas /\ delta.base = shadow[b].revision
      /\ delta.dirty # Full =>
           \A w \in (1..Len(new)) \ delta.dirty :
             w <= Len(shadow[b].bytes) /\ shadow[b].bytes[w] = new[w]
  <2>1. CASE updates[b] = None
    <3>1. delta = [base |-> shadow[b].revision, dirty |-> range] /\ Planned(b) = shadow[b].bytes
      BY <2>1 DEF Planned
    <3> HIDE DEF delta
    <3>2. delta.base = shadow[b].revision /\ delta.dirty = range
      BY <3>1
    <3>3. QED
      BY <1>4, <1>5, <3>1, <3>2 DEF Deltas
  <2>2. CASE updates[b] # None
    <3> DEFINE old == updates[b].upload
    <3>1. /\ old \in Deltas /\ old.base = shadow[b].revision /\ Planned(b) = updates[b].bytes
          /\ old.dirty # Full =>
               \A w \in (1..Len(Planned(b))) \ old.dirty :
                 w <= Len(shadow[b].bytes) /\ shadow[b].bytes[w] = Planned(b)[w]
      BY <1>1, <1>4, <2>2 DEF Planned, StreamFits, UpdateFits
    <3>2. old.dirty \in SUBSET Nat
      BY <3>1, DeltaFields
    <3> DEFINE both == Include(old.dirty, range)
    <3>3. /\ both \in SUBSET Nat
          /\ both # Full => old.dirty # Full /\ both = old.dirty \cup range
      BY <1>5, <3>2, IncludeFacts
    <3>4. delta = [old EXCEPT !.dirty = both]
      BY <2>2
    <3> HIDE DEF both
    <3>5. delta = [base |-> old.base, dirty |-> both]
      BY <3>1, <3>4 DEF Deltas
    <3> HIDE DEF delta
    <3>6. delta.base = old.base /\ delta.dirty = both
      BY <3>5
    <3>7. delta \in Deltas
      BY <3>1, <3>3, <3>5, DeltaFields DEF Deltas
    <3>8. ASSUME both # Full, NEW w \in 1..Len(new), w \notin both
          PROVE  w <= Len(shadow[b].bytes) /\ shadow[b].bytes[w] = new[w]
      <4>1. w <= Len(Planned(b)) /\ Planned(b)[w] = new[w] /\ w \notin old.dirty
        BY <1>5, <3>3, <3>8
      <4>2. w \in 1..Len(Planned(b))
        BY <1>4, <4>1, ContentsFields
      <4>3. QED
        BY <3>1, <3>3, <3>8, <4>1, <4>2
    <3>9. QED
      BY <3>1, <3>6, <3>7, <3>8
  <2>3. QED
    BY <2>1, <2>2
<1> HIDE DEF delta
<1>7. update.bytes = new /\ update.upload = delta
  OBVIOUS
<1>8. update \in [bytes : Contents, upload : Deltas]
  BY <1>6
<1> HIDE DEF update
<1>9. updates'[b] = update /\ \A c \in Buffers : c # b => updates'[c] = updates[c]
  BY <1>1, <1>3 DEF ShadowTypeOK
<1>10. ShadowTypeOK'
  <2>1. updates' \in [Buffers -> [bytes : Contents, upload : Deltas] \cup {None}]
    BY <1>1, <1>3, <1>8 DEF ShadowTypeOK
  <2>2. QED
    BY <1>1, <1>2, <2>1 DEF ShadowTypeOK
<1>11. ASSUME NEW c \in Buffers
       PROVE  TagFits(c)' /\ UpdateFits(c)' /\ Untouched(c)'
              /\ (mode = "tracked" => CopyFollows(c, snapshot[c])')
  <2>1. Untouched(c) /\ TagFits(c) /\ (mode = "tracked" => CopyFollows(c, snapshot[c]))
    BY <1>1, <1>2 DEF StreamFits
  <2>2. StagedWords(c)' = StagedWords(c)
    BY <1>2 DEF StagedWords
  <2>3. Untouched(c)' /\ TagFits(c)' /\ (mode = "tracked" => CopyFollows(c, snapshot[c])')
    BY <1>2, <2>1, <2>2 DEF Untouched, TagFits, CopyFollows
  <2>4. UpdateFits(c)'
    <3>1. CASE c = b
      BY <1>2, <1>6, <1>7, <1>9, <3>1 DEF UpdateFits
    <3>2. CASE c # b
      BY <1>1, <1>2, <1>9, <3>2 DEF UpdateFits, StreamFits
    <3>3. QED
      BY <3>1, <3>2
  <2>5. QED
    BY <2>3, <2>4
<1>12. StreamFits'
  BY <1>1, <1>2, <1>11 DEF StreamFits
<1>13. QED
  BY <1>1, <1>2, <1>10, <1>11, <1>12 DEF ShadowInv

\* A write plans contents of the buffer.
LEMMA WriteBufferKeeps ==
  ASSUME ShadowInv, NEW b \in Buffers, NEW lo \in 1..Words, NEW hi \in 1..Words, NEW v \in Values,
         WriteBuffer(b, lo, hi, v)
  PROVE  ShadowInv'
<1> DEFINE new == Written(Planned(b), lo, hi, [i \in lo..hi |-> v])
<1>1. doing = "plan" /\ drawn = {} /\ PlanBytes(b, new)
      /\ UNCHANGED <<resourceVars, mode, drawn, prepared, staged, snapshot, failed, doing, exact>>
  BY DEF WriteBuffer
<1>2. new \in Contents
  <2>1. Planned(b) \in Contents
    BY <1>1, WhileStreaming, ShadowFields
  <2>2. \A i \in lo..hi : [j \in lo..hi |-> v][i] \in Nat
    BY ShadowAssumption DEF ShadowAssumption
  <2>3. QED
    BY <2>1, <2>2, WrittenFacts
<1>3. QED
  BY <1>1, <1>2, PlanKeeps

\* A copy plans contents of the buffer.
LEMMA CopyBufferKeeps ==
  ASSUME ShadowInv, NEW source \in Buffers, NEW b \in Buffers, NEW lo \in 1..Words,
         NEW hi \in 1..Words, CopyBuffer(source, b, lo, hi)
  PROVE  ShadowInv'
<1> DEFINE read == [i \in lo..hi |-> IF i <= Len(Planned(source)) THEN Planned(source)[i] ELSE 0]
           new == Written(Planned(b), lo, hi, read)
<1>1. doing = "plan" /\ drawn = {} /\ PlanBytes(b, new)
      /\ UNCHANGED <<resourceVars, mode, drawn, prepared, staged, snapshot, failed, doing, exact>>
  BY DEF CopyBuffer
<1>2. new \in Contents
  <2>1. Planned(b) \in Contents /\ Planned(source) \in Contents
    BY <1>1, WhileStreaming, ShadowFields
  <2>2. ASSUME NEW i \in lo..hi PROVE read[i] \in Nat
    <3>1. i \in Nat /\ i > 0
      BY ShadowAssumption DEF ShadowAssumption
    <3>2. i <= Len(Planned(source)) => Planned(source)[i] \in Nat
      BY <2>1, <3>1, ContentsFields
    <3>3. QED
      BY <3>2
  <2>3. QED
    BY <2>1, <2>2, WrittenFacts
<1>3. QED
  BY <1>1, <1>2, PlanKeeps

\* A canonical tag at the planned revision vouches for the planned contents.
LEMMA PlanDrawsKeeps == ASSUME ShadowInv, NEW D \in SUBSET Buffers, PlanDraws(D) PROVE ShadowInv'
<1>1. /\ doing = "plan" /\ drawn' = D /\ doing' = "prepare"
      /\ UNCHANGED <<shadow, canonical, uploaded, physical, mode, updates, prepared, staged,
                     snapshot, failed, exact>>
      /\ \A b \in D : NeedsValidation(b) => ValidRecords(Planned(b))
  BY DEF PlanDraws, resourceVars
<1>2. ShadowTypeOK /\ StreamFits /\ exact = TRUE /\ \A b \in Buffers : TagFits(b)
  BY <1>1, WhileStreaming
<1>3. drawn = {} /\ prepared = {}
  BY <1>1, <1>2 DEF StreamFits, ShadowTypeOK
<1>4. ShadowTypeOK'
  BY <1>1, <1>2, <1>3 DEF ShadowTypeOK
<1>5. ASSUME NEW b \in D PROVE ValidRecords(Planned(b))
  <2>1. CASE NeedsValidation(b)
    BY <1>1, <2>1
  <2>2. CASE ~NeedsValidation(b)
    <3>1. canonical[b] = Revision(b) /\ TagFits(b) /\ shadow[b].revision \in Nat
      BY <1>2, <2>2, ShadowFields DEF NeedsValidation
    <3>2. updates[b] = None
      BY <3>1 DEF Revision, TagFits
    <3>3. QED
      BY <3>1, <3>2 DEF Revision, TagFits, Planned
  <2>3. QED
    BY <2>1, <2>2
<1>6. ASSUME NEW b \in Buffers
      PROVE  /\ TagFits(b)' /\ UpdateFits(b)' /\ Untouched(b)'
             /\ Planned(b)' = Planned(b)
             /\ (mode = "tracked" => CopyFollows(b, snapshot[b])')
  <2>1. Untouched(b) /\ TagFits(b) /\ UpdateFits(b)
        /\ (mode = "tracked" => CopyFollows(b, snapshot[b]))
    BY <1>2, <1>3 DEF StreamFits
  <2>2. StagedWords(b)' = StagedWords(b) /\ Planned(b)' = Planned(b)
    BY <1>1 DEF StagedWords, Planned
  <2>3. QED
    BY <1>1, <2>1, <2>2 DEF Untouched, TagFits, CopyFollows, UpdateFits
<1>7. StreamFits'
  BY <1>1, <1>2, <1>3, <1>5, <1>6 DEF StreamFits
<1>8. QED
  BY <1>1, <1>2, <1>4, <1>6, <1>7 DEF ShadowInv

\* A stream that is refused leaves the shadows as they were.
LEMMA RefuseKeeps ==
  ASSUME ShadowInv, doing # "idle", Refuse, uploaded' \in [Buffers -> Int],
         DOMAIN physical' = Buffers, \A b \in Buffers : DOMAIN physical'[b] = 1..Words,
         \A b \in Buffers : CopyFollows(b, uploaded[b])'
  PROVE  ShadowInv'
<1>1. ShadowTypeOK /\ exact = TRUE /\ \A b \in Buffers : TagFits(b)
  BY WhileStreaming
<1>2. /\ doing' = "idle" /\ mode' = "tracked" /\ updates' = [b \in Buffers |-> None]
      /\ drawn' = {} /\ prepared' = {} /\ staged' = << >>
      /\ snapshot' = [b \in Buffers |-> NoRevision]
      /\ UNCHANGED <<failed, shadow, canonical, exact>>
  BY DEF Refuse, Return
<1>3. << >> \in Seq(StagedUploads) /\ NoRevision \in Int
  BY DEF NoRevision
<1>4. ShadowTypeOK'
  <2>1. updates' \in [Buffers -> [bytes : Contents, upload : Deltas] \cup {None}]
    BY <1>2
  <2>2. snapshot' \in [Buffers -> Int]
    BY <1>2, <1>3
  <2>3. QED
    BY <1>1, <1>2, <1>3, <2>1, <2>2 DEF ShadowTypeOK
<1>5. \A b \in Buffers : TagFits(b)'
  BY <1>1, <1>2 DEF TagFits
<1>6. QED
  BY <1>1, <1>2, <1>4, <1>5 DEF ShadowInv

\* Nothing was sent: the copies are where the snapshot or the shadow says.
LEMMA RestoreKeeps ==
  ASSUME ShadowInv, doing # "idle", Restore(uploaded), Refuse, UNCHANGED physical,
         mode = "tracked" \/ prepared = {}
  PROVE  ShadowInv'
<1>1. ShadowTypeOK /\ StreamFits
  BY WhileStreaming
<1>2. UNCHANGED <<shadow, physical>>
  BY DEF Refuse
<1>3. CASE mode = "tracked"
  <2>1. uploaded' = snapshot
    BY <1>3 DEF Restore
  <2>2. \A b \in Buffers : CopyFollows(b, uploaded[b])'
    BY <1>1, <1>2, <1>3, <2>1 DEF StreamFits, CopyFollows
  <2>3. QED
    BY <1>1, <1>2, <2>1, <2>2, RefuseKeeps DEF ShadowTypeOK
<1>4. CASE mode # "tracked"
  <2>1. uploaded' = uploaded /\ prepared = {}
    BY <1>4 DEF Restore
  <2>2. \A b \in Buffers : CopyFollows(b, uploaded[b])'
    BY <1>1, <1>2, <2>1 DEF StreamFits, Untouched, CopyFollows
  <2>3. QED
    BY <1>1, <1>2, <2>1, <2>2, RefuseKeeps DEF ShadowTypeOK
<1>5. QED
  BY <1>3, <1>4

\* A buffer whose upload failed has no revision, whatever of it arrived.
LEMMA PrepareFailsKeeps ==
  ASSUME ShadowInv, NEW b \in Buffers, PrepareFails(b), mode = "tracked" \/ prepared = {}
  PROVE  ShadowInv'
<1>1. /\ doing = "prepare" /\ Refuse
      /\ Restore([uploaded EXCEPT ![b] = NoRevision])
  BY DEF PrepareFails
<1>2. ShadowTypeOK /\ StreamFits
  BY <1>1, WhileStreaming
<1>3. shadow' = shadow
  BY <1>1 DEF Refuse
<1>4. CASE mode = "tracked"
  <2>1. uploaded' = snapshot /\ physical' = physical
    BY <1>1, <1>4 DEF Restore, PrepareFails
  <2>2. \A c \in Buffers : CopyFollows(c, uploaded[c])'
    BY <1>2, <1>3, <1>4, <2>1 DEF StreamFits, CopyFollows
  <2>3. QED
    BY <1>1, <1>2, <2>1, <2>2, RefuseKeeps DEF ShadowTypeOK
<1>5. CASE mode # "tracked"
  <2>1. uploaded' = [uploaded EXCEPT ![b] = NoRevision] /\ prepared = {}
    BY <1>1, <1>5 DEF Restore
  <2>2. PICK k \in 0..Words : physical' =
          [physical EXCEPT ![b] = Uploads(@, {w \in UploadRanges(b) : w <= k}, Planned(b))]
    BY <1>5 DEF PrepareFails
  <2>3. /\ DOMAIN physical' = Buffers /\ \A c \in Buffers : c # b => physical'[c] = physical[c]
        /\ physical'[b] = Uploads(physical[b], {w \in UploadRanges(b) : w <= k}, Planned(b))
    BY <1>2, <2>2 DEF ShadowTypeOK
  <2>4. \A c \in Buffers : DOMAIN physical'[c] = 1..Words
    BY <1>2, <2>3 DEF ShadowTypeOK, Uploads
  <2>5. uploaded' \in [Buffers -> Int] /\ NoRevision = -1
    BY <1>2, <2>1 DEF ShadowTypeOK, NoRevision
  <2>6. ASSUME NEW c \in Buffers PROVE CopyFollows(c, uploaded[c])'
    <3>1. CASE c # b
      <4>1. uploaded'[c] = uploaded[c] /\ CopyFollows(c, uploaded[c])
        BY <1>2, <2>1, <3>1 DEF ShadowTypeOK, StreamFits, Untouched
      <4>2. QED
        BY <1>3, <2>3, <3>1, <4>1 DEF CopyFollows
    <3>2. CASE c = b
      <4>1. uploaded'[b] = -1
        BY <1>2, <2>1, <2>5 DEF ShadowTypeOK
      <4>2. shadow[b].revision \in Nat /\ CopyFollows(b, uploaded[b])
        BY <1>2, <2>1, ShadowFields DEF StreamFits, Untouched
      <4>3. shadow[b].upload # None => shadow[b].upload.base \in Nat
        BY <1>2, ShadowFields, DeltaFields
      <4>4. -1 <= shadow[b].revision /\ -1 # shadow[b].revision
        BY <4>2
      <4>5. shadow[b].upload # None =>
              /\ shadow[b].upload.base < shadow[b].revision /\ shadow[b].upload.base # -1
        BY <4>2, <4>3 DEF CopyFollows
      <4>6. QED
        BY <1>3, <3>2, <4>1, <4>4, <4>5 DEF CopyFollows
    <3>3. QED
      BY <3>1, <3>2
  <2>7. QED
    BY <1>1, <2>3, <2>4, <2>5, <2>6, RefuseKeeps
<1>6. QED
  BY <1>4, <1>5

\* A buffer is prepared when all of it that the copy lacks is on its way.
LEMMA PrepareBufferKeeps ==
  ASSUME ShadowInv, NEW b \in Buffers, PrepareBuffer(b)
  PROVE  ShadowInv'
<1>1. /\ doing = "prepare" /\ b \in drawn \ prepared /\ prepared' = prepared \cup {b}
      /\ uploaded' = [uploaded EXCEPT ![b] = Revision(b)]
      /\ UNCHANGED <<shadow, canonical, mode, updates, drawn, snapshot, failed, doing, exact>>
  BY DEF PrepareBuffer
<1>2. ShadowTypeOK /\ StreamFits /\ exact = TRUE /\ \A c \in Buffers : TagFits(c)
  BY <1>1, WhileStreaming
<1>3. Untouched(b) /\ UpdateFits(b)
  BY <1>1, <1>2 DEF StreamFits
<1>4. /\ Revision(b) \in Nat /\ Planned(b) \in Contents /\ uploaded[b] \in Int
      /\ Len(Planned(b)) \in Nat /\ Len(Planned(b)) <= Words
  BY <1>2, ShadowFields, ContentsFields
<1>5. /\ uploaded' \in [Buffers -> Int] /\ uploaded'[b] = Revision(b)
      /\ \A c \in Buffers : c # b => uploaded'[c] = uploaded[c]
  BY <1>1, <1>2, <1>4 DEF ShadowTypeOK
<1>6. \A c \in Buffers : Planned(c)' = Planned(c) /\ Revision(c)' = Revision(c)
  BY <1>1 DEF Planned, Revision
<1>7. /\ UploadRanges(b) \in SUBSET Nat
      /\ \A w \in 1..Len(Planned(b)) : w \in UploadRanges(b) \/ physical[b][w] = Planned(b)[w]
  BY <1>2, <1>3, UploadCovers DEF Untouched
\* What is left to show of the copies and the staged uploads.
<1>8. ASSUME DOMAIN physical' = Buffers, \A c \in Buffers : DOMAIN physical'[c] = 1..Words,
             staged' \in Seq(StagedUploads), mode = "tracked" => physical' = physical,
             mode = "synchronous" => staged' = << >>,
             \A c \in Buffers : c # b => physical'[c] = physical[c] /\ StagedWords(c)' = StagedWords(c),
             \A w \in 1..Len(Planned(b)) : w \in StagedWords(b)' \/ physical'[b][w] = Planned(b)[w]
      PROVE  ShadowInv'
  <2>1. ShadowTypeOK'
    BY <1>1, <1>2, <1>5, <1>8 DEF ShadowTypeOK
  <2>2. ASSUME NEW c \in Buffers PROVE TagFits(c)' /\ UpdateFits(c)'
    BY <1>1, <1>2 DEF TagFits, UpdateFits, StreamFits
  <2>3. ASSUME NEW c \in Buffers \ prepared' PROVE Untouched(c)'
    <3>1. c # b /\ Untouched(c)
      BY <1>1, <1>2, <2>3 DEF StreamFits
    <3>2. QED
      BY <1>1, <1>5, <1>8, <3>1 DEF Untouched, CopyFollows
  <2>4. ASSUME NEW c \in prepared' PROVE Covered(c)'
    <3>1. CASE c = b
      BY <1>5, <1>6, <1>8, <3>1 DEF Covered
    <3>2. CASE c # b
      <4>1. c \in Buffers /\ Covered(c)
        BY <1>1, <1>2, <2>4, <3>2 DEF StreamFits, ShadowTypeOK
      <4>2. QED
        BY <1>5, <1>6, <1>8, <3>2, <4>1 DEF Covered
    <3>3. QED
      BY <3>1, <3>2
  <2>5. mode' = "tracked" => \A c \in Buffers : CopyFollows(c, snapshot[c])'
    BY <1>1, <1>2, <1>8 DEF StreamFits, CopyFollows
  <2>6. \A c \in drawn' : ValidRecords(Planned(c))'
    BY <1>1, <1>2, <1>6 DEF StreamFits, ShadowTypeOK
  <2>7. StreamFits'
    BY <1>1, <1>8, <2>2, <2>3, <2>4, <2>5, <2>6 DEF StreamFits
  <2>8. QED
    BY <1>1, <1>2, <2>1, <2>2, <2>7 DEF ShadowInv
<1>9. CASE uploaded[b] = Revision(b)
  <2>1. UNCHANGED <<physical, staged>>
    BY <1>9 DEF PrepareBuffer
  <2>2. Matches(physical[b], Planned(b))
    BY <1>2, <1>3, <1>4, <1>9, UploadFollows DEF Untouched
  <2>3. \A c \in Buffers : StagedWords(c)' = StagedWords(c)
    BY <2>1 DEF StagedWords
  <2>4. \A w \in 1..Len(Planned(b)) : physical'[b][w] = Planned(b)[w]
    BY <2>1, <2>2 DEF Matches
  <2>5. QED
    BY <1>2, <1>8, <2>1, <2>3, <2>4 DEF ShadowTypeOK, StreamFits
<1>10. CASE uploaded[b] # Revision(b) /\ mode = "tracked"
  <2> DEFINE up == [buffer |-> b, words |-> UploadRanges(b)]
             n == Len(staged)
  <2>1. staged' = Append(staged, up) /\ physical' = physical
    BY <1>10 DEF PrepareBuffer
  <2>2. up \in StagedUploads /\ up.buffer = b /\ up.words = UploadRanges(b)
    BY <1>7 DEF StagedUploads
  <2> HIDE DEF up
  <2>3. /\ staged \in Seq(StagedUploads) /\ staged' \in Seq(StagedUploads)
        /\ n \in Nat /\ Len(staged') = n + 1
        /\ staged'[n + 1] = up /\ \A i \in 1..n : staged'[i] = staged[i]
    BY <1>2, <2>1, <2>2 DEF ShadowTypeOK
  <2> HIDE DEF n
  <2>4. ASSUME NEW c \in Buffers, c # b PROVE StagedWords(c)' = StagedWords(c)
    <3>1. {j \in 1..Len(staged') : staged'[j].buffer = c}
            = {j \in 1..Len(staged) : staged[j].buffer = c}
      BY <2>2, <2>3, <2>4 DEF n
    <3>2. QED
      BY <2>3, <3>1 DEF StagedWords, n
  <2>5. \A w \in UploadRanges(b) : w \in StagedWords(b)'
    BY <2>2, <2>3 DEF StagedWords
  <2>6. QED
    BY <1>2, <1>7, <1>8, <1>10, <2>1, <2>3, <2>4, <2>5 DEF ShadowTypeOK
<1>11. CASE uploaded[b] # Revision(b) /\ mode # "tracked"
  <2>1. physical' = [physical EXCEPT ![b] = Uploads(@, UploadRanges(b), Planned(b))]
        /\ staged' = staged
    BY <1>11 DEF PrepareBuffer
  <2>2. /\ DOMAIN physical' = Buffers /\ \A c \in Buffers : c # b => physical'[c] = physical[c]
        /\ physical'[b] = Uploads(physical[b], UploadRanges(b), Planned(b))
        /\ DOMAIN physical[b] = 1..Words
    BY <1>2, <2>1 DEF ShadowTypeOK
  <2>3. \A c \in Buffers : DOMAIN physical'[c] = 1..Words
    BY <1>2, <2>2 DEF ShadowTypeOK, Uploads
  <2>4. ASSUME NEW w \in 1..Len(Planned(b)) PROVE physical'[b][w] = Planned(b)[w]
    <3>1. w \in 1..Words
      BY <1>4, ShadowAssumption DEF ShadowAssumption
    <3>2. physical'[b][w] = IF w \in UploadRanges(b) THEN Planned(b)[w] ELSE physical[b][w]
      BY <2>2, <3>1 DEF Uploads
    <3>3. QED
      BY <1>7, <3>2
  <2>5. \A c \in Buffers : StagedWords(c)' = StagedWords(c)
    BY <2>1 DEF StagedWords
  <2>6. QED
    BY <1>2, <1>8, <1>11, <2>1, <2>2, <2>3, <2>4, <2>5 DEF ShadowTypeOK, StreamFits
<1>12. QED
  BY <1>9, <1>10, <1>11
-----------------------------------------------------------------------------
(* The streams that end, and the calls between streams.                    *)

\* A rejected plan prepared nothing.
LEMMA PlanRejectedKeeps == ASSUME ShadowInv, PlanRejected PROVE ShadowInv'
<1>1. doing = "plan" /\ Restore(uploaded) /\ Refuse /\ UNCHANGED physical
  BY DEF PlanRejected
<1>2. drawn = {} /\ prepared \subseteq drawn
  BY <1>1, WhileStreaming DEF StreamFits, ShadowTypeOK
<1>3. QED
  BY <1>1, <1>2, RestoreKeeps

\* A stream whose events fail had only staged its uploads, or had none.
LEMMA EventsFailKeeps ==
  ASSUME ShadowInv, EventsFail, mode = "tracked" \/ prepared = {}
  PROVE  ShadowInv'
BY RestoreKeeps DEF EventsFail

\* A refused checkpoint had only staged its uploads.
LEMMA CheckpointRefusedKeeps == ASSUME ShadowInv, CheckpointRefused PROVE ShadowInv'
BY RestoreKeeps DEF CheckpointRefused

\* The uploads that arrive complete the prepared copies and leave the rest.
LEMMA ArrivedFacts ==
  ASSUME ShadowTypeOK, NEW b \in Buffers
  PROVE  /\ DOMAIN Arrived = Buffers /\ DOMAIN Arrived[b] = 1..Words
         /\ \A w \in 1..Words :
              Arrived[b][w] = IF w \in StagedWords(b) THEN Planned(b)[w] ELSE physical[b][w]
<1>1. DOMAIN Arrived = Buffers /\ Arrived[b] = Uploads(physical[b], StagedWords(b), Planned(b))
  BY DEF Arrived, StagedWords
<1>2. DOMAIN physical[b] = 1..Words
  BY DEF ShadowTypeOK
<1>3. QED
  BY <1>1, <1>2 DEF Uploads

\* An accepted stream's draws read what was written, and its plan becomes
\* the shadow its copies follow.
LEMMA AcceptKeeps == ASSUME ShadowInv, Accept PROVE ShadowInv'
<1>1. /\ doing = "prepare" /\ drawn \subseteq prepared /\ Return
      /\ physical' = Arrived /\ uploaded' = uploaded
      /\ exact' = (exact /\ \A b \in drawn : Matches(Arrived[b], Planned(b)))
      /\ shadow' = [b \in Buffers |-> Published(b)]
      /\ canonical' = [b \in Buffers |-> IF b \in drawn THEN Revision(b) ELSE canonical[b]]
  BY DEF Accept
<1>2. /\ doing' = "idle" /\ mode' = "tracked" /\ updates' = [b \in Buffers |-> None]
      /\ drawn' = {} /\ prepared' = {} /\ staged' = << >>
      /\ snapshot' = [b \in Buffers |-> NoRevision]
  BY <1>1 DEF Return
<1>3. ShadowTypeOK /\ StreamFits /\ exact = TRUE /\ \A b \in Buffers : TagFits(b)
  BY <1>1, WhileStreaming
<1>4. drawn = prepared /\ prepared \subseteq Buffers
  BY <1>1, <1>3 DEF ShadowTypeOK
<1>5. ASSUME NEW b \in Buffers
      PROVE  /\ Planned(b) \in Contents /\ Revision(b) \in Nat
             /\ uploaded[b] \in Int /\ canonical[b] \in Int
             /\ Len(Planned(b)) \in Nat /\ \A w \in 1..Len(Planned(b)) : w \in 1..Words
  <2>1. Planned(b) \in Contents /\ Revision(b) \in Nat /\ uploaded[b] \in Int /\ canonical[b] \in Int
    BY <1>3, ShadowFields
  <2>2. QED
    BY <2>1, ContentsFields, ShadowAssumption DEF ShadowAssumption
<1>6. ASSUME NEW b \in prepared PROVE Matches(Arrived[b], Planned(b)) /\ uploaded[b] = Revision(b)
  <2>1. b \in Buffers /\ Covered(b)
    BY <1>3, <1>4 DEF StreamFits
  <2>2. \A w \in 1..Len(Planned(b)) : Arrived[b][w] = Planned(b)[w]
    BY <1>3, <1>5, <2>1, ArrivedFacts DEF Covered
  <2>3. QED
    BY <2>1, <2>2 DEF Covered, Matches
<1>7. ASSUME NEW b \in Buffers \ prepared
      PROVE  /\ Untouched(b) /\ UpdateFits(b)
             /\ \A w \in 1..Len(Planned(b)) : Arrived[b][w] = physical[b][w]
  <2>1. Untouched(b) /\ UpdateFits(b)
    BY <1>3 DEF StreamFits
  <2>2. \A w \in 1..Len(Planned(b)) : Arrived[b][w] = physical[b][w]
    BY <1>3, <1>5, <2>1, ArrivedFacts DEF Untouched
  <2>3. QED
    BY <2>1, <2>2
<1>8. ASSUME NEW b \in Buffers
      PROVE  /\ shadow'[b].bytes = Planned(b) /\ shadow'[b].revision = Revision(b)
             /\ shadow'[b].upload = IF b \in prepared THEN None ELSE Upload(b)
             /\ shadow'[b] \in Shadows
  <2> DEFINE upload == IF b \in prepared THEN None ELSE Upload(b)
  <2>1. shadow'[b] = [bytes |-> Planned(b), revision |-> Revision(b), upload |-> upload]
    BY <1>1 DEF Published
  <2>2. upload \in Deltas \cup {None}
    <3>1. CASE b \in prepared
      BY <3>1
    <3>2. CASE b \notin prepared
      BY <1>3, <1>5, <1>7, <3>2, UploadFollows DEF Untouched
    <3>3. QED
      BY <3>1, <3>2
  <2>3. upload = IF b \in prepared THEN None ELSE Upload(b)
    OBVIOUS
  <2> HIDE DEF upload
  <2>4. QED
    BY <1>5, <2>1, <2>2, <2>3 DEF Shadows
<1>9. ShadowTypeOK'
  <2>1. shadow' \in [Buffers -> Shadows]
    BY <1>1, <1>8
  <2>2. updates' \in [Buffers -> [bytes : Contents, upload : Deltas] \cup {None}]
    BY <1>2
  <2>3. canonical' \in [Buffers -> Int] /\ uploaded' \in [Buffers -> Int]
    BY <1>1, <1>3, <1>5 DEF ShadowTypeOK
  <2>4. snapshot' \in [Buffers -> Int]
    BY <1>2 DEF NoRevision
  <2>5. DOMAIN physical' = Buffers /\ \A b \in Buffers : DOMAIN physical'[b] = 1..Words
    <3>1. DOMAIN Arrived = Buffers
      BY DEF Arrived
    <3>2. QED
      BY <1>1, <1>3, <3>1, ArrivedFacts
  <2>6. << >> \in Seq(StagedUploads)
    OBVIOUS
  <2>7. QED
    BY <1>2, <2>1, <2>2, <2>3, <2>4, <2>5, <2>6 DEF ShadowTypeOK
<1>10. exact' = TRUE
  BY <1>1, <1>3, <1>4, <1>6
<1>11. ASSUME NEW b \in Buffers PROVE TagFits(b)'
  <2>1. CASE b \in drawn
    <3>1. canonical'[b] = Revision(b) /\ ValidRecords(Planned(b))
      BY <1>1, <1>3, <2>1 DEF StreamFits
    <3>2. QED
      BY <1>5, <1>8, <3>1 DEF TagFits
  <2>2. CASE b \notin drawn
    <3>1. canonical'[b] = canonical[b] /\ TagFits(b) /\ shadow[b].revision \in Nat
      BY <1>1, <1>3, <2>2, ShadowFields
    <3>2. CASE updates[b] = None
      <4>1. Planned(b) = shadow[b].bytes /\ Revision(b) = shadow[b].revision
        BY <3>2 DEF Planned, Revision
      <4>2. QED
        BY <1>8, <3>1, <4>1 DEF TagFits
    <3>3. CASE updates[b] # None
      <4>1. Revision(b) = shadow[b].revision + 1
        BY <3>3 DEF Revision
      <4>2. canonical[b] <= Revision(b) /\ canonical[b] # Revision(b)
        BY <1>5, <3>1, <4>1 DEF TagFits
      <4>3. QED
        BY <1>8, <3>1, <4>2 DEF TagFits
    <3>4. QED
      BY <3>2, <3>3
  <2>3. QED
    BY <2>1, <2>2
<1>12. ASSUME NEW b \in Buffers PROVE CopyFollows(b, uploaded[b])'
  <2>1. CASE b \in prepared
    <3>1. uploaded'[b] = shadow'[b].revision /\ shadow'[b].upload = None
      BY <1>1, <1>6, <1>8, <2>1
    <3>2. Matches(physical'[b], shadow'[b].bytes)
      BY <1>1, <1>6, <1>8, <2>1
    <3>3. shadow'[b].revision \in Nat
      BY <1>5, <1>8
    <3>4. QED
      BY <3>1, <3>2, <3>3 DEF CopyFollows
  <2>2. CASE b \notin prepared
    <3>1. /\ uploaded[b] <= Revision(b)
          /\ uploaded[b] = Revision(b) => Matches(physical[b], Planned(b))
          /\ Upload(b) # None =>
               /\ Upload(b).base < Revision(b)
               /\ uploaded[b] = Upload(b).base /\ Upload(b).dirty # Full =>
                    \A w \in (1..Len(Planned(b))) \ Upload(b).dirty : physical[b][w] = Planned(b)[w]
      BY <1>3, <1>5, <1>7, <2>2, UploadFollows DEF Untouched
    <3>2. \A w \in 1..Len(Planned(b)) : physical'[b][w] = physical[b][w]
      BY <1>1, <1>7, <2>2
    <3>3. shadow'[b].upload = Upload(b)
      BY <1>8, <2>2
    <3>4. uploaded'[b] = shadow'[b].revision => Matches(physical'[b], shadow'[b].bytes)
      BY <1>1, <1>8, <3>1, <3>2 DEF Matches
    <3>5. QED
      BY <1>1, <1>8, <3>1, <3>2, <3>3, <3>4 DEF CopyFollows
  <2>3. QED
    BY <2>1, <2>2
<1>13. QED
  BY <1>2, <1>9, <1>10, <1>11, <1>12 DEF ShadowInv

\* What a compute stream leaves has a revision no copy and no tag has.
LEMMA ComputeStreamKeeps ==
  ASSUME ShadowInv, NEW b \in Buffers, NEW lo \in 1..Words, NEW hi \in 1..Words, NEW v \in Values,
         ComputeStream(b, lo, hi, v)
  PROVE  ShadowInv'
<1> DEFINE old == shadow[b].bytes
           last == [i \in {Words} |-> IF Words <= Len(old) THEN old[Words] ELSE 0]
           full == Written(old, Words, Words, last)
           new == Written(full, lo, hi, [i \in lo..hi |-> v])
           next == [bytes |-> new, revision |-> shadow[b].revision + 1, upload |-> None]
<1>1. /\ doing = "idle" /\ shadow' = [shadow EXCEPT ![b] = next]
      /\ canonical' = [canonical EXCEPT ![b] = NoRevision]
      /\ UNCHANGED <<uploaded, physical, mode, updates, drawn, prepared, staged, snapshot, failed,
                     doing, exact>>
  BY DEF ComputeStream, ForgetTag, streamVars
<1>2. /\ ShadowTypeOK /\ exact = TRUE
      /\ \A c \in Buffers : TagFits(c) /\ CopyFollows(c, uploaded[c])
  BY <1>1 DEF ShadowInv
<1>3. old \in Contents /\ shadow[b].revision \in Nat /\ uploaded[b] \in Int
  BY <1>2, ShadowFields
<1>4. new \in Contents
  <2>1. Words \in 1..Words /\ Words..Words = {Words}
    BY ShadowAssumption DEF ShadowAssumption
  <2>2. Words <= Len(old) => old[Words] \in Nat
    BY <1>3, <2>1, ContentsFields
  <2>3. \A i \in Words..Words : last[i] \in Nat
    BY <2>1, <2>2
  <2> HIDE DEF last
  <2>4. full \in Contents
    BY <1>3, <2>1, <2>3, WrittenFacts
  <2> HIDE DEF full
  <2>5. \A i \in lo..hi : [j \in lo..hi |-> v][i] \in Nat
    BY ShadowAssumption DEF ShadowAssumption
  <2>6. QED
    BY <2>4, <2>5, WrittenFacts
<1> HIDE DEF new
<1>5. next \in Shadows /\ next.revision = shadow[b].revision + 1 /\ next.upload = None
  BY <1>3, <1>4 DEF Shadows
<1> HIDE DEF next
<1>6. /\ shadow'[b] = next /\ canonical'[b] = -1
      /\ \A c \in Buffers : c # b => shadow'[c] = shadow[c] /\ canonical'[c] = canonical[c]
  BY <1>1, <1>2 DEF ShadowTypeOK, NoRevision
<1>7. ShadowTypeOK'
  <2>1. shadow' \in [Buffers -> Shadows]
    BY <1>1, <1>2, <1>5 DEF ShadowTypeOK
  <2>2. canonical' \in [Buffers -> Int]
    BY <1>1, <1>2 DEF ShadowTypeOK, NoRevision
  <2>3. QED
    BY <1>1, <1>2, <2>1, <2>2 DEF ShadowTypeOK
<1>8. ASSUME NEW c \in Buffers PROVE TagFits(c)' /\ CopyFollows(c, uploaded[c])'
  <2>1. CASE c = b
    <3>1. uploaded[b] <= shadow[b].revision
      BY <1>2 DEF CopyFollows
    <3>2. QED
      BY <1>1, <1>3, <1>5, <1>6, <2>1, <3>1 DEF TagFits, CopyFollows
  <2>2. CASE c # b
    BY <1>1, <1>2, <1>6, <2>2 DEF TagFits, CopyFollows
  <2>3. QED
    BY <2>1, <2>2
<1>9. QED
  BY <1>1, <1>2, <1>7, <1>8 DEF ShadowInv

\* A released slot has no copy and no tag at its first revision.
LEMMA ReleaseShadowKeeps == ASSUME ShadowInv, NEW b \in Buffers, ReleaseShadow(b) PROVE ShadowInv'
<1> DEFINE next == [bytes |-> << >>, revision |-> 0, upload |-> None]
<1>1. /\ doing = "idle" /\ shadow' = [shadow EXCEPT ![b] = next]
      /\ canonical' = [canonical EXCEPT ![b] = NoRevision]
      /\ uploaded' = [uploaded EXCEPT ![b] = NoRevision]
      /\ physical' = [physical EXCEPT ![b] = [w \in 1..Words |-> Junk]]
      /\ UNCHANGED <<mode, updates, drawn, prepared, staged, snapshot, failed, doing, exact>>
  BY DEF ReleaseShadow, ForgetTag, streamVars
<1>2. /\ ShadowTypeOK /\ exact = TRUE
      /\ \A c \in Buffers : TagFits(c) /\ CopyFollows(c, uploaded[c])
  BY <1>1 DEF ShadowInv
<1>3. << >> \in Contents
  BY ShadowAssumption DEF ShadowAssumption, Contents
<1>4. next \in Shadows /\ next.revision = 0 /\ next.upload = None
  BY <1>3 DEF Shadows
<1> HIDE DEF next
<1>5. /\ shadow'[b] = next /\ canonical'[b] = -1 /\ uploaded'[b] = -1
      /\ \A c \in Buffers : c # b =>
           /\ shadow'[c] = shadow[c] /\ canonical'[c] = canonical[c]
           /\ uploaded'[c] = uploaded[c] /\ physical'[c] = physical[c]
  BY <1>1, <1>2 DEF ShadowTypeOK, NoRevision
<1>6. ShadowTypeOK'
  <2>1. shadow' \in [Buffers -> Shadows]
    BY <1>1, <1>2, <1>4 DEF ShadowTypeOK
  <2>2. canonical' \in [Buffers -> Int] /\ uploaded' \in [Buffers -> Int]
    BY <1>1, <1>2 DEF ShadowTypeOK, NoRevision
  <2>3. DOMAIN physical' = Buffers /\ \A c \in Buffers : DOMAIN physical'[c] = 1..Words
    BY <1>1, <1>2, <1>5 DEF ShadowTypeOK
  <2>4. QED
    BY <1>1, <1>2, <2>1, <2>2, <2>3 DEF ShadowTypeOK
<1>7. ASSUME NEW c \in Buffers PROVE TagFits(c)' /\ CopyFollows(c, uploaded[c])'
  <2>1. CASE c = b
    BY <1>4, <1>5, <2>1 DEF TagFits, CopyFollows
  <2>2. CASE c # b
    BY <1>2, <1>5, <2>2 DEF TagFits, CopyFollows
  <2>3. QED
    BY <2>1, <2>2
<1>8. QED
  BY <1>1, <1>2, <1>6, <1>7 DEF ShadowInv

\* A step that leaves everything but the failure flag keeps the invariant.
LEMMA ShadowStutter ==
  ASSUME ShadowInv, UNCHANGED <<resourceVars, streamVars, doing, exact>>
  PROVE  ShadowInv'
<1>1. UNCHANGED <<shadow, canonical, uploaded, physical, mode, updates, drawn, prepared, staged,
                  snapshot, doing, exact>>
  BY DEF resourceVars, streamVars
<1>2. \A b \in Buffers :
        /\ Planned(b)' = Planned(b) /\ Revision(b)' = Revision(b) /\ StagedWords(b)' = StagedWords(b)
        /\ TagFits(b)' = TagFits(b) /\ UpdateFits(b)' = UpdateFits(b)
        /\ CopyFollows(b, uploaded[b])' = CopyFollows(b, uploaded[b])
        /\ CopyFollows(b, snapshot[b])' = CopyFollows(b, snapshot[b])
  BY <1>1 DEF Planned, Revision, StagedWords, TagFits, UpdateFits, CopyFollows
<1>3. ShadowTypeOK'
  BY <1>1 DEF ShadowInv, ShadowTypeOK
<1>4. \A b \in Buffers : (Untouched(b) => Untouched(b)') /\ (Covered(b) => Covered(b)')
  BY <1>1, <1>2 DEF Untouched, Covered
<1>5. ASSUME StreamFits, ShadowTypeOK PROVE StreamFits'
  BY <1>1, <1>2, <1>4, <1>5 DEF StreamFits, ShadowTypeOK
<1>6. QED
  BY <1>1, <1>2, <1>3, <1>5 DEF ShadowInv

\* A synchronous stream fails although it has prepared a buffer.
LateFailure ==
  mode # "tracked" /\ prepared # {} /\ (EventsFail \/ \E b \in Buffers : PrepareFails(b))

\* Every other step keeps the invariant of the shadows.
LEMMA ShadowNextKeeps ==
  ASSUME ShadowInv, [ShadowNext]_shadowVars, [~LateFailure]_shadowVars
  PROVE  ShadowInv'
<1>1. ASSUME NEW m \in {"tracked", "synchronous"}, BeginStream(m) PROVE ShadowInv'
  BY <1>1, BeginStreamKeeps
<1>2. ASSUME NEW b \in Buffers, NEW lo \in 1..Words, NEW hi \in 1..Words, NEW v \in Values,
             WriteBuffer(b, lo, hi, v) \/ ComputeStream(b, lo, hi, v)
      PROVE  ShadowInv'
  BY <1>2, WriteBufferKeeps, ComputeStreamKeeps
<1>3. ASSUME NEW source \in Buffers, NEW b \in Buffers, NEW lo \in 1..Words, NEW hi \in 1..Words,
             CopyBuffer(source, b, lo, hi)
      PROVE  ShadowInv'
  BY <1>3, CopyBufferKeeps
<1>4. ASSUME NEW D \in SUBSET Buffers, PlanDraws(D) PROVE ShadowInv'
  BY <1>4, PlanDrawsKeeps
<1>5. ASSUME NEW b \in Buffers, PrepareBuffer(b) \/ ReleaseShadow(b) PROVE ShadowInv'
  BY <1>5, PrepareBufferKeeps, ReleaseShadowKeeps
<1>6. ASSUME PlanRejected \/ CheckpointRefused \/ Accept PROVE ShadowInv'
  BY <1>6, PlanRejectedKeeps, CheckpointRefusedKeeps, AcceptKeeps
<1>7. ASSUME CacheFails PROVE ShadowInv'
  BY <1>7, ShadowStutter DEF CacheFails
<1>8. ASSUME UNCHANGED shadowVars PROVE ShadowInv'
  BY <1>8, ShadowStutter DEF shadowVars
<1>9. ASSUME EventsFail \/ \E b \in Buffers : PrepareFails(b) PROVE ShadowInv'
  <2>1. UNCHANGED shadowVars \/ mode = "tracked" \/ prepared = {}
    BY <1>9 DEF LateFailure
  <2>2. QED
    BY <1>8, <1>9, <2>1, EventsFailKeeps, PrepareFailsKeeps
<1>10. QED
  BY <1>1, <1>2, <1>3, <1>4, <1>5, <1>6, <1>7, <1>8, <1>9 DEF ShadowNext, CallsOn

(***************************************************************************)
(* Whatever streams are recorded, refused and accepted, a GPU copy is      *)
(* either older than the shadow or what the shadow and its delta say, and  *)
(* a prepared buffer lacks nothing (ir_buffer_upload_ranges,               *)
(* BufferShadow::merged_upload), as long as no synchronous stream fails    *)
(* after it prepared a buffer.                                             *)
(***************************************************************************)
THEOREM ShadowsCorrect ==
  ShadowSpec /\ [][~LateFailure]_shadowVars => []ShadowInv
<1>1. ShadowInv /\ [ShadowNext]_shadowVars /\ [~LateFailure]_shadowVars => ShadowInv'
  BY ShadowNextKeeps
<1>2. QED
  BY <1>1, InitShadowInv, PTL DEF ShadowSpec

(***************************************************************************)
(* Every draw reads what the application wrote, copies follow revisions    *)
(* and canonical tags vouch for the contents they are compared with        *)
(* (prepare_ir_buffer, PreparedBufferOnlyPlan::publish), as long as no     *)
(* synchronous stream fails after it prepared a buffer.                    *)
(***************************************************************************)
THEOREM DrawsAreExact ==
  ShadowSpec /\ [][~LateFailure]_shadowVars => []ShadowInvariant
<1>1. ASSUME ShadowInv PROVE DrawsReadWrites /\ CanonicalTagIsCurrent
  BY <1>1 DEF ShadowInv, DrawsReadWrites, CanonicalTagIsCurrent, TagFits
<1>2. ASSUME ShadowInv PROVE GpuCopyFollowsShadow
  <2> SUFFICES ASSUME doing = "idle", NEW b \in Buffers
               PROVE  /\ uploaded[b] = shadow[b].revision => Matches(physical[b], shadow[b].bytes)
                      /\ shadow[b].upload # None =>
                           \/ uploaded[b] # shadow[b].upload.base
                           \/ shadow[b].upload.dirty = Full
                           \/ \A w \in (1..Len(shadow[b].bytes)) \ shadow[b].upload.dirty :
                                physical[b][w] = shadow[b].bytes[w]
    BY DEF GpuCopyFollowsShadow
  <2>1. CopyFollows(b, uploaded[b])
    BY <1>2 DEF ShadowInv
  <2>2. QED
    BY <2>1 DEF CopyFollows
<1>3. ShadowInv => ShadowInvariant
  BY <1>1, <1>2 DEF ShadowInvariant
<1>4. QED
  BY <1>3, ShadowsCorrect, PTL

-----------------------------------------------------------------------------
(* VirGL tracked submissions: the inductive invariant of SubmitMode.       *)

Rings == 0..UploadArenaCount - 1
RangeSet == [arena : Rings, first : Nat, last : Int]
PacketSet == [size : Nat, payload : Nat, uploads : SUBSET RangeSet]
ChunkSet == [size : Nat, packets : Seq(PacketSet), arena : Rings \cup {NoRange}]
StagingSet == [chunks : Seq(ChunkSet), current : ChunkSet, uploadOffset : Nat,
               bytes : Nat, limit : Nat]

EncodingStages == {"encode", "prepared", "uploaded"}

SubmitTypeOK ==
  /\ stage \in EncodingStages \cup {"idle", "finish"}
  /\ packets \in StagingSet
  /\ packet \in PacketSet
  /\ tooLarge \in BOOLEAN /\ busy \in BOOLEAN /\ receipt \in BOOLEAN /\ failedCall \in BOOLEAN
  /\ arenas \in Seq(Rings) /\ (arenas = << >> \/ Len(arenas) = UploadArenaCount)
  /\ ring \in Seq(Rings) /\ Len(ring) = UploadArenaCount
  /\ encoded \in Seq(PacketSet)
  /\ device \in Nat

\* No packet of a chunk stages outside the arena the chunk is sent with, nor
\* in the bytes of another.
Sound(c, limit, taken) ==
  /\ c.size <= limit
  /\ \A j \in 1..Len(c.packets) : \A u \in c.packets[j].uploads :
       /\ c.arena # NoRange /\ u.arena = taken[c.arena + 1] /\ u.last < limit
       /\ \A k \in 1..Len(c.packets) :
            k # j => \A v \in c.packets[k].uploads : ~Overlap(u, v)
  /\ taken = << >> => c.arena = NoRange

\* The chunks hold the packets encoded so far, and their bytes.
Staged(p, taken, packs) ==
  /\ p.bytes = StreamBytes(p.chunks) + p.current.size
  /\ p.bytes = StreamBytes(packs)
  /\ PacketsOf(p.chunks) \o p.current.packets = packs
  /\ p.current.size = 0 => p.current.packets = << >>
  /\ p.current.arena \in {NoRange, CurrentArena(p)}
  /\ \A i \in 1..Len(p.chunks) : Sound(p.chunks[i], p.limit, taken)
  /\ Sound(p.current, p.limit, taken)

\* The open chunk stages below an offset no larger than its size.
StagesBelow(p, offset) ==
  /\ offset <= p.current.size
  /\ \A j \in 1..Len(p.current.packets) : \A u \in p.current.packets[j].uploads : u.last < offset

\* Where the packet under way starts to stage.
Base == IF stage = "uploaded" THEN packets.uploadOffset - packet.payload ELSE packets.uploadOffset

\* The staging area of a call that is still encoding.
StagingFits ==
  /\ MaxCommandSize <= packets.limit
  /\ packets.limit <= device /\ packets.limit <= GpuMaxCommand
  /\ packets.bytes <= MaxTrackedBytes
  /\ Staged(packets, arenas, encoded)
  /\ StagesBelow(packets, Base)

\* The packet under way has the room that was prepared for it.
PacketFits ==
  /\ packet.size \in 1..MaxCommandSize /\ packet.payload < packet.size
  /\ packets.current.size + packet.size <= packets.limit
  /\ packet.payload > 0 => arenas # << >>
  /\ stage = "prepared" => packet.uploads = {}
  /\ stage = "uploaded" =>
       /\ packet.payload > 0
       /\ packets.current.arena = CurrentArena(packets)
       /\ packet.uploads = {[arena |-> arenas[CurrentArena(packets) + 1],
                             first |-> Base, last |-> packets.uploadOffset - 1]}

\* The flags of the call say what the scheduler answered.
FlagsAgree ==
  /\ receipt <=> answer = "admitted"
  /\ busy <=> answer = "busy"
  /\ receipt => ~failedCall
  /\ tooLarge => ~receipt /\ ~busy
  /\ stage \in EncodingStages => ~tooLarge /\ ~failedCall /\ answer = "none" /\ admitted = << >>
  /\ stage = "idle" /\ outcome # "none" => outcome = Outcome

SubmitInv ==
  /\ SubmitTypeOK
  /\ stage \in EncodingStages => StagingFits
  /\ stage \in {"prepared", "uploaded"} => PacketFits
  /\ FlagsAgree
  /\ AdmittedIsEncoded /\ UploadsStayInTheirArena /\ TooLargeMeansStreamBudget

-----------------------------------------------------------------------------
(* The bytes of a sequence of packets or chunks, and the packets of chunks. *)

SizesAdd(f, s) ==
  /\ f \in [0..Len(s) -> Nat]
  /\ f[0] = 0
  /\ \A k \in 1..Len(s) : f[k] = f[k - 1] + s[k].size

\* There is one way to add the sizes up.
LEMMA StreamBytesIsSum ==
  ASSUME NEW S, NEW s \in Seq(S), NEW f, SizesAdd(f, s)
  PROVE  StreamBytes(s) = f[Len(s)]
<1> DEFINE Solves(g) == g = [k \in 0..Len(s) |-> IF k = 0 THEN 0 ELSE g[k - 1] + s[k].size]
           g == CHOOSE g : Solves(g)
<1>1. Solves(f)
  BY DEF SizesAdd
<1>2. Solves(g)
  BY <1>1
<1>3. StreamBytes(s) = g[Len(s)]
  BY DEF StreamBytes
<1> HIDE DEF g
<1> DEFINE T == {n \in Nat : n <= Len(s) => g[n] = f[n]}
<1>4. 0 \in T
  BY <1>2 DEF SizesAdd
<1>5. ASSUME NEW n \in T PROVE n + 1 \in T
  <2> SUFFICES ASSUME n + 1 <= Len(s) PROVE g[n + 1] = f[n + 1]
    OBVIOUS
  <2>1. n \in Nat /\ g[n] = f[n] /\ n + 1 \in 1..Len(s) /\ n + 1 # 0 /\ n + 1 - 1 = n
    OBVIOUS
  <2>2. g[n + 1] = g[n] + s[n + 1].size
    BY <1>2, <2>1
  <2>3. f[n + 1] = f[n] + s[n + 1].size
    BY <2>1 DEF SizesAdd
  <2>4. QED
    BY <2>1, <2>2, <2>3
<1> HIDE DEF T
<1>6. T = Nat
  BY <1>4, <1>5, SetInduction DEF T
<1>7. Len(s) \in T
  BY <1>6
<1>8. QED
  BY <1>3, <1>7 DEF T

\* The sizes of a sequence add up.
LEMMA SizesHaveSum ==
  ASSUME NEW S, \A x \in S : x.size \in Nat, NEW s \in Seq(S)
  PROVE  \E f : SizesAdd(f, s)
<1> DEFINE Upto(n) == \E f \in [0..n -> Nat] :
                         f[0] = 0 /\ \A k \in 1..n : f[k] = f[k - 1] + s[k].size
           T == {n \in Nat : n <= Len(s) => Upto(n)}
<1>1. 0 \in T
  <2>1. \E f \in [0..0 -> Nat] : f[0] = 0
    <3>1. [k \in 0..0 |-> 0] \in [0..0 -> Nat] /\ [k \in 0..0 |-> 0][0] = 0
      OBVIOUS
    <3>2. QED
      BY <3>1
  <2>2. Upto(0)
    BY <2>1
  <2>3. QED
    BY <2>2
<1>2. ASSUME NEW n \in T PROVE n + 1 \in T
  <2> HIDE DEF Upto
  <2> SUFFICES ASSUME n + 1 <= Len(s) PROVE Upto(n + 1)
    OBVIOUS
  <2>0. n \in Nat /\ n <= Len(s) /\ Len(s) \in Nat /\ Upto(n)
    OBVIOUS
  <2>1. PICK f \in [0..n -> Nat] : f[0] = 0 /\ \A k \in 1..n : f[k] = f[k - 1] + s[k].size
    BY <2>0 DEF Upto
  <2>2. s[n + 1].size \in Nat
    <3>1. s[n + 1] \in S
      BY <2>0
    <3>2. QED
      BY <3>1
  <2> DEFINE g == [k \in 0..n + 1 |-> IF k = n + 1 THEN f[n] + s[n + 1].size ELSE f[k]]
  <2>3. g \in [0..n + 1 -> Nat]
    BY <2>0, <2>2
  <2>4. g[0] = 0
    BY <2>0, <2>1
  <2>5. ASSUME NEW k \in 1..n + 1 PROVE g[k] = g[k - 1] + s[k].size
    <3>1. k - 1 \in 0..n /\ k - 1 # n + 1 /\ k \in 0..n + 1
      BY <2>0
    <3>2. g[k - 1] = f[k - 1]
      BY <3>1
    <3>3. CASE k = n + 1
      BY <2>0, <3>1, <3>2, <3>3
    <3>4. CASE k # n + 1
      <4>1. k \in 1..n
        BY <2>0, <3>4
      <4>2. g[k] = f[k]
        BY <3>1, <3>4
      <4>3. QED
        BY <2>1, <3>2, <4>1, <4>2
    <3>5. QED
      BY <3>3, <3>4
  <2> HIDE DEF g
  <2>6. QED
    BY <2>3, <2>4, <2>5 DEF Upto
<1> HIDE DEF T, Upto
<1>3. T = Nat
  BY <1>1, <1>2, SetInduction DEF T
<1>4. Len(s) \in T
  BY <1>3
<1>5. Upto(Len(s))
  BY <1>4 DEF T
<1>6. QED
  BY <1>5 DEF SizesAdd, Upto

\* No packets have no bytes, and one more packet or chunk adds its own.
LEMMA StreamBytesOfAppend ==
  ASSUME NEW S, \A x \in S : x.size \in Nat, NEW s \in Seq(S), NEW c \in S
  PROVE  /\ StreamBytes(<< >>) = 0
         /\ StreamBytes(s) \in Nat
         /\ StreamBytes(Append(s, c)) = StreamBytes(s) + c.size
<1>0. StreamBytes(<< >>) = 0
  <2> DEFINE z == [k \in 0..0 |-> 0]
  <2>1. SizesAdd(z, << >>) /\ z[0] = 0
    BY DEF SizesAdd
  <2>2. << >> \in Seq(S) /\ Len(<< >>) = 0
    OBVIOUS
  <2> HIDE DEF z
  <2>3. StreamBytes(<< >>) = z[Len(<< >>)]
    BY <2>1, <2>2, StreamBytesIsSum
  <2>4. QED
    BY <2>1, <2>2, <2>3
<1>1. PICK f : SizesAdd(f, s)
  BY SizesHaveSum
<1> DEFINE n == Len(s)
           t == Append(s, c)
           g == [k \in 0..n + 1 |-> IF k = n + 1 THEN f[n] + c.size ELSE f[k]]
<1>2. n \in Nat /\ t \in Seq(S) /\ Len(t) = n + 1 /\ c.size \in Nat
  OBVIOUS
<1>3. t[n + 1] = c /\ \A k \in 1..n : t[k] = s[k]
  OBVIOUS
<1>4. f \in [0..n -> Nat] /\ f[0] = 0 /\ \A k \in 1..n : f[k] = f[k - 1] + s[k].size
  BY <1>1 DEF SizesAdd
<1> HIDE DEF t, n
<1>5. g \in [0..n + 1 -> Nat] /\ g[0] = 0
  BY <1>2, <1>4
<1>6. ASSUME NEW k \in 1..n + 1 PROVE g[k] = g[k - 1] + t[k].size
  <2>1. CASE k = n + 1
    BY <1>2, <1>3, <2>1
  <2>2. CASE k \in 1..n
    <3>1. g[k] = f[k] /\ g[k - 1] = f[k - 1] /\ t[k] = s[k]
      BY <1>2, <1>3, <2>2
    <3>2. QED
      BY <1>4, <2>2, <3>1
  <2>3. QED
    BY <1>2, <2>1, <2>2
<1>7. g[n + 1] = f[n] + c.size /\ f[n] \in Nat
  BY <1>2, <1>4
<1> HIDE DEF g
<1>8. SizesAdd(g, t)
  BY <1>2, <1>5, <1>6 DEF SizesAdd
<1>9. StreamBytes(t) = f[n] + c.size
  BY <1>2, <1>7, <1>8, StreamBytesIsSum
<1>10. StreamBytes(s) = f[n]
  BY <1>1, StreamBytesIsSum DEF n
<1>11. QED
  BY <1>0, <1>7, <1>9, <1>10 DEF t

\* Sequences of the same sizes have as many bytes.
LEMMA StreamBytesOfSizes ==
  ASSUME NEW S, \A x \in S : x.size \in Nat, NEW s \in Seq(S), NEW t \in Seq(S),
         Len(s) = Len(t), \A k \in 1..Len(s) : t[k].size = s[k].size
  PROVE  StreamBytes(t) = StreamBytes(s)
<1>1. PICK f : SizesAdd(f, s)
  BY SizesHaveSum
<1>2. SizesAdd(f, t)
  BY <1>1 DEF SizesAdd
<1>3. QED
  BY <1>1, <1>2, StreamBytesIsSum

PacketsJoin(f, s) ==
  /\ f \in [0..Len(s) -> Seq(PacketSet)]
  /\ f[0] = << >>
  /\ \A k \in 1..Len(s) : f[k] = f[k - 1] \o s[k].packets

\* There is one way to join the packets of chunks.
LEMMA PacketsOfIsJoin ==
  ASSUME NEW s \in Seq(ChunkSet), NEW f, PacketsJoin(f, s)
  PROVE  PacketsOf(s) = f[Len(s)]
<1> DEFINE Solves(g) == g = [k \in 0..Len(s) |-> IF k = 0 THEN << >> ELSE g[k - 1] \o s[k].packets]
           g == CHOOSE g : Solves(g)
<1>1. Solves(f)
  BY DEF PacketsJoin
<1>2. Solves(g)
  BY <1>1
<1>3. PacketsOf(s) = g[Len(s)]
  BY DEF PacketsOf
<1> HIDE DEF g
<1> DEFINE T == {n \in Nat : n <= Len(s) => g[n] = f[n]}
<1>4. 0 \in T
  BY <1>2 DEF PacketsJoin
<1>5. ASSUME NEW n \in T PROVE n + 1 \in T
  <2> SUFFICES ASSUME n + 1 <= Len(s) PROVE g[n + 1] = f[n + 1]
    OBVIOUS
  <2>1. n \in Nat /\ g[n] = f[n] /\ n + 1 \in 1..Len(s) /\ n + 1 # 0 /\ (n + 1) - 1 = n
    OBVIOUS
  <2>2. g[n + 1] = g[n] \o s[n + 1].packets
    BY <1>2, <2>1
  <2>3. f[n + 1] = f[n] \o s[n + 1].packets
    <3>1. f[n + 1] = f[(n + 1) - 1] \o s[n + 1].packets
      BY <2>1, Zenon DEF PacketsJoin
    <3>2. QED
      BY <2>1, <3>1, Zenon
  <2>4. QED
    BY <2>1, <2>2, <2>3
<1> HIDE DEF T
<1>6. T = Nat
  BY <1>4, <1>5, SetInduction DEF T
<1>7. Len(s) \in T
  BY <1>6
<1>8. QED
  BY <1>3, <1>7 DEF T

\* What a chunk is made of.
LEMMA ChunkFields ==
  ASSUME NEW c \in ChunkSet
  PROVE  c.size \in Nat /\ c.packets \in Seq(PacketSet) /\ c.arena \in Rings \cup {NoRange}
BY DEF ChunkSet

\* The packets of chunks join.
LEMMA PacketsHaveJoin ==
  ASSUME NEW s \in Seq(ChunkSet)
  PROVE  \E f : PacketsJoin(f, s)
<1> DEFINE Upto(n) == \E f \in [0..n -> Seq(PacketSet)] :
                         f[0] = << >> /\ \A k \in 1..n : f[k] = f[k - 1] \o s[k].packets
           T == {n \in Nat : n <= Len(s) => Upto(n)}
<1>1. 0 \in T
  <2>1. [k \in 0..0 |-> << >>] \in [0..0 -> Seq(PacketSet)] /\ [k \in 0..0 |-> << >>][0] = << >>
    OBVIOUS
  <2>2. \E f \in [0..0 -> Seq(PacketSet)] : f[0] = << >>
    BY <2>1
  <2>3. Upto(0)
    BY <2>2
  <2>4. QED
    BY <2>3
<1>2. ASSUME NEW n \in T PROVE n + 1 \in T
  <2> HIDE DEF Upto
  <2> SUFFICES ASSUME n + 1 <= Len(s) PROVE Upto(n + 1)
    OBVIOUS
  <2>0. n \in Nat /\ n <= Len(s) /\ Len(s) \in Nat /\ Upto(n)
    OBVIOUS
  <2>1. PICK f \in [0..n -> Seq(PacketSet)] :
          f[0] = << >> /\ \A k \in 1..n : f[k] = f[k - 1] \o s[k].packets
    BY <2>0 DEF Upto
  <2>2. f[n] \in Seq(PacketSet) /\ s[n + 1].packets \in Seq(PacketSet)
    <3>1. s[n + 1] \in ChunkSet
      BY <2>0
    <3>2. QED
      BY <2>0, <3>1, ChunkFields
  <2> DEFINE joined == f[n] \o s[n + 1].packets
             g == [k \in 0..n + 1 |-> IF k = n + 1 THEN joined ELSE f[k]]
  <2>3. joined \in Seq(PacketSet)
    BY <2>2, ConcatProperties
  <2>4. g[n + 1] = joined /\ \A k \in 0..n : g[k] = f[k]
    BY <2>0
  <2>5. g \in [0..n + 1 -> Seq(PacketSet)]
    <3> HIDE DEF joined
    <3>1. QED
      BY <2>0, <2>3
  <2> HIDE DEF g
  <2>6. g[0] = << >>
    BY <2>0, <2>1, <2>4
  <2>7. ASSUME NEW k \in 1..n + 1 PROVE g[k] = g[k - 1] \o s[k].packets
    <3>1. k - 1 \in 0..n /\ (k # n + 1 => k \in 1..n /\ k \in 0..n) /\ (n + 1) - 1 = n
      BY <2>0
    <3>2. CASE k = n + 1
      BY <2>4, <3>1, <3>2, Zenon
    <3>3. CASE k # n + 1
      BY <2>1, <2>4, <3>1, <3>3, Zenon
    <3>4. QED
      BY <3>2, <3>3
  <2>8. QED
    BY <2>5, <2>6, <2>7 DEF Upto
<1> HIDE DEF T, Upto
<1>3. T = Nat
  BY <1>1, <1>2, SetInduction DEF T
<1>4. Len(s) \in T
  BY <1>3
<1>5. Upto(Len(s))
  BY <1>4 DEF T
<1>6. QED
  BY <1>5 DEF PacketsJoin, Upto

\* No chunks have no packets, and one more chunk adds its own.
LEMMA PacketsOfAppend ==
  ASSUME NEW s \in Seq(ChunkSet), NEW c \in ChunkSet
  PROVE  /\ PacketsOf(<< >>) = << >>
         /\ PacketsOf(s) \in Seq(PacketSet)
         /\ PacketsOf(Append(s, c)) = PacketsOf(s) \o c.packets
<1>0. PacketsOf(<< >>) = << >>
  <2> DEFINE z == [k \in 0..0 |-> << >>]
  <2>1. PacketsJoin(z, << >>) /\ z[0] = << >>
    BY DEF PacketsJoin
  <2>2. << >> \in Seq(ChunkSet) /\ Len(<< >>) = 0
    OBVIOUS
  <2> HIDE DEF z
  <2>3. PacketsOf(<< >>) = z[Len(<< >>)]
    BY <2>1, <2>2, PacketsOfIsJoin
  <2>4. QED
    BY <2>1, <2>2, <2>3
<1>1. PICK f : PacketsJoin(f, s)
  BY PacketsHaveJoin
<1> DEFINE n == Len(s)
           t == Append(s, c)
<1>2. n \in Nat /\ t \in Seq(ChunkSet) /\ Len(t) = n + 1 /\ n + 1 # 0
  OBVIOUS
<1>3. t[n + 1] = c /\ \A k \in 1..n : t[k] = s[k]
  OBVIOUS
<1>4. PICK g : PacketsJoin(g, t)
  BY <1>2, PacketsHaveJoin
<1>5. PacketsJoin([k \in 0..n |-> g[k]], s)
  <2>1. /\ g \in [0..n + 1 -> Seq(PacketSet)] /\ g[0] = << >>
        /\ \A k \in 1..n + 1 : g[k] = g[k - 1] \o t[k].packets
    BY <1>2, <1>4 DEF PacketsJoin
  <2> DEFINE h == [k \in 0..n |-> g[k]]
  <2>2. h \in [0..n -> Seq(PacketSet)] /\ h[0] = << >>
    BY <1>2, <2>1
  <2>3. ASSUME NEW k \in 1..n PROVE h[k] = h[k - 1] \o s[k].packets
    <3>1. k \in 1..n + 1 /\ k \in 0..n /\ k - 1 \in 0..n
      BY <1>2
    <3>2. g[k] = g[k - 1] \o t[k].packets /\ t[k] = s[k]
      BY <1>3, <2>1, <3>1
    <3>3. h[k] = g[k] /\ h[k - 1] = g[k - 1]
      BY <3>1
    <3>4. QED
      BY <3>2, <3>3
  <2> HIDE DEF h
  <2>4. PacketsJoin(h, s)
    BY <2>2, <2>3 DEF PacketsJoin
  <2>5. QED
    BY <2>4 DEF h
<1>6. PacketsOf(s) = g[n]
  <2> DEFINE h == [k \in 0..n |-> g[k]]
  <2>1. h[n] = g[n]
    BY <1>2
  <2>2. PacketsOf(s) = h[Len(s)]
    BY <1>5, PacketsOfIsJoin
  <2>3. QED
    BY <2>1, <2>2
<1>7. PacketsOf(t) = g[n + 1]
  BY <1>2, <1>4, PacketsOfIsJoin
<1>8. g[n] \in Seq(PacketSet) /\ g[n + 1] = g[n] \o c.packets
  <2>1. /\ g \in [0..n + 1 -> Seq(PacketSet)]
        /\ \A k \in 1..n + 1 : g[k] = g[k - 1] \o t[k].packets
    BY <1>2, <1>4 DEF PacketsJoin
  <2>2. n + 1 \in 1..n + 1 /\ (n + 1) - 1 = n /\ n \in 0..n + 1
    BY <1>2
  <2>3. g[n + 1] = g[(n + 1) - 1] \o t[n + 1].packets
    BY <2>1, <2>2, Zenon
  <2>4. g[n] \in Seq(PacketSet)
    BY <2>1, <2>2
  <2>5. QED
    BY <1>3, <2>2, <2>3, <2>4, Zenon
<1>9. QED
  BY <1>0, <1>6, <1>7, <1>8

\* PassChunks of the same packets hold the same packets in the same order.
LEMMA PacketsOfPackets ==
  ASSUME NEW s \in Seq(ChunkSet), NEW t \in Seq(ChunkSet),
         Len(s) = Len(t), \A k \in 1..Len(s) : t[k].packets = s[k].packets
  PROVE  PacketsOf(t) = PacketsOf(s)
<1>1. PICK f : PacketsJoin(f, s)
  BY PacketsHaveJoin
<1>2. PacketsJoin(f, t)
  BY <1>1 DEF PacketsJoin
<1>3. QED
  BY <1>1, <1>2, PacketsOfIsJoin

-----------------------------------------------------------------------------
(* The operations of Packets.                                              *)

\* The arenas of the ring, and the slot that follows any of them.
LEMMA RingFacts ==
  /\ NoRange \notin Rings
  /\ \A n \in Nat : n % UploadArenaCount \in Rings
  /\ \A a \in Rings : a + 1 \in 1..UploadArenaCount
BY SubmitModeAssumption DEF SubmitModeAssumption, NoRange, Rings

\* What the types say of the packets staged.
LEMMA StagingFields ==
  ASSUME NEW p \in StagingSet
  PROVE  /\ p.chunks \in Seq(ChunkSet) /\ p.current \in ChunkSet
         /\ p.uploadOffset \in Nat /\ p.bytes \in Nat /\ p.limit \in Nat
         /\ p.current.size \in Nat /\ p.current.packets \in Seq(PacketSet)
         /\ p.current.arena \in Rings \cup {NoRange}
         /\ p = [chunks |-> p.chunks, current |-> p.current, uploadOffset |-> p.uploadOffset,
                 bytes |-> p.bytes, limit |-> p.limit]
         /\ CurrentArena(p) \in Rings
<1>1. /\ p.chunks \in Seq(ChunkSet) /\ p.current \in ChunkSet
      /\ p.uploadOffset \in Nat /\ p.bytes \in Nat /\ p.limit \in Nat
      /\ p = [chunks |-> p.chunks, current |-> p.current, uploadOffset |-> p.uploadOffset,
              bytes |-> p.bytes, limit |-> p.limit]
  BY DEF StagingSet
<1>2. Len(p.chunks) \in Nat
  BY <1>1
<1>3. QED
  BY <1>1, <1>2, ChunkFields, RingFacts DEF CurrentArena

\* What the types say of one packet.
LEMMA PacketFields ==
  ASSUME NEW x \in PacketSet
  PROVE  /\ x.size \in Nat /\ x.payload \in Nat
         /\ \A u \in x.uploads : u.first \in Nat /\ u.last \in Int /\ u.arena \in Rings
BY DEF PacketSet, RangeSet

\* A chunk in which nothing is staged.
LEMMA NewChunkIsSound ==
  ASSUME NEW limit \in Nat, NEW taken
  PROVE  EmptyChunk \in ChunkSet /\ Sound(EmptyChunk, limit, taken)
<1>1. EmptyChunk.size = 0 /\ EmptyChunk.packets = << >> /\ EmptyChunk.arena = NoRange
  BY DEF EmptyChunk
<1>2. << >> \in Seq(PacketSet) /\ 1..Len(<< >>) = {}
  OBVIOUS
<1>3. EmptyChunk \in ChunkSet
  BY <1>2 DEF ChunkSet, EmptyChunk
<1>4. QED
  BY <1>1, <1>2, <1>3 DEF Sound

\* A chunk that is closed keeps what it holds, and the next one is empty.
LEMMA FinishChunkStaged ==
  ASSUME NEW p \in StagingSet, NEW taken, NEW packs, Staged(p, taken, packs),
         NEW q, q = FinishChunk(p)
  PROVE  /\ q \in StagingSet /\ q.chunks = Append(p.chunks, p.current)
         /\ q.current.size = 0 /\ q.uploadOffset = 0 /\ q.bytes = p.bytes /\ q.limit = p.limit
         /\ Staged(q, taken, packs) /\ StagesBelow(q, 0)
<1>1. /\ p.chunks \in Seq(ChunkSet) /\ p.current \in ChunkSet
      /\ p.bytes \in Nat /\ p.limit \in Nat
      /\ p.current.size \in Nat /\ p.current.packets \in Seq(PacketSet)
  BY StagingFields
<1>2. q = [chunks |-> Append(p.chunks, p.current), current |-> EmptyChunk,
           uploadOffset |-> 0, bytes |-> p.bytes, limit |-> p.limit]
  BY DEF FinishChunk, StagingSet
<1>3. /\ q.chunks = Append(p.chunks, p.current) /\ q.current = EmptyChunk
      /\ q.uploadOffset = 0 /\ q.bytes = p.bytes /\ q.limit = p.limit
  BY <1>2
<1>4. /\ EmptyChunk.size = 0 /\ EmptyChunk.packets = << >> /\ EmptyChunk.arena = NoRange
      /\ EmptyChunk \in ChunkSet /\ Sound(EmptyChunk, p.limit, taken)
  BY <1>1, NewChunkIsSound DEF EmptyChunk
<1>5. q \in StagingSet
  <2>1. Append(p.chunks, p.current) \in Seq(ChunkSet)
    BY <1>1
  <2>2. QED
    BY <1>1, <1>2, <1>4, <2>1 DEF StagingSet
<1>6. q.bytes = StreamBytes(q.chunks) + q.current.size
  <2>1. StreamBytes(q.chunks) = StreamBytes(p.chunks) + p.current.size
    BY <1>1, <1>3, StreamBytesOfAppend, ChunkFields
  <2>2. QED
    BY <1>1, <1>3, <1>4, <2>1 DEF Staged
<1>7. PacketsOf(q.chunks) \o q.current.packets = packs
  <2>1. PacketsOf(q.chunks) = PacketsOf(p.chunks) \o p.current.packets
    BY <1>1, <1>3, PacketsOfAppend
  <2>2. PacketsOf(q.chunks) = packs /\ packs \in Seq(PacketSet)
    BY <1>1, <2>1, PacketsOfAppend, ConcatProperties DEF Staged
  <2>3. QED
    BY <1>3, <1>4, <2>2, ConcatEmptySeq
<1>8. ASSUME NEW i \in 1..Len(q.chunks) PROVE Sound(q.chunks[i], q.limit, taken)
  <2>1. CASE i \in 1..Len(p.chunks)
    <3>1. q.chunks[i] = p.chunks[i]
      BY <1>1, <1>3, <2>1
    <3>2. QED
      BY <1>3, <2>1, <3>1 DEF Staged
  <2>2. CASE i = Len(p.chunks) + 1
    <3>1. q.chunks[i] = p.current
      BY <1>1, <1>3, <2>2
    <3>2. QED
      BY <1>3, <3>1 DEF Staged
  <2>3. QED
    BY <1>1, <1>3, <2>1, <2>2
<1>9. StagesBelow(q, 0)
  <2>1. 1..Len(q.current.packets) = {}
    BY <1>3, <1>4
  <2>2. QED
    BY <1>3, <1>4, <2>1 DEF StagesBelow
<1>10. Staged(q, taken, packs)
  <2>1. q.bytes = StreamBytes(packs)
    BY <1>3 DEF Staged
  <2>2. QED
    BY <1>3, <1>4, <1>6, <1>7, <1>8, <2>1 DEF Staged
<1>11. QED
  BY <1>3, <1>4, <1>5, <1>9, <1>10

\* After prepare the packet has room, and what was staged stays as it was.
LEMMA PrepareStaged ==
  ASSUME NEW p \in StagingSet, NEW taken, NEW packs, Staged(p, taken, packs),
         StagesBelow(p, p.uploadOffset), NEW n \in Nat, n <= p.limit,
         NEW q, q = Prepare(p, n)
  PROVE  /\ q \in StagingSet /\ q.bytes = p.bytes /\ q.limit = p.limit
         /\ Staged(q, taken, packs) /\ StagesBelow(q, q.uploadOffset)
         /\ q.current.size + n <= q.limit
<1>1. CASE MustRotate(p, n)
  <2>1. q = FinishChunk(p)
    BY <1>1 DEF Prepare
  <2>2. q.current.size = 0 /\ q.uploadOffset = 0 /\ q.limit = p.limit
    BY <2>1, FinishChunkStaged
  <2>3. QED
    BY <2>1, <2>2, FinishChunkStaged
<1>2. CASE ~MustRotate(p, n)
  <2>1. q = p
    BY <1>2 DEF Prepare
  <2>2. p.current.size + n <= p.limit
    BY <1>2, StagingFields DEF MustRotate
  <2>3. QED
    BY <2>1, <2>2
<1>3. QED
  BY <1>1, <1>2

\* Taking a range of the arena changes nothing that was staged.
LEMMA UploadStaged ==
  ASSUME NEW p \in StagingSet, NEW taken, NEW packs, Staged(p, taken, packs), taken # << >>,
         NEW offset, StagesBelow(p, offset), NEW n \in Nat, NEW q, q = UploadRange(p, n)
  PROVE  /\ q \in StagingSet /\ q.bytes = p.bytes /\ q.limit = p.limit
         /\ q.current.size = p.current.size /\ q.current.arena = CurrentArena(p)
         /\ CurrentArena(q) = CurrentArena(p)
         /\ q.uploadOffset = p.uploadOffset + n
         /\ Staged(q, taken, packs) /\ StagesBelow(q, offset)
<1> DEFINE c == [size |-> p.current.size, packets |-> p.current.packets, arena |-> CurrentArena(p)]
<1>1. /\ p.chunks \in Seq(ChunkSet) /\ p.current \in ChunkSet
      /\ p.bytes \in Nat /\ p.limit \in Nat /\ p.uploadOffset \in Nat
      /\ p.current.size \in Nat /\ p.current.packets \in Seq(PacketSet)
      /\ CurrentArena(p) \in Rings
  BY StagingFields
<1>2. [p.current EXCEPT !.arena = CurrentArena(p)] = c
  <2>1. p.current = [size |-> p.current.size, packets |-> p.current.packets,
                     arena |-> p.current.arena]
    BY <1>1 DEF ChunkSet
  <2>2. QED
    BY <2>1
<1>3. q = [chunks |-> p.chunks, current |-> c, uploadOffset |-> p.uploadOffset + n,
           bytes |-> p.bytes, limit |-> p.limit]
  <2>1. q = [[p EXCEPT !.current = [@ EXCEPT !.arena = CurrentArena(p)]]
               EXCEPT !.uploadOffset = @ + n]
    BY DEF UploadRange, StagingSet
  <2>2. QED
    BY <1>2, <2>1 DEF StagingSet
<1>4. c.size = p.current.size /\ c.packets = p.current.packets /\ c.arena = CurrentArena(p)
  OBVIOUS
<1>5. c \in ChunkSet
  BY <1>1 DEF ChunkSet
<1> HIDE DEF c
<1>6. /\ q.chunks = p.chunks /\ q.current = c /\ q.bytes = p.bytes /\ q.limit = p.limit
      /\ q.uploadOffset = p.uploadOffset + n
  BY <1>3
<1>7. q \in StagingSet
  BY <1>1, <1>3, <1>5 DEF StagingSet
<1>8. CurrentArena(q) = CurrentArena(p)
  BY <1>6 DEF CurrentArena
<1>9. Sound(c, p.limit, taken)
  <2>1. CurrentArena(p) # NoRange
    BY <1>1, RingFacts
  <2>2. Sound(p.current, p.limit, taken) /\ p.current.arena \in {NoRange, CurrentArena(p)}
    BY DEF Staged
  <2>3. QED
    BY <1>4, <2>1, <2>2 DEF Sound
<1>10. StagesBelow(q, offset)
  BY <1>4, <1>6 DEF StagesBelow
<1>11. Staged(q, taken, packs)
  BY <1>4, <1>6, <1>8, <1>9 DEF Staged
<1>12. QED
  BY <1>4, <1>6, <1>7, <1>8, <1>10, <1>11

\* What append makes of the chunk that has room for the packet.
WithPacket(p, x) ==
  [p EXCEPT !.current = [size |-> @.size + x.size, packets |-> Append(@.packets, x),
                         arena |-> @.arena],
            !.bytes = @ + x.size]

\* append_packet prepares room and then puts the packet in the chunk.
LEMMA AppendIsWithPacket ==
  ASSUME NEW p \in StagingSet, NEW x, Prepare(p, x.size) \in StagingSet
  PROVE  AppendPacket(p, x) = WithPacket(Prepare(p, x.size), x)
<1> DEFINE q == Prepare(p, x.size)
<1>1. q \in StagingSet
  OBVIOUS
<1>2. AppendPacket(p, x) = [q EXCEPT !.current.size = @ + x.size,
                                     !.current.packets = Append(@, x), !.bytes = @ + x.size]
  BY DEF AppendPacket
<1> HIDE DEF q
<1>3. q.current \in ChunkSet
  BY <1>1, StagingFields
<1>4. AppendPacket(p, x) = WithPacket(q, x)
  BY <1>1, <1>2, <1>3 DEF WithPacket, StagingSet, ChunkSet
<1>5. QED
  BY <1>4 DEF q

\* Appending to the last of two sequences appends to both.
LEMMA AppendBehind ==
  ASSUME NEW S, NEW s \in Seq(S), NEW t \in Seq(S), NEW x \in S
  PROVE  s \o Append(t, x) = Append(s \o t, x)
<1>1. s \o t \in Seq(S) /\ <<x>> \in Seq(S)
  BY ConcatProperties
<1>2. Append(t, x) = t \o <<x>> /\ Append(s \o t, x) = (s \o t) \o <<x>>
  BY <1>1, AppendIsConcat
<1>3. (s \o t) \o <<x>> = s \o (t \o <<x>>)
  BY <1>1, ConcatAssociative
<1>4. QED
  BY <1>2, <1>3

\* A packet is staged behind those before it.
LEMMA AppendStaged ==
  ASSUME NEW p \in StagingSet, NEW taken, NEW packs \in Seq(PacketSet), Staged(p, taken, packs),
         NEW base \in Nat, StagesBelow(p, base), base <= p.uploadOffset,
         NEW x \in PacketSet, x.size > 0, p.current.size + x.size <= p.limit,
         p.uploadOffset <= p.current.size + x.size,
         \A u \in x.uploads :
           /\ p.current.arena # NoRange /\ u.arena = taken[p.current.arena + 1]
           /\ base <= u.first /\ u.last < p.limit /\ u.last < p.uploadOffset,
         NEW q, q = WithPacket(p, x)
  PROVE  /\ q \in StagingSet /\ q.bytes = p.bytes + x.size /\ q.limit = p.limit
         /\ q.uploadOffset = p.uploadOffset
         /\ Staged(q, taken, Append(packs, x)) /\ StagesBelow(q, q.uploadOffset)
<1> DEFINE c == [size |-> p.current.size + x.size, packets |-> Append(p.current.packets, x),
                 arena |-> p.current.arena]
           m == Len(p.current.packets)
<1>1. /\ p.chunks \in Seq(ChunkSet) /\ p.current \in ChunkSet
      /\ p.bytes \in Nat /\ p.limit \in Nat /\ p.uploadOffset \in Nat
      /\ p.current.size \in Nat /\ p.current.packets \in Seq(PacketSet)
      /\ p.current.arena \in Rings \cup {NoRange} /\ x.size \in Nat /\ m \in Nat
  BY StagingFields, PacketFields
<1>2. q = [chunks |-> p.chunks, current |-> c, uploadOffset |-> p.uploadOffset,
           bytes |-> p.bytes + x.size, limit |-> p.limit]
  BY DEF WithPacket, StagingSet
<1>3. /\ c.size = p.current.size + x.size /\ c.packets = Append(p.current.packets, x)
      /\ c.arena = p.current.arena
  OBVIOUS
<1>4. c.packets \in Seq(PacketSet) /\ c \in ChunkSet
  <2>1. Append(p.current.packets, x) \in Seq(PacketSet)
    BY <1>1
  <2>2. QED
    BY <1>1, <2>1 DEF ChunkSet
<1>5. /\ Len(c.packets) = m + 1 /\ c.packets[m + 1] = x
      /\ \A j \in 1..m : c.packets[j] = p.current.packets[j]
  BY <1>1, <1>3
<1> HIDE DEF c
<1>6. /\ q.chunks = p.chunks /\ q.current = c /\ q.bytes = p.bytes + x.size /\ q.limit = p.limit
      /\ q.uploadOffset = p.uploadOffset
  BY <1>2
<1>7. q \in StagingSet
  BY <1>1, <1>2, <1>4 DEF StagingSet
<1>8. q.bytes = StreamBytes(q.chunks) + q.current.size
  <2>1. p.bytes = StreamBytes(p.chunks) + p.current.size
    BY DEF Staged
  <2>2. StreamBytes(p.chunks) \in Nat
    BY <1>1, StreamBytesOfAppend, ChunkFields
  <2>3. QED
    BY <1>1, <1>3, <1>6, <2>1, <2>2
<1>9. q.bytes = StreamBytes(Append(packs, x))
  <2>1. StreamBytes(Append(packs, x)) = StreamBytes(packs) + x.size
    BY StreamBytesOfAppend, PacketFields
  <2>2. QED
    BY <1>6, <2>1 DEF Staged
<1>10. PacketsOf(q.chunks) \o q.current.packets = Append(packs, x)
  <2> DEFINE front == PacketsOf(p.chunks)
  <2>1. front \in Seq(PacketSet) /\ front \o p.current.packets = packs
    BY <1>1, PacketsOfAppend DEF Staged
  <2> HIDE DEF front
  <2>2. front \o Append(p.current.packets, x) = Append(front \o p.current.packets, x)
    <3> DEFINE rear == p.current.packets
    <3>1. rear \in Seq(PacketSet)
      BY <1>1
    <3> HIDE DEF rear
    <3>2. front \o Append(rear, x) = Append(front \o rear, x)
      BY <2>1, <3>1, AppendBehind
    <3>3. QED
      BY <3>2 DEF rear
  <2>3. QED
    BY <1>3, <1>6, <2>1, <2>2 DEF front
<1>11. CurrentArena(q) = CurrentArena(p)
  BY <1>6 DEF CurrentArena
\* An upload of the open chunk before the packet.
<1>12. ASSUME NEW j \in 1..m, NEW u \in p.current.packets[j].uploads
       PROVE  /\ p.current.arena # NoRange /\ u.arena = taken[p.current.arena + 1]
              /\ u.last < p.limit /\ u.last < base /\ u.first \in Nat /\ u.last \in Int
  <2>1. p.current.packets[j] \in PacketSet
    BY <1>1
  <2>2. Sound(p.current, p.limit, taken)
    BY DEF Staged
  <2>3. QED
    BY <2>1, <2>2, PacketFields DEF Sound, StagesBelow
<1>13. ASSUME NEW u \in x.uploads PROVE u.first \in Nat /\ u.last \in Int
  BY PacketFields
<1>14. Sound(c, p.limit, taken)
  <2>1. c.size <= p.limit
    BY <1>3
  <2>2. ASSUME NEW j \in 1..Len(c.packets), NEW u \in c.packets[j].uploads
        PROVE  c.arena # NoRange /\ u.arena = taken[c.arena + 1] /\ u.last < p.limit
    <3>1. CASE j \in 1..m
      BY <1>3, <1>5, <1>12, <3>1, <2>2
    <3>2. CASE j = m + 1
      BY <1>3, <1>5, <2>2, <3>2
    <3>3. j \in 1..m \/ j = m + 1
      BY <1>1, <1>5
    <3>4. QED
      BY <3>1, <3>2, <3>3, Zenon
  <2>3. ASSUME NEW j \in 1..Len(c.packets), NEW u \in c.packets[j].uploads,
               NEW k \in 1..Len(c.packets), k # j, NEW v \in c.packets[k].uploads
        PROVE  ~Overlap(u, v)
    <3>1. CASE j \in 1..m /\ k \in 1..m
      <4>1. Sound(p.current, p.limit, taken)
        BY DEF Staged
      <4>2. c.packets[j] = p.current.packets[j] /\ c.packets[k] = p.current.packets[k]
        BY <1>5, <3>1
      <4>3. QED
        BY <2>3, <3>1, <4>1, <4>2 DEF Sound
    <3>2. CASE j \in 1..m /\ k = m + 1
      <4>1. u \in p.current.packets[j].uploads /\ v \in x.uploads
        BY <1>5, <2>3, <3>2
      <4>2. u.last < base /\ base <= v.first /\ u.last \in Int /\ v.first \in Nat
        BY <1>12, <1>13, <3>2, <4>1
      <4>3. QED
        BY <4>2 DEF Overlap
    <3>3. CASE j = m + 1 /\ k \in 1..m
      <4>1. v \in p.current.packets[k].uploads /\ u \in x.uploads
        BY <1>5, <2>3, <3>3
      <4>2. v.last < base /\ base <= u.first /\ v.last \in Int /\ u.first \in Nat
        BY <1>12, <1>13, <3>3, <4>1
      <4>3. QED
        BY <4>2 DEF Overlap
    <3>4. j \in 1..m \/ j = m + 1
      BY <1>1, <1>5
    <3>5. k \in 1..m \/ k = m + 1
      BY <1>1, <1>5
    <3>6. QED
      BY <2>3, <3>1, <3>2, <3>3, <3>4, <3>5, Zenon
  <2>4. taken = << >> => c.arena = NoRange
    BY <1>3 DEF Staged, Sound
  <2>5. QED
    BY <2>1, <2>2, <2>3, <2>4 DEF Sound
<1>15. StagesBelow(q, q.uploadOffset)
  <2>1. ASSUME NEW j \in 1..Len(c.packets), NEW u \in c.packets[j].uploads
        PROVE  u.last < p.uploadOffset
    <3>1. CASE j \in 1..m
      <4>1. u.last < base /\ u.last \in Int
        BY <1>5, <1>12, <2>1, <3>1
      <4>2. QED
        BY <1>1, <4>1
    <3>2. CASE j = m + 1
      BY <1>5, <2>1, <3>2
    <3>3. j \in 1..m \/ j = m + 1
      BY <1>1, <1>5
    <3>4. QED
      BY <3>1, <3>2, <3>3
  <2>2. QED
    BY <1>3, <1>6, <2>1 DEF StagesBelow
<1>16. Staged(q, taken, Append(packs, x))
  <2>1. q.current.size # 0
    BY <1>1, <1>3, <1>6
  <2>2. q.current.arena \in {NoRange, CurrentArena(q)}
    BY <1>3, <1>6, <1>11 DEF Staged
  <2>3. \A i \in 1..Len(q.chunks) : Sound(q.chunks[i], q.limit, taken)
    BY <1>6 DEF Staged
  <2>4. QED
    BY <1>6, <1>8, <1>9, <1>10, <1>14, <2>1, <2>2, <2>3 DEF Staged
<1>17. QED
  BY <1>6, <1>7, <1>15, <1>16

\* finish gives every packet away, in sound chunks.
LEMMA FinishStaged ==
  ASSUME NEW p \in StagingSet, NEW taken, NEW packs, Staged(p, taken, packs),
         NEW s, s = Finish(p)
  PROVE  /\ s \in Seq(ChunkSet) /\ Len(s) > 0
         /\ StreamBytes(s) = p.bytes /\ PacketsOf(s) = packs
         /\ \A i \in 1..Len(s) : Sound(s[i], p.limit, taken)
<1>0. p.chunks \in Seq(ChunkSet) /\ p.current.size \in Nat /\ p.bytes \in Nat
  BY StagingFields
<1>1. CASE p.current.size > 0 \/ p.chunks = << >>
  <2> DEFINE q == FinishChunk(p)
  <2>1. s = q.chunks
    BY <1>1 DEF Finish
  <2>2. /\ q \in StagingSet /\ q.chunks = Append(p.chunks, p.current)
        /\ q.current.size = 0 /\ q.bytes = p.bytes /\ q.limit = p.limit
        /\ Staged(q, taken, packs)
    BY FinishChunkStaged
  <2> HIDE DEF q
  <2>3. s \in Seq(ChunkSet) /\ q.bytes \in Nat
    BY <2>1, <2>2, StagingFields
  <2>4. Len(s) > 0
    BY <1>0, <2>1, <2>2
  <2>5. StreamBytes(s) = p.bytes
    <3>1. StreamBytes(s) \in Nat
      BY <2>2, <2>3, StreamBytesOfAppend, ChunkFields, NewChunkIsSound
    <3>2. QED
      BY <2>1, <2>2, <2>3, <3>1 DEF Staged
  <2>6. PacketsOf(s) = packs
    <3>1. q.current.packets = << >>
      BY <2>2 DEF Staged
    <3>2. PacketsOf(s) \in Seq(PacketSet)
      BY <2>2, <2>3, PacketsOfAppend, StagingFields
    <3>3. PacketsOf(s) \o << >> = packs
      BY <2>1, <2>2, <3>1 DEF Staged
    <3>4. QED
      BY <3>2, <3>3, ConcatEmptySeq
  <2>7. \A i \in 1..Len(s) : Sound(s[i], p.limit, taken)
    BY <2>1, <2>2 DEF Staged
  <2>8. QED
    BY <2>3, <2>4, <2>5, <2>6, <2>7
<1>2. CASE ~(p.current.size > 0) /\ p.chunks # << >>
  <2>1. s = p.chunks
    BY <1>2 DEF Finish
  <2>2. p.current.size = 0 /\ p.current.packets = << >>
    BY <1>0, <1>2 DEF Staged
  <2>3. StreamBytes(s) \in Nat /\ PacketsOf(s) \in Seq(PacketSet)
    BY <1>0, <2>1, StreamBytesOfAppend, PacketsOfAppend, ChunkFields, StagingFields
  <2>4. StreamBytes(s) = p.bytes
    BY <2>1, <2>2, <2>3 DEF Staged
  <2>5. PacketsOf(s) = packs
    <3>1. PacketsOf(s) \o << >> = packs
      BY <2>1, <2>2 DEF Staged
    <3>2. QED
      BY <2>3, <3>1, ConcatEmptySeq
  <2>6. Len(s) > 0
    BY <1>0, <1>2, <2>1
  <2>7. QED
    BY <1>0, <2>1, <2>4, <2>5, <2>6 DEF Staged
<1>3. QED
  BY <1>1, <1>2

\* A chunk is sent as it was staged, with the arena its packets name.
SentSoundly(c, limit) ==
  /\ c.size <= limit
  /\ \A j \in 1..Len(c.packets) : \A u \in c.packets[j].uploads :
       /\ u.arena = c.arena /\ u.last < limit
       /\ \A k \in 1..Len(c.packets) :
            k # j => \A v \in c.packets[k].uploads : ~Overlap(u, v)

\* Flushing replaces the arenas of the chunks and nothing else.
LEMMA FlushedFacts ==
  ASSUME SubmitTypeOK, NEW limit, NEW s \in Seq(ChunkSet),
         \A i \in 1..Len(s) : Sound(s[i], limit, arenas),
         NEW t, t = Flushed(s)
  PROVE  /\ t \in Seq(ChunkSet) /\ Len(t) = Len(s)
         /\ StreamBytes(t) = StreamBytes(s) /\ PacketsOf(t) = PacketsOf(s)
         /\ \A i \in 1..Len(t) : SentSoundly(t[i], limit)
<1> DEFINE Sent(c) == [c EXCEPT !.arena = IF @ = NoRange THEN @ ELSE arenas[@ + 1]]
<1>1. ASSUME NEW c \in ChunkSet, Sound(c, limit, arenas)
      PROVE  /\ Sent(c) \in ChunkSet /\ Sent(c).size = c.size /\ Sent(c).packets = c.packets
             /\ SentSoundly(Sent(c), limit)
  <2>1. Sent(c) = [size |-> c.size, packets |-> c.packets,
                   arena |-> IF c.arena = NoRange THEN NoRange ELSE arenas[c.arena + 1]]
    BY DEF ChunkSet
  <2>2. c.arena # NoRange => arenas[c.arena + 1] \in Rings
    <3> SUFFICES ASSUME c.arena # NoRange PROVE arenas[c.arena + 1] \in Rings
      OBVIOUS
    <3>1. arenas # << >> /\ c.arena \in Rings
      BY <1>1, ChunkFields DEF Sound
    <3>2. c.arena + 1 \in 1..Len(arenas) /\ arenas \in Seq(Rings)
      BY <3>1, RingFacts DEF SubmitTypeOK
    <3>3. QED
      BY <3>2, ElementOfSeq
  <2>3. /\ Sent(c).size = c.size /\ Sent(c).packets = c.packets
        /\ Sent(c).arena = IF c.arena = NoRange THEN NoRange ELSE arenas[c.arena + 1]
    BY <2>1
  <2>4. Sent(c) \in ChunkSet
    BY <2>1, <2>2, ChunkFields DEF ChunkSet
  <2> HIDE DEF Sent
  <2>5. SentSoundly(Sent(c), limit)
    BY <1>1, <2>3 DEF Sound, SentSoundly
  <2>6. QED
    BY <2>3, <2>4, <2>5
<1>2. t = [i \in 1..Len(s) |-> Sent(s[i])]
  BY DEF Flushed
<1> HIDE DEF Sent
<1>3. Len(s) \in Nat /\ \A i \in 1..Len(s) : s[i] \in ChunkSet
  OBVIOUS
<1>4. Len(t) = Len(s) /\ \A i \in 1..Len(s) : t[i] = Sent(s[i])
  BY <1>2, <1>3
<1>5. \A i \in 1..Len(s) : /\ t[i] \in ChunkSet /\ t[i].size = s[i].size
                           /\ t[i].packets = s[i].packets /\ SentSoundly(t[i], limit)
  BY <1>1, <1>3, <1>4
<1>6. t \in Seq(ChunkSet)
  <2>1. t \in [1..Len(s) -> ChunkSet]
    BY <1>2, <1>4, <1>5
  <2>2. QED
    BY <1>3, <2>1
<1>7. StreamBytes(t) = StreamBytes(s)
  BY <1>4, <1>5, <1>6, StreamBytesOfSizes, ChunkFields
<1>8. PacketsOf(t) = PacketsOf(s)
  BY <1>4, <1>5, <1>6, PacketsOfPackets
<1>9. QED
  BY <1>4, <1>5, <1>6, <1>7, <1>8

-----------------------------------------------------------------------------
(* Every step keeps the invariant.                                         *)

\* A call begins with one empty chunk and no bytes.
LEMMA NewPacketsStaged ==
  ASSUME NEW n \in Nat, NEW p, p = NewPackets(n)
  PROVE  /\ p \in StagingSet /\ p.bytes = 0 /\ p.limit = n /\ p.uploadOffset = 0
         /\ \A taken : Staged(p, taken, << >>)
         /\ StagesBelow(p, 0)
<1>1. p = [chunks |-> << >>, current |-> EmptyChunk, uploadOffset |-> 0, bytes |-> 0, limit |-> n]
  BY DEF NewPackets
<1>2. /\ EmptyChunk \in ChunkSet /\ EmptyChunk.size = 0 /\ EmptyChunk.packets = << >>
      /\ EmptyChunk.arena = NoRange /\ \A taken : Sound(EmptyChunk, n, taken)
  BY NewChunkIsSound DEF EmptyChunk
<1>3. /\ p.chunks = << >> /\ p.current = EmptyChunk /\ p.uploadOffset = 0 /\ p.bytes = 0
      /\ p.limit = n
  BY <1>1
<1>4. << >> \in Seq(ChunkSet) /\ << >> \in Seq(PacketSet) /\ 1..Len(<< >>) = {}
  OBVIOUS
<1>5. p \in StagingSet
  BY <1>1, <1>2, <1>4 DEF StagingSet
<1>6. StreamBytes(<< >>) = 0 /\ PacketsOf(<< >>) = << >> /\ << >> \o << >> = << >>
  BY <1>2, <1>4, StreamBytesOfAppend, PacketsOfAppend, ChunkFields, ConcatEmptySeq
<1>7. \A taken : Staged(p, taken, << >>)
  BY <1>2, <1>3, <1>4, <1>6 DEF Staged
<1>8. StagesBelow(p, 0)
  BY <1>2, <1>3, <1>4 DEF StagesBelow
<1>9. QED
  BY <1>3, <1>5, <1>7, <1>8

\* A packet without uploads is a packet.
LEMMA NoPacketFields ==
  /\ NoPacket \in PacketSet /\ NoPacket.uploads = {}
  /\ \A n \in Nat : /\ [NoPacket EXCEPT !.size = n] \in PacketSet
                    /\ [NoPacket EXCEPT !.size = n].size = n
                    /\ [NoPacket EXCEPT !.size = n].uploads = {}
BY DEF NoPacket, PacketSet

\* No call is under way at first, and the ring holds every arena.
LEMMA InitSubmitInv == SubmitInit => SubmitInv
<1> SUFFICES ASSUME SubmitInit PROVE SubmitInv
  OBVIOUS
<1>1. packets \in StagingSet
  BY NewPacketsStaged, SubmitModeAssumption DEF SubmitInit, SubmitModeAssumption
<1>2. ring \in Seq(Rings) /\ Len(ring) = UploadArenaCount
  <2>1. AllArenas \in [1..UploadArenaCount -> Rings] /\ UploadArenaCount \in Nat
    BY SubmitModeAssumption DEF SubmitModeAssumption, AllArenas, Rings
  <2>2. QED
    BY <2>1 DEF SubmitInit
<1>3. << >> \in Seq(Rings) /\ << >> \in Seq(PacketSet) /\ 1..Len(<< >>) = {}
  OBVIOUS
<1>4. SubmitTypeOK
  BY <1>1, <1>2, <1>3, NoPacketFields, SubmitModeAssumption
  DEF SubmitTypeOK, SubmitInit, SubmitModeAssumption
<1>5. AdmittedIsEncoded /\ UploadsStayInTheirArena /\ TooLargeMeansStreamBudget
  BY <1>3 DEF SubmitInit, AdmittedIsEncoded, UploadsStayInTheirArena, TooLargeMeansStreamBudget
<1>6. QED
  BY <1>4, <1>5 DEF SubmitInit, SubmitInv, FlagsAgree, EncodingStages

\* What holds while a stream is encoded.
LEMMA WhileEncoding ==
  ASSUME SubmitInv, stage \in EncodingStages
  PROVE  /\ SubmitTypeOK /\ StagingFits
         /\ ~receipt /\ ~busy /\ ~tooLarge /\ ~failedCall /\ answer = "none" /\ admitted = << >>
BY DEF SubmitInv, FlagsAgree

\* A stream that is still encoded has reached neither scheduler nor outcome.
LEMMA StillEncoding ==
  ASSUME SubmitInv, stage \in EncodingStages, stage' \in EncodingStages,
         UNCHANGED <<tooLarge, busy, receipt, failedCall, admitted, answer>>
  PROVE  FlagsAgree' /\ AdmittedIsEncoded' /\ UploadsStayInTheirArena' /\ TooLargeMeansStreamBudget'
<1>1. /\ ~receipt' /\ ~busy' /\ ~tooLarge' /\ ~failedCall' /\ answer' = "none"
      /\ admitted' = << >>
  BY WhileEncoding
<1>2. 1..Len(<< >>) = {} /\ stage' # "idle"
  BY DEF EncodingStages
<1>3. QED
  BY <1>1, <1>2 DEF FlagsAgree, AdmittedIsEncoded, UploadsStayInTheirArena, TooLargeMeansStreamBudget

\* A stream may end before it was flushed.
LEMMA AbandonKeeps ==
  ASSUME SubmitInv, stage \in EncodingStages, AbandonStream,
         tooLarge' \in BOOLEAN, TooLargeMeansStreamBudget'
  PROVE  SubmitInv'
<1>1. /\ SubmitTypeOK /\ ~receipt /\ ~busy /\ ~tooLarge /\ answer = "none" /\ admitted = << >>
  BY WhileEncoding
<1>2. stage' = "finish" /\ "finish" \notin EncodingStages /\ failedCall' = TRUE
  BY DEF AbandonStream, EncodingStages
<1>3. SubmitTypeOK'
  BY <1>1, <1>2 DEF SubmitTypeOK, AbandonStream
<1>4. 1..Len(<< >>) = {}
  OBVIOUS
<1>5. FlagsAgree' /\ AdmittedIsEncoded' /\ UploadsStayInTheirArena'
  BY <1>1, <1>2, <1>4
  DEF FlagsAgree, AdmittedIsEncoded, UploadsStayInTheirArena, AbandonStream
<1>6. QED
  BY <1>2, <1>3, <1>5 DEF SubmitInv

\* A tracked call begins with the smaller limit.
LEMMA TrackedKeeps == ASSUME SubmitInv, NEW n \in GpuLimits, Tracked(n) PROVE SubmitInv'
<1> DEFINE limit == SmallerOf(n, GpuMaxCommand)
<1>1. /\ limit \in Nat /\ n \in Nat /\ MaxCommandSize <= limit /\ limit <= n
      /\ limit <= GpuMaxCommand /\ MaxTrackedBytes \in Nat
  BY SubmitModeAssumption DEF SubmitModeAssumption, SmallerOf
<1> HIDE DEF limit
<1>2. packets' = NewPackets(limit) /\ stage' = "encode" /\ arenas' = << >> /\ encoded' = << >>
      /\ device' = n
  BY DEF Tracked, limit
<1>3. /\ packets' \in StagingSet /\ packets'.bytes = 0 /\ packets'.limit = limit
      /\ packets'.uploadOffset = 0 /\ Staged(packets', << >>, << >>) /\ StagesBelow(packets', 0)
  BY <1>1, <1>2, NewPacketsStaged
<1>4. << >> \in Seq(Rings) /\ << >> \in Seq(PacketSet) /\ 1..Len(<< >>) = {}
  OBVIOUS
<1>5. SubmitTypeOK'
  BY <1>1, <1>2, <1>3, <1>4, NoPacketFields DEF SubmitInv, SubmitTypeOK, Tracked, EncodingStages
<1>6. StagingFits'
  BY <1>1, <1>2, <1>3 DEF StagingFits, Base
<1>7. FlagsAgree' /\ AdmittedIsEncoded' /\ UploadsStayInTheirArena' /\ TooLargeMeansStreamBudget'
  BY <1>4 DEF FlagsAgree, AdmittedIsEncoded, UploadsStayInTheirArena, TooLargeMeansStreamBudget,
              Tracked
<1>8. QED
  BY <1>2, <1>5, <1>6, <1>7 DEF SubmitInv

\* An encoding that fails abandons the stream and takes no arena.
LEMMA EncodingFailsKeeps == ASSUME SubmitInv, EncodingFails PROVE SubmitInv'
<1>1. stage \in EncodingStages /\ AbandonStream /\ tooLarge' = tooLarge
  BY DEF EncodingFails, EncodingStages
<1>2. tooLarge' = FALSE
  BY <1>1, WhileEncoding DEF SubmitInv, SubmitTypeOK
<1>3. TooLargeMeansStreamBudget'
  BY <1>2 DEF TooLargeMeansStreamBudget
<1>4. QED
  BY <1>1, <1>2, <1>3, AbandonKeeps

\* The chunks do not depend on the ring while nothing is staged.
LEMMA PrepareUploadArenaKeeps == ASSUME SubmitInv, PrepareUploadArena PROVE SubmitInv'
<1>1. /\ stage = "encode" /\ stage \in EncodingStages /\ stage' = stage
      /\ arenas = << >> /\ arenas' = ring /\ ring' = RotateLeft(ring)
      /\ UNCHANGED <<packets, packet, encoded, device>>
      /\ UNCHANGED <<tooLarge, busy, receipt, failedCall, admitted, answer>>
  BY DEF PrepareUploadArena, EncodingStages
<1>2. SubmitTypeOK /\ StagingFits
  BY <1>1, WhileEncoding
<1>3. ring \in Seq(Rings) /\ Len(ring) = UploadArenaCount /\ ring # << >>
  BY <1>2, SubmitModeAssumption DEF SubmitTypeOK, SubmitModeAssumption
<1>4. RotateLeft(ring) \in Seq(Rings) /\ Len(RotateLeft(ring)) = UploadArenaCount
  <2>1. /\ Head(ring) \in Rings /\ Tail(ring) \in Seq(Rings)
        /\ Len(Tail(ring)) = UploadArenaCount - 1
    BY <1>3, HeadTailProperties
  <2>2. <<Head(ring)>> \in Seq(Rings) /\ Len(<<Head(ring)>>) = 1 /\ UploadArenaCount \in Nat
    BY <2>1, SubmitModeAssumption DEF SubmitModeAssumption
  <2>3. QED
    BY <2>1, <2>2, ConcatProperties DEF RotateLeft
<1>5. SubmitTypeOK'
  BY <1>1, <1>2, <1>3, <1>4 DEF SubmitTypeOK
<1>6. ASSUME NEW c, NEW limit, Sound(c, limit, << >>) PROVE Sound(c, limit, ring)
  BY <1>3, <1>6 DEF Sound
<1>7. Staged(packets, ring, encoded)
  BY <1>1, <1>2, <1>6 DEF Staged, StagingFits
<1>8. StagingFits'
  BY <1>1, <1>2, <1>7 DEF StagingFits, Base
<1>9. FlagsAgree' /\ AdmittedIsEncoded' /\ UploadsStayInTheirArena' /\ TooLargeMeansStreamBudget'
  BY <1>1, StillEncoding
<1>10. QED
  BY <1>1, <1>5, <1>8, <1>9 DEF SubmitInv

\* No packet within the command size passes the limit of its chunk.
LEMMA PreparePacketKeeps ==
  ASSUME SubmitInv, NEW size \in 1..MaxCommandSize, NEW payload \in 0..(size - 1),
         PreparePacket(size, payload)
  PROVE  SubmitInv'
<1>1. stage = "encode" /\ stage \in EncodingStages /\ (payload > 0 => arenas # << >>)
  BY DEF PreparePacket, EncodingStages
<1>2. SubmitTypeOK /\ StagingFits
  BY <1>1, WhileEncoding
<1>3. MaxCommandSize \in Nat /\ size \in Nat /\ payload \in Nat /\ size <= MaxCommandSize
      /\ size > 0 /\ payload < size
  BY SubmitModeAssumption DEF SubmitModeAssumption
<1>4. packets \in StagingSet /\ packets.limit \in Nat /\ size <= packets.limit
  BY <1>2, <1>3, StagingFields DEF SubmitTypeOK, StagingFits
<1>5. /\ packets' = Prepare(packets, size)
      /\ packet' = [size |-> size, payload |-> payload, uploads |-> {}]
      /\ stage' = "prepared" /\ stage' \in EncodingStages
      /\ UNCHANGED <<arenas, ring, encoded, device>>
      /\ UNCHANGED <<tooLarge, busy, receipt, failedCall, admitted, answer>>
  BY <1>4 DEF PreparePacket, PrepareFits, EncodingStages
<1>6. Staged(packets, arenas, encoded) /\ StagesBelow(packets, packets.uploadOffset)
  BY <1>1, <1>2 DEF StagingFits, Base
<1>7. /\ packets' \in StagingSet /\ packets'.bytes = packets.bytes /\ packets'.limit = packets.limit
      /\ Staged(packets', arenas, encoded) /\ StagesBelow(packets', packets'.uploadOffset)
      /\ packets'.current.size + size <= packets'.limit
  BY <1>3, <1>4, <1>5, <1>6, PrepareStaged
<1>8. packet' \in PacketSet
  BY <1>3, <1>5 DEF PacketSet
<1>9. SubmitTypeOK'
  BY <1>2, <1>5, <1>7, <1>8 DEF SubmitTypeOK
<1>10. StagingFits'
  BY <1>2, <1>5, <1>7 DEF StagingFits, Base
<1>11. PacketFits'
  BY <1>1, <1>3, <1>5, <1>7 DEF PacketFits
<1>12. FlagsAgree' /\ AdmittedIsEncoded' /\ UploadsStayInTheirArena' /\ TooLargeMeansStreamBudget'
  BY <1>1, <1>5, StillEncoding
<1>13. QED
  BY <1>9, <1>10, <1>11, <1>12 DEF SubmitInv

\* The arena never runs out of room before the chunk does.
LEMMA TakeUploadRangeKeeps == ASSUME SubmitInv, TakeUploadRange PROVE SubmitInv'
<1>1. stage = "prepared" /\ stage \in EncodingStages /\ packet.payload > 0
  BY DEF TakeUploadRange, EncodingStages
<1>2. SubmitTypeOK /\ StagingFits /\ PacketFits
  BY <1>1, WhileEncoding DEF SubmitInv
<1>3. /\ packets \in StagingSet /\ packets.limit \in Nat /\ packets.uploadOffset \in Nat
      /\ packets.current.size \in Nat /\ CurrentArena(packets) \in Rings
  BY <1>2, StagingFields DEF SubmitTypeOK
<1>4. /\ packet \in PacketSet /\ packet.payload \in Nat /\ packet.size \in Nat
      /\ packet.payload < packet.size /\ packets.current.size + packet.size <= packets.limit
      /\ arenas # << >>
  BY <1>1, <1>2, PacketFields DEF SubmitTypeOK, PacketFits
<1>5. Base = packets.uploadOffset /\ packets.uploadOffset <= packets.current.size
  BY <1>1, <1>2 DEF StagingFits, StagesBelow, Base
<1>6. UploadFits(packets, packet.payload)
  BY <1>3, <1>4, <1>5 DEF UploadFits
<1> DEFINE upload == [arena |-> arenas[CurrentArena(packets) + 1],
                      first |-> packets.uploadOffset,
                      last |-> packets.uploadOffset + packet.payload - 1]
<1>7. /\ packet' = [packet EXCEPT !.uploads = {upload}]
      /\ packets' = UploadRange(packets, packet.payload)
      /\ stage' = "uploaded" /\ stage' \in EncodingStages
      /\ UNCHANGED <<arenas, ring, encoded, device>>
      /\ UNCHANGED <<tooLarge, busy, receipt, failedCall, admitted, answer>>
  BY <1>6 DEF TakeUploadRange, EncodingStages
<1>8. upload \in RangeSet
  <2>1. arenas \in Seq(Rings) /\ CurrentArena(packets) + 1 \in 1..Len(arenas)
    BY <1>2, <1>3, <1>4, RingFacts DEF SubmitTypeOK
  <2>2. arenas[CurrentArena(packets) + 1] \in Rings
    BY <2>1, ElementOfSeq
  <2>3. QED
    BY <1>3, <1>4, <2>2 DEF RangeSet
<1>9. /\ packet' \in PacketSet /\ packet'.uploads = {upload}
      /\ packet'.size = packet.size /\ packet'.payload = packet.payload
  BY <1>4, <1>7, <1>8 DEF PacketSet
<1>10. /\ packets' \in StagingSet /\ packets'.bytes = packets.bytes /\ packets'.limit = packets.limit
       /\ packets'.current.size = packets.current.size
       /\ packets'.current.arena = CurrentArena(packets)
       /\ CurrentArena(packets') = CurrentArena(packets)
       /\ packets'.uploadOffset = packets.uploadOffset + packet.payload
       /\ Staged(packets', arenas, encoded) /\ StagesBelow(packets', packets.uploadOffset)
  <2>1. Staged(packets, arenas, encoded) /\ StagesBelow(packets, packets.uploadOffset)
    BY <1>2, <1>5 DEF StagingFits
  <2>2. packets' = UploadRange(packets, packet.payload)
    BY <1>7
  <2>3. packets \in StagingSet /\ arenas # << >> /\ packet.payload \in Nat
    BY <1>3, <1>4
  <2>4. QED
    BY <2>1, <2>2, <2>3, UploadStaged
<1>11. Base' = packets.uploadOffset
  BY <1>3, <1>4, <1>7, <1>9, <1>10 DEF Base
<1>12. SubmitTypeOK'
  BY <1>2, <1>7, <1>9, <1>10 DEF SubmitTypeOK
<1>13. StagingFits'
  BY <1>2, <1>7, <1>10, <1>11 DEF StagingFits
<1>14. PacketFits'
  <2>1. packet'.uploads = {[arena |-> arenas'[CurrentArena(packets') + 1],
                            first |-> Base', last |-> packets'.uploadOffset - 1]}
    <3>1. upload.last = packets'.uploadOffset - 1
      BY <1>3, <1>4, <1>10
    <3>2. upload = [arena |-> arenas'[CurrentArena(packets') + 1],
                    first |-> Base', last |-> packets'.uploadOffset - 1]
      BY <1>7, <1>10, <1>11, <3>1
    <3>3. QED
      BY <1>9, <3>2
  <2>2. QED
    BY <1>1, <1>2, <1>7, <1>9, <1>10, <2>1 DEF PacketFits
<1>15. FlagsAgree' /\ AdmittedIsEncoded' /\ UploadsStayInTheirArena' /\ TooLargeMeansStreamBudget'
  BY <1>1, <1>7, StillEncoding
<1>16. QED
  BY <1>12, <1>13, <1>14, <1>15 DEF SubmitInv

\* A packet that is refused passes the budget of the stream.
LEMMA SubmitKeeps ==
  ASSUME SubmitInv, stage \in EncodingStages, NEW x \in PacketSet, x.size \in 1..MaxCommandSize,
         Submit(x), NEW p, p = Prepare(packets, x.size), p \in StagingSet,
         p.bytes = packets.bytes, p.limit = packets.limit, Staged(p, arenas, encoded),
         NEW base \in Nat, StagesBelow(p, base), base <= p.uploadOffset,
         p.current.size + x.size <= p.limit, p.uploadOffset <= p.current.size + x.size,
         \A u \in x.uploads :
           /\ p.current.arena # NoRange /\ u.arena = arenas[p.current.arena + 1]
           /\ base <= u.first /\ u.last < p.limit /\ u.last < p.uploadOffset
  PROVE  SubmitInv'
<1>1. SubmitTypeOK /\ StagingFits
  BY WhileEncoding
<1>2. /\ MaxCommandSize \in Nat /\ MaxTrackedBytes \in Nat /\ x.size \in Nat /\ x.size > 0
      /\ encoded \in Seq(PacketSet) /\ packets \in StagingSet /\ packets.bytes \in Nat
      /\ packets.limit \in Nat /\ x.size <= packets.limit /\ packets.bytes = StreamBytes(encoded)
  <2>1. packets \in StagingSet /\ encoded \in Seq(PacketSet) /\ packets.bytes = StreamBytes(encoded)
    BY <1>1 DEF SubmitTypeOK, StagingFits, Staged
  <2>2. packets.bytes \in Nat /\ packets.limit \in Nat /\ MaxCommandSize <= packets.limit
    BY <1>1, <2>1, StagingFields DEF StagingFits
  <2>3. QED
    BY <2>1, <2>2, SubmitModeAssumption DEF SubmitModeAssumption
<1>3. CASE AppendFits(packets, x.size)
  <2>1. /\ packets' = AppendPacket(packets, x) /\ encoded' = Append(encoded, x)
        /\ packet' = NoPacket /\ stage' = "encode" /\ stage' \in EncodingStages
        /\ UNCHANGED <<arenas, ring, device>>
        /\ UNCHANGED <<tooLarge, busy, receipt, failedCall, admitted, answer>>
    BY <1>3 DEF Submit, EncodingStages
  <2>2. packets' = WithPacket(p, x)
    BY <1>2, <2>1, AppendIsWithPacket
  <2>3. /\ packets' \in StagingSet /\ packets'.bytes = p.bytes + x.size
        /\ packets'.limit = p.limit /\ packets'.uploadOffset = p.uploadOffset
        /\ Staged(packets', arenas, Append(encoded, x))
        /\ StagesBelow(packets', packets'.uploadOffset)
    BY <1>2, <2>2, AppendStaged
  <2>4. packets'.bytes <= MaxTrackedBytes
    BY <1>2, <1>3, <2>3 DEF AppendFits
  <2>5. Append(encoded, x) \in Seq(PacketSet)
    BY <1>2
  <2>6. SubmitTypeOK'
    BY <1>1, <2>1, <2>3, <2>5, NoPacketFields DEF SubmitTypeOK
  <2>7. StagingFits'
    BY <1>1, <2>1, <2>3, <2>4 DEF StagingFits, Base
  <2>8. FlagsAgree' /\ AdmittedIsEncoded' /\ UploadsStayInTheirArena' /\ TooLargeMeansStreamBudget'
    BY <2>1, StillEncoding
  <2>9. QED
    BY <2>1, <2>6, <2>7, <2>8 DEF SubmitInv
<1>4. CASE ~AppendFits(packets, x.size)
  <2>1. AbandonStream /\ tooLarge' = TRUE
    BY <1>4 DEF Submit, PacketTooLarge
  <2>2. StreamBytes(encoded) + x.size > MaxTrackedBytes
    BY <1>2, <1>4 DEF AppendFits, PrepareFits
  <2>3. encoded' = encoded
    BY <2>1 DEF AbandonStream
  <2>4. TooLargeMeansStreamBudget'
    BY <2>2, <2>3 DEF TooLargeMeansStreamBudget
  <2>5. QED
    BY <2>1, <2>4, AbandonKeeps
<1>5. QED
  BY <1>3, <1>4

\* A prepared packet goes to the chunk its room was made in.
LEMMA SubmitPreparedKeeps == ASSUME SubmitInv, SubmitPrepared PROVE SubmitInv'
<1>1. /\ stage = (IF packet.payload > 0 THEN "uploaded" ELSE "prepared")
      /\ stage \in {"prepared", "uploaded"} /\ stage \in EncodingStages /\ Submit(packet)
  BY DEF SubmitPrepared, EncodingStages
<1>2. SubmitTypeOK /\ StagingFits /\ PacketFits
  BY <1>1, WhileEncoding DEF SubmitInv
<1>3. /\ packets \in StagingSet /\ packets.limit \in Nat /\ packets.uploadOffset \in Nat
      /\ packets.current.size \in Nat /\ CurrentArena(packets) \in Rings
  BY <1>2, StagingFields DEF SubmitTypeOK
<1>4. /\ packet \in PacketSet /\ packet.payload \in Nat /\ packet.size \in Nat
      /\ packet.size \in 1..MaxCommandSize
      /\ packet.payload < packet.size /\ packets.current.size + packet.size <= packets.limit
  BY <1>2, PacketFields DEF SubmitTypeOK, PacketFits
<1>5. packets = Prepare(packets, packet.size)
  BY <1>3, <1>4 DEF Prepare, MustRotate
<1>6. /\ Staged(packets, arenas, encoded) /\ StagesBelow(packets, Base)
      /\ Base <= packets.current.size
  BY <1>2 DEF StagingFits, StagesBelow
<1>7. /\ Base \in Nat /\ Base <= packets.uploadOffset
      /\ packets.uploadOffset <= packets.current.size + packet.size
      /\ \A u \in packet.uploads :
           /\ packets.current.arena # NoRange /\ u.arena = arenas[packets.current.arena + 1]
           /\ Base <= u.first /\ u.last < packets.limit /\ u.last < packets.uploadOffset
  <2>1. CASE stage = "prepared"
    <3>1. packet.uploads = {} /\ Base = packets.uploadOffset
      BY <1>2, <2>1 DEF PacketFits, Base
    <3>2. QED
      BY <1>3, <1>4, <1>6, <3>1
  <2>2. CASE stage = "uploaded"
    <3> DEFINE upload == [arena |-> arenas[CurrentArena(packets) + 1],
                          first |-> Base, last |-> packets.uploadOffset - 1]
    <3>1. /\ packets.current.arena = CurrentArena(packets) /\ packet.uploads = {upload}
          /\ Base = packets.uploadOffset - packet.payload
      BY <1>2, <2>2 DEF PacketFits, Base
    <3>2. /\ upload.arena = arenas[CurrentArena(packets) + 1] /\ upload.first = Base
          /\ upload.last = packets.uploadOffset - 1
      OBVIOUS
    <3>3. upload \in packet.uploads
      BY <3>1
    <3> HIDE DEF upload
    <3>4. Base \in Nat
      BY <1>4, <3>2, <3>3, PacketFields
    <3>5. CurrentArena(packets) # NoRange
      BY <1>3, RingFacts
    <3>6. /\ Base <= packets.uploadOffset
          /\ packets.uploadOffset <= packets.current.size + packet.size
          /\ packets.uploadOffset - 1 < packets.limit
          /\ packets.uploadOffset - 1 < packets.uploadOffset
      BY <1>3, <1>4, <1>6, <3>1
    <3>7. ASSUME NEW u \in packet.uploads PROVE u = upload
      BY <3>1
    <3>8. QED
      BY <3>1, <3>2, <3>4, <3>5, <3>6, <3>7
  <2>3. QED
    BY <1>1, <2>1, <2>2
<1>8. QED
  BY <1>1, <1>3, <1>4, <1>5, <1>6, <1>7, SubmitKeeps

\* A packet without uploads may open a chunk as it is appended.
LEMMA SubmitDirectKeeps ==
  ASSUME SubmitInv, NEW size \in 1..MaxCommandSize, SubmitDirect(size)
  PROVE  SubmitInv'
<1> DEFINE x == [NoPacket EXCEPT !.size = size]
<1>1. stage = "encode" /\ stage \in EncodingStages /\ Submit(x)
  BY DEF SubmitDirect, EncodingStages
<1>2. SubmitTypeOK /\ StagingFits
  BY <1>1, WhileEncoding
<1>3. MaxCommandSize \in Nat /\ size \in Nat /\ size <= MaxCommandSize
  BY SubmitModeAssumption DEF SubmitModeAssumption
<1>4. x \in PacketSet /\ x.size = size /\ x.uploads = {}
  BY <1>3, NoPacketFields
<1> HIDE DEF x
<1> DEFINE p == Prepare(packets, x.size)
<1>5. packets \in StagingSet /\ packets.limit \in Nat /\ size <= packets.limit
  BY <1>2, <1>3, StagingFields DEF SubmitTypeOK, StagingFits
<1>6. Staged(packets, arenas, encoded) /\ StagesBelow(packets, packets.uploadOffset)
  BY <1>1, <1>2 DEF StagingFits, Base
<1>7. /\ p \in StagingSet /\ p.bytes = packets.bytes /\ p.limit = packets.limit
      /\ Staged(p, arenas, encoded) /\ StagesBelow(p, p.uploadOffset)
      /\ p.current.size + size <= p.limit
  BY <1>3, <1>4, <1>5, <1>6, PrepareStaged
<1> HIDE DEF p
<1>8. p.uploadOffset \in Nat /\ p.uploadOffset <= p.current.size /\ p.current.size \in Nat
  BY <1>7, StagingFields DEF StagesBelow
<1>9. p.uploadOffset <= p.current.size + x.size /\ p.uploadOffset <= p.uploadOffset
  BY <1>3, <1>4, <1>8
<1>10. QED
  BY <1>1, <1>4, <1>7, <1>8, <1>9, SubmitKeeps DEF p

\* The scheduler is offered the stream as it was encoded.
LEMMA FlushKeeps == ASSUME SubmitInv, Flush PROVE SubmitInv'
<1> DEFINE s == Finish(packets)
           t == Flushed(s)
<1>1. /\ stage = "encode" /\ stage \in EncodingStages
      /\ packets' = NewPackets(0) /\ stage' = "finish" /\ stage' \notin EncodingStages
      /\ UNCHANGED <<packet, arenas, ring, outcome, encoded, device>>
  BY DEF Flush, EncodingStages
<1>2. /\ SubmitTypeOK /\ StagingFits /\ packets \in StagingSet /\ Staged(packets, arenas, encoded)
      /\ ~receipt /\ ~busy /\ ~tooLarge /\ ~failedCall /\ answer = "none" /\ admitted = << >>
  BY <1>1, WhileEncoding DEF SubmitTypeOK, StagingFits
<1>3. /\ s \in Seq(ChunkSet) /\ Len(s) > 0 /\ StreamBytes(s) = packets.bytes
      /\ PacketsOf(s) = encoded /\ \A i \in 1..Len(s) : Sound(s[i], packets.limit, arenas)
  BY <1>2, FinishStaged
<1> HIDE DEF s
<1>4. /\ t \in Seq(ChunkSet) /\ Len(t) = Len(s)
      /\ StreamBytes(t) = StreamBytes(s) /\ PacketsOf(t) = PacketsOf(s)
      /\ \A i \in 1..Len(t) : SentSoundly(t[i], packets.limit)
  BY <1>2, <1>3, FlushedFacts
<1>5. StreamBytes(t) <= MaxTrackedBytes /\ MaxTrackedBytes \in Nat /\ StreamBytes(t) \in Nat
  BY <1>2, <1>3, <1>4, SubmitModeAssumption, StagingFields DEF StagingFits, SubmitModeAssumption
<1>6. \/ answer' = "admitted" /\ receipt' = TRUE /\ admitted' = t
         /\ UNCHANGED <<busy, tooLarge, failedCall>>
      \/ answer' = "busy" /\ busy' = TRUE /\ failedCall' = TRUE
         /\ UNCHANGED <<receipt, tooLarge, admitted>>
      \/ answer' = "failed" /\ failedCall' = TRUE /\ UNCHANGED <<busy, receipt, tooLarge, admitted>>
  <2>1. ~(StreamBytes(Flushed(Finish(packets))) > MaxTrackedBytes)
    BY <1>5 DEF s
  <2>2. t = Flushed(Finish(packets))
    BY DEF s
  <2> HIDE DEF t
  <2>3. QED
    BY <2>1, <2>2 DEF Flush, RefuseBusy
<1> HIDE DEF t
<1>7. packets' \in StagingSet
  BY <1>1, NewPacketsStaged
<1>8. SubmitTypeOK'
  BY <1>1, <1>2, <1>6, <1>7 DEF SubmitTypeOK
<1>9. FlagsAgree'
  BY <1>1, <1>2, <1>6 DEF FlagsAgree
<1>10. TooLargeMeansStreamBudget'
  BY <1>2, <1>6 DEF TooLargeMeansStreamBudget
<1>11. packets.limit \in Nat /\ packets.limit <= device /\ packets.limit <= GpuMaxCommand
       /\ device \in Nat /\ GpuMaxCommand \in Nat
  BY <1>2, StagingFields, SubmitModeAssumption
  DEF StagingFits, SubmitTypeOK, SubmitModeAssumption
<1>12. CASE receipt'
  <2>1. admitted' = t
    BY <1>2, <1>6, <1>12
  <2>2. Len(t) > 0 /\ PacketsOf(t) = encoded
    BY <1>3, <1>4
  <2>3. ASSUME NEW i \in 1..Len(t)
        PROVE  /\ t[i].size <= device
               /\ \A j \in 1..Len(t[i].packets) : \A u \in t[i].packets[j].uploads :
                    /\ u.arena = t[i].arena /\ u.last < GpuMaxCommand
                    /\ \A k \in 1..Len(t[i].packets) :
                         k # j => \A v \in t[i].packets[k].uploads : ~Overlap(u, v)
    <3>1. SentSoundly(t[i], packets.limit)
      BY <1>4
    <3>2. t[i] \in ChunkSet
      BY <1>4
    <3>3. t[i].size \in Nat /\ t[i].packets \in Seq(PacketSet)
      BY <3>2, ChunkFields
    <3>4. ASSUME NEW j \in 1..Len(t[i].packets), NEW u \in t[i].packets[j].uploads
          PROVE  u.last \in Int
      <4>1. t[i].packets[j] \in PacketSet
        BY <3>3, ElementOfSeq
      <4>2. QED
        BY <4>1, PacketFields
    <3>5. QED
      BY <1>11, <3>1, <3>3, <3>4 DEF SentSoundly
  <2>4. AdmittedIsEncoded' /\ UploadsStayInTheirArena'
    BY <1>1, <2>1, <2>2, <2>3 DEF AdmittedIsEncoded, UploadsStayInTheirArena
  <2>5. QED
    BY <1>1, <1>8, <1>9, <1>10, <2>4 DEF SubmitInv
<1>13. CASE ~receipt'
  <2>1. admitted' = << >>
    BY <1>2, <1>6, <1>13
  <2>2. 1..Len(<< >>) = {}
    OBVIOUS
  <2>3. AdmittedIsEncoded' /\ UploadsStayInTheirArena'
    BY <1>13, <2>1, <2>2 DEF AdmittedIsEncoded, UploadsStayInTheirArena
  <2>4. QED
    BY <1>1, <1>8, <1>9, <1>10, <2>3 DEF SubmitInv
<1>14. QED
  BY <1>12, <1>13

\* finish reads the flags and changes none.
LEMMA FinishModeKeeps == ASSUME SubmitInv, FinishMode PROVE SubmitInv'
<1>1. /\ stage' = "idle" /\ stage' \notin EncodingStages /\ outcome' = Outcome
      /\ UNCHANGED <<packets, packet, tooLarge, busy, receipt, arenas, failedCall, ring, encoded,
                     admitted, answer, device>>
  BY DEF FinishMode, modeVars, EncodingStages
<1>2. SubmitTypeOK'
  BY <1>1 DEF SubmitInv, SubmitTypeOK
<1>3. Outcome' = Outcome
  BY <1>1 DEF Outcome
<1>4. FlagsAgree'
  BY <1>1, <1>3 DEF SubmitInv, FlagsAgree
<1>5. AdmittedIsEncoded' /\ UploadsStayInTheirArena' /\ TooLargeMeansStreamBudget'
  BY <1>1 DEF SubmitInv, AdmittedIsEncoded, UploadsStayInTheirArena, TooLargeMeansStreamBudget
<1>6. QED
  BY <1>1, <1>2, <1>4, <1>5 DEF SubmitInv

\* A step of another stream's submission, or none.
LEMMA SubmitStutters == ASSUME SubmitInv, UNCHANGED submitVars PROVE SubmitInv'
<1>1. UNCHANGED <<stage, packets, packet, tooLarge, busy, receipt, arenas, failedCall, ring,
                  outcome, encoded, admitted, answer, device>>
  BY DEF submitVars, modeVars
<1>2. Base' = Base /\ Outcome' = Outcome
  BY <1>1 DEF Base, Outcome
<1>3. SubmitTypeOK' /\ FlagsAgree'
  BY <1>1, <1>2 DEF SubmitInv, SubmitTypeOK, FlagsAgree
<1>4. (stage \in EncodingStages => StagingFits)' /\ (stage \in {"prepared", "uploaded"} => PacketFits)'
  BY <1>1, <1>2 DEF SubmitInv, StagingFits, PacketFits
<1>5. AdmittedIsEncoded' /\ UploadsStayInTheirArena' /\ TooLargeMeansStreamBudget'
  BY <1>1 DEF SubmitInv, AdmittedIsEncoded, UploadsStayInTheirArena, TooLargeMeansStreamBudget
<1>6. QED
  BY <1>3, <1>4, <1>5 DEF SubmitInv

\* Every step of a submission keeps its invariant.
LEMMA SubmitNextKeeps == ASSUME SubmitInv, SubmitNext PROVE SubmitInv'
<1>1. CASE \E n \in GpuLimits : Tracked(n)
  BY <1>1, TrackedKeeps
<1>2. CASE EncodingFails
  BY <1>2, EncodingFailsKeeps
<1>3. CASE PrepareUploadArena
  BY <1>3, PrepareUploadArenaKeeps
<1>4. CASE \E size \in 1..MaxCommandSize : \E payload \in 0..(size - 1) : PreparePacket(size, payload)
  BY <1>4, PreparePacketKeeps
<1>5. CASE \E size \in 1..MaxCommandSize : SubmitDirect(size)
  BY <1>5, SubmitDirectKeeps
<1>6. CASE TakeUploadRange
  BY <1>6, TakeUploadRangeKeeps
<1>7. CASE SubmitPrepared
  BY <1>7, SubmitPreparedKeeps
<1>8. CASE Flush
  BY <1>8, FlushKeeps
<1>9. CASE FinishMode
  BY <1>9, FinishModeKeeps
<1>10. QED
  BY <1>1, <1>2, <1>3, <1>4, <1>5, <1>6, <1>7, <1>8, <1>9 DEF SubmitNext

(* The staging of every stream stays sound from its first packet to the      *)
(* outcome (SubmitMode, Packets).                                            *)
THEOREM SubmitCorrect == SubmitSpec => []SubmitInv
<1>1. SubmitInit => SubmitInv
  BY InitSubmitInv
<1>2. SubmitInv /\ [SubmitNext]_submitVars => SubmitInv'
  BY SubmitNextKeeps, SubmitStutters
<1>3. QED
  BY <1>1, <1>2, PTL DEF SubmitSpec

(* For any limits, packets and failures: the scheduler takes exactly the     *)
(* stream that was encoded, in chunks the device takes; no chunk stages      *)
(* outside the arena it is sent with or twice in the same bytes; a stream is *)
(* too large only by its budget; and the application is told the truth.      *)
THEOREM SubmissionsAreSound == SubmitSpec => []SubmitInvariant
<1>1. ASSUME SubmitInv PROVE OutcomeIsTruthful
  <2> SUFFICES ASSUME stage = "idle", outcome # "none"
               PROVE  /\ outcome = "Accepted" <=> answer = "admitted"
                      /\ outcome = "Busy" <=> answer = "busy"
                      /\ outcome = "SubmissionTooLarge" <=> tooLarge
                      /\ outcome # "Failed"
    BY DEF OutcomeIsTruthful
  <2>1. /\ receipt <=> answer = "admitted"
        /\ busy <=> answer = "busy"
        /\ receipt => ~failedCall
        /\ tooLarge => ~receipt /\ ~busy
        /\ outcome = Outcome
    BY <1>1 DEF SubmitInv, FlagsAgree
  <2>2. CASE receipt
    BY <2>1, <2>2 DEF Outcome
  <2>3. CASE ~receipt /\ busy
    BY <2>1, <2>3 DEF Outcome
  <2>4. CASE ~receipt /\ ~busy /\ tooLarge
    BY <2>1, <2>4 DEF Outcome
  <2>5. CASE ~receipt /\ ~busy /\ ~tooLarge
    BY <2>1, <2>5 DEF Outcome
  <2>6. QED
    BY <2>2, <2>3, <2>4, <2>5
<1>2. SubmitInv => SubmitInvariant
  BY <1>1 DEF SubmitInv, SubmitInvariant
<1>3. QED
  BY <1>2, SubmitCorrect, PTL

-----------------------------------------------------------------------------
(* WGPU tracked submissions.                                               *)

Calls == [pc : Stages, index : Nat \cup {None}]
Locked == Scoped \cup {"mapping"}

-----------------------------------------------------------------------------
(* A step of one call leaves the others where they are.                     *)
Moves(t, pc, index) ==
  /\ call' \in [Threads -> Calls]
  /\ call'[t].pc = pc /\ call'[t].index = index
  /\ \A u \in Threads : u # t => call'[u] = call[u]

\* What an assignment to one thread's call does.
LEMMA Moved ==
  ASSUME CompletionTypeOK, NEW t \in Threads, NEW pc \in Stages
  PROVE  /\ call[t].pc \in Stages /\ call[t].index \in Nat \cup {None}
         /\ call' = [call EXCEPT ![t].pc = pc] => Moves(t, pc, call[t].index)
         /\ \A index \in Nat \cup {None} :
              /\ call' = [call EXCEPT ![t].pc = pc, ![t].index = index] => Moves(t, pc, index)
              /\ call' = [call EXCEPT ![t] = [pc |-> pc, index |-> index]] => Moves(t, pc, index)
<1>1. call \in [Threads -> Calls]
  BY DEF CompletionTypeOK, Calls
<1>2. call[t] \in Calls /\ call[t].pc \in Stages /\ call[t].index \in Nat \cup {None}
  BY <1>1 DEF Calls
<1>3. call' = [call EXCEPT ![t].pc = pc] => Moves(t, pc, call[t].index)
  BY <1>1, <1>2 DEF Moves, Calls
<1>4. ASSUME NEW index \in Nat \cup {None}, call' = [call EXCEPT ![t].pc = pc, ![t].index = index]
      PROVE  Moves(t, pc, index)
  BY <1>1, <1>2, <1>4 DEF Moves, Calls
<1>5. ASSUME NEW index \in Nat \cup {None}, call' = [call EXCEPT ![t] = [pc |-> pc, index |-> index]]
      PROVE  Moves(t, pc, index)
  BY <1>1, <1>2, <1>5 DEF Moves, Calls
<1>6. QED
  BY <1>2, <1>3, <1>4, <1>5

\* The threads that hold a reservation change with the call that moves.
LEMMA InsideMoved ==
  ASSUME NEW t \in Threads, NEW pc, NEW index, Moves(t, pc, index)
  PROVE  Inside' = IF pc \in Reserved THEN Inside \cup {t} ELSE Inside \ {t}
BY DEF Moves, Inside

(* The lock of a call inside its scopes.                                    *)
LEMMA ScopeFacts ==
  ASSUME CompletionTypeOK, LockGuardsScopes, NEW t \in Threads, call[t].pc \in Scoped
  PROVE  /\ guard = t /\ t # None /\ scopes = <<t>> /\ Front(scopes) = <<>>
         /\ Caught(t) = [captured EXCEPT ![t] = @ \cup {t}]
<1>1. guard = t /\ t # None
  BY WgpuCompletionAssumption DEF WgpuCompletionAssumption, LockGuardsScopes
<1>2. call[t].pc # "mapping"
  BY DEF Scoped
<1>3. scopes = <<t>>
  BY <1>1, <1>2 DEF LockGuardsScopes
<1>4. Front(scopes) = <<>> /\ Last(scopes) = t /\ scopes # <<>>
  BY <1>3 DEF Front, Last
<1>5. QED
  BY <1>1, <1>3, <1>4 DEF Caught

\* A call enters and leaves the scopes with the lock, and in order.
LEMMA LockKept ==
  ASSUME CompletionTypeOK, LockGuardsScopes, NEW t \in Threads, NEW pc, NEW index, Moves(t, pc, index),
         \/ guard' = guard /\ scopes' = scopes /\ call[t].pc \notin Locked /\ pc \notin Locked
         \/ guard = None /\ guard' = t /\ scopes' = <<t>> /\ pc \in Scoped
         \/ guard = t /\ guard' = None /\ scopes' = <<>> /\ pc \notin Locked
         \/ guard = t /\ guard' = t /\ scopes' = <<>> /\ pc = "mapping"
  PROVE  LockGuardsScopes'
<1>1. t # None /\ \A u \in Threads : u # None
  BY WgpuCompletionAssumption DEF WgpuCompletionAssumption
<1>2. /\ call'[t].pc = pc /\ \A u \in Threads : u # t => call'[u] = call[u]
  BY DEF Moves
<1>3. "mapping" \notin Scoped
  BY DEF Scoped
<1>4. guard \in Threads \cup {None}
  BY DEF CompletionTypeOK
<1>5. \A u \in Threads : call'[u].pc \in Locked <=> guard' = u
  BY <1>1, <1>2, <1>3 DEF LockGuardsScopes, Locked
<1>6. scopes' = IF guard' # None /\ call'[guard'].pc # "mapping" THEN <<guard'>> ELSE <<>>
  BY <1>1, <1>2, <1>3, <1>4 DEF LockGuardsScopes, Locked
<1>7. QED
  BY <1>5, <1>6 DEF LockGuardsScopes, Locked

-----------------------------------------------------------------------------
(* Counting the slots.                                                      *)
LEMMA Counts ==
  /\ IsFiniteSet(Inside) /\ Cardinality(Inside) \in Nat
  /\ IsFiniteSet(Holding) /\ Cardinality(Holding) \in Nat
<1>1. IsFiniteSet(Submissions)
  BY FS_Interval, WgpuCompletionAssumption DEF WgpuCompletionAssumption, Submissions
<1>2. Inside \subseteq Threads /\ Holding \subseteq Submissions
  BY DEF Inside, Holding
<1>3. IsFiniteSet(Inside) /\ IsFiniteSet(Holding)
  BY <1>1, <1>2, FS_Subset, WgpuCompletionAssumption DEF WgpuCompletionAssumption
<1>4. QED
  BY <1>3, FS_CardinalityType

(* A receipt tells the truth because its marker does.                       *)
LEMMA ReceiptsTellTheTruth ==
  CompletionTypeOK /\ MarkersFollowWork => CompleteMeansRetired
<1> SUFFICES ASSUME CompletionTypeOK, MarkersFollowWork, NEW n \in receipts, Status(n) = "complete"
             PROVE  n <= retired /\ ~lost
  BY DEF CompleteMeansRetired
<1>1. n \in Submissions /\ Marked(n) /\ ~lost
  BY DEF MarkersFollowWork, Status
<1>2. marker[n] \in [observation : 0..2, slot : BOOLEAN]
  BY <1>1 DEF CompletionTypeOK, Marked
<1>3. marker[n].observation = 1
  BY <1>1, <1>2 DEF Status
<1>4. QED
  BY <1>1, <1>3 DEF MarkersFollowWork

\* The same of the next state.
LEMMA ReceiptsTellTheTruthNext ==
  (CompletionTypeOK /\ MarkersFollowWork => CompleteMeansRetired)'
BY ReceiptsTellTheTruth, PTL

-----------------------------------------------------------------------------
(* A poll observes what retired: markers stay marked, observations only     *)
(* come, and every slot it frees was held.                                  *)
LEMMA PollFacts ==
  ASSUME CompletionTypeOK, SlotsCoverWork, Poll, UNCHANGED <<fate, work, retired>>
  PROVE  /\ marker' \in [Submissions -> {None} \cup [observation : 0..2, slot : BOOLEAN]]
         /\ \A n \in Submissions :
              /\ Marked(n)' <=> Marked(n)
              /\ Marked(n) => /\ marker[n].observation # 0 =>
                                   marker'[n].observation = marker[n].observation
                              /\ marker'[n].observation = 1 =>
                                   marker[n].observation = 1 \/ n <= retired
                              /\ marker'[n].observation = 0 => marker'[n] = marker[n]
              /\ n \in Holding' => n \in Holding
         /\ pending' = pending - Cardinality(Holding \ Holding')
         /\ lost' = fate
<1>1. ASSUME NEW n \in Submissions
      PROVE  /\ marker'[n] = Observe(n)
             /\ marker[n] \in {None} \cup [observation : 0..2, slot : BOOLEAN]
             /\ Polled[n] = Observe(n)
  BY DEF Poll, Polled, CompletionTypeOK
<1>2. \A n \in Submissions : Marked(n) =>
         /\ marker[n] \in [observation : 0..2, slot : BOOLEAN]
         /\ Observe(n) \in [observation : 0..2, slot : BOOLEAN]
         /\ Observe(n) # None
  <2>1. ASSUME NEW n \in Submissions, Marked(n)
        PROVE  /\ marker[n] \in [observation : 0..2, slot : BOOLEAN]
               /\ Observe(n) \in [observation : 0..2, slot : BOOLEAN]
    <3>1. marker[n] \in [observation : 0..2, slot : BOOLEAN] /\ marker[n] # None
      BY <1>1, <2>1 DEF Marked
    <3>2. CASE n <= retired \/ fate
      BY <3>1, <3>2 DEF Observe
    <3>3. CASE ~(n <= retired \/ fate)
      BY <3>1, <3>3 DEF Observe
    <3>4. QED
      BY <3>1, <3>2, <3>3
  <2>2. QED
    BY <2>1, WgpuCompletionAssumption DEF WgpuCompletionAssumption
<1>3. \A n \in Submissions : ~Marked(n) => Observe(n) = None
  BY DEF Observe, Marked
<1>4. \A n \in Submissions : Marked(n)' <=> Marked(n)
  BY <1>1, <1>2, <1>3 DEF Marked
<1>5. marker' \in [Submissions -> {None} \cup [observation : 0..2, slot : BOOLEAN]]
  <2>1. marker' = [n \in Submissions |-> Observe(n)]
    BY DEF Poll, Polled
  <2>2. \A n \in Submissions : Observe(n) \in {None} \cup [observation : 0..2, slot : BOOLEAN]
    BY <1>2, <1>3
  <2>3. QED
    BY <2>1, <2>2
<1>6. ASSUME NEW n \in Submissions, Marked(n)
      PROVE  /\ marker[n].observation # 0 => marker'[n].observation = marker[n].observation
             /\ marker'[n].observation = 1 => marker[n].observation = 1 \/ n <= retired
             /\ marker'[n].observation = 0 => marker'[n] = marker[n]
             /\ marker'[n].slot => marker[n].slot
  <2>1. marker[n] \in [observation : 0..2, slot : BOOLEAN] /\ marker[n] # None /\ marker'[n] = Observe(n)
    BY <1>1, <1>2, <1>6 DEF Marked
  <2>2. CASE n <= retired \/ fate
    BY <2>1, <2>2 DEF Observe
  <2>3. CASE ~(n <= retired \/ fate)
    BY <2>1, <2>3 DEF Observe
  <2>4. QED
    BY <2>2, <2>3
<1>7. \A n \in Submissions : n \in Holding' => n \in Holding
  BY <1>4, <1>6 DEF Holding
<1>8. {n \in Submissions : marker[n] # None /\ marker[n].slot /\ ~Polled[n].slot} = Holding \ Holding'
  <2>1. ASSUME NEW n \in Submissions
        PROVE  marker[n] # None /\ marker[n].slot /\ ~Polled[n].slot <=> n \in Holding /\ n \notin Holding'
    <3>1. n \in Holding <=> marker[n] # None /\ marker[n].slot
      BY DEF Holding, Marked
    <3>2. n \in Holding' <=> Marked(n) /\ Polled[n].slot
      BY <1>1, <1>4 DEF Holding
    <3>3. QED
      BY <3>1, <3>2 DEF Marked
  <2>2. QED
    BY <2>1 DEF Holding
<1>9. pending' = pending - Cardinality(Holding \ Holding')
  BY <1>8 DEF Poll, Freed
<1>10. QED
  BY <1>4, <1>5, <1>6, <1>7, <1>9 DEF Poll


-----------------------------------------------------------------------------
(* The parts of the invariant that a step may disturb, put together again.  *)
CallsTyped ==
  /\ call \in [Threads -> Calls]
  /\ guard \in Threads \cup {None} /\ scopes \in Seq(Threads)
  /\ captured \in [Threads -> SUBSET Threads]

\* The rest of the invariant follows from these parts.
LEMMA Together ==
  ASSUME CompletionTypeOK', LockGuardsScopes', SlotsCoverWork', MarkersFollowWork'
  PROVE  CompletionInvariant'
BY ReceiptsTellTheTruthNext DEF CompletionInvariant

(* A step that maps no marker and puts no receipt under way.                *)
LEMMA MarkersKept ==
  ASSUME CompletionTypeOK, MarkersFollowWork, UNCHANGED marker, receipts' \subseteq receipts,
         work' \in Nat, retired' \in Nat, work <= work', retired <= retired', lost' => fate',
         \A t \in Threads : At(t, "receipt")' => At(t, "receipt") /\ call'[t].index = call[t].index
  PROVE  MarkersFollowWork'
<1>1. work \in Nat /\ retired \in Nat
  BY WgpuCompletionAssumption DEF WgpuCompletionAssumption, CompletionTypeOK
<1>2. \A n : Marked(n)' <=> Marked(n)
  BY DEF Marked
<1>3. \A n \in Submissions :
        Marked(n)' => n <= work' /\ (marker'[n].observation = 1 => n <= retired')
  BY <1>1, <1>2 DEF MarkersFollowWork, Submissions
<1>4. ASSUME NEW t \in Threads, At(t, "receipt")', NEW n, n = call'[t].index
      PROVE  /\ n \in 1..work' /\ ~Marked(n)'
             /\ \A u \in Threads : At(u, "receipt")' /\ call'[u].index = n => u = t
  <2>1. At(t, "receipt") /\ n = call[t].index
    BY <1>4
  <2>2. n \in 1..work /\ ~Marked(n)
        /\ \A u \in Threads : At(u, "receipt") /\ call[u].index = n => u = t
    BY <2>1 DEF MarkersFollowWork
  <2>3. QED
    BY <1>1, <1>2, <2>2
<1>5. receipts' \subseteq {n \in Submissions : Marked(n)'}
  BY <1>2 DEF MarkersFollowWork
<1>6. QED
  BY <1>3, <1>4, <1>5 DEF MarkersFollowWork, Marked

(* A call whose stream or checkpoint reaches the queue is the only one with *)
(* that submission.                                                         *)
LEMMA MarkersGrow ==
  ASSUME CompletionTypeOK, MarkersFollowWork, UNCHANGED <<marker, receipts, retired, lost, fate>>,
         work' = work + 1, work < MaxSubmissions, NEW t \in Threads, Moves(t, "receipt", work + 1)
  PROVE  MarkersFollowWork'
<1>1. work \in Nat /\ retired \in Nat
  BY WgpuCompletionAssumption DEF WgpuCompletionAssumption, CompletionTypeOK
<1>2. \A n : Marked(n)' <=> Marked(n)
  BY DEF Marked
<1>3. \A n \in Submissions : Marked(n) => n <= work
  BY DEF MarkersFollowWork
<1>4. \A n \in Submissions :
        Marked(n)' => n <= work' /\ (marker'[n].observation = 1 => n <= retired')
  BY <1>1, <1>2 DEF MarkersFollowWork, Submissions
<1>5. work + 1 \in Submissions /\ ~Marked(work + 1)
  <2>1. work + 1 \in Submissions /\ ~(work + 1 <= work)
    BY <1>1, WgpuCompletionAssumption DEF WgpuCompletionAssumption, Submissions
  <2>2. QED
    BY <1>3, <2>1
<1>6. call'[t].pc = "receipt" /\ call'[t].index = work + 1 /\ \A u \in Threads : u # t => call'[u] = call[u]
  BY DEF Moves
<1>7. ASSUME NEW v \in Threads, At(v, "receipt")', NEW n, n = call'[v].index
      PROVE  /\ n \in 1..work' /\ ~Marked(n)'
             /\ \A u \in Threads : At(u, "receipt")' /\ call'[u].index = n => u = v
  <2>1. CASE v = t
    <3>1. n = work + 1 /\ n \in 1..work' /\ ~Marked(n)'
      BY <1>1, <1>2, <1>5, <1>6, <1>7, <2>1
    <3>2. ASSUME NEW u \in Threads, At(u, "receipt")', call'[u].index = n, u # t
          PROVE  FALSE
      <4>1. At(u, "receipt") /\ call[u].index = work + 1
        BY <1>6, <3>1, <3>2 DEF At
      <4>2. call[u].index \in 1..work
        BY <4>1 DEF MarkersFollowWork
      <4>3. QED
        BY <1>1, <4>1, <4>2
    <3>3. QED
      BY <2>1, <3>1, <3>2
  <2>2. CASE v # t
    <3>1. At(v, "receipt") /\ n = call[v].index
      BY <1>6, <1>7, <2>2 DEF At
    <3>2. n \in 1..work /\ ~Marked(n)
          /\ \A u \in Threads : At(u, "receipt") /\ call[u].index = n => u = v
      BY <3>1 DEF MarkersFollowWork
    <3>3. n \in 1..work' /\ ~Marked(n)' /\ n # work + 1
      BY <1>1, <1>2, <3>2
    <3>4. QED
      BY <1>6, <3>2, <3>3 DEF At
  <2>3. QED
    BY <2>1, <2>2
<1>8. receipts' \subseteq {n \in Submissions : Marked(n)'} /\ (lost' => fate')
  BY <1>2 DEF MarkersFollowWork
<1>9. QED
  BY <1>4, <1>7, <1>8 DEF MarkersFollowWork, Marked

(* A call that leaves the markers and the table of slots alone.             *)
LEMMA SlotsKept ==
  ASSUME SlotsCoverWork, UNCHANGED <<pending, marker>>, Inside' = Inside
  PROVE  SlotsCoverWork'
<1>1. Holding' = Holding
  BY DEF Holding, Marked
<1>2. QED
  BY <1>1 DEF SlotsCoverWork, Marked

\* A reservation takes one slot.
LEMMA SlotTaken ==
  ASSUME SlotsCoverWork, pending \in Nat, UNCHANGED marker, pending < Limit, pending' = pending + 1,
         NEW t, t \notin Inside, Inside' = Inside \cup {t}
  PROVE  SlotsCoverWork' /\ pending' \in Nat
<1>1. Holding' = Holding
  BY DEF Holding, Marked
<1>2. Cardinality(Inside') = Cardinality(Inside) + 1
  BY Counts, FS_AddElement
<1>3. QED
  BY <1>1, <1>2, Counts, WgpuCompletionAssumption
  DEF WgpuCompletionAssumption, SlotsCoverWork, Marked

\* A call that gives up gives its slot back.
LEMMA SlotGivenBack ==
  ASSUME SlotsCoverWork, pending \in Nat, UNCHANGED marker, pending' = pending - 1,
         NEW t \in Inside, Inside' = Inside \ {t}
  PROVE  SlotsCoverWork' /\ pending' \in Nat
<1>1. Holding' = Holding
  BY DEF Holding, Marked
<1>2. Cardinality(Inside') = Cardinality(Inside) - 1
  BY Counts, FS_RemoveElement
<1>3. pending >= 1
  <2>1. Cardinality(Inside) # 0
    BY Counts, FS_EmptySet
  <2>2. QED
    BY <2>1, Counts DEF SlotsCoverWork
<1>4. QED
  BY <1>1, <1>2, <1>3, Counts, WgpuCompletionAssumption
  DEF WgpuCompletionAssumption, SlotsCoverWork, Marked

(* The slot of a call goes to the callback of its marker.                   *)
LEMMA SlotHandedOver ==
  ASSUME CompletionTypeOK, SlotsCoverWork, UNCHANGED pending, NEW t \in Inside, Inside' = Inside \ {t},
         NEW n \in Submissions, ~Marked(n),
         marker' = [marker EXCEPT ![n] = [observation |-> 0, slot |-> TRUE]]
  PROVE  SlotsCoverWork'
<1>1. /\ marker'[n] = [observation |-> 0, slot |-> TRUE] /\ marker'[n] # None
      /\ \A m \in Submissions : m # n => marker'[m] = marker[m]
  <2>1. [observation |-> 0, slot |-> TRUE] \in [observation : 0..2, slot : BOOLEAN]
    OBVIOUS
  <2>2. PICK r : r = [observation |-> 0, slot |-> TRUE]
    OBVIOUS
  <2>3. r # None
    BY <2>1, <2>2, WgpuCompletionAssumption DEF WgpuCompletionAssumption
  <2>4. marker' = [marker EXCEPT ![n] = r] /\ DOMAIN marker = Submissions
    BY <2>2 DEF CompletionTypeOK
  <2>5. marker'[n] = r /\ \A m \in Submissions : m # n => marker'[m] = marker[m]
    BY <2>4
  <2>6. QED
    BY <2>2, <2>3, <2>5
<1>2. Holding' = Holding \cup {n} /\ n \notin Holding
  BY <1>1 DEF Holding, Marked
<1>3. Cardinality(Holding') = Cardinality(Holding) + 1
  BY <1>2, Counts, FS_AddElement
<1>4. Cardinality(Inside') = Cardinality(Inside) - 1
  BY Counts, FS_RemoveElement
<1>5. \A m \in Submissions : Marked(m)' /\ marker'[m].observation = 0 => m \in Holding'
  BY <1>1, <1>2 DEF SlotsCoverWork, Marked
<1>6. QED
  BY <1>3, <1>4, <1>5, Counts DEF SlotsCoverWork

(* A poll.                                                                  *)
LEMMA PollKeeps ==
  ASSUME CompletionInvariant, Poll, UNCHANGED <<fate, work, retired>>, receipts' \subseteq receipts,
         CallsTyped', LockGuardsScopes', Inside' = Inside,
         \A t \in Threads : At(t, "receipt")' => At(t, "receipt") /\ call'[t].index = call[t].index
  PROVE  CompletionInvariant'
<1>1. CompletionTypeOK /\ SlotsCoverWork /\ MarkersFollowWork
  BY DEF CompletionInvariant
<1>2. SlotsCoverWork' /\ pending' \in Nat
  <2>1. Holding' \subseteq Holding
    BY <1>1, PollFacts DEF Holding
  <2>2. PICK freed : freed = Holding \ Holding'
    OBVIOUS
  <2>3. IsFiniteSet(Holding') /\ IsFiniteSet(freed)
    BY <2>1, <2>2, Counts, FS_Subset
  <2>4. Holding = Holding' \cup freed /\ Holding' \cap freed = {}
    BY <2>1, <2>2
  <2>5. Cardinality(Holding) = Cardinality(Holding') + Cardinality(freed)
    BY <2>3, <2>4, FS_Union, FS_EmptySet, FS_CardinalityType
  <2>6. Cardinality(Holding') \in Nat /\ Cardinality(freed) \in Nat
    BY <2>3, FS_CardinalityType
  <2>7. pending' = pending - Cardinality(freed)
    BY <1>1, <2>2, PollFacts
  <2>8. \A n \in Submissions : Marked(n)' /\ marker'[n].observation = 0 => n \in Holding'
    BY <1>1, PollFacts DEF SlotsCoverWork, Holding, Marked
  <2>9. QED
    BY <1>1, <2>5, <2>6, <2>7, <2>8, Counts, WgpuCompletionAssumption
    DEF WgpuCompletionAssumption, SlotsCoverWork
<1>3. CompletionTypeOK'
  <2>1. marker' \in [Submissions -> {None} \cup [observation : 0..2, slot : BOOLEAN]] /\ lost' = fate
    BY <1>1, PollFacts
  <2>2. QED
    BY <1>1, <1>2, <2>1 DEF CallsTyped, Calls, CompletionTypeOK
<1>4. MarkersFollowWork'
  <2>1. \A n \in Submissions : (Marked(n)' <=> Marked(n)) /\
            (Marked(n) /\ marker'[n].observation = 1 => marker[n].observation = 1 \/ n <= retired)
    BY <1>1, PollFacts
  <2>2. /\ lost' => fate'
        /\ receipts' \subseteq {n \in Submissions : Marked(n)'}
        /\ \A n \in Submissions :
             Marked(n)' => n <= work' /\ (marker'[n].observation = 1 => n <= retired')
    BY <1>1, <2>1, PollFacts DEF MarkersFollowWork
  <2>3. ASSUME NEW t \in Threads, At(t, "receipt")', NEW n, n = call'[t].index
        PROVE  /\ n \in 1..work' /\ ~Marked(n)'
               /\ \A u \in Threads : At(u, "receipt")' /\ call'[u].index = n => u = t
    <3>1. At(t, "receipt") /\ n = call[t].index
      BY <2>3
    <3>2. n \in 1..work /\ ~Marked(n)
          /\ \A u \in Threads : At(u, "receipt") /\ call[u].index = n => u = t
      BY <1>1, <3>1 DEF MarkersFollowWork
    <3>3. n \in Submissions
      BY <1>1, <3>2, WgpuCompletionAssumption
      DEF WgpuCompletionAssumption, CompletionTypeOK, Submissions
    <3>4. QED
      BY <2>1, <3>2, <3>3
  <2>4. QED
    BY <2>2, <2>3 DEF MarkersFollowWork, Marked
<1>5. QED
  BY <1>2, <1>3, <1>4, Together


-----------------------------------------------------------------------------
(* The actions, for one thread.                                             *)

(* Steps outside scopes that neither poll nor reach the queue.              *)
LEMMA QuietKeeps ==
  ASSUME CompletionInvariant, UNCHANGED <<guard, scopes, pending, lost, fate, work, retired, marker, receipts>>,
         UNCHANGED captured, NEW t \in Threads, NEW pc \in Stages, NEW index, Moves(t, pc, index),
         call[t].pc \notin Locked, pc \notin Locked, pc # "receipt",
         call[t].pc \in Reserved <=> pc \in Reserved
  PROVE  CompletionInvariant'
<1>1. CompletionTypeOK /\ LockGuardsScopes /\ SlotsCoverWork /\ MarkersFollowWork
  BY DEF CompletionInvariant
<1>2. CompletionTypeOK'
  BY <1>1 DEF CompletionTypeOK, Moves, Calls
<1>3. LockGuardsScopes'
  BY <1>1, LockKept
<1>4. Inside' = Inside
  BY InsideMoved DEF Inside
<1>5. SlotsCoverWork'
  BY <1>1, <1>4, SlotsKept
<1>6. MarkersFollowWork'
  <2>1. \A u \in Threads : At(u, "receipt")' => At(u, "receipt") /\ call'[u].index = call[u].index
    BY DEF Moves, At
  <2>2. work \in Nat /\ retired \in Nat /\ (lost => fate)
    BY <1>1, WgpuCompletionAssumption DEF WgpuCompletionAssumption, CompletionTypeOK, MarkersFollowWork
  <2>3. QED
    BY <1>1, <2>1, <2>2, MarkersKept
<1>7. QED
  BY <1>2, <1>3, <1>5, <1>6, Together

\* Which stages hold a slot, a scope or the lock.
LEMMA StagesApart ==
  /\ {"idle", "reserve", "untracked", "encodeOnly", "read"} \cap (Reserved \cup Locked) = {}
  /\ {"marker", "checked", "encode", "checkpoint", "receipt"} \subseteq Reserved \ Locked
  /\ {"creating", "encoding"} \subseteq Reserved \cap Scoped
  /\ {"encodingOnly", "reading"} \subseteq Scoped \ Reserved
  /\ "mapping" \in Locked \ (Reserved \cup Scoped)
  /\ Reserved \cup Locked \subseteq Stages /\ Scoped \subseteq Locked
  /\ {"idle", "reserve", "untracked", "encodeOnly", "read"} \subseteq Stages
BY DEF Reserved, Scoped, Locked, Stages

\* A call that only begins takes nothing.
LEMMA BeginsKeep ==
  ASSUME CompletionInvariant, NEW t \in Threads, SubmitUntracked(t) \/ BeginRead(t)
  PROVE  CompletionInvariant'
<1>1. PICK pc \in {"untracked", "read"} :
        call' = [call EXCEPT ![t].pc = pc] /\ call[t].pc = "idle"
        /\ UNCHANGED <<guard, scopes, captured, pending, lost, fate, work, retired, marker, receipts>>
  BY DEF SubmitUntracked, BeginRead, Goto, At
<1>2. CompletionTypeOK /\ pc \in Stages
  BY StagesApart DEF CompletionInvariant
<1>3. Moves(t, pc, call[t].index)
  BY <1>1, <1>2, Moved
<1>4. QED
  BY <1>1, <1>2, <1>3, StagesApart, QuietKeeps

\* A reservation is granted below the limit and refused at it.
LEMMA ReserveKeeps ==
  ASSUME CompletionInvariant, NEW t \in Threads, Reserve(t)
  PROVE  CompletionInvariant'
<1>0. CompletionTypeOK /\ LockGuardsScopes /\ SlotsCoverWork /\ MarkersFollowWork
  BY DEF CompletionInvariant
<1>1. /\ call[t].pc = "reserve"
      /\ UNCHANGED <<guard, scopes, captured, lost, fate, work, retired, marker, receipts>>
  BY DEF Reserve, At
<1>2. CASE pending < Limit
  <2>1. pending' = pending + 1 /\ call' = [call EXCEPT ![t].pc = "marker"]
    BY <1>2 DEF Reserve, Goto
  <2>2. Moves(t, "marker", call[t].index)
    BY <1>0, <2>1, StagesApart, Moved
  <2>3. Inside' = Inside \cup {t} /\ t \notin Inside
    BY <1>1, <2>2, InsideMoved, StagesApart DEF Inside
  <2>4. SlotsCoverWork' /\ pending' \in Nat
    BY <1>0, <1>1, <1>2, <2>1, <2>3, SlotTaken DEF CompletionTypeOK
  <2>5. CompletionTypeOK'
    BY <1>0, <1>1, <2>2, <2>4 DEF CompletionTypeOK, Moves, Calls
  <2>6. LockGuardsScopes'
    BY <1>0, <1>1, <2>2, StagesApart, LockKept
  <2>7. MarkersFollowWork'
    <3>1. \A u \in Threads : At(u, "receipt")' => At(u, "receipt") /\ call'[u].index = call[u].index
      BY <2>2 DEF Moves, At
    <3>2. work \in Nat /\ retired \in Nat /\ (lost => fate)
      BY <1>0, WgpuCompletionAssumption DEF WgpuCompletionAssumption, CompletionTypeOK, MarkersFollowWork
    <3>3. QED
      BY <1>0, <1>1, <3>1, <3>2, MarkersKept
  <2>8. QED
    BY <2>4, <2>5, <2>6, <2>7, Together
<1>3. CASE ~(pending < Limit)
  <2>1. pending' = pending /\ call' = [call EXCEPT ![t].pc = "idle"]
    BY <1>3 DEF Reserve, Goto
  <2>2. Moves(t, "idle", call[t].index)
    BY <1>0, <2>1, StagesApart, Moved
  <2>3. QED
    BY <1>1, <2>1, <2>2, StagesApart, QuietKeeps
<1>4. QED
  BY <1>2, <1>3

(* The steps that poll: the entry of submit_tracked, the check for a loss,  *)
(* the end of a readback, and what a receipt does.                          *)
LEMMA PollingCallKeeps ==
  ASSUME CompletionInvariant, Poll, NEW t \in Threads, NEW pc \in Stages, NEW index, Moves(t, pc, index),
         UNCHANGED <<captured, fate, work, retired, receipts, scopes>>,
         pc # "receipt", call[t].pc \in Reserved <=> pc \in Reserved,
         \/ UNCHANGED guard /\ call[t].pc \notin Locked /\ pc \notin Locked
         \/ call[t].pc = "mapping" /\ guard' = None /\ pc \notin Locked
  PROVE  CompletionInvariant'
<1>0. CompletionTypeOK /\ LockGuardsScopes
  BY DEF CompletionInvariant
<1>1. CallsTyped'
  BY <1>0 DEF CompletionTypeOK, Moves, CallsTyped
<1>2. LockGuardsScopes'
  <2>1. CASE UNCHANGED guard /\ call[t].pc \notin Locked /\ pc \notin Locked
    BY <1>0, <2>1, LockKept
  <2>2. CASE call[t].pc = "mapping" /\ guard' = None /\ pc \notin Locked
    <3>1. guard = t /\ scopes = <<>>
      BY <1>0, <2>2 DEF LockGuardsScopes
    <3>2. QED
      BY <1>0, <2>2, <3>1, LockKept
  <2>3. QED
    BY <2>1, <2>2
<1>3. Inside' = Inside
  BY InsideMoved DEF Inside
<1>4. \A u \in Threads : At(u, "receipt")' => At(u, "receipt") /\ call'[u].index = call[u].index
  BY DEF Moves, At
<1>5. QED
  BY <1>1, <1>2, <1>3, <1>4, PollKeeps

\* The calls that poll the device.
LEMMA PollingKeeps ==
  ASSUME CompletionInvariant, NEW t \in Threads, SubmitTracked(t) \/ CheckLoss(t) \/ MapReadback(t)
  PROVE  CompletionInvariant'
<1>0. CompletionTypeOK
  BY DEF CompletionInvariant
<1>1. CASE SubmitTracked(t)
  <2>1. PICK pc \in {"idle", "reserve"} : call' = [call EXCEPT ![t] = [IdleCall EXCEPT !.pc = pc]]
    BY <1>1 DEF SubmitTracked
  <2>2. [IdleCall EXCEPT !.pc = pc] = [pc |-> pc, index |-> None]
    BY DEF IdleCall
  <2>3. Moves(t, pc, None)
    BY <1>0, <2>1, <2>2, StagesApart, Moved
  <2>4. QED
    BY <1>1, <2>3, StagesApart, PollingCallKeeps DEF SubmitTracked, At
<1>2. CASE CheckLoss(t)
  <2>1. PICK pc \in {"encode", "encodeOnly", "checkpoint", "idle"} :
          /\ call' = [call EXCEPT ![t].pc = pc]
          /\ \/ call[t].pc = "checked" /\ pc \in {"encode", "checkpoint"}
             \/ call[t].pc = "untracked" /\ pc \in {"encodeOnly", "idle"}
    <3>1. PICK pc : pc = CASE ~lost' /\ At(t, "checked") -> "encode"
                           [] ~lost' /\ At(t, "untracked") -> "encodeOnly"
                           [] lost' /\ At(t, "checked") -> "checkpoint"
                           [] OTHER -> "idle"
      OBVIOUS
    <3>2. call' = [call EXCEPT ![t].pc = pc] /\ (At(t, "checked") \/ At(t, "untracked"))
      BY <1>2, <3>1 DEF CheckLoss
    <3>3. CASE At(t, "checked")
      <4>1. call[t].pc = "checked" /\ pc \in {"encode", "checkpoint"}
        BY <3>1, <3>3 DEF At
      <4>2. QED
        BY <3>2, <4>1
    <3>4. CASE At(t, "untracked")
      <4>1. call[t].pc = "untracked" /\ pc \in {"encodeOnly", "idle"}
        BY <3>1, <3>4 DEF At
      <4>2. QED
        BY <3>2, <4>1
    <3>5. QED
      BY <3>2, <3>3, <3>4
  <2>2. Moves(t, pc, call[t].index)
    BY <1>0, <2>1, StagesApart, Moved
  <2>3. QED
    BY <1>2, <2>1, <2>2, StagesApart, PollingCallKeeps DEF CheckLoss
<1>3. CASE MapReadback(t)
  <2>1. call' = [call EXCEPT ![t] = [pc |-> "idle", index |-> None]]
    BY <1>3 DEF MapReadback, IdleCall
  <2>2. Moves(t, "idle", None)
    BY <1>0, <2>1, StagesApart, Moved
  <2>3. QED
    BY <1>3, <2>2, StagesApart, PollingCallKeeps DEF MapReadback, At
<1>4. QED
  BY <1>1, <1>2, <1>3


(* The lock is taken and the scopes are pushed.                             *)
LEMMA LockTakes ==
  ASSUME CompletionInvariant, NEW t \in Threads, NEW from \in Stages \ Locked, NEW to \in Scoped,
         from \in Reserved <=> to \in Reserved, from # "receipt", Lock(t, from, to)
  PROVE  CompletionInvariant'
<1>0. CompletionTypeOK /\ LockGuardsScopes /\ SlotsCoverWork /\ MarkersFollowWork
  BY DEF CompletionInvariant
<1>1. /\ guard = None /\ guard' = t /\ scopes' = Append(scopes, t)
      /\ captured' = [captured EXCEPT ![t] = {}] /\ call' = [call EXCEPT ![t].pc = to]
      /\ call[t].pc = from
      /\ UNCHANGED <<pending, lost, fate, work, retired, marker, receipts>>
  BY DEF Lock, At, Goto
<1>2. to \in Stages /\ to \in Locked /\ to # "receipt"
  BY StagesApart DEF Scoped
<1>3. Moves(t, to, call[t].index)
  BY <1>0, <1>1, <1>2, Moved
<1>4. scopes = <<>> /\ scopes' = <<t>>
  BY <1>0, <1>1 DEF LockGuardsScopes
<1>5. CompletionTypeOK'
  <2>1. <<t>> \in Seq(Threads)
    OBVIOUS
  <2>2. captured' \in [Threads -> SUBSET Threads]
    BY <1>0, <1>1 DEF CompletionTypeOK
  <2>3. QED
    BY <1>0, <1>1, <1>3, <1>4, <2>1, <2>2 DEF CompletionTypeOK, Moves, Calls
<1>6. LockGuardsScopes'
  BY <1>0, <1>1, <1>3, <1>4, LockKept
<1>7. Inside' = Inside
  BY <1>1, <1>3, InsideMoved DEF Inside
<1>8. SlotsCoverWork'
  BY <1>0, <1>1, <1>7, SlotsKept
<1>9. MarkersFollowWork'
  <2>1. \A u \in Threads : At(u, "receipt")' => At(u, "receipt") /\ call'[u].index = call[u].index
    BY <1>2, <1>3 DEF Moves, At
  <2>2. work \in Nat /\ retired \in Nat /\ (lost => fate)
    BY <1>0, WgpuCompletionAssumption DEF WgpuCompletionAssumption, CompletionTypeOK, MarkersFollowWork
  <2>3. QED
    BY <1>0, <1>1, <2>1, <2>2, MarkersKept
<1>10. QED
  BY <1>5, <1>6, <1>8, <1>9, Together

\* The calls that take the lock.
LEMMA LocksKeep ==
  ASSUME CompletionInvariant, NEW t \in Threads,
         \/ Lock(t, "marker", "creating") \/ Lock(t, "encode", "encoding")
         \/ Lock(t, "encodeOnly", "encodingOnly") \/ Lock(t, "read", "reading")
  PROVE  CompletionInvariant'
<1>1. CASE Lock(t, "marker", "creating")
  BY <1>1, StagesApart, LockTakes
<1>2. CASE Lock(t, "encode", "encoding")
  BY <1>2, StagesApart, LockTakes
<1>3. CASE Lock(t, "encodeOnly", "encodingOnly")
  BY <1>3, StagesApart, LockTakes
<1>4. CASE Lock(t, "read", "reading")
  BY <1>4, StagesApart, LockTakes
<1>5. QED
  BY <1>1, <1>2, <1>3, <1>4

(* The end of a validated call: its scopes are popped, and but for a        *)
(* readback that has to wait the lock is free again.                        *)
Unlocks(t, pc) ==
  /\ call[t].pc \in Scoped
  /\ scopes' = Front(scopes)
  /\ \/ guard' = None /\ pc \notin Locked
     \/ guard' = guard /\ pc = "mapping"
  /\ \E error \in BOOLEAN : captured' = IF error THEN Caught(t) ELSE captured

\* A call that leaves its scope gives up the lock.
LEMMA UnlockFacts ==
  ASSUME CompletionTypeOK, LockGuardsScopes, NEW t \in Threads, NEW pc, NEW index, Moves(t, pc, index),
         Unlocks(t, pc)
  PROVE  CallsTyped' /\ LockGuardsScopes'
<1>1. guard = t /\ Front(scopes) = <<>> /\ Caught(t) = [captured EXCEPT ![t] = @ \cup {t}]
  BY ScopeFacts DEF Unlocks
<1>2. captured' \in [Threads -> SUBSET Threads]
  BY <1>1 DEF Unlocks, CompletionTypeOK
<1>3. <<>> \in Seq(Threads)
  OBVIOUS
<1>4. CallsTyped'
  BY <1>1, <1>2, <1>3 DEF CallsTyped, Moves, Unlocks, CompletionTypeOK
<1>5. LockGuardsScopes'
  BY <1>1, LockKept DEF Unlocks
<1>6. QED
  BY <1>4, <1>5

(* A call that comes out of its scopes without reaching the queue.          *)
LEMMA UnlockKeeps ==
  ASSUME CompletionInvariant, NEW t \in Threads, NEW pc, NEW index, Moves(t, pc, index), Unlocks(t, pc),
         pc # "receipt", UNCHANGED <<lost, fate, work, retired, marker, receipts>>,
         \/ UNCHANGED pending /\ (call[t].pc \in Reserved <=> pc \in Reserved)
         \/ pending' = pending - 1 /\ call[t].pc \in Reserved /\ pc \notin Reserved
  PROVE  CompletionInvariant'
<1>0. CompletionTypeOK /\ LockGuardsScopes /\ SlotsCoverWork /\ MarkersFollowWork
  BY DEF CompletionInvariant
<1>1. CallsTyped' /\ LockGuardsScopes'
  BY <1>0, UnlockFacts
<1>2. SlotsCoverWork' /\ pending' \in Nat
  <2>1. CASE UNCHANGED pending /\ (call[t].pc \in Reserved <=> pc \in Reserved)
    <3>1. Inside' = Inside
      BY <2>1, InsideMoved DEF Inside
    <3>2. QED
      BY <1>0, <2>1, <3>1, SlotsKept DEF CompletionTypeOK
  <2>2. CASE pending' = pending - 1 /\ call[t].pc \in Reserved /\ pc \notin Reserved
    <3>1. Inside' = Inside \ {t} /\ t \in Inside
      BY <2>2, InsideMoved DEF Inside
    <3>2. QED
      BY <1>0, <2>2, <3>1, SlotGivenBack DEF CompletionTypeOK
  <2>3. QED
    BY <2>1, <2>2
<1>3. CompletionTypeOK'
  BY <1>0, <1>1, <1>2 DEF CompletionTypeOK, CallsTyped, Calls
<1>4. MarkersFollowWork'
  <2>1. \A u \in Threads : At(u, "receipt")' => At(u, "receipt") /\ call'[u].index = call[u].index
    BY DEF Moves, At
  <2>2. work \in Nat /\ retired \in Nat /\ (lost => fate)
    BY <1>0, WgpuCompletionAssumption DEF WgpuCompletionAssumption, CompletionTypeOK, MarkersFollowWork
  <2>3. QED
    BY <1>0, <2>1, <2>2, MarkersKept
<1>5. QED
  BY <1>1, <1>2, <1>3, <1>4, Together


(* A call whose stream, or its checkpoint, reaches the queue.               *)
LEMMA QueuedKeeps ==
  ASSUME CompletionInvariant, NEW t \in Threads, NEW pc, Moves(t, pc, work + 1),
         work < MaxSubmissions, work' = work + 1, UNCHANGED <<pending, lost, fate, retired, marker, receipts>>,
         call[t].pc \in Reserved <=> pc \in Reserved,
         \/ Unlocks(t, pc)
         \/ UNCHANGED <<guard, scopes, captured>> /\ call[t].pc \notin Locked /\ pc \notin Locked
  PROVE  CompletionInvariant'
<1>0. CompletionTypeOK /\ LockGuardsScopes /\ SlotsCoverWork /\ MarkersFollowWork
  BY DEF CompletionInvariant
<1>1. CallsTyped' /\ LockGuardsScopes'
  <2>1. CASE Unlocks(t, pc)
    BY <1>0, <2>1, UnlockFacts
  <2>2. CASE UNCHANGED <<guard, scopes, captured>> /\ call[t].pc \notin Locked /\ pc \notin Locked
    BY <1>0, <2>2, LockKept DEF CallsTyped, Moves, CompletionTypeOK
  <2>3. QED
    BY <2>1, <2>2
<1>2. Inside' = Inside
  BY InsideMoved DEF Inside
<1>3. SlotsCoverWork'
  BY <1>0, <1>2, SlotsKept
<1>4. work \in Nat /\ MaxSubmissions \in Nat /\ retired \in 0..work
  BY <1>0, WgpuCompletionAssumption DEF WgpuCompletionAssumption, CompletionTypeOK
<1>5. CompletionTypeOK'
  <2>1. work' \in 0..MaxSubmissions /\ retired' \in 0..work'
    BY <1>4
  <2>2. QED
    BY <1>0, <1>1, <2>1 DEF CompletionTypeOK, CallsTyped, Calls
<1>6. MarkersFollowWork'
  <2>1. CASE pc = "receipt"
    BY <1>0, <2>1, MarkersGrow
  <2>2. CASE pc # "receipt"
    <3>1. \A u \in Threads : At(u, "receipt")' => At(u, "receipt") /\ call'[u].index = call[u].index
      BY <2>2 DEF Moves, At
    <3>2. lost => fate
      BY <1>0 DEF MarkersFollowWork
    <3>3. QED
      BY <1>0, <1>4, <3>1, <3>2, MarkersKept
  <2>3. QED
    BY <2>1, <2>2
<1>7. QED
  BY <1>1, <1>3, <1>5, <1>6, Together

\* The marker is created inside a scope, or the slot is given back.
LEMMA CreateMarkerKeeps ==
  ASSUME CompletionInvariant, NEW t \in Threads, NEW error \in BOOLEAN, CreateMarker(t, error)
  PROVE  CompletionInvariant'
<1>0. CompletionTypeOK /\ LockGuardsScopes
  BY DEF CompletionInvariant
<1>1. /\ call[t].pc = "creating" /\ scopes' = Front(scopes)
      /\ guard' = IF guard = t THEN None ELSE guard
      /\ captured' = IF error THEN Caught(t) ELSE captured
      /\ UNCHANGED <<lost, fate, work, retired, marker, receipts>>
  BY DEF CreateMarker, At
<1>2. guard = t
  BY <1>0, <1>1, StagesApart, ScopeFacts
<1>3. Unlocks(t, "idle") /\ Unlocks(t, "checked")
  BY <1>1, <1>2, StagesApart DEF Unlocks
<1>4. CASE captured'[t] # {}
  <2>1. call' = [call EXCEPT ![t].pc = "idle"] /\ pending' = pending - 1
    BY <1>4 DEF CreateMarker, Goto
  <2>2. Moves(t, "idle", call[t].index)
    BY <1>0, <2>1, StagesApart, Moved
  <2>3. QED
    BY <1>1, <1>3, <2>1, <2>2, StagesApart, UnlockKeeps
<1>5. CASE captured'[t] = {}
  <2>1. call' = [call EXCEPT ![t].pc = "checked"] /\ pending' = pending
    BY <1>5 DEF CreateMarker, Goto
  <2>2. Moves(t, "checked", call[t].index)
    BY <1>0, <2>1, StagesApart, Moved
  <2>3. QED
    BY <1>1, <1>3, <2>1, <2>2, StagesApart, UnlockKeeps
<1>6. QED
  BY <1>4, <1>5

\* The work is encoded and queued inside a scope.
LEMMA EncodeAndSubmitKeeps ==
  ASSUME CompletionInvariant, NEW t \in Threads, NEW tracked \in BOOLEAN, NEW error \in BOOLEAN,
         EncodeAndSubmit(t, tracked, error)
  PROVE  CompletionInvariant'
<1>0. CompletionTypeOK /\ LockGuardsScopes
  BY DEF CompletionInvariant
<1>1. PICK from, rejected, done :
        /\ from = IF tracked THEN "encoding" ELSE "encodingOnly"
        /\ rejected = IF tracked THEN "checkpoint" ELSE "idle"
        /\ done = IF tracked THEN "receipt" ELSE "idle"
  OBVIOUS
<1>2. /\ call[t].pc = from /\ scopes' = Front(scopes) /\ work < MaxSubmissions
      /\ guard' = IF guard = t THEN None ELSE guard
      /\ captured' = IF error THEN Caught(t) ELSE captured
      /\ UNCHANGED <<pending, lost, fate, retired, marker, receipts>>
      /\ \/ call' = [call EXCEPT ![t].pc = rejected] /\ UNCHANGED work
         \/ work' = work + 1 /\ call' = [call EXCEPT ![t].pc = done, ![t].index = work + 1]
  BY <1>1 DEF EncodeAndSubmit, At, Goto
<1>3. /\ from \in Scoped /\ rejected \in Stages \ Locked /\ done \in Stages \ Locked
      /\ from \in Reserved <=> rejected \in Reserved
      /\ from \in Reserved <=> done \in Reserved
      /\ rejected # "receipt"
  BY <1>1, StagesApart
<1>4. guard = t
  BY <1>0, <1>2, <1>3, ScopeFacts
<1>5. Unlocks(t, rejected) /\ Unlocks(t, done)
  BY <1>2, <1>3, <1>4 DEF Unlocks
<1>6. CASE call' = [call EXCEPT ![t].pc = rejected] /\ UNCHANGED work
  <2>1. Moves(t, rejected, call[t].index)
    BY <1>0, <1>3, <1>6, Moved
  <2>2. QED
    BY <1>2, <1>3, <1>5, <1>6, <2>1, UnlockKeeps
<1>7. CASE work' = work + 1 /\ call' = [call EXCEPT ![t].pc = done, ![t].index = work + 1]
  <2>1. work + 1 \in Nat
    BY <1>0, WgpuCompletionAssumption DEF WgpuCompletionAssumption, CompletionTypeOK
  <2>2. Moves(t, done, work + 1)
    BY <1>0, <1>3, <1>7, <2>1, Moved
  <2>3. QED
    BY <1>2, <1>3, <1>5, <1>7, <2>2, QueuedKeeps
<1>8. QED
  BY <1>2, <1>6, <1>7

\* Work that could not be queued is followed by an empty checkpoint.
LEMMA CheckpointKeeps ==
  ASSUME CompletionInvariant, NEW t \in Threads, Checkpoint(t)
  PROVE  CompletionInvariant'
<1>1. /\ call[t].pc = "checkpoint" /\ work < MaxSubmissions /\ work' = work + 1
      /\ call' = [call EXCEPT ![t].pc = "receipt", ![t].index = work + 1]
      /\ UNCHANGED <<guard, scopes, captured, pending, lost, fate, retired, marker, receipts>>
  BY DEF Checkpoint, At
<1>2. CompletionTypeOK /\ work + 1 \in Nat
  BY WgpuCompletionAssumption DEF WgpuCompletionAssumption, CompletionInvariant, CompletionTypeOK
<1>3. Moves(t, "receipt", work + 1)
  BY <1>1, <1>2, StagesApart, Moved
<1>4. QED
  BY <1>1, <1>3, StagesApart, QueuedKeeps

\* A read is queued and waits for its copy with the lock held.
LEMMA SubmitReadKeeps ==
  ASSUME CompletionInvariant, NEW t \in Threads, NEW error \in BOOLEAN, SubmitRead(t, error)
  PROVE  CompletionInvariant'
<1>0. CompletionTypeOK /\ LockGuardsScopes
  BY DEF CompletionInvariant
<1>1. /\ call[t].pc = "reading" /\ scopes' = Front(scopes) /\ work < MaxSubmissions
      /\ captured' = IF error THEN Caught(t) ELSE captured
      /\ UNCHANGED <<pending, lost, fate, retired, marker, receipts>>
      /\ \/ call' = [call EXCEPT ![t].pc = "idle"] /\ guard' = None /\ UNCHANGED work
         \/ /\ work' = work + 1 /\ UNCHANGED guard
            /\ call' = [call EXCEPT ![t].pc = "mapping", ![t].index = work + 1]
  BY DEF SubmitRead, At, Goto
<1>2. CASE call' = [call EXCEPT ![t].pc = "idle"] /\ guard' = None /\ UNCHANGED work
  <2>1. Moves(t, "idle", call[t].index)
    BY <1>0, <1>2, StagesApart, Moved
  <2>2. Unlocks(t, "idle")
    BY <1>1, <1>2, StagesApart DEF Unlocks
  <2>3. QED
    BY <1>1, <1>2, <2>1, <2>2, StagesApart, UnlockKeeps
<1>3. CASE /\ work' = work + 1 /\ UNCHANGED guard
           /\ call' = [call EXCEPT ![t].pc = "mapping", ![t].index = work + 1]
  <2>1. work + 1 \in Nat
    BY <1>0, WgpuCompletionAssumption DEF WgpuCompletionAssumption, CompletionTypeOK
  <2>2. Moves(t, "mapping", work + 1)
    BY <1>0, <1>3, <2>1, StagesApart, Moved
  <2>3. Unlocks(t, "mapping")
    BY <1>1, <1>3, StagesApart DEF Unlocks
  <2>4. QED
    BY <1>1, <1>3, <2>2, <2>3, StagesApart, QueuedKeeps
<1>4. QED
  BY <1>1, <1>2, <1>3


\* The marker of the work just queued is mapped and takes over the slot.
LEMMA NewSubmissionKeeps ==
  ASSUME CompletionInvariant, NEW t \in Threads, NewSubmission(t)
  PROVE  CompletionInvariant'
<1>0. CompletionTypeOK /\ LockGuardsScopes /\ SlotsCoverWork /\ MarkersFollowWork
  BY DEF CompletionInvariant
<1>1. PICK n : n = call[t].index
  OBVIOUS
<1>2. /\ call[t].pc = "receipt" /\ call' = [call EXCEPT ![t] = [pc |-> "idle", index |-> None]]
      /\ marker' = [marker EXCEPT ![n] = [observation |-> 0, slot |-> TRUE]]
      /\ receipts' = receipts \cup {n}
      /\ UNCHANGED <<guard, scopes, captured, pending, lost, fate, work, retired>>
  BY <1>1 DEF NewSubmission, At, IdleCall
<1>3. work \in Nat /\ work <= MaxSubmissions /\ MaxSubmissions \in Nat /\ retired \in Nat
  BY <1>0, WgpuCompletionAssumption DEF WgpuCompletionAssumption, CompletionTypeOK
<1>4. /\ n \in 1..work /\ ~Marked(n) /\ n \in Submissions
      /\ \A u \in Threads : At(u, "receipt") /\ call[u].index = n => u = t
  BY <1>0, <1>1, <1>2, <1>3 DEF MarkersFollowWork, At, Submissions
<1>5. Moves(t, "idle", None)
  BY <1>0, <1>2, StagesApart, Moved
<1>6. Inside' = Inside \ {t} /\ t \in Inside
  BY <1>2, <1>5, StagesApart, InsideMoved DEF Inside
<1>7. SlotsCoverWork'
  BY <1>0, <1>2, <1>4, <1>6, SlotHandedOver
<1>8. PICK r : r = [observation |-> 0, slot |-> TRUE]
  OBVIOUS
<1>9. r \in [observation : 0..2, slot : BOOLEAN] /\ r # None /\ r.observation = 0
  <2>1. r \in [observation : 0..2, slot : BOOLEAN] /\ r.observation = 0
    BY <1>8
  <2>2. QED
    BY <2>1, WgpuCompletionAssumption DEF WgpuCompletionAssumption
<1>10. marker' = [marker EXCEPT ![n] = r]
  BY <1>2, <1>8
<1>11. /\ marker' \in [Submissions -> {None} \cup [observation : 0..2, slot : BOOLEAN]]
       /\ marker'[n] = r /\ \A m \in Submissions : m # n => marker'[m] = marker[m]
  <2>1. marker \in [Submissions -> {None} \cup [observation : 0..2, slot : BOOLEAN]]
    BY <1>0 DEF CompletionTypeOK
  <2>2. QED
    BY <1>4, <1>9, <1>10, <2>1
<1>12. CompletionTypeOK'
  BY <1>0, <1>2, <1>4, <1>5, <1>11 DEF CompletionTypeOK, Moves, Calls
<1>13. LockGuardsScopes'
  BY <1>0, <1>2, <1>5, StagesApart, LockKept
<1>14. MarkersFollowWork'
  <2>1. \A m \in Submissions : Marked(m)' <=> Marked(m) \/ m = n
    BY <1>9, <1>11 DEF Marked
  <2>2. ASSUME NEW m \in Submissions, Marked(m)'
        PROVE  m <= work' /\ (marker'[m].observation = 1 => m <= retired')
    <3>1. CASE m = n
      BY <1>2, <1>3, <1>4, <1>9, <1>11, <3>1
    <3>2. CASE m # n
      BY <1>0, <1>2, <1>11, <2>1, <2>2, <3>2 DEF MarkersFollowWork
    <3>3. QED
      BY <3>1, <3>2
  <2>3. ASSUME NEW u \in Threads, At(u, "receipt")', NEW m, m = call'[u].index
        PROVE  /\ m \in 1..work' /\ ~Marked(m)'
               /\ \A v \in Threads : At(v, "receipt")' /\ call'[v].index = m => v = u
    <3>1. \A v \in Threads : At(v, "receipt")' => v # t /\ At(v, "receipt") /\ call'[v] = call[v]
      BY <1>5 DEF Moves, At
    <3>2. u # t /\ At(u, "receipt") /\ m = call[u].index
      BY <2>3, <3>1
    <3>3. m \in 1..work /\ ~Marked(m)
          /\ \A v \in Threads : At(v, "receipt") /\ call[v].index = m => v = u
      BY <1>0, <3>2 DEF MarkersFollowWork
    <3>4. m # n /\ m \in Submissions
      BY <1>3, <1>4, <3>2, <3>3 DEF Submissions
    <3>5. QED
      BY <1>2, <2>1, <3>1, <3>3, <3>4
  <2>4. receipts' \subseteq {m \in Submissions : Marked(m)'} /\ (lost' => fate')
    BY <1>0, <1>2, <1>4, <2>1 DEF MarkersFollowWork
  <2>5. QED
    BY <2>2, <2>3, <2>4 DEF MarkersFollowWork, Marked
<1>15. QED
  BY <1>7, <1>12, <1>13, <1>14, Together

(* What a holder of a receipt does; the GPU and the device.                 *)
LEMMA ReceiptsKeep ==
  ASSUME CompletionInvariant, NEW n \in Submissions, PollReceipt(n) \/ WaitReceipt(n) \/ DropReceipt(n)
  PROVE  CompletionInvariant'
<1>0. CompletionTypeOK /\ LockGuardsScopes /\ SlotsCoverWork /\ MarkersFollowWork
  BY DEF CompletionInvariant
<1>1. receipts' \subseteq receipts /\ UNCHANGED <<call, guard, scopes, captured, fate, work, retired>>
  BY DEF PollReceipt, WaitReceipt, DropReceipt
<1>2. /\ CallsTyped' /\ LockGuardsScopes' /\ Inside' = Inside
      /\ \A t \in Threads : At(t, "receipt")' => At(t, "receipt") /\ call'[t].index = call[t].index
  BY <1>0, <1>1 DEF CallsTyped, Calls, CompletionTypeOK, LockGuardsScopes, Inside, At
<1>3. CASE Poll
  BY <1>1, <1>2, <1>3, PollKeeps
<1>4. CASE UNCHANGED <<pending, lost, marker>>
  <2>1. CompletionTypeOK'
    BY <1>0, <1>1, <1>4 DEF CompletionTypeOK
  <2>2. SlotsCoverWork'
    BY <1>0, <1>2, <1>4, SlotsKept
  <2>3. MarkersFollowWork'
    <3>1. work \in Nat /\ retired \in Nat /\ (lost => fate)
      BY <1>0, WgpuCompletionAssumption DEF WgpuCompletionAssumption, CompletionTypeOK, MarkersFollowWork
    <3>2. QED
      BY <1>0, <1>1, <1>2, <1>4, <3>1, MarkersKept
  <2>4. QED
    BY <1>2, <2>1, <2>2, <2>3, Together
<1>5. QED
  BY <1>3, <1>4 DEF PollReceipt, WaitReceipt, DropReceipt

\* The device retires work, or is lost.
LEMMA DeviceKeeps ==
  ASSUME CompletionInvariant, Retire \/ LoseDevice
  PROVE  CompletionInvariant'
<1>0. CompletionTypeOK /\ LockGuardsScopes /\ SlotsCoverWork /\ MarkersFollowWork
  BY DEF CompletionInvariant
<1>1. /\ UNCHANGED <<call, guard, scopes, captured, pending, lost, work, marker, receipts>>
      /\ \/ retired < work /\ retired' = retired + 1 /\ fate' = fate
         \/ retired' = retired /\ fate' = TRUE
  BY DEF Retire, LoseDevice
<1>2. work \in Nat /\ retired \in 0..work /\ (lost => fate)
  BY <1>0, WgpuCompletionAssumption DEF WgpuCompletionAssumption, CompletionTypeOK, MarkersFollowWork
<1>3. retired' \in 0..work /\ retired <= retired' /\ fate' \in BOOLEAN /\ (lost => fate')
  <2>1. retired' \in 0..work /\ retired <= retired'
    BY <1>1, <1>2
  <2>2. fate' \in BOOLEAN /\ (lost => fate')
    BY <1>0, <1>1, <1>2 DEF CompletionTypeOK
  <2>3. QED
    BY <2>1, <2>2
<1>4. CompletionTypeOK'
  BY <1>0, <1>1, <1>3 DEF CompletionTypeOK
<1>5. /\ LockGuardsScopes' /\ Inside' = Inside
      /\ \A t \in Threads : At(t, "receipt")' => At(t, "receipt") /\ call'[t].index = call[t].index
  BY <1>0, <1>1 DEF LockGuardsScopes, Inside, At
<1>6. SlotsCoverWork'
  BY <1>0, <1>1, <1>5, SlotsKept
<1>7. MarkersFollowWork'
  BY <1>0, <1>1, <1>2, <1>3, <1>5, MarkersKept
<1>8. QED
  BY <1>4, <1>5, <1>6, <1>7, Together

-----------------------------------------------------------------------------
\* Every step keeps the invariant of the submissions.
LEMMA StepKeeps ==
  ASSUME CompletionInvariant, [CompletionNext]_completionVars
  PROVE  CompletionInvariant'
<1>1. CASE CompletionNext
  BY <1>1, BeginsKeep, ReserveKeeps, PollingKeeps, LocksKeep, CreateMarkerKeeps, EncodeAndSubmitKeeps,
     CheckpointKeeps, SubmitReadKeeps, NewSubmissionKeeps, ReceiptsKeep, DeviceKeeps
  DEF CompletionNext, Begin, Proceed
<1>2. CASE UNCHANGED completionVars
  <2>1. UNCHANGED <<call, guard, scopes, captured, pending, lost, fate, work, retired, marker, receipts>>
    BY <1>2 DEF completionVars
  <2>2. QED
    BY <2>1 DEF CompletionInvariant, CompletionTypeOK, LockGuardsScopes, SlotsCoverWork, Inside, Holding,
        Marked, MarkersFollowWork, At, CompleteMeansRetired, Status
<1>3. QED
  BY <1>1, <1>2

\* Nothing is queued, held or observed at first.
LEMMA InitKeeps == ASSUME CompletionInit PROVE CompletionInvariant /\ ErrorsReachTheirCall
<1>1. /\ call = [t \in Threads |-> IdleCall] /\ guard = None /\ scopes = <<>>
      /\ captured = [t \in Threads |-> {}] /\ pending = 0 /\ lost = FALSE /\ fate = FALSE
      /\ work = 0 /\ retired = 0 /\ marker = [n \in Submissions |-> None] /\ receipts = {}
  BY DEF CompletionInit
<1>2. IdleCall \in [pc : Stages, index : Nat \cup {None}] /\ IdleCall.pc = "idle"
  BY StagesApart DEF IdleCall
<1>3. CompletionTypeOK
  <2>1. scopes \in Seq(Threads) /\ 0 \in 0..MaxSubmissions
    BY <1>1, WgpuCompletionAssumption DEF WgpuCompletionAssumption
  <2>2. call \in [Threads -> [pc : Stages, index : Nat \cup {None}]]
    BY <1>1, <1>2
  <2>3. captured \in [Threads -> SUBSET Threads]
    BY <1>1
  <2>4. marker \in [Submissions -> {None} \cup [observation : 0..2, slot : BOOLEAN]]
    BY <1>1
  <2>5. guard \in Threads \cup {None} /\ receipts \subseteq Submissions /\ retired \in 0..work
    BY <1>1
  <2>6. QED
    BY <1>1, <2>1, <2>2, <2>3, <2>4, <2>5 DEF CompletionTypeOK
<1>4. LockGuardsScopes
  BY <1>1, <1>2, StagesApart, WgpuCompletionAssumption
  DEF WgpuCompletionAssumption, LockGuardsScopes, Locked
<1>5. Inside = {} /\ Holding = {} /\ \A n \in Submissions : ~Marked(n)
  BY <1>1, <1>2, StagesApart DEF Inside, Holding, Marked
<1>6. SlotsCoverWork
  BY <1>1, <1>5, FS_EmptySet, WgpuCompletionAssumption DEF WgpuCompletionAssumption, SlotsCoverWork
<1>7. MarkersFollowWork
  BY <1>1, <1>2, <1>5 DEF MarkersFollowWork, At
<1>8. CompleteMeansRetired
  BY <1>1 DEF CompleteMeansRetired
<1>9. ErrorsReachTheirCall
  BY <1>1 DEF ErrorsReachTheirCall
<1>10. QED
  BY <1>3, <1>4, <1>6, <1>7, <1>8, <1>9 DEF CompletionInvariant

(* A reservation, a marker and a receipt of a tracked submission agree with *)
(* what the queue was given, for any number of threads and slots: a slot is *)
(* taken from Tracker::reserve to the callback that observes the work, a    *)
(* receipt that reports completion comes after the GPU, and the validation  *)
(* lock is held exactly while scopes are pushed or a readback waits.        *)
THEOREM CompletionSound == CompletionSpec => []CompletionInvariant
<1>1. CompletionInit => CompletionInvariant
  BY InitKeeps
<1>2. ASSUME CompletionInvariant, [CompletionNext]_completionVars PROVE CompletionInvariant'
  BY <1>2, StepKeeps
<1>3. QED
  BY <1>1, <1>2, PTL DEF CompletionSpec

(* An error of a call is caught by the scopes of that call and never by     *)
(* those of another thread, which holds the lock whenever it has any        *)
(* (validated, programmable.rs).                                                     *)
THEOREM ErrorsStayInTheirCall == CompletionSpec => []ErrorsReachTheirCall
<1>1. CompletionInit => ErrorsReachTheirCall
  BY InitKeeps
<1>2. ASSUME CompletionInvariant, ErrorsReachTheirCall, [CompletionNext]_completionVars
      PROVE  ErrorsReachTheirCall'
  <2>1. CompletionTypeOK /\ LockGuardsScopes
    BY <1>2 DEF CompletionInvariant
  <2>2. ASSUME NEW t \in Threads, call[t].pc \in Scoped, NEW error \in BOOLEAN,
               captured' = IF error THEN Caught(t) ELSE captured
        PROVE  ErrorsReachTheirCall'
    <3>1. Caught(t) = [captured EXCEPT ![t] = @ \cup {t}] /\ captured \in [Threads -> SUBSET Threads]
      BY <2>1, <2>2, ScopeFacts DEF CompletionTypeOK
    <3>2. QED
      BY <1>2, <2>2, <3>1 DEF ErrorsReachTheirCall
  <2>3. ASSUME NEW t \in Threads, NEW from, NEW to, Lock(t, from, to)
        PROVE  ErrorsReachTheirCall'
    BY <1>2, <2>1, <2>3 DEF Lock, CompletionTypeOK, ErrorsReachTheirCall
  <2>4. ASSUME UNCHANGED captured PROVE ErrorsReachTheirCall'
    BY <1>2, <2>4 DEF ErrorsReachTheirCall
  <2>5. ASSUME NEW t \in Threads, NEW error \in BOOLEAN,
               \/ CreateMarker(t, error) \/ SubmitRead(t, error)
               \/ EncodeAndSubmit(t, TRUE, error) \/ EncodeAndSubmit(t, FALSE, error)
        PROVE  ErrorsReachTheirCall'
    <3>1. call[t].pc \in Scoped /\ captured' = IF error THEN Caught(t) ELSE captured
      BY <2>5 DEF CreateMarker, SubmitRead, EncodeAndSubmit, At, Scoped
    <3>2. QED
      BY <2>2, <3>1
  <2>6. CASE CompletionNext
    BY <2>3, <2>4, <2>5, <2>6 DEF CompletionNext, Begin, Proceed, SubmitTracked, SubmitUntracked,
       BeginRead, Reserve, CheckLoss, Checkpoint, NewSubmission, MapReadback, PollReceipt, WaitReceipt,
       DropReceipt, Retire, LoseDevice
  <2>7. CASE UNCHANGED completionVars
    BY <2>4, <2>7 DEF completionVars
  <2>8. QED
    BY <1>2, <2>6, <2>7
<1>3. QED
  BY <1>1, <1>2, CompletionSound, PTL DEF CompletionSpec

(* What a receipt has once reported it reports for ever, but for the loss   *)
(* of the device: later polls, other submissions and retirements do not     *)
(* take a completion back (Submission::observation).                        *)
THEOREM AnswersStay == CompletionSpec => [][AnswersAreFinal]_completionVars
<1>1. ASSUME CompletionInvariant, [CompletionNext]_completionVars
      PROVE  [AnswersAreFinal]_completionVars
  <2>0. CompletionTypeOK /\ SlotsCoverWork /\ MarkersFollowWork
    BY <1>1 DEF CompletionInvariant
  <2>1. SUFFICES ASSUME CompletionNext, NEW n \in receipts, Status(n) # "pending"
                 PROVE  Status(n)' \in {Status(n), "lost"}
    BY <1>1 DEF AnswersAreFinal
  <2>2. n \in Submissions /\ Marked(n)
    BY <2>0 DEF MarkersFollowWork
  <2>3. marker[n] \in [observation : 0..2, slot : BOOLEAN] /\ (lost => fate)
    BY <2>0, <2>2 DEF CompletionTypeOK, Marked, MarkersFollowWork
  <2>4. ~lost => marker[n].observation # 0
    BY <2>1 DEF Status
  <2>5. CASE Poll /\ UNCHANGED <<fate, work, retired>>
    <3>1. (marker[n].observation # 0 => marker'[n].observation = marker[n].observation) /\ lost' = fate
      BY <2>0, <2>2, <2>5, PollFacts
    <3>2. QED
      BY <2>3, <2>4, <3>1 DEF Status
  <2>6. CASE UNCHANGED <<marker, lost>>
    BY <2>6 DEF Status
  <2>7. ASSUME NEW t \in Threads, NewSubmission(t)
        PROVE  Status(n)' \in {Status(n), "lost"}
    <3>1. At(t, "receipt") /\ lost' = lost
          /\ marker' = [marker EXCEPT ![call[t].index] = [observation |-> 0, slot |-> TRUE]]
      BY <2>7 DEF NewSubmission
    <3>2. n # call[t].index
      BY <2>0, <2>2, <3>1 DEF MarkersFollowWork
    <3>3. marker'[n] = marker[n]
      BY <2>0, <2>2, <3>1, <3>2 DEF CompletionTypeOK
    <3>4. QED
      BY <3>1, <3>3 DEF Status
  <2>8. ASSUME NEW t \in Threads, Begin(t) PROVE Status(n)' \in {Status(n), "lost"}
    BY <2>5, <2>6, <2>8 DEF Begin, SubmitTracked, SubmitUntracked, BeginRead
  <2>9. ASSUME NEW t \in Threads, Proceed(t) PROVE Status(n)' \in {Status(n), "lost"}
    <3>1. ASSUME NEW error \in BOOLEAN,
                 \/ CreateMarker(t, error) \/ SubmitRead(t, error)
                 \/ EncodeAndSubmit(t, TRUE, error) \/ EncodeAndSubmit(t, FALSE, error)
          PROVE  UNCHANGED <<marker, lost>>
      BY <3>1 DEF CreateMarker, SubmitRead, EncodeAndSubmit
    <3>2. ASSUME NEW from, NEW to, Lock(t, from, to) PROVE UNCHANGED <<marker, lost>>
      BY <3>2 DEF Lock
    <3>3. Reserve(t) \/ Checkpoint(t) => UNCHANGED <<marker, lost>>
      BY DEF Reserve, Checkpoint
    <3>4. CheckLoss(t) => Poll /\ UNCHANGED <<fate, work, retired>>
      BY DEF CheckLoss
    <3>5. MapReadback(t) => Poll /\ UNCHANGED <<fate, work, retired>>
      BY DEF MapReadback
    <3>6. QED
      BY <2>5, <2>6, <2>7, <2>9, <3>1, <3>2, <3>3, <3>4, <3>5 DEF Proceed
  <2>10. ASSUME NEW m \in Submissions, PollReceipt(m) \/ WaitReceipt(m) \/ DropReceipt(m)
         PROVE  Status(n)' \in {Status(n), "lost"}
    BY <2>5, <2>6, <2>10 DEF PollReceipt, WaitReceipt, DropReceipt
  <2>11. CASE Retire \/ LoseDevice
    BY <2>6, <2>11 DEF Retire, LoseDevice
  <2>12. QED
    BY <2>1, <2>8, <2>9, <2>10, <2>11 DEF CompletionNext
<1>2. QED
  BY <1>1, CompletionSound, PTL DEF CompletionSpec

=============================================================================
