----------------------------- MODULE RuntimeProofs -----------------------------
(* Proofs about the device worker's ownership of native resources, for any   *)
(* handles, sizes, limits and numbers of submissions, with failures in every  *)
(* release and completions between any two steps.                             *)
EXTENDS RuntimeCache, NaturalSets, FiniteSetTheorems, FunctionTheorems, TLAPS

-----------------------------------------------------------------------------
(* The inductive invariant.                                                 *)

\* The stages of an operation on a device that was not lost when it began.
OpStages == {"images", "body", "pressure", "define", "evict", "cache", "oversize", "rest"}
Stages == OpStages \cup {"idle", "after", "reclaim"}
OpKinds == {"create", "image", "destroy", "retire", "bind", "free", "execute"}
Ops == [kind : OpKinds \cup {"none"}, void : BOOLEAN, handle : Handles \cup {None},
        memory : Memories \cup {None}, image : Images \cup {None}, size : Sizes \cup {0},
        handles : SUBSET Handles, images : SUBSET Images]
Ids == Nat \ {0}
Kept == [id : Ids, size : Ids, after : Nat]

RuntimeTypeOK ==
  /\ buffers \in [Handles -> [id : Nat, bound : Memories \cup {Unbound}]]
  /\ images \in [Images -> Nat]
  /\ \A x \in DOMAIN table : table[x] \in Ids
  /\ cached \in Seq(Kept)
  /\ cachedBytes \in Nat
  /\ retired \in Seq(Ids)
  /\ runtimeLost \in BOOLEAN
  /\ worker \in [stage : Stages, op : Ops]
  /\ submitted \in Nat
  /\ gpu \in Seq(SUBSET Nat)
  /\ Len(gpu) <= submitted
  /\ nextId \in Ids
  /\ wasBound \subseteq Handles

ImageIds == {images[i] : i \in LiveImages}

\* An identity is new until the table gives it out.
IdsAreOld ==
  \A x \in LiveIds \cup ImageIds \cup CachedIds \cup RetiredIds \cup DOMAIN table \cup textures
           \cup released \cup InFlightIds : x \in Ids /\ x < nextId

\* Handles share an identity only by binding to the same memory.
SharingIsBound ==
  /\ wasBound \subseteq Live
  /\ \A h \in Live : buffers[h].bound # Unbound => h \in wasBound
  /\ \A g, h \in Live : g # h /\ buffers[g].id = buffers[h].id => g \in wasBound

\* What the operation under way acts on stays as it was when it began.
OperandsFit(op) ==
  /\ op.kind \in OpKinds
  /\ op.kind = "create" => op.handle \in Handles \ Live /\ op.size \in Sizes
  /\ op.kind = "image" => op.image \in Images \ LiveImages
  /\ op.kind = "retire" => op.image \in LiveImages
  /\ op.kind = "destroy" => op.handle \in Live
  /\ op.kind = "bind" => op.handle \in Live \ wasBound /\ op.memory \in Memories
  /\ op.kind = "execute" => op.handles \subseteq Live /\ op.images \subseteq LiveImages

CachingStages == {"evict", "cache", "oversize"}

OperandsStay ==
  /\ worker.stage \in OpStages => OperandsFit(worker.op)
  /\ worker.stage \in {"pressure", "define"} => worker.op.kind = "create"
  /\ worker.stage \in CachingStages \cup {"rest"} =>
       /\ worker.op.kind \in {"destroy", "bind"}
       /\ worker.op.kind = "bind" => BoundTo(worker.op.memory) # {}
  /\ worker.stage \in CachingStages => ~Shared(worker.op.handle)

\* Once its identity is cached, a handle that is given up no longer owns it.
GivesUp == worker.stage \in {"oversize", "rest"}
Owners == IF GivesUp THEN Live \ {worker.op.handle} ELSE Live
OwnedIds == {buffers[h].id : h \in Owners}

\* A failed release loses the device and ends its operation.
Trusted == runtimeLost => worker.stage \in OpStages

BuffersAccounted ==
  /\ DOMAIN table = OwnedIds \cup CachedIds
  /\ OwnedIds \cap CachedIds = {}
  /\ \A j, k \in 1..Len(cached) : cached[j].id = cached[k].id => j = k

ImagesAccounted ==
  /\ textures = ImageIds \cup RetiredIds
  /\ ImageIds \cap RetiredIds = {}
  /\ \A i, j \in LiveImages : images[i] = images[j] => i = j
  /\ textures \cap DOMAIN table = {}

ReleasedIsGone == (OwnedIds \cup ImageIds \cup CachedIds) \cap released = {}

WithinBudget ==
  /\ Len(cached) <= CacheCapacity
  /\ worker.stage # "oversize" => cachedBytes <= CacheBytes
  /\ worker.stage = "cache" => cached = << >> \/ ~Full(table[CachedId])
  /\ worker.stage # "after" => Len(retired) < RetirementBatch

\* A submission in flight that uses a cached buffer was accepted before the
\* buffer was destroyed.
WatermarksCover ==
  \A k \in 1..Len(cached), p \in 1..Len(gpu) :
    cached[k].id \in gpu[p] => completed + p <= cached[k].after

RuntimeInv ==
  /\ RuntimeTypeOK
  /\ IdsAreOld
  /\ SharingIsBound
  /\ OperandsStay
  /\ cachedBytes = BytesOf(cached)
  /\ Trusted => BuffersAccounted /\ ImagesAccounted /\ ReleasedIsGone /\ WithinBudget
  /\ WatermarksCover

-----------------------------------------------------------------------------
(* What is known of the bytes of a sequence of cached buffers.             *)

\* What the cache keeps of a buffer.
LEMMA KeptFields ==
  ASSUME NEW c \in Kept
  PROVE  c.id \in Ids /\ c.size \in Nat /\ c.size > 0 /\ c.after \in Nat
BY DEF Kept, Ids

IsSum(f, s) ==
  /\ f \in [0..Len(s) -> Nat]
  /\ f[0] = 0
  /\ \A k \in 1..Len(s) : f[k] = f[k - 1] + s[k].size

\* The sizes of the cached buffers have sums, up to each of them.
LEMMA SumExists ==
  ASSUME NEW s \in Seq(Kept)
  PROVE  \E f : IsSum(f, s)
<1> DEFINE Upto(n) == \E f \in [0..n -> Nat] :
                         f[0] = 0 /\ \A k \in 1..n : f[k] = f[k - 1] + s[k].size
           S == {n \in Nat : n <= Len(s) => Upto(n)}
<1>1. 0 \in S
  <2>1. \E f \in [0..0 -> Nat] : f[0] = 0
    <3>1. [k \in 0..0 |-> 0] \in [0..0 -> Nat] /\ [k \in 0..0 |-> 0][0] = 0
      OBVIOUS
    <3>2. QED
      BY <3>1
  <2>2. Upto(0)
    BY <2>1
  <2>3. QED
    BY <2>2
<1>2. ASSUME NEW n \in S PROVE n + 1 \in S
  <2> HIDE DEF Upto
  <2> SUFFICES ASSUME n + 1 <= Len(s) PROVE Upto(n + 1)
    OBVIOUS
  <2>0. n \in Nat /\ n <= Len(s) /\ Len(s) \in Nat /\ Upto(n)
    OBVIOUS
  <2>1. PICK f \in [0..n -> Nat] : f[0] = 0 /\ \A k \in 1..n : f[k] = f[k - 1] + s[k].size
    BY <2>0 DEF Upto
  <2>2. s[n + 1].size \in Nat
    <3>1. s[n + 1] \in Kept
      BY <2>0
    <3>2. QED
      BY <3>1, KeptFields
  <2> DEFINE g == [k \in 0..n + 1 |-> IF k = n + 1 THEN f[n] + s[n + 1].size ELSE f[k]]
  <2>3. g \in [0..n + 1 -> Nat]
    BY <2>0, <2>2
  <2>4. g[0] = 0
    BY <2>0, <2>1
  <2>5. ASSUME NEW k \in 1..n + 1 PROVE g[k] = g[k - 1] + s[k].size
    BY <2>0, <2>1
  <2> HIDE DEF g
  <2>6. QED
    BY <2>3, <2>4, <2>5 DEF Upto
<1> HIDE DEF S, Upto
<1>3. S = Nat
  BY <1>1, <1>2, SetInduction DEF S
<1>4. Len(s) \in S
  BY <1>3
<1>5. Upto(Len(s))
  BY <1>4 DEF S
<1>6. QED
  BY <1>5 DEF IsSum, Upto

\* There is one way to sum the sizes up.
LEMMA SumIsUnique ==
  ASSUME NEW s \in Seq(Kept), NEW f, IsSum(f, s), NEW g,
         g = [k \in 0..Len(s) |-> IF k = 0 THEN 0 ELSE g[k - 1] + s[k].size]
  PROVE  g[Len(s)] = f[Len(s)]
<1> DEFINE S == {n \in Nat : n <= Len(s) => g[n] = f[n]}
<1>1. 0 \in S
  BY DEF IsSum
<1>2. ASSUME NEW n \in S PROVE n + 1 \in S
  <2> SUFFICES ASSUME n + 1 <= Len(s) PROVE g[n + 1] = f[n + 1]
    OBVIOUS
  <2>1. n \in Nat /\ g[n] = f[n] /\ n + 1 \in 1..Len(s) /\ n + 1 # 0 /\ n + 1 - 1 = n
    OBVIOUS
  <2>2. g[n + 1] = g[n] + s[n + 1].size
    BY <2>1
  <2>3. f[n + 1] = f[n] + s[n + 1].size
    BY <2>1 DEF IsSum
  <2>4. QED
    BY <2>1, <2>2, <2>3
<1> HIDE DEF S
<1>3. S = Nat
  BY <1>1, <1>2, SetInduction DEF S
<1>4. Len(s) \in S
  BY <1>3
<1>5. QED
  BY <1>4 DEF S

\* The bytes in the cache are the last of these sums.
LEMMA BytesOfSum ==
  ASSUME NEW s \in Seq(Kept), NEW f, IsSum(f, s)
  PROVE  BytesOf(s) = f[Len(s)]
<1> DEFINE Solves(g) == g = [k \in 0..Len(s) |-> IF k = 0 THEN 0 ELSE g[k - 1] + s[k].size]
<1>1. Solves(f)
  BY DEF IsSum
<1>2. Solves(CHOOSE g : Solves(g))
  BY <1>1
<1>3. BytesOf(s) = (CHOOSE g : Solves(g))[Len(s)]
  BY DEF BytesOf
<1> DEFINE g == CHOOSE g : Solves(g)
<1>4. Solves(g)
  BY <1>2
<1> HIDE DEF g
<1>5. g[Len(s)] = f[Len(s)]
  BY <1>4, SumIsUnique
<1>6. QED
  BY <1>3, <1>5 DEF g

\* An empty cache has no bytes.
LEMMA BytesOfEmpty == BytesOf(<< >>) = 0
<1>1. IsSum([k \in 0..0 |-> 0], << >>)
  BY DEF IsSum
<1>2. << >> \in Seq(Kept) /\ Len(<< >>) = 0
  OBVIOUS
<1>3. QED
  BY <1>1, <1>2, BytesOfSum

\* A buffer that joins the cache adds its size.
LEMMA BytesOfAppend ==
  ASSUME NEW s \in Seq(Kept), NEW c \in Kept
  PROVE  BytesOf(Append(s, c)) = BytesOf(s) + c.size
<1>1. PICK f : IsSum(f, s)
  BY SumExists
<1> DEFINE n == Len(s)
           t == Append(s, c)
           g == [k \in 0..n + 1 |-> IF k = n + 1 THEN f[n] + c.size ELSE f[k]]
<1>2. n \in Nat /\ t \in Seq(Kept) /\ Len(t) = n + 1 /\ c.size \in Nat
  BY KeptFields
<1>3. t[n + 1] = c /\ \A k \in 1..n : t[k] = s[k]
  OBVIOUS
<1>4. f \in [0..n -> Nat] /\ f[0] = 0 /\ \A k \in 1..n : f[k] = f[k - 1] + s[k].size
  BY <1>1 DEF IsSum
<1> HIDE DEF t, n
<1>5. g \in [0..n + 1 -> Nat] /\ g[0] = 0
  BY <1>2, <1>4
<1>6. ASSUME NEW k \in 1..n + 1 PROVE g[k] = g[k - 1] + t[k].size
  <2>1. CASE k = n + 1
    BY <1>2, <1>3, <2>1
  <2>2. CASE k \in 1..n
    <3>1. g[k] = f[k] /\ g[k - 1] = f[k - 1] /\ t[k] = s[k]
      BY <1>2, <1>3, <2>2
    <3>2. QED
      BY <1>4, <2>2, <3>1
  <2>3. QED
    BY <1>2, <2>1, <2>2
<1>7. g[n + 1] = f[n] + c.size
  BY <1>2
<1> HIDE DEF g
<1>8. IsSum(g, t)
  BY <1>2, <1>5, <1>6 DEF IsSum
<1>9. BytesOf(t) = f[n] + c.size
  BY <1>2, <1>7, <1>8, BytesOfSum
<1>10. BytesOf(s) = f[n]
  BY <1>1, BytesOfSum DEF n
<1>11. QED
  BY <1>9, <1>10 DEF t

\* The sums never become smaller.
LEMMA SumGrows ==
  ASSUME NEW s \in Seq(Kept), NEW f, IsSum(f, s), NEW j \in 0..Len(s)
  PROVE  \A k \in j..Len(s) : f[j] <= f[k]
<1> DEFINE n == Len(s)
           S == {d \in Nat : j + d <= n => f[j] <= f[j + d]}
<1>1. n \in Nat /\ j \in Nat /\ f \in [0..n -> Nat]
      /\ \A k \in 1..n : f[k] = f[k - 1] + s[k].size /\ s[k].size \in Nat
  <2>1. \A k \in 1..n : s[k] \in Kept
    OBVIOUS
  <2>2. \A k \in 1..n : s[k].size \in Nat
    BY <2>1, KeptFields
  <2>3. QED
    BY <2>2 DEF IsSum
<1> HIDE DEF n
<1>2. 0 \in S
  BY <1>1
<1>3. ASSUME NEW d \in S PROVE d + 1 \in S
  <2> SUFFICES ASSUME j + d + 1 <= n PROVE f[j] <= f[j + d + 1]
    BY <1>1
  <2>1. d \in Nat /\ j + d \in 0..n /\ j + d + 1 \in 1..n /\ j + d + 1 - 1 = j + d
    BY <1>1
  <2>2. f[j] <= f[j + d] /\ f[j + d + 1] = f[j + d] + s[j + d + 1].size
    BY <1>1, <2>1
  <2>3. f[j] \in Nat /\ f[j + d] \in Nat /\ s[j + d + 1].size \in Nat
    BY <1>1, <2>1
  <2>4. QED
    BY <2>2, <2>3
<1> HIDE DEF S
<1>4. S = Nat
  BY <1>2, <1>3, SetInduction DEF S
<1>5. ASSUME NEW k \in j..n PROVE f[j] <= f[k]
  <2>1. k - j \in Nat /\ j + (k - j) = k /\ k <= n
    BY <1>1
  <2>2. k - j \in S
    BY <1>4, <2>1
  <2>3. QED
    BY <2>1, <2>2 DEF S
<1>6. QED
  BY <1>5 DEF n

\* A buffer that leaves the cache takes its size away.
LEMMA BytesOfSwapRemove ==
  ASSUME NEW s \in Seq(Kept), NEW k \in 1..Len(s)
  PROVE  /\ SwapRemove(s, k) \in Seq(Kept)
         /\ BytesOf(SwapRemove(s, k)) = BytesOf(s) - s[k].size
         /\ BytesOf(s) - s[k].size \in Nat
<1>1. PICK f : IsSum(f, s)
  BY SumExists
<1> DEFINE n == Len(s)
           t == SwapRemove(s, k)
           g == [j \in 0..n - 1 |-> IF j < k THEN f[j] ELSE f[j] - s[k].size + s[n].size]
<1>2. n \in Nat /\ n >= 1 /\ k \in 1..n
  OBVIOUS
<1>3. /\ f \in [0..n -> Nat] /\ f[0] = 0 /\ \A j \in 1..n : f[j] = f[j - 1] + s[j].size
      /\ \A j \in 1..n : s[j] \in Kept /\ s[j].size \in Nat
  <2>1. \A j \in 1..n : s[j] \in Kept
    OBVIOUS
  <2>2. \A j \in 1..n : s[j].size \in Nat
    BY <2>1, KeptFields
  <2>3. QED
    BY <1>1, <2>1, <2>2 DEF IsSum
<1>4. t = [j \in 1..n - 1 |-> IF j = k THEN s[n] ELSE s[j]]
  BY DEF SwapRemove
<1>5. t \in Seq(Kept) /\ Len(t) = n - 1
  BY <1>2, <1>3, <1>4
<1>6. f[n] = f[n - 1] + s[n].size
  BY <1>2, <1>3
<1>7. \A j \in k..n : f[k] <= f[j]
  BY <1>1, <1>2, SumGrows
<1>8. f[k] = f[k - 1] + s[k].size /\ f[k - 1] \in Nat
  BY <1>2, <1>3
<1>9. ASSUME NEW j \in k..n PROVE f[j] - s[k].size \in Nat
  <2>1. j \in 0..n /\ k \in 0..n
    BY <1>2
  <2>2. f[k] <= f[j] /\ f[j] \in Nat /\ s[k].size \in Nat
    BY <1>2, <1>3, <1>7, <2>1
  <2>3. QED
    BY <1>8, <2>2
<1> HIDE DEF n, t
<1>10. g \in [0..n - 1 -> Nat]
  <2>1. ASSUME NEW j \in 0..n - 1 PROVE (IF j < k THEN f[j] ELSE f[j] - s[k].size + s[n].size) \in Nat
    <3>1. CASE j < k
      BY <1>2, <1>3, <3>1
    <3>2. CASE ~(j < k)
      <4>1. j \in k..n /\ s[n].size \in Nat
        BY <1>2, <1>3, <3>2
      <4>2. QED
        BY <1>9, <3>2, <4>1
    <3>3. QED
      BY <3>1, <3>2
  <2>2. QED
    BY <2>1
<1>11. g[0] = 0
  BY <1>2, <1>3
<1>12. ASSUME NEW j \in 1..n - 1 PROVE g[j] = g[j - 1] + t[j].size
  <2>1. /\ j \in 0..n - 1 /\ j - 1 \in 0..n - 1 /\ j \in 1..n
        /\ j \in 0..n /\ j - 1 \in 0..n /\ n \in 1..n
    BY <1>2
  <2> HIDE DEF g
  <2>2. f[j] = f[j - 1] + s[j].size /\ f[j] \in Nat /\ f[j - 1] \in Nat /\ s[j].size \in Nat
        /\ s[n].size \in Nat /\ s[k].size \in Nat
    BY <1>2, <1>3, <2>1
  <2>3. CASE j < k
    <3>1. g[j] = f[j] /\ g[j - 1] = f[j - 1] /\ t[j] = s[j]
      BY <1>2, <1>4, <2>1, <2>3 DEF g
    <3>2. QED
      BY <2>2, <3>1
  <2>4. CASE j = k
    <3>1. g[j] = f[j] - s[k].size + s[n].size /\ g[j - 1] = f[j - 1] /\ t[j] = s[n]
      BY <1>2, <1>4, <2>1, <2>4 DEF g
    <3>2. QED
      BY <2>2, <2>4, <3>1
  <2>5. CASE j > k
    <3>1. /\ g[j] = f[j] - s[k].size + s[n].size /\ t[j] = s[j]
          /\ g[j - 1] = f[j - 1] - s[k].size + s[n].size
      BY <1>2, <1>4, <2>1, <2>5 DEF g
    <3> DEFINE a == f[j]
               b == f[j - 1]
               c == s[j].size
               d == s[k].size
               e == s[n].size
    <3>2. a = b + c /\ a \in Nat /\ b \in Nat /\ c \in Nat /\ d \in Nat /\ e \in Nat
      BY <2>2
    <3> HIDE DEF a, b, c, d, e
    <3>3. a - d + e = (b - d + e) + c
      BY <3>2
    <3>4. QED
      BY <3>1, <3>3, Zenon DEF a, b, c, d, e
  <2>6. QED
    BY <1>2, <2>3, <2>4, <2>5
<1>13. g[n - 1] = f[n] - s[k].size
  <2>1. CASE n - 1 < k
    <3>1. n = k /\ g[n - 1] = f[n - 1]
      BY <1>2, <2>1
    <3>2. f[n] = f[k - 1] + s[k].size /\ s[k].size \in Nat
      BY <1>3, <1>2, <1>8, <3>1
    <3>3. QED
      BY <1>8, <3>1, <3>2
  <2>2. CASE ~(n - 1 < k)
    <3>1. g[n - 1] = f[n - 1] - s[k].size + s[n].size
      BY <1>2, <2>2
    <3>2. f[n - 1] \in Nat /\ s[n].size \in Nat /\ s[k].size \in Nat
      BY <1>2, <1>3
    <3>3. QED
      BY <1>6, <3>1, <3>2
  <2>3. QED
    BY <2>1, <2>2
<1> HIDE DEF g
<1>14. IsSum(g, t)
  BY <1>2, <1>5, <1>10, <1>11, <1>12 DEF IsSum
<1>15. BytesOf(t) = f[n] - s[k].size
  BY <1>5, <1>13, <1>14, BytesOfSum
<1>16. BytesOf(s) = f[n]
  BY <1>1, BytesOfSum DEF n
<1>17. f[n] - s[k].size \in Nat
  BY <1>2, <1>9
<1>18. QED
  BY <1>5, <1>15, <1>16, <1>17 DEF t

-----------------------------------------------------------------------------
(* What the invariant says of the sets the actions speak of.               *)

\* Going to another stage keeps the operation.
LEMMA WorkerGoes ==
  ASSUME RuntimeTypeOK, NEW stage \in Stages, Goto(stage)
  PROVE  worker' \in [stage : Stages, op : Ops] /\ worker'.stage = stage /\ worker'.op = worker.op
BY DEF RuntimeTypeOK, Goto

\* A live handle has an object that was created before.
LEMMA LiveHandles ==
  ASSUME RuntimeTypeOK, IdsAreOld
  PROVE  /\ \A h \in Live : h \in Handles /\ buffers[h].id \in Ids /\ buffers[h].id < nextId
                            /\ buffers[h].id \in LiveIds
         /\ \A h \in Handles \ Live : buffers[h] = NoBuffer
         /\ \A h \in Handles : buffers[h] \in [id : Nat, bound : Memories \cup {Unbound}]
<1>1. \A h \in Live : h \in Handles /\ buffers[h].id \in LiveIds
  BY DEF Live, LiveIds
<1>2. \A x \in LiveIds : x \in Ids /\ x < nextId
  BY DEF IdsAreOld
<1>3. QED
  BY <1>1, <1>2 DEF Live, RuntimeTypeOK

\* A new object makes its handle live and leaves the others alone.
LEMMA LiveAfter ==
  ASSUME NEW h \in Handles, RuntimeTypeOK, NEW id \in Ids, NEW bound,
         buffers' = [buffers EXCEPT ![h] = [id |-> id, bound |-> bound]]
  PROVE  /\ Live' = Live \cup {h}
         /\ buffers'[h] = [id |-> id, bound |-> bound]
         /\ \A g \in Handles \ {h} : buffers'[g] = buffers[g]
         /\ bound \in Memories \cup {Unbound} =>
              buffers' \in [Handles -> [id : Nat, bound : Memories \cup {Unbound}]]
<1>1. /\ buffers'[h] = [id |-> id, bound |-> bound]
      /\ \A g \in Handles \ {h} : buffers'[g] = buffers[g]
  BY DEF RuntimeTypeOK
<1>2. buffers'[h] # NoBuffer
  BY <1>1 DEF NoBuffer, Ids
<1>3. Live' = Live \cup {h}
  BY <1>1, <1>2 DEF Live
<1>4. QED
  BY <1>1, <1>3 DEF RuntimeTypeOK, Ids

\* The objects in the cache and in the retirement list.
LEMMA KeptIds ==
  ASSUME RuntimeTypeOK
  PROVE  /\ \A k \in 1..Len(cached) : cached[k] \in Kept /\ cached[k].id \in CachedIds
         /\ \A x \in CachedIds : \E k \in 1..Len(cached) : x = cached[k].id
         /\ \A k \in 1..Len(retired) : retired[k] \in Ids /\ retired[k] \in RetiredIds
         /\ Len(cached) \in Nat /\ Len(retired) \in Nat /\ Len(gpu) \in Nat
<1>1. cached \in Seq(Kept) /\ retired \in Seq(Ids) /\ gpu \in Seq(SUBSET Nat)
  BY DEF RuntimeTypeOK
<1>2. \A k \in 1..Len(cached) : cached[k] \in Kept
  BY <1>1
<1>3. QED
  BY <1>1, <1>2 DEF CachedIds, RetiredIds

\* An empty cache owns no object.
LEMMA CachedMayBeNone == cached = << >> => CachedIds = {}
<1>1. cached = << >> => Len(cached) = 0
  OBVIOUS
<1>2. QED
  BY <1>1 DEF CachedIds

\* An empty retirement list owns no object.
LEMMA RetiredMayBeNone == retired = << >> => RetiredIds = {}
<1>1. retired = << >> => Len(retired) = 0
  OBVIOUS
<1>2. QED
  BY <1>1 DEF RetiredIds

\* Nothing but the worker moves.
LEMMA WorkerOnly ==
  ASSUME RuntimeInv,
         UNCHANGED <<runtimeObjects, tableVars, cacheVars, retired, runtimeLost, submitted, gpu,
                     released>>,
         worker' \in [stage : Stages, op : Ops]
  PROVE  /\ RuntimeTypeOK' /\ IdsAreOld' /\ SharingIsBound'
         /\ (cachedBytes = BytesOf(cached))' /\ WatermarksCover'
         /\ Live' = Live /\ LiveImages' = LiveImages /\ CachedIds' = CachedIds
         /\ ImagesAccounted = ImagesAccounted'
<1> USE DEF runtimeObjects, tableVars, cacheVars
<1>1. RuntimeTypeOK'
  BY DEF RuntimeInv, RuntimeTypeOK
<1>2. /\ Live' = Live /\ LiveImages' = LiveImages /\ CachedIds' = CachedIds
      /\ LiveIds' = LiveIds /\ ImageIds' = ImageIds /\ RetiredIds' = RetiredIds
      /\ InFlightIds' = InFlightIds /\ completed' = completed
  BY DEF Live, LiveImages, CachedIds, LiveIds, ImageIds, RetiredIds, InFlightIds, completed
<1>3. IdsAreOld'
  BY <1>2 DEF RuntimeInv, IdsAreOld
<1>4. SharingIsBound'
  BY <1>2 DEF RuntimeInv, SharingIsBound
<1>5. (cachedBytes = BytesOf(cached))'
  BY DEF RuntimeInv, BytesOf
<1>6. WatermarksCover'
  BY <1>2 DEF RuntimeInv, WatermarksCover
<1>7. ImagesAccounted = ImagesAccounted'
  BY <1>2 DEF ImagesAccounted
<1>8. QED
  BY <1>1, <1>2, <1>3, <1>4, <1>5, <1>6, <1>7

\* Nothing but the worker moves, and what it gives up it gave up before.
LEMMA OwnersStay ==
  ASSUME RuntimeInv,
         UNCHANGED <<runtimeObjects, tableVars, cacheVars, retired, runtimeLost, submitted, gpu,
                     released>>,
         worker' \in [stage : Stages, op : Ops],
         OwnedIds' = OwnedIds,
         Trusted
  PROVE  BuffersAccounted' /\ ImagesAccounted' /\ ReleasedIsGone'
<1> USE DEF runtimeObjects, tableVars, cacheVars
<1>1. BuffersAccounted /\ ImagesAccounted /\ ReleasedIsGone
  BY DEF RuntimeInv
<1>2. CachedIds' = CachedIds /\ LiveImages' = LiveImages /\ ImageIds' = ImageIds
      /\ RetiredIds' = RetiredIds
  BY DEF CachedIds, LiveImages, ImageIds, RetiredIds
<1>3. BuffersAccounted'
  BY <1>1, <1>2 DEF BuffersAccounted
<1>4. ImagesAccounted'
  BY <1>1, <1>2 DEF ImagesAccounted
<1>5. ReleasedIsGone'
  BY <1>1, <1>2 DEF ReleasedIsGone
<1>6. QED
  BY <1>3, <1>4, <1>5

-----------------------------------------------------------------------------
(* Steps that move only the worker.                                        *)

\* Owners stay while no object changes hands.
LEMMA OwnersSame ==
  ASSUME UNCHANGED buffers, ~GivesUp, ~GivesUp'
  PROVE  OwnedIds' = OwnedIds
BY DEF OwnedIds, Owners, Live

\* Between operations, and in the stages after one.
LEMMA StartKeeps ==
  ASSUME RuntimeInv, NEW op \in Ops, OperandsFit(op), Start(op)
  PROVE  RuntimeInv'
<1>1. /\ worker' \in [stage : Stages, op : Ops] /\ worker'.op = op
      /\ worker'.stage \in {"reclaim", "body", "images"}
      /\ worker'.stage = "reclaim" <=> runtimeLost
  BY DEF Start, Stages, OpStages
<1>2. UNCHANGED <<runtimeObjects, tableVars, cacheVars, retired, runtimeLost, submitted, gpu,
                  released>>
  BY DEF Start
<1>3. /\ RuntimeTypeOK' /\ IdsAreOld' /\ SharingIsBound'
      /\ (cachedBytes = BytesOf(cached))' /\ WatermarksCover'
      /\ Live' = Live /\ LiveImages' = LiveImages
  BY <1>1, <1>2, WorkerOnly
<1>4. OperandsStay'
  <2>1. OperandsFit(worker.op)'
    BY <1>1, <1>2, <1>3 DEF OperandsFit, runtimeObjects
  <2>2. worker'.stage \notin CachingStages \cup {"rest", "pressure", "define"}
    BY <1>1 DEF CachingStages
  <2>3. QED
    BY <2>1, <2>2 DEF OperandsStay
<1>5. ASSUME Trusted'
      PROVE  (BuffersAccounted /\ ImagesAccounted /\ ReleasedIsGone /\ WithinBudget)'
  <2>1. worker.stage = "idle" /\ ~runtimeLost
    BY <1>1, <1>2, <1>5 DEF Start, Trusted, OpStages
  <2>2. Trusted /\ WithinBudget
    BY <2>1 DEF Trusted, RuntimeInv
  <2>3. OwnedIds' = OwnedIds
    <3>1. ~GivesUp /\ ~GivesUp'
      BY <1>1, <2>1 DEF GivesUp
    <3>2. UNCHANGED buffers
      BY <1>2 DEF runtimeObjects
    <3>3. QED
      BY <3>1, <3>2, OwnersSame
  <2>4. WithinBudget'
    BY <1>1, <1>2, <2>1, <2>2 DEF WithinBudget, cacheVars
  <2>5. QED
    BY <1>1, <1>2, <2>2, <2>3, <2>4, OwnersStay
<1>6. QED
  BY <1>3, <1>4, <1>5 DEF RuntimeInv

\* Requests of the portable layer keep the invariant.
LEMMA RequestStepKeeps ==
  ASSUME RuntimeInv, RequestStep
  PROVE  RuntimeInv'
<1> USE DEF Op, Ops, OpKinds, None
<1>1. ASSUME NEW h \in Handles \ Live, NEW size \in Sizes,
             Start(Op("create", FALSE, h, None, None, size, {}, {}))
      PROVE  RuntimeInv'
  <2>1. Op("create", FALSE, h, None, None, size, {}, {}) \in Ops
    OBVIOUS
  <2>2. OperandsFit(Op("create", FALSE, h, None, None, size, {}, {}))
    BY DEF OperandsFit
  <2>3. QED
    BY <1>1, <2>1, <2>2, StartKeeps
<1>2. ASSUME NEW i \in Images \ LiveImages,
             Start(Op("image", FALSE, None, None, i, 0, {}, {}))
      PROVE  RuntimeInv'
  <2>1. Op("image", FALSE, None, None, i, 0, {}, {}) \in Ops
    OBVIOUS
  <2>2. OperandsFit(Op("image", FALSE, None, None, i, 0, {}, {}))
    BY DEF OperandsFit
  <2>3. QED
    BY <1>2, <2>1, <2>2, StartKeeps
<1>3. ASSUME NEW h \in Live, Start(Op("destroy", TRUE, h, None, None, 0, {}, {}))
      PROVE  RuntimeInv'
  <2>1. Op("destroy", TRUE, h, None, None, 0, {}, {}) \in Ops
    BY DEF Live
  <2>2. OperandsFit(Op("destroy", TRUE, h, None, None, 0, {}, {}))
    BY DEF OperandsFit
  <2>3. QED
    BY <1>3, <2>1, <2>2, StartKeeps
<1>4. ASSUME NEW i \in LiveImages, Start(Op("retire", TRUE, None, None, i, 0, {}, {}))
      PROVE  RuntimeInv'
  <2>1. Op("retire", TRUE, None, None, i, 0, {}, {}) \in Ops
    BY DEF LiveImages
  <2>2. OperandsFit(Op("retire", TRUE, None, None, i, 0, {}, {}))
    BY DEF OperandsFit
  <2>3. QED
    BY <1>4, <2>1, <2>2, StartKeeps
<1>5. ASSUME NEW h \in Live \ wasBound, NEW m \in Memories,
             Start(Op("bind", FALSE, h, m, None, 0, {}, {}))
      PROVE  RuntimeInv'
  <2>1. Op("bind", FALSE, h, m, None, 0, {}, {}) \in Ops
    BY DEF Live
  <2>2. OperandsFit(Op("bind", FALSE, h, m, None, 0, {}, {}))
    BY DEF OperandsFit
  <2>3. QED
    BY <1>5, <2>1, <2>2, StartKeeps
<1>6. ASSUME NEW m \in Memories, Start(Op("free", FALSE, None, m, None, 0, {}, {}))
      PROVE  RuntimeInv'
  <2>1. Op("free", FALSE, None, m, None, 0, {}, {}) \in Ops
    OBVIOUS
  <2>2. OperandsFit(Op("free", FALSE, None, m, None, 0, {}, {}))
    BY DEF OperandsFit
  <2>3. QED
    BY <1>6, <2>1, <2>2, StartKeeps
<1>7. ASSUME NEW hs \in SUBSET {h \in Live : buffers[h].bound # Unbound},
             NEW is \in SUBSET LiveImages,
             Start(Op("execute", FALSE, None, None, None, 0, hs, is))
      PROVE  RuntimeInv'
  <2>1. Op("execute", FALSE, None, None, None, 0, hs, is) \in Ops
    BY DEF Live, LiveImages
  <2>2. OperandsFit(Op("execute", FALSE, None, None, None, 0, hs, is))
    BY DEF OperandsFit
  <2>3. QED
    BY <1>7, <2>1, <2>2, StartKeeps
<1> HIDE DEF Op, Ops, OpKinds, None
<1>8. QED
  BY <1>1, <1>2, <1>3, <1>4, <1>5, <1>6, <1>7 DEF RequestStep

\* Ending an operation without a flush keeps it.
LEMMA NoFlushAfterKeeps ==
  ASSUME RuntimeInv, NoFlushAfter
  PROVE  RuntimeInv'
<1>1. UNCHANGED <<runtimeObjects, tableVars, cacheVars, retired, runtimeLost, submitted, gpu,
                  released>>
  BY DEF NoFlushAfter
<1>2. worker' \in [stage : Stages, op : Ops] /\ worker'.stage = "reclaim"
  BY WorkerGoes DEF RuntimeInv, NoFlushAfter, Stages
<1>3. /\ RuntimeTypeOK' /\ IdsAreOld' /\ SharingIsBound'
      /\ (cachedBytes = BytesOf(cached))' /\ WatermarksCover'
  BY <1>1, <1>2, WorkerOnly
<1>4. OperandsStay'
  BY <1>2 DEF OperandsStay, OpStages, CachingStages
<1>5. ASSUME Trusted'
      PROVE  (BuffersAccounted /\ ImagesAccounted /\ ReleasedIsGone /\ WithinBudget)'
  <2>1. Trusted /\ WithinBudget
    BY <1>1, <1>2, <1>5 DEF Trusted, OpStages, RuntimeInv
  <2>2. OwnedIds' = OwnedIds
    <3>1. ~GivesUp /\ ~GivesUp' /\ UNCHANGED buffers
      BY <1>1, <1>2 DEF GivesUp, NoFlushAfter, runtimeObjects
    <3>2. QED
      BY <3>1, OwnersSame
  <2>3. WithinBudget'
    BY <1>1, <1>2, <2>1 DEF WithinBudget, cacheVars, NoFlushAfter
  <2>4. QED
    BY <1>1, <1>2, <2>1, <2>2, <2>3, OwnersStay
<1>6. QED
  BY <1>3, <1>4, <1>5 DEF RuntimeInv

\* A creation goes on to its next stage.
LEMMA CreationMoves ==
  ASSUME RuntimeInv, CreateRefused \/ CreateUnderPressure
  PROVE  RuntimeInv'
<1>1. UNCHANGED <<runtimeObjects, tableVars, cacheVars, retired, runtimeLost, submitted, gpu,
                  released>>
  BY DEF CreateRefused, CreateUnderPressure
<1>2. worker.stage = "body" /\ worker.op.kind = "create"
  BY DEF CreateRefused, CreateUnderPressure, Creating
<1>3. /\ worker' \in [stage : Stages, op : Ops]
      /\ worker'.op = worker.op /\ worker'.stage \in {"after", "pressure"}
  BY WorkerGoes DEF RuntimeInv, CreateRefused, CreateUnderPressure, Stages, OpStages
<1>4. /\ RuntimeTypeOK' /\ IdsAreOld' /\ SharingIsBound'
      /\ (cachedBytes = BytesOf(cached))' /\ WatermarksCover'
      /\ Live' = Live /\ LiveImages' = LiveImages
  BY <1>1, <1>3, WorkerOnly
<1>5. OperandsStay'
  <2>1. OperandsFit(worker.op)
    BY <1>2 DEF RuntimeInv, OperandsStay, OpStages
  <2>2. OperandsFit(worker.op)'
    BY <1>1, <1>3, <1>4, <2>1 DEF OperandsFit, runtimeObjects
  <2>3. QED
    BY <1>2, <1>3, <2>2 DEF OperandsStay, CachingStages
<1>6. ASSUME Trusted'
      PROVE  (BuffersAccounted /\ ImagesAccounted /\ ReleasedIsGone /\ WithinBudget)'
  <2>1. Trusted /\ WithinBudget
    BY <1>2 DEF Trusted, OpStages, RuntimeInv
  <2>2. OwnedIds' = OwnedIds
    <3>1. ~GivesUp /\ ~GivesUp' /\ UNCHANGED buffers
      BY <1>1, <1>2, <1>3 DEF GivesUp, runtimeObjects
    <3>2. QED
      BY <3>1, OwnersSame
  <2>3. WithinBudget'
    BY <1>1, <1>2, <1>3, <2>1 DEF WithinBudget, cacheVars
  <2>4. QED
    BY <1>1, <1>3, <2>1, <2>2, <2>3, OwnersStay
<1>7. QED
  BY <1>4, <1>5, <1>6 DEF RuntimeInv

\* An identity is about to be cached, because a handle is destroyed or bound
\* as an alias.
LEMMA RoomIsMade ==
  ASSUME RuntimeInv, MakeRoom, worker.stage = "body",
         UNCHANGED <<runtimeObjects, tableVars, cacheVars, retired, runtimeLost, submitted, gpu,
                     released>>,
         worker.op.kind \in {"destroy", "bind"}, ~Shared(worker.op.handle),
         worker.op.kind = "bind" => BoundTo(worker.op.memory) # {}
  PROVE  RuntimeInv'
<1>1. /\ worker' \in [stage : Stages, op : Ops]
      /\ worker'.op = worker.op /\ worker'.stage \in {"evict", "cache"}
      /\ worker'.stage = "cache" => cached = << >> \/ ~Full(table[CachedId])
  BY WorkerGoes DEF RuntimeInv, MakeRoom, Stages, OpStages
<1>2. /\ RuntimeTypeOK' /\ IdsAreOld' /\ SharingIsBound'
      /\ (cachedBytes = BytesOf(cached))' /\ WatermarksCover'
      /\ Live' = Live /\ LiveImages' = LiveImages
  BY <1>1, WorkerOnly
<1>3. OperandsStay'
  <2>1. OperandsFit(worker.op)
    BY DEF RuntimeInv, OperandsStay, OpStages
  <2>2. OperandsFit(worker.op)'
    BY <1>1, <1>2, <2>1 DEF OperandsFit, runtimeObjects
  <2>3. ~Shared(worker.op.handle)'
    BY <1>1, <1>2 DEF Shared, runtimeObjects
  <2>4. (worker.op.kind = "bind" => BoundTo(worker.op.memory) # {})'
    BY <1>1, <1>2 DEF BoundTo, runtimeObjects
  <2>5. QED
    BY <1>1, <2>2, <2>3, <2>4 DEF OperandsStay, CachingStages
<1>4. Trusted /\ WithinBudget
  BY DEF Trusted, OpStages, RuntimeInv
<1>5. OwnedIds' = OwnedIds
  <2>1. ~GivesUp /\ ~GivesUp' /\ UNCHANGED buffers
    BY <1>1 DEF GivesUp, runtimeObjects
  <2>2. QED
    BY <2>1, OwnersSame
<1>6. WithinBudget'
  <2>1. worker'.stage = "cache" => (cached = << >> \/ ~Full(table[CachedId]))'
    BY <1>1 DEF Full, CachedId, cacheVars, tableVars, runtimeObjects
  <2>2. QED
    BY <1>1, <1>4, <2>1 DEF WithinBudget, cacheVars
<1>7. QED
  BY <1>1, <1>2, <1>3, <1>4, <1>5, <1>6, OwnersStay DEF RuntimeInv

\* Destroying a buffer keeps it.
LEMMA DestroyBufferKeeps ==
  ASSUME RuntimeInv, DestroyBuffer
  PROVE  RuntimeInv'
<1> DEFINE h == worker.op.handle
<1>1. /\ worker.stage = "body" /\ worker.op.kind = "destroy" /\ h \in Live
      /\ UNCHANGED <<runtimeObjects, tableVars, cacheVars, retired, runtimeLost, submitted, gpu,
                     released>>
  BY DEF DestroyBuffer, RuntimeInv, OperandsStay, OperandsFit, OpStages
<1>2. CASE ~Shared(h)
  <2>1. MakeRoom
    BY <1>2 DEF DestroyBuffer
  <2>2. QED
    BY <1>1, <1>2, <2>1, RoomIsMade
<1>3. CASE Shared(h)
  <2>1. /\ worker' \in [stage : Stages, op : Ops]
        /\ worker'.op = worker.op /\ worker'.stage = "rest"
    BY <1>3, WorkerGoes DEF RuntimeInv, DestroyBuffer, Stages, OpStages
  <2>2. /\ RuntimeTypeOK' /\ IdsAreOld' /\ SharingIsBound'
        /\ (cachedBytes = BytesOf(cached))' /\ WatermarksCover'
        /\ Live' = Live /\ LiveImages' = LiveImages
    BY <1>1, <2>1, WorkerOnly
  <2>3. OperandsStay'
    <3>1. OperandsFit(worker.op)
      BY <1>1 DEF RuntimeInv, OperandsStay, OpStages
    <3>2. OperandsFit(worker.op)'
      BY <1>1, <2>1, <2>2, <3>1 DEF OperandsFit, runtimeObjects
    <3>3. QED
      BY <1>1, <2>1, <3>2 DEF OperandsStay, CachingStages
  <2>4. Trusted /\ WithinBudget
    BY <1>1 DEF Trusted, OpStages, RuntimeInv
  <2>5. OwnedIds' = OwnedIds
    <3>1. Owners = Live /\ Owners' = Live \ {h} /\ UNCHANGED buffers
      BY <1>1, <2>1, <2>2 DEF Owners, GivesUp, runtimeObjects
    <3>2. PICK g \in Live \ {h} : buffers[g].id = buffers[h].id
      BY <1>3 DEF Shared
    <3>3. {buffers[x].id : x \in Live \ {h}} = {buffers[x].id : x \in Live}
      BY <1>1, <3>2
    <3>4. QED
      BY <3>1, <3>3 DEF OwnedIds
  <2>6. WithinBudget'
    BY <1>1, <2>1, <2>4 DEF WithinBudget, cacheVars
  <2>7. QED
    BY <1>1, <2>1, <2>2, <2>3, <2>4, <2>5, <2>6, OwnersStay DEF RuntimeInv
<1>4. QED
  BY <1>2, <1>3

-----------------------------------------------------------------------------
(* Steps that change what the handles stand for.                           *)

\* The handles change; nothing they own comes or goes.
LEMMA HandlesChange ==
  ASSUME RuntimeInv,
         UNCHANGED <<images, tableVars, cacheVars, retired, runtimeLost, submitted, gpu, released>>,
         worker' \in [stage : Stages, op : Ops], worker'.stage = "after",
         worker.stage \in OpStages \ {"oversize"},
         buffers' \in [Handles -> [id : Nat, bound : Memories \cup {Unbound}]],
         wasBound' \subseteq Handles, SharingIsBound',
         OwnedIds' = OwnedIds, LiveIds' \subseteq LiveIds
  PROVE  RuntimeInv'
<1> USE DEF tableVars, cacheVars
<1>1. RuntimeTypeOK'
  BY DEF RuntimeInv, RuntimeTypeOK
<1>2. /\ LiveImages' = LiveImages /\ CachedIds' = CachedIds /\ ImageIds' = ImageIds
      /\ RetiredIds' = RetiredIds /\ InFlightIds' = InFlightIds /\ completed' = completed
  BY DEF LiveImages, CachedIds, ImageIds, RetiredIds, InFlightIds, completed
<1>3. IdsAreOld'
  BY <1>2 DEF RuntimeInv, IdsAreOld
<1>4. OperandsStay'
  BY DEF OperandsStay, OpStages, CachingStages
<1>5. (cachedBytes = BytesOf(cached))'
  BY DEF RuntimeInv, BytesOf
<1>6. WatermarksCover'
  BY <1>2 DEF RuntimeInv, WatermarksCover
<1>7. BuffersAccounted /\ ImagesAccounted /\ ReleasedIsGone
  BY DEF RuntimeInv, Trusted
<1>8. BuffersAccounted' /\ ReleasedIsGone'
  BY <1>2, <1>7 DEF BuffersAccounted, ReleasedIsGone
<1>9. ImagesAccounted'
  BY <1>2, <1>7 DEF ImagesAccounted
<1>10. WithinBudget'
  BY DEF RuntimeInv, Trusted, WithinBudget
<1>11. QED
  BY <1>1, <1>3, <1>4, <1>5, <1>6, <1>8, <1>9, <1>10 DEF RuntimeInv

\* Binding a buffer to memory keeps it.
LEMMA BindBufferKeeps ==
  ASSUME RuntimeInv, BindBuffer
  PROVE  RuntimeInv'
<1> DEFINE h == worker.op.handle
           m == worker.op.memory
<1>1. /\ worker.stage = "body" /\ worker.op.kind = "bind"
      /\ h \in Live \ wasBound /\ m \in Memories
  BY DEF BindBuffer, RuntimeInv, OperandsStay, OperandsFit, OpStages
<1>2. UNCHANGED <<images, tableVars, cacheVars, retired, runtimeLost, submitted, gpu, released>>
  BY DEF BindBuffer
<1>3. RuntimeTypeOK /\ IdsAreOld /\ SharingIsBound
  BY DEF RuntimeInv
<1>4. CASE Aliases(h, m) # {} /\ MakeRoom /\ UNCHANGED <<buffers, wasBound>>
  <2>1. ~Shared(h)
    BY <1>1, <1>3 DEF Shared, SharingIsBound
  <2>2. BoundTo(m) # {}
    BY <1>4 DEF Aliases
  <2>3. UNCHANGED <<runtimeObjects, tableVars, cacheVars, retired, runtimeLost, submitted, gpu,
                    released>>
    BY <1>2, <1>4 DEF runtimeObjects
  <2>4. QED
    BY <1>1, <1>4, <2>1, <2>2, <2>3, RoomIsMade
<1>5. ASSUME Goto("after")
      PROVE  /\ worker' \in [stage : Stages, op : Ops] /\ worker'.stage = "after"
             /\ Owners = Live /\ Owners' = Live'
  BY <1>1, <1>3, <1>5, WorkerGoes DEF Stages, Owners, GivesUp
<1>6. CASE /\ buffers' = [buffers EXCEPT ![h].bound = m]
           /\ wasBound' = wasBound \cup {h}
           /\ Goto("after")
  <2>1. h \in Handles /\ buffers[h].id \in Ids
    BY <1>1, <1>3, LiveHandles
  <2>2. \A g \in Handles : buffers'[g] = IF g = h THEN [id |-> buffers[h].id, bound |-> m]
                                         ELSE buffers[g]
    <3>1. [buffers[h] EXCEPT !.bound = m] = [id |-> buffers[h].id, bound |-> m]
      <4>1. buffers[h] \in [id : Nat, bound : Memories \cup {Unbound}]
        BY <1>3, <2>1 DEF RuntimeTypeOK
      <4>2. QED
        BY <4>1
    <3>2. buffers' = [buffers EXCEPT ![h] = [buffers[h] EXCEPT !.bound = m]]
      BY <1>6
    <3>3. QED
      BY <1>3, <2>1, <3>1, <3>2 DEF RuntimeTypeOK
  <2>3. buffers' \in [Handles -> [id : Nat, bound : Memories \cup {Unbound}]]
    BY <1>1, <1>3, <1>6, <2>1 DEF RuntimeTypeOK
  <2>4. \A g \in Handles : buffers'[g].id = buffers[g].id
    BY <2>2
  <2>5. Live' = Live
    BY <1>1, <2>1, <2>2 DEF Live, NoBuffer, Ids
  <2>6. OwnedIds' = OwnedIds /\ LiveIds' = LiveIds
    <3>1. \A g \in Live : buffers'[g].id = buffers[g].id
      BY <2>4 DEF Live
    <3>2. QED
      BY <1>5, <1>6, <2>5, <3>1 DEF OwnedIds, LiveIds
  <2>7. SharingIsBound'
    <3>1. wasBound' \subseteq Live'
      BY <1>1, <1>3, <1>6, <2>5 DEF SharingIsBound
    <3>2. ASSUME NEW g \in Live', buffers'[g].bound # Unbound PROVE g \in wasBound'
      BY <1>3, <1>6, <2>2, <2>5, <3>2 DEF SharingIsBound, Live
    <3>3. ASSUME NEW g \in Live', NEW x \in Live', g # x, buffers'[g].id = buffers'[x].id
          PROVE  g \in wasBound'
      <4>1. g \in Live /\ x \in Live /\ buffers[g].id = buffers[x].id
        BY <2>4, <2>5, <3>3 DEF Live
      <4>2. QED
        BY <1>3, <1>6, <3>3, <4>1 DEF SharingIsBound
    <3>4. QED
      BY <3>1, <3>2, <3>3 DEF SharingIsBound
  <2>8. wasBound' \subseteq Handles
    BY <1>3, <1>6, <2>1 DEF RuntimeTypeOK
  <2>9. worker.stage \in OpStages \ {"oversize"}
    BY <1>1 DEF OpStages
  <2>10. QED
    BY <1>2, <1>5, <1>6, <2>3, <2>6, <2>7, <2>8, <2>9, HandlesChange
<1>7. CASE Goto("after") /\ UNCHANGED <<buffers, wasBound>>
  <2>1. Live' = Live
    BY <1>7 DEF Live
  <2>2. OwnedIds' = OwnedIds /\ LiveIds' = LiveIds
    BY <1>5, <1>7, <2>1 DEF OwnedIds, LiveIds
  <2>3. SharingIsBound'
    BY <1>3, <1>7, <2>1 DEF SharingIsBound
  <2>4. /\ buffers' \in [Handles -> [id : Nat, bound : Memories \cup {Unbound}]]
        /\ wasBound' \subseteq Handles
    BY <1>3, <1>7 DEF RuntimeTypeOK
  <2>5. worker.stage \in OpStages \ {"oversize"}
    BY <1>1 DEF OpStages
  <2>6. QED
    BY <1>2, <1>5, <1>7, <2>2, <2>3, <2>4, <2>5, HandlesChange
<1>8. QED
  BY <1>4, <1>6, <1>7 DEF BindBuffer

\* Freeing memory keeps it.
LEMMA FreeMemoryKeeps ==
  ASSUME RuntimeInv, FreeMemory
  PROVE  RuntimeInv'
<1>1. RuntimeTypeOK /\ IdsAreOld /\ SharingIsBound
  BY DEF RuntimeInv
<1>2. /\ worker.stage \in OpStages \ {"oversize"} /\ ~GivesUp
      /\ UNCHANGED <<images, tableVars, cacheVars, retired, runtimeLost, submitted, gpu, released>>
      /\ wasBound' = wasBound
  BY DEF FreeMemory, OpStages, GivesUp
<1>3. worker' \in [stage : Stages, op : Ops] /\ worker'.stage = "after"
  BY <1>1, WorkerGoes DEF FreeMemory, Stages
<1>4. \A g \in Handles : buffers'[g] = IF g \in Live /\ buffers[g].bound = worker.op.memory
                                       THEN [id |-> buffers[g].id, bound |-> Unbound] ELSE buffers[g]
  <2>1. \A g \in Handles : [buffers[g] EXCEPT !.bound = Unbound] = [id |-> buffers[g].id, bound |-> Unbound]
    BY <1>1 DEF RuntimeTypeOK
  <2>2. QED
    BY <2>1 DEF FreeMemory
<1>5. ASSUME NEW g \in Handles
      PROVE  /\ buffers'[g] \in [id : Nat, bound : Memories \cup {Unbound}]
             /\ buffers'[g].id = buffers[g].id
             /\ buffers'[g].bound = buffers[g].bound \/ buffers'[g].bound = Unbound
  <2>1. buffers[g] \in [id : Nat, bound : Memories \cup {Unbound}]
    BY <1>1 DEF RuntimeTypeOK
  <2>2. CASE buffers'[g] = [id |-> buffers[g].id, bound |-> Unbound]
    BY <2>1, <2>2
  <2>3. CASE buffers'[g] = buffers[g]
    BY <2>1, <2>3
  <2>4. QED
    BY <1>4, <2>2, <2>3
<1>6. buffers' \in [Handles -> [id : Nat, bound : Memories \cup {Unbound}]]
  <2>1. buffers' = [g \in Handles |-> buffers'[g]]
    BY DEF FreeMemory
  <2>2. QED
    BY <1>5, <2>1
<1>7. Live' = Live
  <2>1. \A g \in Handles : g \in Live => buffers'[g] # NoBuffer
    BY <1>1, <1>5, LiveHandles DEF NoBuffer, Ids
  <2>2. \A g \in Handles : g \notin Live => buffers'[g] = NoBuffer
    BY <1>4, <1>1, LiveHandles
  <2>3. QED
    BY <2>1, <2>2 DEF Live
<1>8. OwnedIds' = OwnedIds /\ LiveIds' = LiveIds
  <2>1. Owners = Live /\ Owners' = Live
    BY <1>2, <1>3, <1>7 DEF Owners, GivesUp
  <2>2. \A g \in Live : buffers'[g].id = buffers[g].id
    BY <1>5 DEF Live
  <2>3. QED
    BY <1>7, <2>1, <2>2 DEF OwnedIds, LiveIds
<1>9. SharingIsBound'
  <2>1. \A g \in Live : g \in Handles
    BY DEF Live
  <2>2. QED
    BY <1>1, <1>2, <1>5, <1>7, <2>1 DEF SharingIsBound
<1>10. wasBound' \subseteq Handles
  BY <1>1, <1>2 DEF RuntimeTypeOK
<1>11. QED
  BY <1>2, <1>3, <1>6, <1>8, <1>9, <1>10, HandlesChange

\* The rest of an operation keeps it.
LEMMA RestKeeps ==
  ASSUME RuntimeInv, Rest
  PROVE  RuntimeInv'
<1> DEFINE h == worker.op.handle
           m == worker.op.memory
<1>1. RuntimeTypeOK /\ IdsAreOld /\ SharingIsBound
  BY DEF RuntimeInv
<1>2. /\ worker.stage = "rest" /\ worker.stage \in OpStages \ {"oversize"}
      /\ worker.op.kind \in {"destroy", "bind"} /\ h \in Live
      /\ worker.op.kind = "bind" => h \notin wasBound /\ m \in Memories
      /\ UNCHANGED <<images, tableVars, cacheVars, retired, runtimeLost, submitted, gpu, released>>
  BY DEF Rest, RuntimeInv, OperandsStay, OperandsFit, OpStages, CachingStages
<1>3. worker' \in [stage : Stages, op : Ops] /\ worker'.stage = "after"
  BY <1>1, WorkerGoes DEF Rest, Stages
<1>4. Owners = Live \ {h} /\ Owners' = Live'
  BY <1>2, <1>3 DEF Owners, GivesUp
<1>5. CASE worker.op.kind = "destroy"
  <2>1. buffers' = [buffers EXCEPT ![h] = NoBuffer] /\ wasBound' = wasBound \ {h}
    BY <1>2, <1>5 DEF Rest
  <2>2. \A g \in Handles : buffers'[g] = IF g = h THEN NoBuffer ELSE buffers[g]
    BY <1>1, <2>1 DEF RuntimeTypeOK
  <2>3. buffers' \in [Handles -> [id : Nat, bound : Memories \cup {Unbound}]]
    BY <1>1, <2>1 DEF RuntimeTypeOK, NoBuffer
  <2>4. Live' = Live \ {h}
    BY <2>2 DEF Live
  <2>5. \A g \in Live' : g \in Handles /\ g # h /\ buffers'[g] = buffers[g]
    BY <2>2, <2>4 DEF Live
  <2>6. OwnedIds' = OwnedIds /\ LiveIds' \subseteq LiveIds
    BY <1>4, <2>4, <2>5 DEF OwnedIds, LiveIds
  <2>7. SharingIsBound'
    BY <1>1, <2>1, <2>4, <2>5 DEF SharingIsBound
  <2>8. wasBound' \subseteq Handles
    BY <1>1, <2>1 DEF RuntimeTypeOK
  <2>9. QED
    BY <1>2, <1>3, <2>3, <2>6, <2>7, <2>8, HandlesChange
<1>6. CASE worker.op.kind = "bind"
  <2>1. PICK a \in BoundTo(m) :
          buffers' = [buffers EXCEPT ![h] = [id |-> buffers[a].id, bound |-> m]]
    BY <1>2, <1>6 DEF Rest
  <2>2. wasBound' = wasBound \cup {h}
    BY <1>2, <1>6 DEF Rest
  <2>3. a \in Live /\ a \in wasBound /\ a # h /\ buffers[a].id \in Ids
    <3>1. a \in Live /\ buffers[a].bound = m /\ m # Unbound
      BY <1>2, <1>6, CacheAssumption DEF BoundTo, Unbound
    <3>2. a \in wasBound
      BY <1>1, <3>1 DEF SharingIsBound
    <3>3. QED
      BY <1>1, <1>2, <1>6, <3>1, <3>2, LiveHandles
  <2>4. h \in Handles
    BY <1>2 DEF Live
  <2>5. /\ Live' = Live \cup {h}
        /\ buffers'[h] = [id |-> buffers[a].id, bound |-> m]
        /\ \A g \in Handles \ {h} : buffers'[g] = buffers[g]
        /\ buffers' \in [Handles -> [id : Nat, bound : Memories \cup {Unbound}]]
    BY <1>1, <1>2, <1>6, <2>1, <2>3, <2>4, LiveAfter
  <2>6. Live' = Live /\ \A g \in Live : g \in Handles
    BY <1>2, <2>5 DEF Live
  <2>7. OwnedIds' = OwnedIds /\ LiveIds' \subseteq LiveIds
    <3>1. \A g \in Live \ {h} : buffers'[g].id = buffers[g].id
      BY <2>5, <2>6
    <3>2. buffers'[h].id = buffers[a].id /\ a \in Live \ {h}
      BY <2>3, <2>5
    <3>3. {buffers'[g].id : g \in Live} = {buffers[g].id : g \in Live \ {h}}
      BY <1>2, <3>1, <3>2
    <3>4. QED
      BY <1>4, <2>6, <3>3 DEF OwnedIds, LiveIds
  <2>8. SharingIsBound'
    <3>1. wasBound' \subseteq Live'
      BY <1>1, <1>2, <2>2, <2>6 DEF SharingIsBound
    <3>2. ASSUME NEW g \in Live', buffers'[g].bound # Unbound PROVE g \in wasBound'
      BY <1>1, <2>2, <2>5, <2>6, <3>2 DEF SharingIsBound
    <3>3. ASSUME NEW g \in Live', NEW x \in Live', g # x, buffers'[g].id = buffers'[x].id
          PROVE  g \in wasBound'
      <4>1. CASE g = h
        BY <2>2, <4>1
      <4>2. CASE g # h /\ x = h
        <5>1. buffers[g].id = buffers[a].id /\ g \in Live
          BY <2>5, <2>6, <3>3, <4>2
        <5>2. g = a \/ g \in wasBound
          BY <1>1, <2>3, <5>1 DEF SharingIsBound
        <5>3. QED
          BY <2>2, <2>3, <5>2
      <4>3. CASE g # h /\ x # h
        <5>1. buffers[g].id = buffers[x].id /\ g \in Live /\ x \in Live
          BY <2>5, <2>6, <3>3, <4>3
        <5>2. QED
          BY <1>1, <2>2, <3>3, <5>1 DEF SharingIsBound
      <4>4. QED
        BY <4>1, <4>2, <4>3
    <3>4. QED
      BY <3>1, <3>2, <3>3 DEF SharingIsBound
  <2>9. wasBound' \subseteq Handles
    BY <1>1, <2>2, <2>4 DEF RuntimeTypeOK
  <2>10. QED
    BY <1>2, <1>3, <2>5, <2>7, <2>8, <2>9, HandlesChange
<1>7. QED
  BY <1>2, <1>5, <1>6

-----------------------------------------------------------------------------
(* Creation.                                                               *)

\* What is left of the cache when one buffer leaves it.
LEMMA SwapRemoved ==
  ASSUME RuntimeTypeOK, NEW k \in 1..Len(cached), cached' = SwapRemove(cached, k)
  PROVE  /\ cached' \in Seq(Kept) /\ Len(cached') = Len(cached) - 1
         /\ \A j \in 1..Len(cached') :
              \E i \in 1..Len(cached) : i # k /\ cached'[j] = cached[i]
                                        /\ i = IF j = k THEN Len(cached) ELSE j
         /\ CachedIds' \subseteq CachedIds
         /\ \A i \in 1..Len(cached) : i # k => cached[i].id \in CachedIds'
<1>1. cached \in Seq(Kept) /\ Len(cached) \in Nat /\ k <= Len(cached)
  BY DEF RuntimeTypeOK
<1>2. cached' \in Seq(Kept)
  BY <1>1, BytesOfSwapRemove
<1>3. cached' = [j \in 1..Len(cached) - 1 |-> IF j = k THEN cached[Len(cached)] ELSE cached[j]]
  BY DEF SwapRemove
<1>4. Len(cached') = Len(cached) - 1
  BY <1>1, <1>3
<1>5. ASSUME NEW j \in 1..Len(cached')
      PROVE  \E i \in 1..Len(cached) : i # k /\ cached'[j] = cached[i]
                                       /\ i = IF j = k THEN Len(cached) ELSE j
  <2>1. CASE j = k
    <3>1. cached'[j] = cached[Len(cached)] /\ Len(cached) \in 1..Len(cached) /\ Len(cached) # k
      BY <1>1, <1>3, <1>4, <2>1
    <3>2. QED
      BY <2>1, <3>1
  <2>2. CASE j # k
    <3>1. cached'[j] = cached[j] /\ j \in 1..Len(cached)
      BY <1>1, <1>3, <1>4, <2>2
    <3>2. QED
      BY <2>2, <3>1
  <2>3. QED
    BY <2>1, <2>2
<1>6. CachedIds' \subseteq CachedIds
  BY <1>5 DEF CachedIds
<1>7. ASSUME NEW i \in 1..Len(cached), i # k PROVE cached[i].id \in CachedIds'
  <2>1. CASE i = Len(cached)
    <3>1. k \in 1..Len(cached) - 1
      BY <1>1, <1>7, <2>1
    <3>2. cached'[k] = cached[i]
      BY <1>3, <2>1, <3>1
    <3>3. k \in 1..Len(cached')
      BY <1>4, <3>1
    <3>4. QED
      BY <3>2, <3>3 DEF CachedIds
  <2>2. CASE i # Len(cached)
    <3>1. i \in 1..Len(cached') /\ cached'[i] = cached[i]
      BY <1>1, <1>3, <1>4, <1>7, <2>2
    <3>2. QED
      BY <3>1 DEF CachedIds
  <2>3. QED
    BY <2>1, <2>2
<1>8. QED
  BY <1>2, <1>4, <1>5, <1>6, <1>7

\* What the cache hands out is old enough: the candidate is an entry of the
\* cache whose watermark the completions passed.
LEMMA CandidateIsReusable ==
  ASSUME RuntimeTypeOK, CreateFromCache
  PROVE  \E k \in 1..Len(cached) :
           /\ Reusable(cached[k])
           /\ Publish(worker.op.handle, cached[k].id)
           /\ cachedBytes' = BytesWithout(cached[k])
           /\ cached' = SwapRemove(cached, k)
<1> DEFINE found == Candidates(worker.op.size)
           k == CHOOSE j \in found : \A m \in found : j <= m
<1>1. found # {} /\ found \subseteq 1..Len(cached)
  BY DEF CreateFromCache, Candidates
<1>2. found \subseteq Nat
  BY <1>1
<1>3. \E j \in found : \A m \in found : j <= m
  BY <1>1, <1>2, LeastNatural
<1>4. k \in found
  BY <1>3
<1>5. k \in 1..Len(cached) /\ Reusable(cached[k])
  BY <1>4 DEF Candidates
<1>6. QED
  BY <1>5 DEF CreateFromCache

\* Reusing a cached buffer keeps it.
LEMMA CreateFromCacheKeeps ==
  ASSUME RuntimeInv, CreateFromCache
  PROVE  RuntimeInv'
<1> DEFINE h == worker.op.handle
<1>1. RuntimeTypeOK /\ IdsAreOld /\ SharingIsBound /\ WatermarksCover
  BY DEF RuntimeInv
<1>2. /\ worker.stage = "body" /\ worker.op.kind = "create" /\ h \in Handles \ Live
      /\ UNCHANGED <<images, wasBound, tableVars, retired, runtimeLost, submitted, gpu, released>>
  BY DEF CreateFromCache, Creating, RuntimeInv, OperandsStay, OperandsFit, OpStages
<1>3. worker' \in [stage : Stages, op : Ops] /\ worker'.stage = "after"
  BY <1>1, WorkerGoes DEF CreateFromCache, Stages
<1>4. PICK k \in 1..Len(cached) : /\ Publish(h, cached[k].id)
                                  /\ cachedBytes' = BytesWithout(cached[k])
                                  /\ cached' = SwapRemove(cached, k)
  BY <1>1, CandidateIsReusable
<1>5. /\ cached' \in Seq(Kept) /\ Len(cached') = Len(cached) - 1
      /\ \A j \in 1..Len(cached') : \E i \in 1..Len(cached) : i # k /\ cached'[j] = cached[i]
                                      /\ i = IF j = k THEN Len(cached) ELSE j
      /\ CachedIds' \subseteq CachedIds
      /\ \A i \in 1..Len(cached) : i # k => cached[i].id \in CachedIds'
  BY <1>1, <1>4, SwapRemoved
<1> DEFINE new == cached[k].id
<1>6. new \in Ids /\ new \in CachedIds
  <2>1. cached[k] \in Kept /\ new \in CachedIds
    BY <1>1, KeptIds
  <2>2. QED
    BY <2>1, KeptFields
<1>7. /\ Live' = Live \cup {h}
      /\ buffers'[h] = [id |-> new, bound |-> Unbound]
      /\ \A g \in Handles \ {h} : buffers'[g] = buffers[g]
      /\ buffers' \in [Handles -> [id : Nat, bound : Memories \cup {Unbound}]]
  BY <1>1, <1>2, <1>4, <1>6, LiveAfter DEF Publish
<1>8. \A g \in Live : g \in Handles /\ g # h /\ buffers'[g] = buffers[g]
  BY <1>2, <1>7 DEF Live
<1>9. LiveIds' = LiveIds \cup {new}
  BY <1>7, <1>8 DEF LiveIds
<1>10. OwnedIds = LiveIds /\ OwnedIds' = LiveIds'
  BY <1>2, <1>3 DEF OwnedIds, Owners, GivesUp, LiveIds
<1>11. /\ LiveImages' = LiveImages /\ ImageIds' = ImageIds /\ RetiredIds' = RetiredIds
       /\ InFlightIds' = InFlightIds /\ completed' = completed
  BY <1>2 DEF LiveImages, ImageIds, RetiredIds, InFlightIds, completed
<1>12. BuffersAccounted /\ ImagesAccounted /\ ReleasedIsGone /\ WithinBudget
  BY <1>2 DEF RuntimeInv, Trusted, OpStages
<1>13. cachedBytes = BytesOf(cached)
  BY DEF RuntimeInv
<1>14. (cachedBytes = BytesOf(cached))' /\ cachedBytes' \in Nat /\ cachedBytes' <= cachedBytes
  <2>1. cached \in Seq(Kept) /\ cached[k] \in Kept
    BY <1>1 DEF RuntimeTypeOK
  <2>2. /\ BytesOf(SwapRemove(cached, k)) = BytesOf(cached) - cached[k].size
        /\ BytesOf(cached) - cached[k].size \in Nat
    BY <2>1, BytesOfSwapRemove
  <2>3. cached[k].size \in Nat
    BY <2>1, KeptFields
  <2>4. cachedBytes' = cachedBytes - cached[k].size /\ cachedBytes \in Nat
    BY <1>1, <1>4 DEF BytesWithout, RuntimeTypeOK
  <2>5. (BytesOf(cached))' = BytesOf(SwapRemove(cached, k))
    BY <1>4 DEF BytesOf
  <2>6. QED
    BY <1>13, <2>2, <2>3, <2>4, <2>5
<1>15. RuntimeTypeOK'
  BY <1>1, <1>2, <1>3, <1>5, <1>7, <1>14 DEF RuntimeTypeOK, tableVars
<1>16. IdsAreOld'
  BY <1>1, <1>2, <1>5, <1>6, <1>9, <1>11 DEF IdsAreOld, tableVars
<1>17. SharingIsBound'
  <2>1. wasBound' \subseteq Live'
    BY <1>1, <1>2, <1>7 DEF SharingIsBound
  <2>2. ASSUME NEW g \in Live', buffers'[g].bound # Unbound PROVE g \in wasBound'
    BY <1>1, <1>2, <1>7, <1>8, <2>2 DEF SharingIsBound
  <2>3. ASSUME NEW g \in Live', NEW x \in Live', g # x, buffers'[g].id = buffers'[x].id
        PROVE  g \in wasBound'
    <3>1. new \notin LiveIds
      BY <1>6, <1>10, <1>12 DEF BuffersAccounted
    <3>2. g # h /\ x # h
      BY <1>7, <1>8, <2>3, <3>1 DEF LiveIds
    <3>3. QED
      BY <1>1, <1>2, <1>7, <1>8, <2>3, <3>2 DEF SharingIsBound
  <2>4. QED
    BY <2>1, <2>2, <2>3 DEF SharingIsBound
<1>18. OperandsStay'
  BY <1>3 DEF OperandsStay, OpStages, CachingStages
<1>19. BuffersAccounted'
  <2>1. CachedIds = CachedIds' \cup {new}
    <3>1. ASSUME NEW x \in CachedIds PROVE x \in CachedIds' \cup {new}
      BY <1>1, <1>5, KeptIds
    <3>2. QED
      BY <1>5, <1>6, <3>1
  <2>2. new \notin CachedIds'
    <3>1. ASSUME new \in CachedIds' PROVE FALSE
      <4>1. PICK j \in 1..Len(cached') : new = cached'[j].id
        BY <3>1 DEF CachedIds
      <4>2. PICK i \in 1..Len(cached) : i # k /\ cached'[j] = cached[i]
        BY <1>5
      <4>3. QED
        BY <1>12, <4>1, <4>2 DEF BuffersAccounted
    <3>2. QED
      BY <3>1
  <2>3. ASSUME NEW i \in 1..Len(cached'), NEW j \in 1..Len(cached'), cached'[i].id = cached'[j].id
        PROVE  i = j
    <3>1. PICK a \in 1..Len(cached) : a # k /\ cached'[i] = cached[a]
                                      /\ a = IF i = k THEN Len(cached) ELSE i
      BY <1>5
    <3>2. PICK b \in 1..Len(cached) : b # k /\ cached'[j] = cached[b]
                                      /\ b = IF j = k THEN Len(cached) ELSE j
      BY <1>5
    <3>3. a = b
      BY <1>12, <2>3, <3>1, <3>2 DEF BuffersAccounted
    <3>4. i < Len(cached) /\ j < Len(cached) /\ Len(cached) \in Nat
      BY <1>1, <1>5, KeptIds
    <3>5. QED
      BY <3>1, <3>2, <3>3, <3>4
  <2>4. DOMAIN table' = OwnedIds' \cup CachedIds' /\ OwnedIds' \cap CachedIds' = {}
    <3>1. DOMAIN table' = DOMAIN table
      BY <1>2 DEF tableVars
    <3>2. DOMAIN table = LiveIds \cup CachedIds /\ LiveIds \cap CachedIds = {}
      BY <1>10, <1>12 DEF BuffersAccounted
    <3>3. QED
      BY <1>9, <1>10, <2>1, <2>2, <3>1, <3>2
  <2>5. QED
    BY <2>3, <2>4 DEF BuffersAccounted
<1>20. ImagesAccounted'
  BY <1>2, <1>11, <1>12 DEF ImagesAccounted, tableVars
<1>21. ReleasedIsGone'
  <2>1. OwnedIds' \cup ImageIds' \cup CachedIds' \subseteq OwnedIds \cup ImageIds \cup CachedIds
    BY <1>5, <1>6, <1>9, <1>10, <1>11
  <2>2. QED
    BY <1>2, <1>12, <2>1 DEF ReleasedIsGone
<1>22. WithinBudget'
  <2>1. Len(cached') <= CacheCapacity
    BY <1>1, <1>5, <1>12, CacheAssumption, KeptIds DEF WithinBudget
  <2>2. cachedBytes' <= CacheBytes
    BY <1>1, <1>2, <1>12, <1>14, CacheAssumption DEF WithinBudget, RuntimeTypeOK
  <2>3. QED
    BY <1>3, <2>1, <2>2 DEF WithinBudget
<1>23. WatermarksCover'
  <2>1. ASSUME NEW j \in 1..Len(cached'), NEW p \in 1..Len(gpu'), cached'[j].id \in gpu'[p]
        PROVE  completed' + p <= cached'[j].after
    <3>1. PICK i \in 1..Len(cached) : cached'[j] = cached[i]
      BY <1>5
    <3>2. QED
      BY <1>1, <1>2, <1>11, <2>1, <3>1 DEF WatermarksCover
  <2>2. QED
    BY <2>1 DEF WatermarksCover
<1>24. QED
  BY <1>14, <1>15, <1>16, <1>17, <1>18, <1>19, <1>20, <1>21, <1>22, <1>23 DEF RuntimeInv

\* Defining a new buffer keeps it.
LEMMA CreateByDefinitionKeeps ==
  ASSUME RuntimeInv, CreateByDefinition
  PROVE  RuntimeInv'
<1> DEFINE h == worker.op.handle
<1>1. RuntimeTypeOK /\ IdsAreOld /\ SharingIsBound /\ WatermarksCover
  BY DEF RuntimeInv
<1>2. /\ worker.stage \in {"body", "define"} /\ worker.op.kind = "create"
      /\ h \in Handles \ Live /\ worker.op.size \in Sizes
      /\ table' = WithKey(table, nextId, worker.op.size) /\ nextId' = nextId + 1
      /\ UNCHANGED <<images, wasBound, textures, cacheVars, retired, runtimeLost, submitted, gpu,
                     released>>
  BY DEF CreateByDefinition, Creating, RuntimeInv, OperandsStay, OperandsFit, OpStages
<1>3. worker' \in [stage : Stages, op : Ops] /\ worker'.stage = "after"
  BY <1>1, WorkerGoes DEF CreateByDefinition, Stages
<1>4. nextId \in Ids /\ nextId' \in Ids /\ worker.op.size \in Ids
  <2>1. nextId \in Ids
    BY <1>1 DEF RuntimeTypeOK
  <2>2. worker.op.size \in Ids
    BY <1>2, CacheAssumption DEF Ids
  <2>3. QED
    BY <1>2, <2>1, <2>2 DEF Ids
<1>5. /\ Live' = Live \cup {h}
      /\ buffers'[h] = [id |-> nextId, bound |-> Unbound]
      /\ \A g \in Handles \ {h} : buffers'[g] = buffers[g]
      /\ buffers' \in [Handles -> [id : Nat, bound : Memories \cup {Unbound}]]
  BY <1>1, <1>2, <1>4, LiveAfter DEF CreateByDefinition, Publish
<1>6. \A g \in Live : g \in Handles /\ g # h /\ buffers'[g] = buffers[g]
  BY <1>2, <1>5 DEF Live
<1>7. LiveIds' = LiveIds \cup {nextId}
  BY <1>5, <1>6 DEF LiveIds
<1>8. OwnedIds = LiveIds /\ OwnedIds' = LiveIds'
  BY <1>2, <1>3 DEF OwnedIds, Owners, GivesUp, LiveIds
<1>9. /\ LiveImages' = LiveImages /\ ImageIds' = ImageIds /\ RetiredIds' = RetiredIds
      /\ InFlightIds' = InFlightIds /\ completed' = completed /\ CachedIds' = CachedIds
  BY <1>2 DEF LiveImages, ImageIds, RetiredIds, InFlightIds, completed, CachedIds, cacheVars
<1>10. BuffersAccounted /\ ImagesAccounted /\ ReleasedIsGone /\ WithinBudget
  BY <1>2 DEF RuntimeInv, Trusted, OpStages
<1>11. nextId \notin LiveIds \cup ImageIds \cup CachedIds \cup RetiredIds \cup DOMAIN table
                     \cup textures \cup released
  <2>1. ~(nextId < nextId)
    BY <1>4 DEF Ids
  <2>2. QED
    BY <1>1, <2>1 DEF IdsAreOld
<1>12. /\ DOMAIN table' = DOMAIN table \cup {nextId} /\ \A x \in DOMAIN table' : table'[x] \in Ids
  BY <1>1, <1>2, <1>4 DEF WithKey, RuntimeTypeOK
<1>13. RuntimeTypeOK'
  BY <1>1, <1>2, <1>3, <1>4, <1>5, <1>12 DEF RuntimeTypeOK, cacheVars
<1>14. IdsAreOld'
  <2>1. \A x \in Ids : x < nextId => x < nextId'
    BY <1>2, <1>4 DEF Ids
  <2>2. nextId < nextId'
    BY <1>2, <1>4 DEF Ids
  <2>3. QED
    BY <1>1, <1>2, <1>4, <1>7, <1>9, <1>12, <2>1, <2>2 DEF IdsAreOld
<1>15. SharingIsBound'
  <2>1. wasBound' \subseteq Live'
    BY <1>1, <1>2, <1>5 DEF SharingIsBound
  <2>2. ASSUME NEW g \in Live', buffers'[g].bound # Unbound PROVE g \in wasBound'
    BY <1>1, <1>2, <1>5, <1>6, <2>2 DEF SharingIsBound
  <2>3. ASSUME NEW g \in Live', NEW x \in Live', g # x, buffers'[g].id = buffers'[x].id
        PROVE  g \in wasBound'
    <3>1. g # h /\ x # h
      BY <1>5, <1>6, <1>11, <2>3 DEF LiveIds
    <3>2. QED
      BY <1>1, <1>2, <1>5, <1>6, <2>3, <3>1 DEF SharingIsBound
  <2>4. QED
    BY <2>1, <2>2, <2>3 DEF SharingIsBound
<1>16. OperandsStay'
  BY <1>3 DEF OperandsStay, OpStages, CachingStages
<1>17. (cachedBytes = BytesOf(cached))'
  BY <1>2 DEF RuntimeInv, BytesOf, cacheVars
<1>18. BuffersAccounted'
  BY <1>2, <1>7, <1>8, <1>9, <1>10, <1>11, <1>12 DEF BuffersAccounted, cacheVars
<1>19. ImagesAccounted'
  BY <1>2, <1>9, <1>10, <1>11, <1>12 DEF ImagesAccounted
<1>20. ReleasedIsGone'
  BY <1>2, <1>7, <1>8, <1>9, <1>10, <1>11 DEF ReleasedIsGone
<1>21. WithinBudget'
  BY <1>2, <1>3, <1>10 DEF WithinBudget, cacheVars
<1>22. WatermarksCover'
  BY <1>1, <1>2, <1>9 DEF WatermarksCover, cacheVars
<1>23. QED
  BY <1>13, <1>14, <1>15, <1>16, <1>17, <1>18, <1>19, <1>20, <1>21, <1>22 DEF RuntimeInv

\* The handles stay; images and their textures change.
LEMMA ImagesChange ==
  ASSUME RuntimeInv,
         UNCHANGED <<buffers, wasBound, table, cacheVars, runtimeLost, submitted, gpu, released>>,
         worker' \in [stage : Stages, op : Ops], worker'.stage = "after", worker.stage = "body",
         images' \in [Images -> Nat], retired' \in Seq(Ids), nextId' \in Ids, nextId <= nextId',
         ImagesAccounted', ImageIds' \cap released = {},
         \A x \in ImageIds' \cup RetiredIds' \cup textures' : x \in Ids /\ x < nextId'
  PROVE  RuntimeInv'
<1> USE DEF cacheVars
<1>1. RuntimeTypeOK /\ IdsAreOld /\ SharingIsBound /\ WatermarksCover
  BY DEF RuntimeInv
<1>2. RuntimeTypeOK'
  BY <1>1 DEF RuntimeTypeOK
<1>3. /\ Live' = Live /\ LiveIds' = LiveIds /\ CachedIds' = CachedIds
      /\ InFlightIds' = InFlightIds /\ completed' = completed
  BY DEF Live, LiveIds, CachedIds, InFlightIds, completed
<1>4. OwnedIds' = OwnedIds
  BY <1>3 DEF OwnedIds, Owners, GivesUp
<1>5. IdsAreOld'
  <2>1. \A x \in Ids : x < nextId => x < nextId'
    BY <1>1 DEF Ids, RuntimeTypeOK
  <2>2. QED
    BY <1>1, <1>3, <2>1 DEF IdsAreOld
<1>6. SharingIsBound'
  BY <1>1, <1>3 DEF SharingIsBound
<1>7. OperandsStay'
  BY DEF OperandsStay, OpStages, CachingStages
<1>8. (cachedBytes = BytesOf(cached))'
  BY DEF RuntimeInv, BytesOf
<1>9. WatermarksCover'
  BY <1>1, <1>3 DEF WatermarksCover
<1>10. BuffersAccounted /\ ReleasedIsGone /\ WithinBudget
  BY DEF RuntimeInv, Trusted, OpStages
<1>11. BuffersAccounted'
  BY <1>3, <1>4, <1>10 DEF BuffersAccounted
<1>12. ReleasedIsGone'
  BY <1>3, <1>4, <1>10 DEF ReleasedIsGone
<1>13. WithinBudget'
  BY <1>10 DEF WithinBudget
<1>14. QED
  BY <1>2, <1>5, <1>6, <1>7, <1>8, <1>9, <1>11, <1>12, <1>13 DEF RuntimeInv

\* Creating an image keeps it.
LEMMA CreateImageKeeps ==
  ASSUME RuntimeInv, CreateImage
  PROVE  RuntimeInv'
<1> DEFINE i == worker.op.image
<1>1. RuntimeTypeOK /\ IdsAreOld
  BY DEF RuntimeInv
<1>2. /\ worker.stage = "body" /\ i \in Images \ LiveImages
      /\ textures' = textures \cup {nextId} /\ images' = [images EXCEPT ![i] = nextId]
      /\ nextId' = nextId + 1
      /\ UNCHANGED <<buffers, wasBound, table, cacheVars, retired, runtimeLost, submitted, gpu,
                     released>>
  BY DEF CreateImage, RuntimeInv, OperandsStay, OperandsFit, OpStages
<1>3. worker' \in [stage : Stages, op : Ops] /\ worker'.stage = "after"
  BY <1>1, WorkerGoes DEF CreateImage, Stages
<1>4. ImagesAccounted /\ ReleasedIsGone
  BY <1>2 DEF RuntimeInv, Trusted, OpStages
<1>5. nextId \in Ids /\ nextId' \in Ids /\ nextId <= nextId' /\ nextId < nextId'
  BY <1>1, <1>2 DEF RuntimeTypeOK, Ids
<1>6. images' \in [Images -> Nat] /\ images'[i] = nextId /\ nextId # 0
      /\ \A j \in Images \ {i} : images'[j] = images[j]
  BY <1>1, <1>2, <1>5 DEF RuntimeTypeOK, Ids
<1>7. LiveImages' = LiveImages \cup {i} /\ \A j \in LiveImages : j # i /\ images'[j] = images[j]
  BY <1>2, <1>6 DEF LiveImages
<1>8. ImageIds' = ImageIds \cup {nextId}
  BY <1>6, <1>7 DEF ImageIds
<1>9. nextId \notin ImageIds \cup RetiredIds \cup DOMAIN table \cup textures \cup released
  <2>1. ~(nextId < nextId)
    BY <1>5 DEF Ids
  <2>2. QED
    BY <1>1, <2>1 DEF IdsAreOld
<1>10. RetiredIds' = RetiredIds
  BY <1>2 DEF RetiredIds
<1>11. ImagesAccounted'
  <2>1. \A a, b \in LiveImages' : images'[a] = images'[b] => a = b
    <3>1. \A a \in LiveImages : images'[a] # nextId
      BY <1>7, <1>9 DEF ImageIds
    <3>2. QED
      BY <1>4, <1>6, <1>7, <3>1 DEF ImagesAccounted
  <2>2. textures' = ImageIds' \cup RetiredIds' /\ ImageIds' \cap RetiredIds' = {}
        /\ textures' \cap DOMAIN table' = {}
    BY <1>2, <1>4, <1>8, <1>9, <1>10 DEF ImagesAccounted
  <2>3. QED
    BY <2>1, <2>2 DEF ImagesAccounted
<1>12. ImageIds' \cap released = {}
  BY <1>4, <1>8, <1>9 DEF ReleasedIsGone
<1>13. \A x \in ImageIds' \cup RetiredIds' \cup textures' : x \in Ids /\ x < nextId'
  <2>1. \A x \in Ids : x < nextId => x < nextId'
    BY <1>2, <1>5 DEF Ids
  <2>2. QED
    BY <1>1, <1>2, <1>5, <1>8, <1>10, <2>1 DEF IdsAreOld
<1>14. retired' \in Seq(Ids)
  BY <1>1, <1>2 DEF RuntimeTypeOK
<1>15. QED
  BY <1>2, <1>3, <1>5, <1>6, <1>11, <1>12, <1>13, <1>14, ImagesChange

\* Retiring an image keeps it.
LEMMA RetireImageKeeps ==
  ASSUME RuntimeInv, RetireImage
  PROVE  RuntimeInv'
<1> DEFINE i == worker.op.image
<1>1. RuntimeTypeOK /\ IdsAreOld
  BY DEF RuntimeInv
<1>2. /\ worker.stage = "body" /\ i \in LiveImages
      /\ images' = [images EXCEPT ![i] = 0] /\ retired' = Append(retired, images[i])
      /\ UNCHANGED <<buffers, wasBound, table, textures, nextId, cacheVars, runtimeLost, submitted,
                     gpu, released>>
  BY DEF RetireImage, RuntimeInv, OperandsStay, OperandsFit, OpStages, tableVars
<1>3. worker' \in [stage : Stages, op : Ops] /\ worker'.stage = "after"
  BY <1>1, WorkerGoes DEF RetireImage, Stages
<1>4. ImagesAccounted /\ ReleasedIsGone
  BY <1>2 DEF RuntimeInv, Trusted, OpStages
<1>5. i \in Images /\ images[i] \in ImageIds
  BY <1>2 DEF LiveImages, ImageIds
<1>6. images[i] \in Ids /\ nextId \in Ids
  BY <1>1, <1>5 DEF IdsAreOld, RuntimeTypeOK
<1>7. images' \in [Images -> Nat] /\ images'[i] = 0 /\ \A j \in Images \ {i} : images'[j] = images[j]
  BY <1>1, <1>2, <1>5 DEF RuntimeTypeOK
<1>8. LiveImages' = LiveImages \ {i} /\ \A j \in LiveImages' : images'[j] = images[j]
  BY <1>7 DEF LiveImages
<1>9. ImageIds' = ImageIds \ {images[i]}
  <2>1. \A j \in LiveImages : images[j] = images[i] => j = i
    BY <1>2, <1>4 DEF ImagesAccounted
  <2>2. QED
    BY <1>2, <1>8, <2>1 DEF ImageIds
<1>10. retired' \in Seq(Ids) /\ RetiredIds' = RetiredIds \cup {images[i]}
  <2>1. retired \in Seq(Ids)
    BY <1>1 DEF RuntimeTypeOK
  <2>2. /\ retired' \in Seq(Ids) /\ Len(retired') = Len(retired) + 1 /\ Len(retired) \in Nat
        /\ retired'[Len(retired) + 1] = images[i]
        /\ \A j \in 1..Len(retired) : retired'[j] = retired[j]
    BY <1>2, <1>6, <2>1
  <2>3. 1..Len(retired') = 1..Len(retired) \cup {Len(retired) + 1}
    BY <2>2
  <2>4. QED
    BY <2>2, <2>3 DEF RetiredIds
<1>11. ImagesAccounted'
  BY <1>2, <1>4, <1>5, <1>8, <1>9, <1>10 DEF ImagesAccounted
<1>12. ImageIds' \cap released = {}
  BY <1>4, <1>9 DEF ReleasedIsGone
<1>13. \A x \in ImageIds' \cup RetiredIds' \cup textures' : x \in Ids /\ x < nextId'
  BY <1>1, <1>2, <1>5, <1>9, <1>10 DEF IdsAreOld
<1>14. nextId <= nextId'
  BY <1>2, <1>6 DEF Ids
<1>15. QED
  BY <1>2, <1>3, <1>6, <1>7, <1>10, <1>11, <1>12, <1>13, <1>14, ImagesChange

-----------------------------------------------------------------------------
(* Caching.                                                                *)

\* Caching a destroyed buffer keeps it.
LEMMA CacheBufferKeeps ==
  ASSUME RuntimeInv, CacheBuffer
  PROVE  RuntimeInv'
<1> DEFINE h == worker.op.handle
           size == table[CachedId]
           entry == [id |-> CachedId, size |-> size, after |-> Watermark]
           n == Len(cached)
<1>1. RuntimeTypeOK /\ IdsAreOld /\ SharingIsBound /\ OperandsStay /\ WatermarksCover
  BY DEF RuntimeInv
<1>2. /\ worker.stage = "cache" /\ worker.stage \in OpStages
      /\ worker.op.kind \in {"destroy", "bind"} /\ h \in Live /\ ~Shared(h)
      /\ UNCHANGED <<runtimeObjects, tableVars, retired, runtimeLost, submitted, gpu, released>>
  BY <1>1 DEF CacheBuffer, OperandsStay, OperandsFit, OpStages, CachingStages
<1>3. /\ cached' = Append(cached, entry) /\ cachedBytes' = cachedBytes + size
      /\ Goto(IF cachedBytes + size > CacheBytes THEN "oversize" ELSE "rest")
  BY DEF CacheBuffer
<1>4. /\ worker' \in [stage : Stages, op : Ops] /\ worker'.op = worker.op
      /\ worker'.stage = IF cachedBytes' > CacheBytes THEN "oversize" ELSE "rest"
  BY <1>1, <1>3, WorkerGoes DEF Stages, OpStages
<1>5. BuffersAccounted /\ ImagesAccounted /\ ReleasedIsGone /\ WithinBudget
  BY <1>2 DEF RuntimeInv, Trusted
<1>6. Owners = Live /\ OwnedIds = LiveIds /\ CachedId \in LiveIds
  BY <1>2 DEF Owners, GivesUp, OwnedIds, LiveIds, CachedId
<1>7. CachedId \in DOMAIN table /\ CachedId \in Ids /\ size \in Ids /\ CachedId \notin CachedIds
  <2>1. CachedId \in DOMAIN table /\ CachedId \notin CachedIds
    BY <1>5, <1>6 DEF BuffersAccounted
  <2>2. CachedId \in Ids
    BY <1>1, <1>6 DEF IdsAreOld
  <2>3. size \in Ids
    BY <1>1, <2>1 DEF RuntimeTypeOK
  <2>4. QED
    BY <2>1, <2>2, <2>3
<1>8. entry \in Kept
  BY <1>1, <1>7 DEF Kept, Watermark, RuntimeTypeOK
<1>9. cached \in Seq(Kept) /\ n \in Nat /\ cachedBytes \in Nat
  BY <1>1 DEF RuntimeTypeOK
<1>10. /\ cached' \in Seq(Kept) /\ Len(cached') = n + 1
       /\ cached'[n + 1] = entry /\ \A k \in 1..n : cached'[k] = cached[k]
  BY <1>3, <1>8, <1>9
<1>11. 1..Len(cached') = 1..n \cup {n + 1}
  BY <1>9, <1>10
<1>12. CachedIds' = CachedIds \cup {CachedId}
  BY <1>10, <1>11 DEF CachedIds
<1>13. /\ Live' = Live /\ LiveIds' = LiveIds /\ LiveImages' = LiveImages /\ ImageIds' = ImageIds
       /\ RetiredIds' = RetiredIds /\ InFlightIds' = InFlightIds /\ completed' = completed
  BY <1>2 DEF Live, LiveIds, LiveImages, ImageIds, RetiredIds, InFlightIds, completed,
              runtimeObjects
<1>14. OwnedIds' = LiveIds \ {CachedId} /\ CachedId \in LiveIds
  <2>1. Owners' = Live \ {h} /\ UNCHANGED buffers
    BY <1>2, <1>4, <1>13 DEF Owners, GivesUp, runtimeObjects
  <2>2. \A g \in Live \ {h} : buffers[g].id # CachedId
    BY <1>2 DEF Shared, CachedId
  <2>3. QED
    BY <1>2, <1>6, <2>1, <2>2 DEF OwnedIds, LiveIds, CachedId
<1>15. RuntimeTypeOK'
  <2>1. cachedBytes' \in Nat
    BY <1>3, <1>7, <1>9 DEF Ids
  <2>2. QED
    BY <1>1, <1>2, <1>4, <1>10, <2>1 DEF RuntimeTypeOK, runtimeObjects, tableVars
<1>16. IdsAreOld'
  BY <1>1, <1>2, <1>6, <1>12, <1>13 DEF IdsAreOld, tableVars
<1>17. SharingIsBound'
  BY <1>1, <1>2, <1>13 DEF SharingIsBound, runtimeObjects
<1>18. OperandsStay'
  <2>1. OperandsFit(worker.op)'
    BY <1>1, <1>2, <1>4, <1>13 DEF OperandsStay, OperandsFit, runtimeObjects
  <2>2. ~Shared(h)' /\ (worker.op.kind = "bind" => BoundTo(worker.op.memory) # {})'
    BY <1>1, <1>2, <1>4, <1>13 DEF OperandsStay, CachingStages, Shared, BoundTo, runtimeObjects
  <2>3. QED
    BY <1>2, <1>4, <2>1, <2>2 DEF OperandsStay, CachingStages
<1>19. (cachedBytes = BytesOf(cached))'
  <2>1. BytesOf(Append(cached, entry)) = BytesOf(cached) + entry.size
    BY <1>8, <1>9, BytesOfAppend
  <2>2. BytesOf(cached)' = BytesOf(Append(cached, entry))
    BY <1>3 DEF BytesOf
  <2>3. cachedBytes = BytesOf(cached)
    BY DEF RuntimeInv
  <2>4. QED
    BY <1>3, <2>1, <2>2, <2>3
<1>20. BuffersAccounted'
  <2>1. DOMAIN table' = OwnedIds' \cup CachedIds' /\ OwnedIds' \cap CachedIds' = {}
    BY <1>2, <1>5, <1>6, <1>12, <1>14 DEF BuffersAccounted, tableVars
  <2>2. ASSUME NEW j \in 1..Len(cached'), NEW k \in 1..Len(cached'), cached'[j].id = cached'[k].id
        PROVE  j = k
    <3>1. \A i \in 1..n : cached'[i].id # CachedId
      BY <1>7, <1>10 DEF CachedIds
    <3>2. cached'[n + 1].id = CachedId
      BY <1>10
    <3>3. CASE j \in 1..n /\ k \in 1..n
      BY <1>5, <1>10, <2>2, <3>3 DEF BuffersAccounted
    <3>4. CASE j = n + 1 \/ k = n + 1
      BY <1>11, <2>2, <3>1, <3>2, <3>4
    <3>5. QED
      BY <1>11, <3>3, <3>4
  <2>3. QED
    BY <2>1, <2>2 DEF BuffersAccounted
<1>21. ImagesAccounted'
  BY <1>2, <1>5, <1>13 DEF ImagesAccounted, tableVars, runtimeObjects
<1>22. ReleasedIsGone'
  BY <1>2, <1>5, <1>6, <1>12, <1>13, <1>14 DEF ReleasedIsGone
<1>23. WithinBudget'
  <2>1. Len(cached') <= CacheCapacity
    <3>1. CASE cached = << >>
      BY <1>9, <1>10, <3>1, CacheAssumption
    <3>2. CASE ~Full(size)
      BY <1>5, <1>9, <1>10, <3>2, CacheAssumption DEF Full, WithinBudget
    <3>3. QED
      BY <1>2, <1>5, <3>1, <3>2 DEF WithinBudget
  <2>2. worker'.stage # "oversize" => cachedBytes' <= CacheBytes
    BY <1>3, <1>4, <1>7, <1>9, CacheAssumption DEF Ids
  <2>3. Len(retired') < RetirementBatch /\ worker'.stage # "cache"
    BY <1>2, <1>4, <1>5 DEF WithinBudget
  <2>4. QED
    BY <2>1, <2>2, <2>3 DEF WithinBudget
<1>24. WatermarksCover'
  <2>1. ASSUME NEW k \in 1..Len(cached'), NEW p \in 1..Len(gpu'), cached'[k].id \in gpu'[p]
        PROVE  completed' + p <= cached'[k].after
    <3>1. CASE k \in 1..n
      BY <1>1, <1>2, <1>10, <1>13, <2>1, <3>1 DEF WatermarksCover
    <3>2. CASE k = n + 1
      <4>1. cached'[k].after = submitted /\ gpu' = gpu /\ Len(gpu) \in Nat /\ submitted \in Nat
        BY <1>1, <1>2, <1>10, <3>2 DEF Watermark, RuntimeTypeOK
      <4>2. QED
        BY <1>13, <4>1 DEF completed
    <3>3. QED
      BY <1>11, <3>1, <3>2
  <2>2. QED
    BY <2>1 DEF WatermarksCover
<1>25. QED
  BY <1>15, <1>16, <1>17, <1>18, <1>19, <1>20, <1>21, <1>22, <1>23, <1>24 DEF RuntimeInv

-----------------------------------------------------------------------------
(* Release, with the device lost when it fails.                            *)

\* Losing the device with some objects released keeps it.
LEMMA LossKeeps ==
  ASSUME RuntimeInv,
         UNCHANGED <<runtimeObjects, tableVars, cacheVars, retired, submitted, gpu>>,
         runtimeLost' = TRUE,
         worker' \in [stage : Stages, op : Ops], worker'.stage \in {"idle", "after", "reclaim"},
         released' \subseteq released \cup CachedIds \cup RetiredIds
  PROVE  RuntimeInv'
<1> USE DEF runtimeObjects, tableVars, cacheVars
<1>1. RuntimeTypeOK'
  BY DEF RuntimeInv, RuntimeTypeOK
<1>2. /\ Live' = Live /\ LiveIds' = LiveIds /\ LiveImages' = LiveImages /\ ImageIds' = ImageIds
      /\ CachedIds' = CachedIds /\ RetiredIds' = RetiredIds /\ InFlightIds' = InFlightIds
      /\ completed' = completed
  BY DEF Live, LiveImages, CachedIds, LiveIds, ImageIds, RetiredIds, InFlightIds, completed
<1>3. IdsAreOld'
  BY <1>2 DEF RuntimeInv, IdsAreOld
<1>4. SharingIsBound'
  BY <1>2 DEF RuntimeInv, SharingIsBound
<1>5. OperandsStay'
  BY DEF OperandsStay, OpStages, CachingStages
<1>6. (cachedBytes = BytesOf(cached))'
  BY DEF RuntimeInv, BytesOf
<1>7. WatermarksCover'
  BY <1>2 DEF RuntimeInv, WatermarksCover
<1>8. ~Trusted'
  BY DEF Trusted, OpStages
<1>9. QED
  BY <1>1, <1>3, <1>4, <1>5, <1>6, <1>7, <1>8 DEF RuntimeInv

\* A failed flush released objects that were given up.
LEMMA SomeAreReleased ==
  ASSUME RuntimeTypeOK
  PROVE  /\ \A n \in 0..Len(cached) : {cached[k].id : k \in 1..n} \subseteq CachedIds
         /\ \A n \in 0..Len(retired) : {retired[k] : k \in 1..n} \subseteq RetiredIds
<1>1. Len(cached) \in Nat /\ Len(retired) \in Nat
  BY KeptIds
<1>2. /\ \A n \in 0..Len(cached) : \A k \in 1..n : k \in 1..Len(cached)
      /\ \A n \in 0..Len(retired) : \A k \in 1..n : k \in 1..Len(retired)
  BY <1>1
<1>3. QED
  BY <1>2 DEF CachedIds, RetiredIds

\* The cache is emptied in the middle of an operation.
LEMMA FlushCachedKeeps ==
  ASSUME RuntimeInv, NEW next \in {"define", "cache", "rest"}, FlushCached(next),
         worker.stage = (CASE next = "define" -> "pressure"
                           [] next = "cache" -> "evict"
                           [] next = "rest" -> "oversize")
  PROVE  RuntimeInv'
<1>1. RuntimeTypeOK /\ IdsAreOld /\ SharingIsBound /\ OperandsStay /\ WatermarksCover
  BY DEF RuntimeInv
<1>2. UNCHANGED <<runtimeObjects, textures, nextId, retired, submitted, gpu>>
  BY DEF FlushCached
<1>3. CASE /\ \E n \in 0..Len(cached) : released' = released \cup {cached[k].id : k \in 1..n}
           /\ ReleaseFailed /\ Goto("after") /\ UNCHANGED <<table, cacheVars>>
  <2>1. released' \subseteq released \cup CachedIds
    BY <1>1, <1>3, SomeAreReleased
  <2>2. worker' \in [stage : Stages, op : Ops] /\ worker'.stage = "after"
    BY <1>1, <1>3, WorkerGoes DEF Stages
  <2>3. QED
    BY <1>2, <1>3, <2>1, <2>2, LossKeeps DEF ReleaseFailed, tableVars
<1>4. CASE /\ released' = released \cup CachedIds
           /\ table' = WithoutKeys(table, CachedIds)
           /\ cached' = << >> /\ cachedBytes' = 0
           /\ Goto(next)
           /\ UNCHANGED runtimeLost
  <2>1. /\ worker' \in [stage : Stages, op : Ops] /\ worker'.op = worker.op /\ worker'.stage = next
    BY <1>1, <1>4, WorkerGoes DEF Stages, OpStages
  <2>2. Trusted /\ BuffersAccounted /\ ImagesAccounted /\ ReleasedIsGone /\ WithinBudget
    BY DEF RuntimeInv, Trusted, OpStages
  <2>3. /\ Live' = Live /\ LiveIds' = LiveIds /\ LiveImages' = LiveImages /\ ImageIds' = ImageIds
        /\ RetiredIds' = RetiredIds /\ InFlightIds' = InFlightIds /\ completed' = completed
    BY <1>2 DEF Live, LiveIds, LiveImages, ImageIds, RetiredIds, InFlightIds, completed,
                runtimeObjects
  <2>4. Owners' = Owners /\ OwnedIds' = OwnedIds
    BY <1>2, <2>1, <2>3 DEF OwnedIds, Owners, GivesUp, runtimeObjects
  <2>5. Len(cached') = 0 /\ CachedIds' = {}
    BY <1>4 DEF CachedIds
  <2>6. DOMAIN table' = DOMAIN table \ CachedIds /\ \A x \in DOMAIN table' : table'[x] = table[x]
    BY <1>4 DEF WithoutKeys
  <2>7. RuntimeTypeOK'
    <3>1. cached' \in Seq(Kept) /\ cachedBytes' \in Nat
      BY <1>4
    <3>2. QED
      BY <1>1, <1>2, <1>4, <2>1, <2>6, <3>1 DEF RuntimeTypeOK, runtimeObjects
  <2>8. IdsAreOld'
    BY <1>1, <1>2, <1>4, <2>3, <2>5, <2>6 DEF IdsAreOld
  <2>9. SharingIsBound'
    BY <1>1, <1>2, <2>3 DEF SharingIsBound, runtimeObjects
  <2>10. OperandsStay'
    <3>1. OperandsFit(worker.op)
      BY <1>1 DEF OperandsStay, OpStages
    <3>2. OperandsFit(worker.op)'
      BY <1>2, <2>1, <2>3, <3>1 DEF OperandsFit, runtimeObjects
    <3>3. Shared(worker.op.handle)' = Shared(worker.op.handle)
      BY <1>2, <2>1, <2>3 DEF Shared, runtimeObjects
    <3>4. BoundTo(worker.op.memory)' = BoundTo(worker.op.memory)
      BY <1>2, <2>1, <2>3 DEF BoundTo, runtimeObjects
    <3>5. CASE next = "define"
      BY <1>1, <2>1, <3>2, <3>5 DEF OperandsStay, CachingStages
    <3>6. CASE next = "cache"
      BY <1>1, <2>1, <3>2, <3>3, <3>4, <3>6 DEF OperandsStay, CachingStages
    <3>7. CASE next = "rest"
      BY <1>1, <2>1, <3>2, <3>4, <3>7 DEF OperandsStay, CachingStages
    <3>8. QED
      BY <3>5, <3>6, <3>7
  <2>11. (cachedBytes = BytesOf(cached))'
    BY <1>4, BytesOfEmpty
  <2>12. BuffersAccounted'
    BY <2>2, <2>4, <2>5, <2>6 DEF BuffersAccounted
  <2>13. ImagesAccounted'
    BY <1>2, <2>2, <2>3, <2>6 DEF ImagesAccounted, runtimeObjects
  <2>14. ReleasedIsGone'
    <3>1. ImageIds \cap CachedIds = {} /\ OwnedIds \cap CachedIds = {}
      BY <2>2 DEF ImagesAccounted, BuffersAccounted
    <3>2. QED
      BY <1>4, <2>2, <2>3, <2>4, <2>5, <3>1 DEF ReleasedIsGone
  <2>15. WithinBudget'
    <3>1. Len(cached') <= CacheCapacity /\ cachedBytes' <= CacheBytes /\ cached' = << >>
      BY <1>4, <2>5, CacheAssumption
    <3>2. Len(retired') < RetirementBatch
      BY <1>2, <2>2 DEF WithinBudget
    <3>3. QED
      BY <3>1, <3>2 DEF WithinBudget
  <2>16. WatermarksCover'
    BY <2>5 DEF WatermarksCover
  <2>17. QED
    BY <2>7, <2>8, <2>9, <2>10, <2>11, <2>12, <2>13, <2>14, <2>15, <2>16 DEF RuntimeInv
<1>5. QED
  BY <1>3, <1>4 DEF FlushCached

\* The batch of retired images is released around an operation.
LEMMA ReleaseImagesKeeps ==
  ASSUME RuntimeInv, NEW next \in {"body", "reclaim"}, ReleaseImages(next, "reclaim"),
         worker.stage = IF next = "body" THEN "images" ELSE "after"
  PROVE  RuntimeInv'
<1>1. RuntimeTypeOK /\ IdsAreOld /\ SharingIsBound /\ OperandsStay /\ WatermarksCover
  BY DEF RuntimeInv
<1>2. UNCHANGED <<runtimeObjects, table, nextId, cacheVars, submitted, gpu>>
  BY DEF ReleaseImages
<1>3. CASE /\ \E n \in 0..Len(retired) : released' = released \cup {retired[k] : k \in 1..n}
           /\ ReleaseFailed /\ Goto("reclaim") /\ UNCHANGED <<textures, retired>>
  <2>1. released' \subseteq released \cup RetiredIds
    BY <1>1, <1>3, SomeAreReleased
  <2>2. worker' \in [stage : Stages, op : Ops] /\ worker'.stage = "reclaim"
    BY <1>1, <1>3, WorkerGoes DEF Stages
  <2>3. QED
    BY <1>2, <1>3, <2>1, <2>2, LossKeeps DEF ReleaseFailed, tableVars
<1>4. CASE /\ released' = released \cup RetiredIds
           /\ textures' = textures \ RetiredIds
           /\ retired' = << >>
           /\ UNCHANGED runtimeLost
           /\ Goto(next)
  <2>1. /\ worker' \in [stage : Stages, op : Ops] /\ worker'.op = worker.op /\ worker'.stage = next
    BY <1>1, <1>4, WorkerGoes DEF Stages, OpStages
  <2>2. /\ Live' = Live /\ LiveIds' = LiveIds /\ LiveImages' = LiveImages /\ ImageIds' = ImageIds
        /\ CachedIds' = CachedIds /\ InFlightIds' = InFlightIds /\ completed' = completed
    BY <1>2 DEF Live, LiveIds, LiveImages, ImageIds, CachedIds, InFlightIds, completed,
                runtimeObjects, cacheVars
  <2>3. OwnedIds' = OwnedIds
    BY <1>2, <2>1, <2>2 DEF OwnedIds, Owners, GivesUp, runtimeObjects
  <2>4. Len(retired') = 0 /\ RetiredIds' = {}
    BY <1>4 DEF RetiredIds
  <2>5. RuntimeTypeOK'
    <3>1. retired' \in Seq(Ids)
      BY <1>4
    <3>2. QED
      BY <1>1, <1>2, <1>4, <2>1, <3>1 DEF RuntimeTypeOK, runtimeObjects, cacheVars
  <2>6. IdsAreOld'
    BY <1>1, <1>2, <1>4, <2>2, <2>4 DEF IdsAreOld
  <2>7. SharingIsBound'
    BY <1>1, <1>2, <2>2 DEF SharingIsBound, runtimeObjects
  <2>8. OperandsStay'
    <3>1. next = "body" => OperandsFit(worker.op)
      BY <1>1 DEF OperandsStay, OpStages
    <3>2. next = "body" => OperandsFit(worker.op)'
      BY <1>2, <2>1, <2>2, <3>1 DEF OperandsFit, runtimeObjects
    <3>3. QED
      BY <2>1, <3>2 DEF OperandsStay, OpStages, CachingStages
  <2>9. (cachedBytes = BytesOf(cached))'
    BY <1>2 DEF RuntimeInv, BytesOf, cacheVars
  <2>10. WatermarksCover'
    BY <1>1, <1>2, <2>2 DEF WatermarksCover, cacheVars
  <2>11. ASSUME Trusted'
         PROVE  (BuffersAccounted /\ ImagesAccounted /\ ReleasedIsGone /\ WithinBudget)'
    <3>1. Trusted
      BY <1>4, <2>1, <2>11 DEF Trusted, OpStages
    <3>2. BuffersAccounted /\ ImagesAccounted /\ ReleasedIsGone /\ WithinBudget
      BY <3>1 DEF RuntimeInv
    <3>3. BuffersAccounted'
      BY <1>2, <2>2, <2>3, <3>2 DEF BuffersAccounted, cacheVars
    <3>4. ImagesAccounted'
      BY <1>2, <1>4, <2>2, <2>4, <3>2 DEF ImagesAccounted, runtimeObjects
    <3>5. ReleasedIsGone'
      <4>1. (OwnedIds \cup CachedIds) \cap RetiredIds = {} /\ ImageIds \cap RetiredIds = {}
        BY <3>2 DEF BuffersAccounted, ImagesAccounted
      <4>2. QED
        BY <1>4, <2>2, <2>3, <3>2, <4>1 DEF ReleasedIsGone
    <3>6. WithinBudget'
      <4>1. Len(retired') < RetirementBatch
        BY <2>4, CacheAssumption
      <4>2. Len(cached') <= CacheCapacity /\ cachedBytes' <= CacheBytes /\ worker'.stage # "cache"
        BY <1>2, <2>1, <3>2 DEF WithinBudget, cacheVars
      <4>3. QED
        BY <4>1, <4>2 DEF WithinBudget
    <3>7. QED
      BY <3>3, <3>4, <3>5, <3>6
  <2>12. QED
    BY <2>5, <2>6, <2>7, <2>8, <2>9, <2>10, <2>11 DEF RuntimeInv
<1>5. QED
  BY <1>3, <1>4 DEF ReleaseImages

\* Every flush keeps it, whether it succeeds or fails.
LEMMA FlushesKeep ==
  ASSUME RuntimeInv, FlushBefore \/ FlushAfter \/ FlushForDefinition \/ FlushForCaching \/ FlushOversize
  PROVE  RuntimeInv'
<1>1. CASE FlushBefore
  BY <1>1, ReleaseImagesKeeps DEF FlushBefore
<1>2. CASE FlushAfter
  BY <1>2, ReleaseImagesKeeps DEF FlushAfter
<1>3. CASE FlushForDefinition
  BY <1>3, FlushCachedKeeps DEF FlushForDefinition
<1>4. CASE FlushForCaching
  BY <1>4, FlushCachedKeeps DEF FlushForCaching
<1>5. CASE FlushOversize
  BY <1>5, FlushCachedKeeps DEF FlushOversize
<1>6. QED
  BY <1>1, <1>2, <1>3, <1>4, <1>5

\* The end of an epoch: no object is left, nothing is in flight, and the whole
\* table goes.
LEMMA ReclaimKeeps ==
  ASSUME RuntimeInv, Reclaim
  PROVE  RuntimeInv'
<1>1. RuntimeTypeOK /\ IdsAreOld /\ SharingIsBound /\ WatermarksCover
  BY DEF RuntimeInv
<1>2. /\ worker.stage = "reclaim" /\ UNCHANGED <<runtimeObjects, nextId, retired, submitted, gpu>>
      /\ worker' = [stage |-> "idle", op |-> NoOp]
  BY DEF Reclaim
<1>3. worker' \in [stage : Stages, op : Ops] /\ worker'.stage = "idle"
  BY <1>2 DEF Stages, Ops, NoOp, Op, OpKinds, None
<1>4. /\ Live' = Live /\ LiveIds' = LiveIds /\ LiveImages' = LiveImages /\ ImageIds' = ImageIds
      /\ RetiredIds' = RetiredIds /\ InFlightIds' = InFlightIds /\ completed' = completed
  BY <1>2 DEF Live, LiveIds, LiveImages, ImageIds, RetiredIds, InFlightIds, completed,
              runtimeObjects
<1>5. OwnedIds' = OwnedIds
  BY <1>2, <1>3, <1>4 DEF OwnedIds, Owners, GivesUp, runtimeObjects
<1>6. CASE /\ ~EpochOver /\ UNCHANGED <<table, textures, cacheVars, released, runtimeLost>>
  <2>1. UNCHANGED <<runtimeObjects, tableVars, cacheVars, retired, runtimeLost, submitted, gpu,
                    released>>
    BY <1>2, <1>6 DEF tableVars
  <2>2. /\ RuntimeTypeOK' /\ IdsAreOld' /\ SharingIsBound'
        /\ (cachedBytes = BytesOf(cached))' /\ WatermarksCover'
    BY <1>3, <2>1, WorkerOnly
  <2>3. OperandsStay'
    BY <1>3 DEF OperandsStay, OpStages, CachingStages
  <2>4. ASSUME Trusted'
        PROVE  (BuffersAccounted /\ ImagesAccounted /\ ReleasedIsGone /\ WithinBudget)'
    <3>1. Trusted /\ WithinBudget
      BY <1>3, <1>6, <2>4 DEF Trusted, OpStages, RuntimeInv
    <3>2. WithinBudget'
      BY <1>2, <1>3, <2>1, <3>1 DEF WithinBudget, cacheVars
    <3>3. QED
      BY <1>3, <1>5, <2>1, <3>1, <3>2, OwnersStay
  <2>5. QED
    BY <2>2, <2>3, <2>4 DEF RuntimeInv
<1>7. CASE EpochOver /\ runtimeLost' = TRUE /\ UNCHANGED <<table, textures, cacheVars, released>>
  BY <1>2, <1>3, <1>7, LossKeeps DEF tableVars
<1>8. CASE /\ EpochOver
           /\ table' = [x \in {} |-> 0] /\ textures' = {}
           /\ cached' = << >> /\ cachedBytes' = 0
           /\ released' = released \cup DOMAIN table \cup textures
           /\ UNCHANGED runtimeLost
  <2>1. Live = {} /\ LiveImages = {} /\ retired = << >>
    BY <1>8 DEF EpochOver
  <2>2. LiveIds = {} /\ ImageIds = {} /\ RetiredIds = {} /\ OwnedIds = {}
    BY <2>1, RetiredMayBeNone DEF LiveIds, ImageIds, OwnedIds, Owners
  <2>3. Len(cached') = 0 /\ CachedIds' = {} /\ DOMAIN table' = {}
    BY <1>8 DEF CachedIds
  <2>4. RuntimeTypeOK'
    <3>1. cached' \in Seq(Kept) /\ cachedBytes' \in Nat
      BY <1>8
    <3>2. QED
      BY <1>1, <1>2, <1>3, <1>8, <2>3, <3>1 DEF RuntimeTypeOK, runtimeObjects
  <2>5. IdsAreOld'
    BY <1>1, <1>2, <1>4, <1>8, <2>3 DEF IdsAreOld
  <2>6. SharingIsBound'
    BY <1>1, <1>2, <1>4 DEF SharingIsBound, runtimeObjects
  <2>7. OperandsStay'
    BY <1>3 DEF OperandsStay, OpStages, CachingStages
  <2>8. (cachedBytes = BytesOf(cached))'
    BY <1>8, BytesOfEmpty
  <2>9. WatermarksCover'
    BY <2>3 DEF WatermarksCover
  <2>10. BuffersAccounted' /\ ImagesAccounted' /\ ReleasedIsGone'
    <3>1. BuffersAccounted'
      BY <1>5, <2>2, <2>3 DEF BuffersAccounted
    <3>2. ImagesAccounted'
      BY <1>4, <1>8, <2>1, <2>2 DEF ImagesAccounted
    <3>3. ReleasedIsGone'
      BY <1>4, <1>5, <2>2, <2>3 DEF ReleasedIsGone
    <3>4. QED
      BY <3>1, <3>2, <3>3
  <2>11. WithinBudget'
    <3>1. Len(retired') = 0
      BY <1>2, <2>1
    <3>2. QED
      BY <1>3, <1>8, <2>3, <3>1, CacheAssumption DEF WithinBudget
  <2>12. QED
    BY <2>4, <2>5, <2>6, <2>7, <2>8, <2>9, <2>10, <2>11 DEF RuntimeInv
<1>9. QED
  BY <1>6, <1>7, <1>8 DEF Reclaim

-----------------------------------------------------------------------------
(* Execution and completion.                                               *)

\* Submitting a packet keeps it.
LEMMA ExecutePacketKeeps ==
  ASSUME RuntimeInv, ExecutePacket
  PROVE  RuntimeInv'
<1> DEFINE used == {buffers[h].id : h \in worker.op.handles} \cup {images[i] : i \in worker.op.images}
           n == Len(gpu)
<1>1. RuntimeTypeOK /\ IdsAreOld /\ SharingIsBound /\ WatermarksCover
  BY DEF RuntimeInv
<1>2. /\ worker.stage = "body" /\ worker.op.handles \subseteq Live
      /\ worker.op.images \subseteq LiveImages
      /\ gpu' = Append(gpu, used) /\ submitted' = submitted + 1
      /\ UNCHANGED <<runtimeObjects, tableVars, cacheVars, retired, runtimeLost, released>>
  BY DEF ExecutePacket, RuntimeInv, OperandsStay, OperandsFit, OpStages
<1>3. worker' \in [stage : Stages, op : Ops] /\ worker'.stage = "after"
  BY <1>1, WorkerGoes DEF ExecutePacket, Stages
<1>4. BuffersAccounted /\ ImagesAccounted /\ ReleasedIsGone /\ WithinBudget
  BY <1>2 DEF RuntimeInv, Trusted, OpStages
<1>5. used \subseteq LiveIds \cup ImageIds
  BY <1>2 DEF LiveIds, ImageIds
<1>6. \A x \in used : x \in Ids /\ x < nextId
  BY <1>1, <1>5 DEF IdsAreOld
<1>7. /\ gpu \in Seq(SUBSET Nat) /\ n \in Nat /\ submitted \in Nat /\ n <= submitted
      /\ used \in SUBSET Nat
  BY <1>1, <1>6 DEF RuntimeTypeOK, Ids
<1>8. /\ gpu' \in Seq(SUBSET Nat) /\ Len(gpu') = n + 1
      /\ gpu'[n + 1] = used /\ \A p \in 1..n : gpu'[p] = gpu[p]
      /\ 1..Len(gpu') = 1..n \cup {n + 1}
  BY <1>2, <1>7
<1>9. /\ Live' = Live /\ LiveIds' = LiveIds /\ LiveImages' = LiveImages /\ ImageIds' = ImageIds
      /\ RetiredIds' = RetiredIds /\ CachedIds' = CachedIds
  BY <1>2 DEF Live, LiveIds, LiveImages, ImageIds, RetiredIds, CachedIds, runtimeObjects, cacheVars
<1>10. completed' = completed
  BY <1>2, <1>7, <1>8 DEF completed
<1>11. InFlightIds' = InFlightIds \cup used
  BY <1>8 DEF InFlightIds
<1>12. OwnedIds' = OwnedIds /\ OwnedIds = LiveIds
  BY <1>2, <1>3, <1>9 DEF OwnedIds, Owners, GivesUp, runtimeObjects, LiveIds
<1>13. RuntimeTypeOK'
  <2>1. submitted' \in Nat /\ Len(gpu') <= submitted'
    BY <1>2, <1>7, <1>8
  <2>2. QED
    BY <1>1, <1>2, <1>3, <1>8, <2>1 DEF RuntimeTypeOK, runtimeObjects, tableVars, cacheVars
<1>14. IdsAreOld'
  BY <1>1, <1>2, <1>6, <1>9, <1>11 DEF IdsAreOld, tableVars
<1>15. SharingIsBound'
  BY <1>1, <1>2, <1>9 DEF SharingIsBound, runtimeObjects
<1>16. OperandsStay'
  BY <1>3 DEF OperandsStay, OpStages, CachingStages
<1>17. (cachedBytes = BytesOf(cached))'
  BY <1>2 DEF RuntimeInv, BytesOf, cacheVars
<1>18. BuffersAccounted'
  BY <1>2, <1>4, <1>9, <1>12 DEF BuffersAccounted, tableVars, cacheVars
<1>19. ImagesAccounted'
  BY <1>2, <1>4, <1>9 DEF ImagesAccounted, tableVars, runtimeObjects
<1>20. ReleasedIsGone'
  BY <1>2, <1>4, <1>9, <1>12 DEF ReleasedIsGone
<1>21. WithinBudget'
  BY <1>2, <1>3, <1>4 DEF WithinBudget, cacheVars
<1>22. WatermarksCover'
  <2>1. CachedIds \cap used = {}
    <3>1. CachedIds \cap LiveIds = {} /\ CachedIds \subseteq DOMAIN table
      BY <1>4, <1>12 DEF BuffersAccounted
    <3>2. ImageIds \cap DOMAIN table = {}
      BY <1>4 DEF ImagesAccounted
    <3>3. QED
      BY <1>5, <3>1, <3>2
  <2>2. ASSUME NEW k \in 1..Len(cached'), NEW p \in 1..Len(gpu'), cached'[k].id \in gpu'[p]
        PROVE  completed' + p <= cached'[k].after
    <3>1. cached'[k].id \in CachedIds /\ cached' = cached
      BY <1>2, <1>9 DEF CachedIds, cacheVars
    <3>2. p \in 1..n
      BY <1>8, <2>1, <2>2, <3>1
    <3>3. QED
      BY <1>1, <1>8, <1>10, <2>2, <3>1, <3>2 DEF WatermarksCover
  <2>3. QED
    BY <2>2 DEF WatermarksCover
<1>23. QED
  BY <1>13, <1>14, <1>15, <1>16, <1>17, <1>18, <1>19, <1>20, <1>21, <1>22 DEF RuntimeInv

\* A submission that fails keeps it.
LEMMA ExecutionFailsKeeps ==
  ASSUME RuntimeInv, ExecutionFails
  PROVE  RuntimeInv'
<1>1. worker' \in [stage : Stages, op : Ops] /\ worker'.stage = "after"
  BY WorkerGoes DEF ExecutionFails, Stages, RuntimeInv
<1>2. QED
  BY <1>1, LossKeeps DEF ExecutionFails

\* A completion on the GPU keeps it.
LEMMA CompleteKeeps ==
  ASSUME RuntimeInv, Complete
  PROVE  RuntimeInv'
<1> DEFINE n == Len(gpu)
<1>1. RuntimeTypeOK /\ IdsAreOld /\ SharingIsBound /\ OperandsStay /\ WatermarksCover
  BY DEF RuntimeInv
<1>2. /\ gpu # << >> /\ gpu' = Tail(gpu) /\ runtimeLost' \in {runtimeLost, TRUE}
      /\ UNCHANGED <<runtimeObjects, tableVars, cacheVars, retired, worker, submitted, released>>
  BY DEF Complete
<1>3. gpu \in Seq(SUBSET Nat) /\ n \in Nat /\ n # 0 /\ submitted \in Nat /\ n <= submitted
  BY <1>1, <1>2 DEF RuntimeTypeOK
<1>4. /\ gpu' \in Seq(SUBSET Nat) /\ Len(gpu') = n - 1
      /\ \A p \in 1..n - 1 : gpu'[p] = gpu[p + 1] /\ p + 1 \in 1..n
  BY <1>2, <1>3
<1>5. /\ Live' = Live /\ LiveIds' = LiveIds /\ LiveImages' = LiveImages /\ ImageIds' = ImageIds
      /\ RetiredIds' = RetiredIds /\ CachedIds' = CachedIds
  BY <1>2 DEF Live, LiveIds, LiveImages, ImageIds, RetiredIds, CachedIds, runtimeObjects, cacheVars
<1>6. completed' = completed + 1
  BY <1>2, <1>3, <1>4 DEF completed
<1>7. InFlightIds' \subseteq InFlightIds
  BY <1>4 DEF InFlightIds
<1>8. OwnedIds' = OwnedIds
  BY <1>2, <1>5 DEF OwnedIds, Owners, GivesUp, runtimeObjects
<1>9. RuntimeTypeOK'
  <2>1. Len(gpu') <= submitted' /\ runtimeLost' \in BOOLEAN
    <3>1. Len(gpu') <= submitted'
      BY <1>2, <1>3, <1>4
    <3>2. runtimeLost' \in BOOLEAN
      BY <1>1, <1>2 DEF RuntimeTypeOK
    <3>3. QED
      BY <3>1, <3>2
  <2>2. QED
    BY <1>1, <1>2, <1>4, <2>1 DEF RuntimeTypeOK, runtimeObjects, tableVars, cacheVars
<1>10. IdsAreOld'
  BY <1>1, <1>2, <1>5, <1>7 DEF IdsAreOld, tableVars
<1>11. SharingIsBound'
  BY <1>1, <1>2, <1>5 DEF SharingIsBound, runtimeObjects
<1>12. OperandsStay'
  <2>1. worker.stage \in OpStages => OperandsFit(worker.op)'
    BY <1>1, <1>2, <1>5 DEF OperandsStay, OperandsFit, runtimeObjects
  <2>2. Shared(worker.op.handle)' = Shared(worker.op.handle)
        /\ BoundTo(worker.op.memory)' = BoundTo(worker.op.memory)
    BY <1>2, <1>5 DEF Shared, BoundTo, runtimeObjects
  <2>3. QED
    BY <1>1, <1>2, <2>1, <2>2 DEF OperandsStay
<1>13. (cachedBytes = BytesOf(cached))'
  BY <1>2 DEF RuntimeInv, BytesOf, cacheVars
<1>14. ASSUME Trusted'
       PROVE  (BuffersAccounted /\ ImagesAccounted /\ ReleasedIsGone /\ WithinBudget)'
  <2>1. Trusted
    BY <1>2, <1>14 DEF Trusted
  <2>2. BuffersAccounted /\ ImagesAccounted /\ ReleasedIsGone /\ WithinBudget
    BY <2>1 DEF RuntimeInv
  <2>3. BuffersAccounted'
    BY <1>2, <1>5, <1>8, <2>2 DEF BuffersAccounted, tableVars, cacheVars
  <2>4. ImagesAccounted'
    BY <1>2, <1>5, <2>2 DEF ImagesAccounted, tableVars, runtimeObjects
  <2>5. ReleasedIsGone'
    BY <1>2, <1>5, <1>8, <2>2 DEF ReleasedIsGone
  <2>6. WithinBudget'
    BY <1>2, <2>2 DEF WithinBudget, cacheVars, runtimeObjects, tableVars, Full, CachedId
  <2>7. QED
    BY <2>3, <2>4, <2>5, <2>6
<1>15. WatermarksCover'
  <2>1. ASSUME NEW k \in 1..Len(cached'), NEW p \in 1..Len(gpu'), cached'[k].id \in gpu'[p]
        PROVE  completed' + p <= cached'[k].after
    <3>1. cached' = cached /\ cached[k].id \in gpu[p + 1] /\ p + 1 \in 1..n
      BY <1>2, <1>4, <2>1 DEF cacheVars
    <3>2. completed + (p + 1) <= cached[k].after
      BY <1>1, <3>1 DEF WatermarksCover
    <3>3. completed \in Nat /\ p \in Nat
      BY <1>3, <1>4 DEF completed
    <3>4. (completed + 1) + p = completed + (p + 1)
      BY <3>3
    <3>5. QED
      BY <1>6, <3>1, <3>2, <3>4
  <2>2. QED
    BY <2>1 DEF WatermarksCover
<1>16. QED
  BY <1>9, <1>10, <1>11, <1>12, <1>13, <1>14, <1>15 DEF RuntimeInv

-----------------------------------------------------------------------------
(* The invariant of every behaviour.                                       *)

\* The invariant holds at first.
LEMMA RuntimeInitKeeps ==
  ASSUME RuntimeInit
  PROVE  RuntimeInv
<1>1. Live = {} /\ LiveImages = {} /\ cached = << >> /\ retired = << >> /\ gpu = << >>
      /\ worker = [stage |-> "idle", op |-> NoOp] /\ DOMAIN table = {}
  BY DEF RuntimeInit, Live, LiveImages
<1>2. /\ LiveIds = {} /\ ImageIds = {} /\ RetiredIds = {} /\ CachedIds = {} /\ OwnedIds = {}
      /\ InFlightIds = {} /\ Len(cached) = 0 /\ Len(retired) = 0
  <2>1. Len(cached) = 0 /\ Len(retired) = 0 /\ Len(gpu) = 0
    BY <1>1
  <2>2. QED
    BY <1>1, <2>1 DEF LiveIds, ImageIds, RetiredIds, CachedIds, OwnedIds, Owners, InFlightIds
<1>3. RuntimeTypeOK
  <2>1. worker \in [stage : Stages, op : Ops]
    BY <1>1 DEF Stages, Ops, NoOp, Op, OpKinds, None
  <2>2. /\ cached \in Seq(Kept) /\ retired \in Seq(Ids) /\ gpu \in Seq(SUBSET Nat)
        /\ cachedBytes \in Nat /\ submitted \in Nat /\ Len(gpu) <= submitted /\ nextId \in Ids
    BY DEF RuntimeInit, Ids
  <2>3. /\ buffers \in [Handles -> [id : Nat, bound : Memories \cup {Unbound}]]
        /\ images \in [Images -> Nat]
    BY DEF RuntimeInit, NoBuffer
  <2>4. QED
    BY <1>1, <2>1, <2>2, <2>3 DEF RuntimeInit, RuntimeTypeOK
<1>4. IdsAreOld
  BY <1>1, <1>2 DEF RuntimeInit, IdsAreOld
<1>5. SharingIsBound
  BY <1>1 DEF RuntimeInit, SharingIsBound
<1>6. OperandsStay
  BY <1>1 DEF OperandsStay, OpStages, CachingStages
<1>7. cachedBytes = BytesOf(cached)
  BY BytesOfEmpty DEF RuntimeInit
<1>8. BuffersAccounted /\ ImagesAccounted /\ ReleasedIsGone /\ WatermarksCover
  <2>1. textures = {}
    BY DEF RuntimeInit
  <2>2. QED
    BY <1>1, <1>2, <2>1 DEF BuffersAccounted, ImagesAccounted, ReleasedIsGone, WatermarksCover
<1>9. WithinBudget
  BY <1>1, <1>2, CacheAssumption DEF RuntimeInit, WithinBudget
<1>10. QED
  BY <1>3, <1>4, <1>5, <1>6, <1>7, <1>8, <1>9 DEF RuntimeInv

\* Every step keeps the invariant.
LEMMA RuntimeStepKeeps ==
  ASSUME RuntimeInv, [RuntimeNext]_runtimeVars
  PROVE  RuntimeInv'
<1>1. CASE RequestStep
  BY <1>1, RequestStepKeeps
<1>2. CASE WorkerStep
  BY <1>2, FlushesKeep, NoFlushAfterKeeps, ReclaimKeeps, CreationMoves, CreateFromCacheKeeps,
     CreateByDefinitionKeeps, DestroyBufferKeeps, CacheBufferKeeps, RestKeeps, BindBufferKeeps,
     FreeMemoryKeeps, CreateImageKeeps, RetireImageKeeps, ExecutePacketKeeps, ExecutionFailsKeeps
  DEF WorkerStep
<1>3. CASE Complete
  BY <1>3, CompleteKeeps
<1>4. CASE UNCHANGED runtimeVars
  <2>1. UNCHANGED <<runtimeObjects, tableVars, cacheVars, retired, runtimeLost, submitted, gpu,
                    released>> /\ worker' = worker
    BY <1>4 DEF runtimeVars
  <2>2. worker' \in [stage : Stages, op : Ops]
    BY <2>1 DEF RuntimeInv, RuntimeTypeOK
  <2>3. /\ RuntimeTypeOK' /\ IdsAreOld' /\ SharingIsBound'
        /\ (cachedBytes = BytesOf(cached))' /\ WatermarksCover'
        /\ Live' = Live /\ LiveImages' = LiveImages
    BY <2>1, <2>2, WorkerOnly
  <2>4. OperandsStay'
    BY <2>1, <2>3 DEF RuntimeInv, OperandsStay, OperandsFit, Shared, BoundTo, runtimeObjects
  <2>5. ASSUME Trusted'
        PROVE  (BuffersAccounted /\ ImagesAccounted /\ ReleasedIsGone /\ WithinBudget)'
    <3>1. Trusted /\ WithinBudget
      BY <2>1, <2>5 DEF Trusted, RuntimeInv
    <3>2. OwnedIds' = OwnedIds
      BY <2>1, <2>3 DEF OwnedIds, Owners, GivesUp, runtimeObjects
    <3>3. WithinBudget'
      BY <2>1, <3>1 DEF WithinBudget, cacheVars, tableVars, runtimeObjects, Full, CachedId
    <3>4. QED
      BY <2>1, <2>2, <3>1, <3>2, <3>3, OwnersStay
  <2>6. QED
    BY <2>3, <2>4, <2>5 DEF RuntimeInv
<1>5. QED
  BY <1>1, <1>2, <1>3, <1>4 DEF RuntimeNext

(* Whatever fails and whenever submissions complete, the worker's          *)
(* ownership stays consistent: the inductive invariant.                    *)
THEOREM RuntimeCorrect == RuntimeSpec => []RuntimeInv
<1>1. RuntimeInit => RuntimeInv
  BY RuntimeInitKeeps
<1>2. ASSUME RuntimeInv, [RuntimeNext]_runtimeVars PROVE RuntimeInv'
  BY <1>2, RuntimeStepKeeps
<1>3. QED
  BY <1>1, <1>2, PTL DEF RuntimeSpec

\* As many identities as entries: none is cached twice.
LEMMA CachedOnce ==
  ASSUME RuntimeTypeOK, BuffersAccounted
  PROVE  Cardinality(CachedIds) = Len(cached)
<1> DEFINE n == Len(cached)
           f == [k \in 1..n |-> cached[k].id]
<1>1. n \in Nat
  BY KeptIds
<1>2. f \in Bijection(1..n, CachedIds)
  <2>1. f \in [1..n -> CachedIds]
    BY DEF CachedIds
  <2>2. \A j, k \in 1..n : f[j] = f[k] => j = k
    BY DEF BuffersAccounted
  <2>3. \A x \in CachedIds : \E k \in 1..n : f[k] = x
    BY DEF CachedIds
  <2>4. QED
    BY <2>1, <2>2, <2>3, Fun_IsBij
<1>3. ExistsBijection(1..n, CachedIds)
  BY <1>2 DEF ExistsBijection
<1>4. IsFiniteSet(1..n) /\ Cardinality(1..n) = n
  <2>1. 1 \in Int /\ n \in Int
    BY <1>1
  <2>2. IsFiniteSet(1..n) /\ Cardinality(1..n) = IF 1 > n THEN 0 ELSE n - 1 + 1
    BY <2>1, FS_Interval
  <2>3. QED
    BY <1>1, <2>2
<1>5. QED
  BY <1>3, <1>4, FS_Bijection

(* Nothing released is live or cached; between operations a working device *)
(* accounts for every identity of its table exactly once and its cache and *)
(* batch keep to their limits.                                             *)
THEOREM OwnershipSound == RuntimeSpec => []CacheInvariant
<1>1. ASSUME RuntimeInv PROVE CacheInvariant
  <2>1. RuntimeTypeOK /\ cachedBytes = BytesOf(cached)
    BY <1>1 DEF RuntimeInv
  <2>2. ASSUME worker.stage \in {"idle", "body"}, ~runtimeLost
        PROVE  /\ OwnedIds = LiveIds
               /\ BuffersAccounted /\ ImagesAccounted /\ ReleasedIsGone /\ WithinBudget
    BY <1>1, <2>2 DEF RuntimeInv, Trusted, OwnedIds, Owners, GivesUp, LiveIds
  <2>3. NothingReleasedIsLive
    BY <2>2 DEF NothingReleasedIsLive, ReleasedIsGone, ImageIds
  <2>4. EveryIdentityIsOwned
    BY <2>1, <2>2, CachedOnce DEF EveryIdentityIsOwned, BuffersAccounted, ImagesAccounted, ImageIds
  <2>5. CacheWithinBudget
    BY <2>1, <2>2 DEF CacheWithinBudget, WithinBudget
  <2>6. QED
    BY <2>3, <2>4, <2>5 DEF CacheInvariant
<1>2. QED
  BY <1>1, RuntimeCorrect, PTL

\* With nothing submitted no object is in flight.
LEMMA NothingInFlight == gpu = << >> => InFlightIds = {}
<1>1. gpu = << >> => Len(gpu) = 0
  OBVIOUS
<1>2. QED
  BY <1>1 DEF InFlightIds

\* A handle gets an object that no submission in flight uses.
LEMMA ReuseStep ==
  ASSUME RuntimeInv, [RuntimeNext]_runtimeVars, NEW h \in Handles,
         buffers[h] = NoBuffer, buffers'[h] # NoBuffer
  PROVE  buffers'[h].id \notin InFlightIds
<1>1. RuntimeTypeOK /\ IdsAreOld /\ OperandsStay /\ WatermarksCover
  BY DEF RuntimeInv
<1>2. buffers \in [Handles -> [id : Nat, bound : Memories \cup {Unbound}]] /\ h \notin Live
  BY <1>1 DEF RuntimeTypeOK, Live
<1>3. buffers' # buffers
  OBVIOUS
<1>4. CASE CreateFromCache
  <2>1. PICK k \in 1..Len(cached) : Reusable(cached[k]) /\ Publish(worker.op.handle, cached[k].id)
    BY <1>1, <1>4, CandidateIsReusable
  <2>2. buffers'[h].id = cached[k].id
    BY <1>2, <2>1 DEF Publish
  <2>3. ASSUME NEW p \in 1..Len(gpu), cached[k].id \in gpu[p] PROVE FALSE
    <3>1. completed + p <= cached[k].after /\ cached[k].after <= completed
      BY <1>1, <2>1, <2>3 DEF WatermarksCover, Reusable
    <3>2. completed \in Int /\ p \in Nat /\ p > 0 /\ cached[k].after \in Nat
      <4>1. Len(gpu) \in Nat /\ submitted \in Nat /\ cached[k] \in Kept
        BY <1>1, KeptIds DEF RuntimeTypeOK
      <4>2. QED
        BY <4>1, KeptFields DEF completed
    <3>3. QED
      BY <3>1, <3>2
  <2>4. QED
    BY <2>2, <2>3 DEF InFlightIds
<1>5. CASE CreateByDefinition
  <2>1. buffers'[h].id = nextId
    BY <1>2, <1>5 DEF CreateByDefinition, Publish
  <2>2. nextId \in Ids /\ ~(nextId < nextId)
    BY <1>1 DEF RuntimeTypeOK, Ids
  <2>3. QED
    BY <1>1, <2>1, <2>2 DEF IdsAreOld
<1>6. CASE BindBuffer
  <2>1. worker.op.handle \in Live
    BY <1>1, <1>6 DEF BindBuffer, OperandsStay, OperandsFit, OpStages
  <2>2. QED
    BY <1>2, <1>3, <1>6, <2>1 DEF BindBuffer
<1>7. CASE Rest
  <2>1. worker.op.handle \in Live
    BY <1>1, <1>7 DEF Rest, OperandsStay, OperandsFit, OpStages, CachingStages
  <2>2. \A x : buffers' = [buffers EXCEPT ![worker.op.handle] = x] => buffers'[h] = buffers[h]
    BY <1>2, <2>1
  <2>3. QED
    BY <1>7, <2>2 DEF Rest
<1>8. CASE FreeMemory
  BY <1>2, <1>8 DEF FreeMemory
<1>9. ASSUME UNCHANGED buffers PROVE FALSE
  BY <1>3, <1>9
<1>10. QED
  BY <1>4, <1>5, <1>6, <1>7, <1>8, <1>9
  DEF RuntimeNext, RequestStep, WorkerStep, Start, FlushBefore, FlushAfter, NoFlushAfter, Reclaim,
      FlushForDefinition, FlushForCaching, FlushOversize, FlushCached, ReleaseImages,
      CreateRefused, CreateUnderPressure, DestroyBuffer, CacheBuffer, CreateImage, RetireImage,
      ExecutePacket, ExecutionFails, Complete, runtimeObjects, runtimeVars

\* An object is released when no submission in flight uses it.
LEMMA ReleaseStep ==
  ASSUME [RuntimeNext]_runtimeVars
  PROVE  (released' \ released) \cap InFlightIds = {}
<1>1. CASE released' = released
  BY <1>1
<1>2. CASE gpu = << >>
  BY <1>2, NothingInFlight
<1>3. QED
  BY <1>1, <1>2
  DEF RuntimeNext, RequestStep, WorkerStep, Start, FlushBefore, FlushAfter, NoFlushAfter, Reclaim,
      FlushForDefinition, FlushForCaching, FlushOversize, FlushCached, ReleaseImages, Idle, EpochOver,
      CreateRefused, CreateUnderPressure, DestroyBuffer, CacheBuffer, CreateImage, RetireImage,
      ExecutePacket, ExecutionFails, Complete, CreateFromCache, CreateByDefinition, BindBuffer, Rest,
      FreeMemory, runtimeVars

(* Neither reuse nor release overtakes the GPU: a buffer handed out is not *)
(* used by any submission in flight, and nothing in use is released.       *)
THEOREM RetirementFirst == RuntimeSpec => RetirementComesFirst
<1> DEFINE Reuse == \A h \in Handles :
                      buffers[h] = NoBuffer /\ buffers'[h] # NoBuffer =>
                        buffers'[h].id \notin InFlightIds
           Release == (released' \ released) \cap InFlightIds = {}
<1>1. ASSUME RuntimeInv, [RuntimeNext]_runtimeVars
      PROVE  [Reuse]_runtimeVars /\ [Release]_runtimeVars
  BY <1>1, ReuseStep, ReleaseStep
<1>2. QED
  BY <1>1, RuntimeCorrect, PTL DEF RuntimeSpec, RetirementComesFirst, ReuseAfterRetirement,
                                   ReleaseAfterRetirement

=============================================================================
