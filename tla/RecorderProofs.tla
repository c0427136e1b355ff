---------------------------- MODULE RecorderProofs ----------------------------
(***************************************************************************)
(* Proofs about the resource table of the IR and the command recorder over *)
(* it, for any capacities, descriptors, programs and limits.               *)
(***************************************************************************)
EXTENDS Recorder, FiniteSetTheorems, TLAPS

-----------------------------------------------------------------------------
(* The table.                                                              *)

(* The live identities of a kind are those that resolve.                   *)
LEMMA LiveMeans ==
    TableTypeOK =>
        \A kind \in SlotKinds :
            LiveIds(kind) = {id \in Ids : id.kind = kind /\ Resolves(id)}
<1> SUFFICES ASSUME TableTypeOK, NEW kind \in SlotKinds
             PROVE  LiveIds(kind) = {id \in Ids : id.kind = kind /\ Resolves(id)}
  OBVIOUS
<1>1. slots[kind] \in Seq(SlotsOf(kind))
  BY DEF TableTypeOK
<1>2. \A i \in 1..Len(slots[kind]) : slots[kind][i].gen \in 0..MaxGeneration
  <2>1. ASSUME NEW i \in 1..Len(slots[kind])
        PROVE  slots[kind][i] \in SlotsOf(kind)
    BY <1>1
  <2>2. QED
    BY <2>1 DEF SlotsOf
<1>3. ASSUME NEW id \in LiveIds(kind)
      PROVE  id \in Ids /\ id.kind = kind /\ Resolves(id)
  <2>1. PICK i \in 1..Len(slots[kind]) :
          slots[kind][i].desc # None /\ id = Id(kind, i, slots[kind][i].gen)
    BY <1>3 DEF LiveIds
  <2>2. i \in Nat
    BY <1>1, <2>1
  <2>3. id \in Ids
    BY <1>2, <2>1, <2>2 DEF Id, Ids
  <2>4. QED
    BY <2>1, <2>3, AbsenceAssumption DEF Id, Resolves, AbsenceAssumption
<1>4. ASSUME NEW id \in Ids, id.kind = kind, Resolves(id)
      PROVE  id \in LiveIds(kind)
  <2>1. id = Id(id.kind, id.index, id.gen)
    BY DEF Id, Ids
  <2>2. QED
    BY <1>4, <2>1 DEF LiveIds, Resolves
<1>5. QED
  BY <1>3, <1>4

LEMMA LiveMeansNext ==
    (TableTypeOK =>
        \A kind \in SlotKinds :
            LiveIds(kind) = {id \in Ids : id.kind = kind /\ Resolves(id)})'
BY LiveMeans, PTL

(* What the typing says of one slot.                                       *)
LEMMA SlotFacts ==
    ASSUME TableTypeOK, NEW kind \in SlotKinds
    PROVE  /\ slots[kind] \in Seq(SlotsOf(kind))
           /\ Len(slots[kind]) \in Nat
           /\ DOMAIN slots = SlotKinds
           /\ free[kind] \in Nat
           /\ \A i \in 1..Len(slots[kind]) :
                 /\ slots[kind][i] \in SlotsOf(kind)
                 /\ slots[kind][i].desc \in DescsOf(kind) \cup {None}
                 /\ slots[kind][i].gen \in 0..MaxGeneration
                 /\ slots[kind][i].next \in Nat
<1>1. slots[kind] \in Seq(SlotsOf(kind)) /\ free[kind] \in Nat /\ DOMAIN slots = SlotKinds
  BY DEF TableTypeOK
<1>2. Len(slots[kind]) \in Nat
  BY <1>1
<1>3. ASSUME NEW i \in 1..Len(slots[kind])
      PROVE  /\ slots[kind][i] \in SlotsOf(kind)
             /\ slots[kind][i].desc \in DescsOf(kind) \cup {None}
             /\ slots[kind][i].gen \in 0..MaxGeneration
             /\ slots[kind][i].next \in Nat
  <2>1. slots[kind][i] \in SlotsOf(kind)
    BY <1>1, <1>3
  <2>2. QED
    BY <2>1 DEF SlotsOf
<1>4. QED
  BY <1>1, <1>2, <1>3

LEMMA ReplaceOne ==
    ASSUME NEW S, NEW s \in Seq(S), NEW i \in 1..Len(s), NEW v \in S
    PROVE  LET t == [s EXCEPT ![i] = v] IN
           /\ t \in Seq(S) /\ Len(t) = Len(s) /\ t[i] = v
           /\ \A x \in 1..Len(s) : x # i => t[x] = s[x]
OBVIOUS

(* A list of free slots is shorter than the slots while one is in use.     *)
LEMMA RoomInFreeList ==
    ASSUME NEW L \in Nat, NEW n \in 0..L, NEW c \in [1..n -> 1..L],
           \A i, j \in 1..n : c[i] = c[j] => i = j,
           NEW x \in 1..L, \A i \in 1..n : c[i] # x
    PROVE  n < L
<1>1. IsFiniteSet(1..n) /\ Cardinality(1..n) = n /\ IsFiniteSet(1..L) /\ Cardinality(1..L) = L
  BY FS_Interval
<1>2. c \in Injection(1..n, 1..L)
  BY DEF Injection, IsInjective
<1>3. n <= L /\ (n = L => c \in Surjection(1..n, 1..L))
  BY <1>1, <1>2, FS_Injection
<1>4. c \notin Surjection(1..n, 1..L)
  BY DEF Surjection
<1>5. QED
  BY <1>3, <1>4

(* A slot of one kind changed or was appended, all others are the same:    *)
(* the identities of the other slots resolve as before.                    *)
LEMMA OtherSlots ==
    ASSUME TableTypeOK, TableTypeOK', NEW kind \in SlotKinds, NEW i \in Nat,
           \A k \in SlotKinds : k # kind => slots'[k] = slots[k],
           Len(slots[kind]) <= Len(slots'[kind]),
           \A x \in 1..Len(slots'[kind]) :
              x # i => x \in 1..Len(slots[kind]) /\ slots'[kind][x] = slots[kind][x]
    PROVE  \A id \in Ids : ~(id.kind = kind /\ id.index = i) =>
              /\ Resolves(id)' <=> Resolves(id)
              /\ Resolves(id) => Desc(id)' = Desc(id)
              /\ Old(id)' <=> Old(id)
<1> SUFFICES ASSUME NEW id \in Ids, ~(id.kind = kind /\ id.index = i)
             PROVE  /\ Resolves(id)' <=> Resolves(id)
                    /\ Resolves(id) => Desc(id)' = Desc(id)
                    /\ Old(id)' <=> Old(id)
  OBVIOUS
<1>1. id.kind \in SlotKinds /\ id.index \in Nat
  BY DEF Ids
<1>2. CASE id.kind # kind
  BY <1>1, <1>2 DEF Resolves, Desc, Old
<1>3. CASE id.kind = kind /\ id.index # i
  <2>1. Len(slots[kind]) \in Nat /\ Len(slots'[kind]) \in Nat
    BY SlotFacts DEF TableTypeOK
  <2>2. id.index \in 1..Len(slots[kind]) <=> id.index \in 1..Len(slots'[kind])
    BY <1>1, <1>3, <2>1
  <2>3. id.index \in 1..Len(slots[kind]) => slots'[kind][id.index] = slots[kind][id.index]
    BY <1>1, <1>3, <2>2
  <2>4. QED
    BY <1>3, <2>2, <2>3 DEF Resolves, Desc, Old
<1>4. QED
  BY <1>2, <1>3

(* The table after a definition: one identity it never handed out before.  *)
Gained(new, kind, desc) ==
    /\ new \in Ids /\ new.kind = kind /\ ~Known(new)
    /\ Resolves(new)' /\ Desc(new)' = desc
    /\ \A id \in Ids :
        /\ id # new => (Resolves(id)' <=> Resolves(id))
        /\ Resolves(id) => Desc(id)' = Desc(id)
        /\ Old(id) => Old(id)'

(* The table after a release: one identity less.                           *)
Lost(gone) ==
    /\ ~Resolves(gone)' /\ Old(gone)'
    /\ \A id \in Ids :
        /\ id # gone => (Resolves(id)' <=> Resolves(id))
        /\ Resolves(id)' => Desc(id)' = Desc(id)
        /\ Old(id) => Old(id)'

(* The lists of the other kinds are untouched.                             *)
LEMMA FreeListsKept ==
    ASSUME FreeListSound, NEW kind \in SlotKinds,
           \A k \in SlotKinds : k # kind => slots'[k] = slots[k] /\ free'[k] = free[k],
           \E m \in 0..Len(slots'[kind]) : \E d \in [1..m -> 1..Len(slots'[kind])] :
              IsFreeList(kind, m, d)'
    PROVE  FreeListSound'
<1>1. ASSUME NEW k \in SlotKinds, k # kind
      PROVE  \E m \in 0..Len(slots'[k]) : \E d \in [1..m -> 1..Len(slots'[k])] :
                IsFreeList(k, m, d)'
  <2>1. slots'[k] = slots[k] /\ free'[k] = free[k]
    BY <1>1
  <2>2. PICK m \in 0..Len(slots[k]) : \E d \in [1..m -> 1..Len(slots[k])] : IsFreeList(k, m, d)
    BY DEF FreeListSound
  <2>3. PICK d \in [1..m -> 1..Len(slots[k])] : IsFreeList(k, m, d)
    BY <2>2
  <2>4. IsFreeList(k, m, d)'
    BY <2>1, <2>3 DEF IsFreeList
  <2>5. QED
    BY <2>1, <2>4
<1>2. QED
  BY <1>1 DEF FreeListSound

(* The first slot of a free list is taken.                                 *)
LEMMA ReuseStep ==
    ASSUME TableTypeOK, FreeListSound, NEW kind \in SlotKinds, NEW desc \in DescsOf(kind),
           free[kind] # 0,
           slots' = [slots EXCEPT ![kind][free[kind]] =
                       [desc |-> desc, gen |-> slots[kind][free[kind]].gen, next |-> 0]],
           free' = [free EXCEPT ![kind] = slots[kind][free[kind]].next],
           retired' = retired
    PROVE  TableTypeOK' /\ FreeListSound' /\ \E new : Gained(new, kind, desc)
<1> DEFINE i == free[kind]
           L == Len(slots[kind])
           old == slots[kind][i]
           slot == [desc |-> desc, gen |-> old.gen, next |-> 0]
<1>1. PICK n \in 0..L : \E c \in [1..n -> 1..L] : IsFreeList(kind, n, c)
  BY DEF FreeListSound
<1>2. PICK c \in [1..n -> 1..L] : IsFreeList(kind, n, c)
  BY <1>1
<1>3. /\ L \in Nat /\ n \in Nat /\ n # 0 /\ 1 \in 1..n /\ i = c[1] /\ i \in 1..L
      /\ slots[kind] \in Seq(SlotsOf(kind)) /\ DOMAIN slots = SlotKinds
  <2>1. L \in Nat /\ slots[kind] \in Seq(SlotsOf(kind)) /\ DOMAIN slots = SlotKinds
    BY SlotFacts
  <2>2. n # 0 /\ i = c[1]
    BY <1>2 DEF IsFreeList
  <2>3. n \in Nat /\ 1 \in 1..n
    BY <2>1, <2>2
  <2>4. QED
    BY <2>1, <2>2, <2>3
<1>4. old \in SlotsOf(kind) /\ old.desc = None /\ old.next = IF n = 1 THEN 0 ELSE c[2]
  <2>1. old \in SlotsOf(kind)
    BY <1>3
  <2>2. \E j \in 1..n : c[j] = i
    BY <1>3
  <2>3. QED
    BY <1>2, <1>3, <2>1, <2>2 DEF IsFreeList
<1>5. slot \in SlotsOf(kind)
  BY <1>4 DEF SlotsOf
<1>6. /\ slots' = [slots EXCEPT ![kind] = [slots[kind] EXCEPT ![i] = slot]]
      /\ slots'[kind] = [slots[kind] EXCEPT ![i] = slot]
      /\ \A k \in SlotKinds : k # kind => slots'[k] = slots[k]
  BY <1>3, <1>5
<1>7. /\ slots'[kind] \in Seq(SlotsOf(kind)) /\ Len(slots'[kind]) = L
      /\ slots'[kind][i] = slot
      /\ \A x \in 1..L : x # i => slots'[kind][x] = slots[kind][x]
  BY <1>3, <1>5, <1>6, ReplaceOne
<1>8. TableTypeOK'
  <2>1. slots' = [k \in SlotKinds |-> slots'[k]]
    BY <1>6 DEF TableTypeOK
  <2>2. \A k \in SlotKinds : slots'[k] \in Seq(SlotsOf(k))
    BY <1>6, <1>7 DEF TableTypeOK
  <2>3. free' \in [SlotKinds -> Nat]
    BY <1>4 DEF TableTypeOK, SlotsOf
  <2>4. QED
    BY <2>1, <2>2, <2>3 DEF TableTypeOK
<1>9. FreeListSound'
  <2>1. \A k \in SlotKinds : k # kind => slots'[k] = slots[k] /\ free'[k] = free[k]
    BY <1>6 DEF TableTypeOK
  <2>2. \E m \in 0..L : \E d \in [1..m -> 1..L] : IsFreeList(kind, m, d)'
    <3> DEFINE m == n - 1
               d == [j \in 1..m |-> c[j + 1]]
    <3>1. m \in 0..L /\ \A j \in 1..m : j + 1 \in 1..n
      BY <1>3
    <3>2. d \in [1..m -> 1..L]
      BY <3>1
    <3>3. free'[kind] = IF m = 0 THEN 0 ELSE d[1]
      <4>1. free'[kind] = old.next
        BY DEF TableTypeOK
      <4>2. QED
        BY <1>3, <1>4, <4>1
    <3>4. \A j \in 1..m : d[j] # i /\ d[j] \in 1..L /\ slots'[kind][d[j]] = slots[kind][d[j]]
      BY <1>2, <1>3, <1>7, <3>1 DEF IsFreeList
    <3>5. ASSUME NEW j \in 1..m
          PROVE  slots'[kind][d[j]].next = IF j = m THEN 0 ELSE d[j + 1]
      <4>1. slots[kind][c[j + 1]].next = IF j + 1 = n THEN 0 ELSE c[(j + 1) + 1]
        BY <1>2, <3>1 DEF IsFreeList
      <4>2. j # m => j + 1 \in 1..m
        BY <1>3
      <4>3. QED
        BY <1>3, <3>4, <4>1, <4>2
    <3>6. \A j, k \in 1..m : d[j] = d[k] => j = k
      BY <1>2, <1>3, <3>1 DEF IsFreeList
    <3>7. ASSUME NEW x \in 1..L
          PROVE  slots'[kind][x].desc = None <=> \E j \in 1..m : d[j] = x
      <4>1. CASE x = i
        BY <1>7, <3>4, <4>1, AbsenceAssumption DEF AbsenceAssumption
      <4>2. CASE x # i
        <5>1. slots'[kind][x].desc = None <=> \E j \in 1..n : c[j] = x
          BY <1>2, <1>7, <4>2 DEF IsFreeList
        <5>2. ASSUME NEW j \in 1..n, c[j] = x
              PROVE  j - 1 \in 1..m /\ d[j - 1] = x
          BY <1>3, <4>2, <5>2
        <5>3. QED
          BY <3>1, <5>1, <5>2
      <4>3. QED
        BY <4>1, <4>2
    <3>8. IsFreeList(kind, m, d)'
      BY <1>7, <3>3, <3>5, <3>6, <3>7 DEF IsFreeList
    <3>9. QED
      BY <3>1, <3>2, <3>8
  <2>3. QED
    BY <1>7, <2>1, <2>2, FreeListsKept
<1>10. \E new : Gained(new, kind, desc)
  <2>0. PICK new : new = Id(kind, i, old.gen)
    OBVIOUS
  <2>1. new \in Ids /\ new.kind = kind /\ new.index = i /\ new.gen = old.gen
    BY <1>3, <1>4, <2>0 DEF Id, Ids, SlotsOf
  <2>2. \A id \in Ids : ~(id.kind = kind /\ id.index = i) =>
              /\ Resolves(id)' <=> Resolves(id)
              /\ Resolves(id) => Desc(id)' = Desc(id)
              /\ Old(id)' <=> Old(id)
    <3>1. i \in Nat /\ Len(slots[kind]) <= Len(slots'[kind])
      BY <1>3, <1>7
    <3>2. \A x \in 1..Len(slots'[kind]) :
              x # i => x \in 1..Len(slots[kind]) /\ slots'[kind][x] = slots[kind][x]
      BY <1>7
    <3>3. \A k \in SlotKinds : k # kind => slots'[k] = slots[k]
      BY <1>6
    <3> HIDE DEF i, L, old, slot
    <3>4. QED
      BY <1>8, <3>1, <3>2, <3>3, OtherSlots
  <2>3. ASSUME NEW id \in Ids, id.kind = kind, id.index = i
        PROVE  /\ ~Resolves(id)
               /\ id # new => ~Resolves(id)'
               /\ Old(id)' <=> Old(id)
    <3>1. ~Resolves(id)
      BY <1>4, <2>3 DEF Resolves
    <3>2. Old(id)' <=> Old(id)
      BY <1>7, <2>3 DEF Old
    <3>3. Resolves(id)' => id = new
      BY <1>7, <2>0, <2>3 DEF Resolves, Id, Ids
    <3>4. QED
      BY <3>1, <3>2, <3>3
  <2>4. ~Known(new)
    BY <1>4, <2>1, <2>3 DEF Known, Old, SlotsOf
  <2>5. Resolves(new)' /\ Desc(new)' = desc
    <3>1. slots'[kind][i].desc = desc /\ slots'[kind][i].gen = old.gen
      BY <1>7
    <3>2. new # None /\ desc # None
      BY <2>1, AbsenceAssumption DEF AbsenceAssumption
    <3>3. QED
      BY <1>3, <1>7, <2>1, <3>1, <3>2 DEF Resolves, Desc
  <2>6. Gained(new, kind, desc)
    BY <2>1, <2>2, <2>3, <2>4, <2>5 DEF Gained
  <2>7. QED
    BY <2>6
<1>11. QED
  BY <1>8, <1>9, <1>10

LEMMA AppendOne ==
    ASSUME NEW S, NEW s \in Seq(S), NEW v \in S
    PROVE  LET t == Append(s, v) IN
           /\ t \in Seq(S) /\ Len(t) = Len(s) + 1 /\ t[Len(s) + 1] = v
           /\ \A x \in 1..Len(s) : t[x] = s[x]
OBVIOUS

(* Without a free slot, a new one is appended.                             *)
LEMMA AppendStep ==
    ASSUME TableTypeOK, FreeListSound, NEW kind \in SlotKinds, NEW desc \in DescsOf(kind),
           free[kind] = 0,
           slots' = [slots EXCEPT ![kind] = Append(@, [desc |-> desc, gen |-> 0, next |-> 0])],
           free' = free, retired' = retired
    PROVE  TableTypeOK' /\ FreeListSound' /\ \E new : Gained(new, kind, desc)
<1> DEFINE L == Len(slots[kind])
           slot == [desc |-> desc, gen |-> 0, next |-> 0]
<1>1. L \in Nat /\ slots[kind] \in Seq(SlotsOf(kind)) /\ DOMAIN slots = SlotKinds
  BY SlotFacts
<1>2. slot \in SlotsOf(kind)
  BY TableAssumption DEF SlotsOf, TableAssumption
<1>3. /\ slots'[kind] = Append(slots[kind], slot)
      /\ \A k \in SlotKinds : k # kind => slots'[k] = slots[k]
      /\ slots' = [k \in SlotKinds |-> slots'[k]]
  BY <1>1
<1>4. /\ slots'[kind] \in Seq(SlotsOf(kind)) /\ Len(slots'[kind]) = L + 1
      /\ slots'[kind][L + 1] = slot
      /\ \A x \in 1..L : slots'[kind][x] = slots[kind][x]
  BY <1>1, <1>2, <1>3, AppendOne
<1>5. TableTypeOK'
  BY <1>3, <1>4 DEF TableTypeOK
<1>6. FreeListSound'
  <2>1. \A k \in SlotKinds : k # kind => slots'[k] = slots[k] /\ free'[k] = free[k]
    BY <1>3
  <2>2. \E m \in 0..(L + 1) : \E d \in [1..m -> 1..(L + 1)] : IsFreeList(kind, m, d)'
    <3>1. PICK n \in 0..L : \E c \in [1..n -> 1..L] : IsFreeList(kind, n, c)
      BY DEF FreeListSound
    <3>2. PICK c \in [1..n -> 1..L] : IsFreeList(kind, n, c)
      BY <3>1
    <3>3. n = 0
      <4>1. SUFFICES ASSUME n # 0 PROVE FALSE
        OBVIOUS
      <4>2. n \in Nat /\ 1 \in 1..n
        BY <1>1, <4>1
      <4>3. c[1] \in 1..L
        BY <4>2
      <4>4. c[1] = 0
        BY <3>2, <4>1 DEF IsFreeList
      <4>5. QED
        BY <1>1, <4>3, <4>4
    <3>4. \A x \in 1..(L + 1) : slots'[kind][x].desc # None
      <4>1. \A x \in 1..L : slots[kind][x].desc # None
        BY <3>2, <3>3 DEF IsFreeList
      <4>2. \A x \in 1..(L + 1) : x \in 1..L \/ x = L + 1
        BY <1>1
      <4>3. desc # None
        BY AbsenceAssumption DEF AbsenceAssumption
      <4>4. QED
        BY <1>4, <4>1, <4>2, <4>3
    <3>5. PICK d \in [1..0 -> 1..(L + 1)] : TRUE
      <4>1. [x \in 1..0 |-> 1] \in [1..0 -> 1..(L + 1)]
        BY <1>1
      <4>2. QED
        BY <4>1
    <3>6. IsFreeList(kind, 0, d)'
      BY <1>4, <3>4 DEF IsFreeList
    <3>7. 0 \in 0..(L + 1)
      BY <1>1
    <3>8. QED
      BY <3>5, <3>6, <3>7
  <2>3. QED
    BY <1>4, <2>1, <2>2, FreeListsKept
<1>7. \E new : Gained(new, kind, desc)
  <2>0. PICK new : new = Id(kind, L + 1, 0)
    OBVIOUS
  <2>1. new \in Ids /\ new.kind = kind /\ new.index = L + 1 /\ new.gen = 0
    BY <1>1, <2>0, TableAssumption DEF Id, Ids, TableAssumption
  <2>2. \A id \in Ids : ~(id.kind = kind /\ id.index = L + 1) =>
              /\ Resolves(id)' <=> Resolves(id)
              /\ Resolves(id) => Desc(id)' = Desc(id)
              /\ Old(id)' <=> Old(id)
    <3>1. L + 1 \in Nat /\ Len(slots[kind]) <= Len(slots'[kind])
      BY <1>1, <1>4
    <3>2. \A x \in 1..Len(slots'[kind]) :
              x # L + 1 => x \in 1..Len(slots[kind]) /\ slots'[kind][x] = slots[kind][x]
      BY <1>1, <1>4
    <3>3. QED
      BY <1>3, <1>5, <3>1, <3>2, OtherSlots
  <2>3. ASSUME NEW id \in Ids, id.kind = kind, id.index = L + 1
        PROVE  /\ ~Resolves(id)
               /\ id # new => ~Resolves(id)'
               /\ ~Old(id)
    <3>1. id.index \notin 1..Len(slots[kind])
      BY <1>1, <2>3
    <3>2. Resolves(id)' => id = new
      BY <1>4, <2>0, <2>3 DEF Resolves, Id, Ids
    <3>3. QED
      BY <2>3, <3>1, <3>2 DEF Resolves, Old
  <2>4. Resolves(new)' /\ Desc(new)' = desc
    <3>1. L + 1 \in 1..Len(slots'[kind])
      BY <1>1, <1>4
    <3>2. new # None /\ desc # None
      BY <2>1, AbsenceAssumption DEF AbsenceAssumption
    <3>3. QED
      BY <1>4, <2>1, <3>1, <3>2 DEF Resolves, Desc
  <2>5. Gained(new, kind, desc)
    BY <2>1, <2>2, <2>3, <2>4 DEF Gained, Known
  <2>6. QED
    BY <2>5
<1>8. QED
  BY <1>5, <1>6, <1>7

LEMMA DefineStep ==
    ASSUME TableTypeOK, FreeListSound, NEW kind \in SlotKinds, NEW desc \in DescsOf(kind),
           Define(kind, desc)
    PROVE  /\ TableTypeOK' /\ FreeListSound' /\ retired' = retired
           /\ \E new : Gained(new, kind, desc)
<1>1. CASE free[kind] # 0
  BY <1>1, ReuseStep DEF Define
<1>2. CASE free[kind] = 0
  BY <1>2, AppendStep DEF Define
<1>3. QED
  BY <1>1, <1>2

(* A released slot goes to the front of its list, a generation later.      *)
LEMMA ReleaseStep ==
    ASSUME TableTypeOK, FreeListSound, NEW gone \in Ids, Release(gone)
    PROVE  /\ TableTypeOK' /\ FreeListSound' /\ retired' = retired \cup {gone}
           /\ Lost(gone)
<1> DEFINE kind == gone.kind
           i == gone.index
           L == Len(slots[kind])
           slot == [desc |-> None, gen |-> gone.gen + 1, next |-> free[kind]]
<1>1. /\ kind \in SlotKinds /\ L \in Nat /\ slots[kind] \in Seq(SlotsOf(kind))
      /\ DOMAIN slots = SlotKinds /\ DOMAIN free = SlotKinds /\ free[kind] \in Nat
      /\ i \in 1..L /\ slots[kind][i].gen = gone.gen /\ slots[kind][i].desc # None
  <2>1. kind \in SlotKinds
    BY DEF Ids
  <2>2. DOMAIN free = SlotKinds
    BY DEF TableTypeOK
  <2>3. QED
    BY <2>1, <2>2, SlotFacts DEF Release, Resolves
<1>2. slot \in SlotsOf(kind)
  <2>1. gone.gen + 1 \in 0..MaxGeneration
    BY TableAssumption DEF Release, TableAssumption, Ids
  <2>2. QED
    BY <1>1, <2>1 DEF SlotsOf
<1>3. /\ slots'[kind] = [slots[kind] EXCEPT ![i] = slot]
      /\ \A k \in SlotKinds : k # kind => slots'[k] = slots[k]
      /\ slots' = [k \in SlotKinds |-> slots'[k]]
  BY <1>1 DEF Release
<1>4. /\ slots'[kind] \in Seq(SlotsOf(kind)) /\ Len(slots'[kind]) = L
      /\ slots'[kind][i] = slot
      /\ \A x \in 1..L : x # i => slots'[kind][x] = slots[kind][x]
  BY <1>1, <1>2, <1>3, ReplaceOne
<1>5. /\ free' = [free EXCEPT ![kind] = i] /\ free'[kind] = i
      /\ \A k \in SlotKinds : k # kind => free'[k] = free[k]
      /\ retired' = retired \cup {gone}
  BY <1>1 DEF Release
<1>6. TableTypeOK'
  <2>1. \A k \in SlotKinds : slots'[k] \in Seq(SlotsOf(k))
    BY <1>3, <1>4 DEF TableTypeOK
  <2>2. free' \in [SlotKinds -> Nat]
    BY <1>1, <1>5 DEF TableTypeOK
  <2>3. QED
    BY <1>3, <1>5, <2>1, <2>2 DEF TableTypeOK
<1>7. FreeListSound'
  <2>1. \A k \in SlotKinds : k # kind => slots'[k] = slots[k] /\ free'[k] = free[k]
    BY <1>3, <1>5
  <2>2. \E m \in 0..L : \E d \in [1..m -> 1..L] : IsFreeList(kind, m, d)'
    <3>1. PICK n \in 0..L : \E c \in [1..n -> 1..L] : IsFreeList(kind, n, c)
      BY <1>1 DEF FreeListSound
    <3>2. PICK c \in [1..n -> 1..L] : IsFreeList(kind, n, c)
      BY <3>1
    <3>3. \A j \in 1..n : c[j] \in 1..L /\ c[j] # i
      BY <1>1, <3>2 DEF IsFreeList
    <3>4. n < L
      <4>1. \A j, k \in 1..n : c[j] = c[k] => j = k
        BY <3>2 DEF IsFreeList
      <4>2. \A x \in 1..L : (\A j \in 1..n : c[j] # x) => n < L
        BY <1>1, <4>1, RoomInFreeList
      <4>3. QED
        BY <1>1, <3>3, <4>2
    <3> DEFINE m == n + 1
               d == [j \in 1..m |-> IF j = 1 THEN i ELSE c[j - 1]]
    <3>5. n \in Nat /\ m \in 0..L /\ \A j \in 1..m : j # 1 => j - 1 \in 1..n
      BY <1>1, <3>4
    <3>6. d \in [1..m -> 1..L]
      BY <1>1, <3>3, <3>5
    <3>7. d[1] = i /\ \A j \in 1..n : j + 1 \in 1..m /\ d[j + 1] = c[j]
      <4>1. 1 \in 1..m /\ \A j \in 1..n : j + 1 \in 1..m /\ j + 1 # 1 /\ (j + 1) - 1 = j
        BY <3>5
      <4>2. QED
        BY <4>1
    <3>8. \A j \in 1..m : j = 1 \/ (j - 1 \in 1..n /\ d[j] = c[j - 1])
      BY <3>5
    <3>9. ASSUME NEW j \in 1..m
          PROVE  slots'[kind][d[j]].next = IF j = m THEN 0 ELSE d[j + 1]
      <4>1. CASE j = 1
        <5>1. slots'[kind][i].next = free[kind]
          BY <1>4
        <5>2. free[kind] = IF n = 0 THEN 0 ELSE c[1]
          BY <3>2 DEF IsFreeList
        <5>3. n # 0 => 1 \in 1..n /\ d[1 + 1] = c[1]
          BY <3>5, <3>7
        <5>4. QED
          BY <3>5, <3>7, <4>1, <5>1, <5>2, <5>3
      <4>2. CASE j # 1
        <5>1. j - 1 \in 1..n /\ d[j] = c[j - 1]
          BY <3>8, <4>2
        <5>2. slots'[kind][d[j]] = slots[kind][c[j - 1]]
          BY <1>4, <3>3, <5>1
        <5>3. slots[kind][c[j - 1]].next = IF j - 1 = n THEN 0 ELSE c[(j - 1) + 1]
          BY <3>2, <5>1 DEF IsFreeList
        <5>4. j # m => j \in 1..n /\ (j - 1) + 1 = j /\ d[j + 1] = c[j]
          BY <3>5, <3>7
        <5>5. j - 1 = n <=> j = m
          BY <3>5
        <5>6. QED
          BY <5>2, <5>3, <5>4, <5>5
      <4>3. QED
        BY <4>1, <4>2
    <3>10. ASSUME NEW j \in 1..m, NEW k \in 1..m, d[j] = d[k]
           PROVE  j = k
      <4>1. \A x, y \in 1..n : c[x] = c[y] => x = y
        BY <3>2 DEF IsFreeList
      <4>2. j = 1 <=> k = 1
        BY <3>3, <3>7, <3>8, <3>10
      <4>3. j # 1 => j - 1 = k - 1
        BY <3>8, <3>10, <4>1, <4>2
      <4>4. QED
        BY <3>5, <4>2, <4>3
    <3>11. ASSUME NEW x \in 1..L
           PROVE  slots'[kind][x].desc = None <=> \E j \in 1..m : d[j] = x
      <4>1. CASE x = i
        <5>1. 1 \in 1..m
          BY <3>5
        <5>2. QED
          BY <1>4, <3>7, <4>1, <5>1
      <4>2. CASE x # i
        <5>1. slots'[kind][x].desc = None <=> \E j \in 1..n : c[j] = x
          BY <1>4, <3>2, <4>2 DEF IsFreeList
        <5>2. (\E j \in 1..n : c[j] = x) <=> \E j \in 1..m : d[j] = x
          <6>1. ASSUME NEW j \in 1..n, c[j] = x PROVE \E k \in 1..m : d[k] = x
            BY <3>7, <6>1
          <6>2. ASSUME NEW j \in 1..m, d[j] = x PROVE \E k \in 1..n : c[k] = x
            BY <3>7, <3>8, <4>2, <6>2
          <6>3. QED
            BY <6>1, <6>2
        <5>3. QED
          BY <5>1, <5>2
      <4>3. QED
        BY <4>1, <4>2
    <3>12. IsFreeList(kind, m, d)'
      <4>1. free'[kind] = IF m = 0 THEN 0 ELSE d[1]
        BY <1>5, <3>5, <3>7
      <4>2. QED
        BY <1>4, <3>9, <3>10, <3>11, <4>1 DEF IsFreeList
    <3>13. QED
      BY <3>5, <3>6, <3>12
  <2>3. QED
    BY <1>1, <1>4, <2>1, <2>2, FreeListsKept
<1>8. Lost(gone)
  <2>1. \A id \in Ids : ~(id.kind = kind /\ id.index = i) =>
              /\ Resolves(id)' <=> Resolves(id)
              /\ Resolves(id) => Desc(id)' = Desc(id)
              /\ Old(id)' <=> Old(id)
    <3>1. i \in Nat /\ Len(slots[kind]) <= Len(slots'[kind])
      BY <1>1, <1>4
    <3>2. \A x \in 1..Len(slots'[kind]) :
              x # i => x \in 1..Len(slots[kind]) /\ slots'[kind][x] = slots[kind][x]
      BY <1>4
    <3>3. QED
      BY <1>1, <1>3, <1>6, <3>1, <3>2, OtherSlots
  <2>2. ASSUME NEW id \in Ids, id.kind = kind, id.index = i
        PROVE  /\ ~Resolves(id)'
               /\ Resolves(id) => id = gone
               /\ Old(id) => Old(id)'
               /\ id = gone => Old(id)'
    <3>1. slots'[kind][i].desc = None /\ slots'[kind][i].gen = gone.gen + 1
      BY <1>4
    <3>2. Resolves(id) => id.gen = gone.gen
      BY <1>1, <2>2 DEF Resolves
    <3>3. id.gen = gone.gen => id = gone
      BY <2>2 DEF Ids
    <3>4. gone.gen \in Int /\ id.gen \in Int
      BY TableAssumption DEF Ids, TableAssumption
    <3>5. Old(id)' <=> id.gen < gone.gen + 1
      BY <1>1, <1>4, <2>2, <3>1 DEF Old
    <3>6. Old(id) => id.gen < gone.gen
      BY <1>1, <2>2 DEF Old
    <3>7. QED
      BY <2>2, <3>1, <3>2, <3>3, <3>4, <3>5, <3>6 DEF Resolves
  <2>3. QED
    BY <2>1, <2>2 DEF Lost
<1>9. QED
  BY <1>5, <1>6, <1>7, <1>8

(* A binding stays valid while its resource lives.                         *)
LEMMA BindingKept ==
    ASSUME NEW type, NEW b, Resolves(b.id)', Desc(b.id)' = Desc(b.id), ValidBinding(type, b)
    PROVE  ValidBinding(type, b)'
BY DEF ValidBinding

(* A live identity has a descriptor of its kind.                           *)
LEMMA LiveDesc ==
    TableTypeOK => \A kind \in SlotKinds : \A id \in LiveIds(kind) : Desc(id) \in DescsOf(kind)
<1> SUFFICES ASSUME TableTypeOK, NEW kind \in SlotKinds, NEW id \in LiveIds(kind)
             PROVE  Desc(id) \in DescsOf(kind)
  OBVIOUS
<1>1. id \in Ids /\ id.kind = kind /\ Resolves(id)
  BY LiveMeans
<1>2. slots[kind][id.index].desc \in DescsOf(kind) \cup {None}
  BY <1>1, SlotFacts DEF Resolves
<1>3. QED
  BY <1>1, <1>2 DEF Resolves, Desc

LEMMA LiveDescNext ==
    (TableTypeOK =>
        \A kind \in SlotKinds : \A id \in LiveIds(kind) : Desc(id) \in DescsOf(kind))'
BY LiveDesc, PTL

(* The entries of a group of the table.                                    *)
LEMMA GroupFacts ==
    ASSUME TableTypeOK, DescriptorsStayValid, NEW g \in LiveIds("group"),
           NEW i \in 1..Len(Desc(g).layout)
    PROVE  /\ Desc(g).entries[i] \in AnyBinding
           /\ Desc(g).entries[i].id \in Ids
           /\ Known(Desc(g).entries[i].id)
           /\ Resolves(Desc(g).entries[i].id) =>
                 ValidBinding(Desc(g).layout[i], Desc(g).entries[i])
<1>1. Desc(g) \in GroupDescs
  <2>1. "group" \in SlotKinds
    BY DEF SlotKinds
  <2>2. QED
    BY <2>1, LiveDesc DEF DescsOf
<1>2. Desc(g).entries \in Seq(AnyBinding) /\ Len(Desc(g).entries) = Len(Desc(g).layout)
  BY <1>1 DEF GroupDescs, DescriptorsStayValid
<1>3. Desc(g).entries[i] \in AnyBinding
  BY <1>2
<1>4. Desc(g).entries[i].id \in Ids
  BY <1>3 DEF AnyBinding
<1>5. QED
  BY <1>3, <1>4 DEF DescriptorsStayValid

(* A definition that was validated against the table keeps its invariant.  *)
LEMMA GainedKeeps ==
    ASSUME TableInvariant, TableTypeOK', FreeListSound', retired' = retired,
           NEW kind \in SlotKinds, NEW desc \in DescsOf(kind), NEW new, Gained(new, kind, desc),
           kind \in {"compute", "program"} => desc.shaders \subseteq LiveIds("shader"),
           kind = "texture" => ValidTexture(desc),
           kind = "group" => ValidGroup(desc)
    PROVE  TableInvariant'
<1>0. /\ "texture" \in SlotKinds /\ "group" \in SlotKinds /\ "shader" \in SlotKinds
      /\ {"compute", "program"} \subseteq SlotKinds
  BY DEF SlotKinds
<1>1. \A k \in SlotKinds :
          /\ LiveIds(k) = {id \in Ids : id.kind = k /\ Resolves(id)}
          /\ LiveIds(k)' = {id \in Ids : id.kind = k /\ Resolves(id)'}
  BY LiveMeans, LiveMeansNext DEF TableInvariant
<1>2. \A k \in SlotKinds : \A id \in LiveIds(k)' :
          \/ id \in LiveIds(k) /\ Desc(id)' = Desc(id)
          \/ id = new /\ k = kind /\ Desc(id)' = desc
  BY <1>1 DEF Gained
<1>3. \A id \in Ids : (Resolves(id) => Resolves(id)') /\ (Known(id) => Known(id)')
  BY DEF Gained, Known
<1>4. \A id \in Ids : Known(id) /\ Resolves(id)' => Resolves(id) /\ Desc(id)' = Desc(id)
  BY DEF Gained, Known
<1>5. RetiredNeverResolves'
  <2>1. retired \subseteq Ids
    BY DEF TableInvariant, TableTypeOK
  <2>2. \A id \in retired : Old(id)' /\ ~Resolves(id)'
    BY <2>1, <1>4 DEF TableInvariant, RetiredNeverResolves, Gained, Known
  <2>3. QED
    BY <2>2 DEF RetiredNeverResolves
<1>6. PipelinesKeepShaders'
  <2>1. LiveIds("shader") \subseteq LiveIds("shader")'
    BY <1>0, <1>1, <1>3
  <2>2. ASSUME NEW k \in {"compute", "program"}, NEW p \in LiveIds(k)'
        PROVE  (Desc(p).shaders)' \subseteq LiveIds("shader")
    <3>1. CASE p \in LiveIds(k) /\ Desc(p)' = Desc(p)
      BY <3>1 DEF TableInvariant, PipelinesKeepShaders
    <3>2. CASE k = kind /\ Desc(p)' = desc
      BY <3>2
    <3>3. QED
      BY <1>0, <1>2, <2>2, <3>1, <3>2
  <2>3. QED
    BY <2>1, <2>2 DEF PipelinesKeepShaders
<1>7. DescriptorsStayValid'
  <2>1. \A id \in LiveIds("texture")' : ValidTexture(Desc(id))'
    BY <1>0, <1>2 DEF TableInvariant, DescriptorsStayValid
  <2>2. ASSUME NEW g \in LiveIds("group")', NEW d, d = Desc(g)'
        PROVE  /\ Len(d.entries) = Len(d.layout)
               /\ \A i \in 1..Len(d.layout) :
                    /\ Known(d.entries[i].id)'
                    /\ Resolves(d.entries[i].id)' => ValidBinding(d.layout[i], d.entries[i])'
    <3>1. CASE g \in LiveIds("group") /\ d = Desc(g)
      <4>1. ASSUME NEW i \in 1..Len(d.layout), NEW b, b = d.entries[i], NEW type, type = d.layout[i]
            PROVE  Known(b.id)' /\ (Resolves(b.id)' => ValidBinding(type, b)')
        <5>1. /\ b.id \in Ids /\ Known(b.id)
              /\ Resolves(b.id) => ValidBinding(type, b)
          BY <3>1, <4>1, GroupFacts DEF TableInvariant
        <5>2. Known(b.id)' /\ (Resolves(b.id)' => Resolves(b.id) /\ Desc(b.id)' = Desc(b.id))
          BY <1>3, <1>4, <5>1
        <5>3. QED
          BY <5>1, <5>2, BindingKept
      <4>2. Len(d.entries) = Len(d.layout)
        BY <3>1 DEF TableInvariant, DescriptorsStayValid
      <4>3. QED
        BY <4>1, <4>2
    <3>2. CASE kind = "group" /\ d = desc
      <4>1. ValidGroup(d) /\ d \in GroupDescs
        BY <3>2 DEF DescsOf
      <4>2. d.entries \in Seq(AnyBinding) /\ Len(d.entries) = Len(d.layout)
        BY <4>1 DEF GroupDescs, ValidGroup
      <4>3. ASSUME NEW i \in 1..Len(d.layout), NEW b, b = d.entries[i], NEW type, type = d.layout[i]
            PROVE  Known(b.id)' /\ ValidBinding(type, b)'
        <5>1. b \in AnyBinding /\ ValidBinding(type, b)
          BY <4>1, <4>2, <4>3 DEF ValidGroup
        <5>2. b.id \in Ids /\ Resolves(b.id)
          BY <5>1 DEF AnyBinding, ValidBinding
        <5>3. Resolves(b.id)' /\ Desc(b.id)' = Desc(b.id) /\ Known(b.id)'
          BY <1>3, <1>4, <5>2 DEF Known
        <5>4. QED
          BY <5>1, <5>3, BindingKept
      <4>4. QED
        BY <4>2, <4>3
    <3>3. QED
      BY <1>0, <1>2, <2>2, <3>1, <3>2
  <2>3. QED
    BY <2>1, <2>2 DEF DescriptorsStayValid
<1>8. QED
  BY <1>5, <1>6, <1>7 DEF TableInvariant

(* A release keeps it, of a shader module when no pipeline names it.       *)
LEMMA LostKeeps ==
    ASSUME TableInvariant, TableTypeOK', FreeListSound', NEW gone \in Ids,
           retired' = retired \cup {gone}, Lost(gone),
           gone.kind = "shader" => ~ShaderInUse(gone)
    PROVE  TableInvariant'
<1>0. /\ "texture" \in SlotKinds /\ "group" \in SlotKinds /\ "shader" \in SlotKinds
      /\ {"compute", "program"} \subseteq SlotKinds
  BY DEF SlotKinds
<1>1. \A k \in SlotKinds :
          /\ LiveIds(k) = {id \in Ids : id.kind = k /\ Resolves(id)}
          /\ LiveIds(k)' = {id \in Ids : id.kind = k /\ Resolves(id)'}
  BY LiveMeans, LiveMeansNext DEF TableInvariant
<1>2. \A k \in SlotKinds : \A id \in LiveIds(k)' : id \in LiveIds(k) /\ Desc(id)' = Desc(id)
  BY <1>1 DEF Lost
<1>3. \A id \in Ids : Known(id) => Known(id)'
  BY DEF Lost, Known
<1>4. \A id \in Ids : Resolves(id)' => Resolves(id) /\ Desc(id)' = Desc(id)
  BY DEF Lost
<1>5. RetiredNeverResolves'
  <2>1. retired \subseteq Ids
    BY DEF TableInvariant, TableTypeOK
  <2>2. \A id \in retired' : Old(id)' /\ ~Resolves(id)'
    BY <2>1, <1>4 DEF TableInvariant, RetiredNeverResolves, Lost
  <2>3. QED
    BY <2>2 DEF RetiredNeverResolves
<1>6. PipelinesKeepShaders'
  <2>1. ASSUME NEW k \in {"compute", "program"}, NEW p \in LiveIds(k)',
               NEW s \in (Desc(p).shaders)'
        PROVE  s \in LiveIds("shader")'
    <3>1. p \in LiveIds(k) /\ Desc(p)' = Desc(p)
      BY <1>0, <1>2
    <3>2. s \in Desc(p).shaders /\ s \in LiveIds("shader")
      BY <3>1, <2>1 DEF TableInvariant, PipelinesKeepShaders
    <3>3. s \in Ids /\ s.kind = "shader" /\ Resolves(s)
      BY <1>0, <1>1, <3>2
    <3>4. s # gone
      BY <3>1, <3>2, <3>3 DEF ShaderInUse
    <3>5. QED
      BY <1>0, <1>1, <3>3, <3>4 DEF Lost
  <2>2. QED
    BY <2>1 DEF PipelinesKeepShaders
<1>7. DescriptorsStayValid'
  <2>1. \A id \in LiveIds("texture")' : ValidTexture(Desc(id))'
    BY <1>0, <1>2 DEF TableInvariant, DescriptorsStayValid
  <2>2. ASSUME NEW g \in LiveIds("group")', NEW d, d = Desc(g)'
        PROVE  /\ Len(d.entries) = Len(d.layout)
               /\ \A i \in 1..Len(d.layout) :
                    /\ Known(d.entries[i].id)'
                    /\ Resolves(d.entries[i].id)' => ValidBinding(d.layout[i], d.entries[i])'
    <3>1. g \in LiveIds("group") /\ d = Desc(g)
      BY <1>0, <1>2, <2>2
    <3>2. ASSUME NEW i \in 1..Len(d.layout), NEW b, b = d.entries[i], NEW type, type = d.layout[i]
          PROVE  Known(b.id)' /\ (Resolves(b.id)' => ValidBinding(type, b)')
      <4>1. /\ b.id \in Ids /\ Known(b.id)
            /\ Resolves(b.id) => ValidBinding(type, b)
        BY <3>1, <3>2, GroupFacts DEF TableInvariant
      <4>2. QED
        BY <1>3, <1>4, <4>1, BindingKept
    <3>3. Len(d.entries) = Len(d.layout)
      BY <3>1 DEF TableInvariant, DescriptorsStayValid
    <3>4. QED
      BY <3>2, <3>3
  <2>3. QED
    BY <2>1, <2>2 DEF DescriptorsStayValid
<1>8. QED
  BY <1>5, <1>6, <1>7 DEF TableInvariant

(* One step of the table: a definition, a release, or a list grows.        *)
LEMMA DefinitionKeeps ==
    ASSUME TableInvariant, NEW kind \in SlotKinds, NEW desc \in DescsOf(kind), Define(kind, desc),
           kind \in {"compute", "program"} => desc.shaders \subseteq LiveIds("shader"),
           kind = "texture" => ValidTexture(desc),
           kind = "group" => ValidGroup(desc)
    PROVE  TableInvariant' /\ \E new : Gained(new, kind, desc)
BY DefineStep, GainedKeeps DEF TableInvariant

LEMMA ReleaseKeeps ==
    ASSUME TableInvariant, NEW kind \in SlotKinds, NEW id \in LiveIds(kind), Release(id),
           kind = "shader" => ~ShaderInUse(id)
    PROVE  TableInvariant' /\ id \in Ids /\ Lost(id) /\ id \in retired' \ retired
<1>1. id \in Ids /\ id.kind = kind /\ Resolves(id)
  BY LiveMeans DEF TableInvariant
<1>2. TableTypeOK' /\ FreeListSound' /\ retired' = retired \cup {id} /\ Lost(id)
  BY <1>1, ReleaseStep DEF TableInvariant
<1>3. id \notin retired
  BY <1>1 DEF TableInvariant, RetiredNeverResolves
<1>4. QED
  BY <1>1, <1>2, <1>3, LostKeeps

(* Nothing it looks at changes while the slots do not.                     *)
LEMMA TableUntouched ==
    ASSUME TableInvariant, UNCHANGED <<slots, free, retired>>
    PROVE  TableInvariant'
<1>1. TableTypeOK' /\ FreeListSound'
  <2>1. TableTypeOK'
    BY DEF TableInvariant, TableTypeOK
  <2>2. \A k, m, d : IsFreeList(k, m, d) => IsFreeList(k, m, d)'
    BY DEF IsFreeList
  <2>3. QED
    BY <2>1, <2>2 DEF TableInvariant, FreeListSound
<1>2. RetiredNeverResolves'
  BY DEF TableInvariant, RetiredNeverResolves, Old, Resolves
<1>3. PipelinesKeepShaders'
  <2>1. \A kind : LiveIds(kind)' = LiveIds(kind)
    BY DEF LiveIds
  <2>2. \A id : Desc(id)' = Desc(id)
    BY DEF Desc
  <2>3. QED
    BY <2>1, <2>2 DEF TableInvariant, PipelinesKeepShaders
<1>4. \A type, b : ValidBinding(type, b) => ValidBinding(type, b)'
  <2>1. ASSUME NEW type, NEW b, ValidBinding(type, b)
        PROVE  ValidBinding(type, b)'
    <3>1. Resolves(b.id)' /\ Desc(b.id)' = Desc(b.id)
      BY <2>1 DEF ValidBinding, Resolves, Desc
    <3>2. QED
      BY <2>1, <3>1, BindingKept
  <2>2. QED
    BY <2>1
<1>5. DescriptorsStayValid'
  <2>1. \A id \in LiveIds("texture")' : ValidTexture(Desc(id))'
    BY DEF TableInvariant, DescriptorsStayValid, LiveIds, Desc
  <2>2. ASSUME NEW g \in LiveIds("group")', NEW d, d = Desc(g)'
        PROVE  /\ Len(d.entries) = Len(d.layout)
               /\ \A i \in 1..Len(d.layout) :
                    /\ Known(d.entries[i].id)'
                    /\ Resolves(d.entries[i].id)' => ValidBinding(d.layout[i], d.entries[i])'
    <3>1. g \in LiveIds("group") /\ d = Desc(g)
      BY <2>2 DEF LiveIds, Desc
    <3>2. \A id : (Resolves(id)' <=> Resolves(id)) /\ (Known(id)' <=> Known(id))
      BY DEF Resolves, Known, Old
    <3>3. QED
      BY <3>1, <3>2, <1>4 DEF TableInvariant, DescriptorsStayValid
  <2>3. QED
    BY <2>1, <2>2 DEF DescriptorsStayValid
<1>6. QED
  BY <1>1, <1>2, <1>3, <1>5 DEF TableInvariant

(* What a step of the table may do to identities.                          *)
Definition ==
    \E kind \in SlotKinds : \E desc \in DescsOf(kind) : \E new : Gained(new, kind, desc)
Removal == \E gone \in Ids : Lost(gone) /\ gone \in retired' \ retired

LEMMA TableStepFacts ==
    ASSUME TableInvariant, TableNext
    PROVE  /\ TableInvariant'
           /\ Definition \/ Removal \/ UNCHANGED <<slots, free, retired>>
<1>0. SlotKinds = {"texture", "buffer", "group", "shader", "compute", "program"}
  BY DEF SlotKinds
<1>1. CASE DefineTexture
  BY <1>0, <1>1, DefinitionKeeps DEF DefineTexture, DescsOf, Definition
<1>2. CASE DefineBuffer
  BY <1>0, <1>2, DefinitionKeeps DEF DefineBuffer, DescsOf, Definition
<1>3. CASE DefineBindGroup
  <2>1. PICK layout, entries :
          /\ layout \in Layouts
          /\ entries \in [1..Len(layout) -> Bindings]
          /\ ValidGroup([layout |-> layout, entries |-> entries])
          /\ Define("group", [layout |-> layout, entries |-> entries])
    BY <1>3 DEF DefineBindGroup
  <2>2. Bindings \subseteq AnyBinding
    <3>1. LiveIds("buffer") \subseteq Ids /\ LiveIds("texture") \subseteq Ids
      BY <1>0, LiveMeans DEF TableInvariant
    <3>2. QED
      BY <3>1 DEF Bindings, Binding, AnyBinding
  <2>3. entries \in Seq(AnyBinding)
    <3>1. Len(layout) \in Nat
      BY TableAssumption DEF TableAssumption
    <3>2. \A i \in 1..Len(layout) : entries[i] \in AnyBinding
      BY <2>1, <2>2
    <3>3. entries \in [1..Len(layout) -> AnyBinding]
      BY <2>1, <3>2
    <3>4. QED
      BY <3>1, <3>3
  <2>4. [layout |-> layout, entries |-> entries] \in DescsOf("group")
    BY <2>1, <2>3 DEF DescsOf, GroupDescs
  <2>5. QED
    BY <1>0, <2>1, <2>4, DefinitionKeeps DEF Definition
<1>4. CASE DefineShaderModule
  BY <1>0, <1>4, DefinitionKeeps DEF DefineShaderModule, DescsOf, Definition
<1>5. CASE DefineComputePipeline
  <2>1. PICK shader \in LiveIds("shader"), layout \in Layouts :
          Define("compute", [shaders |-> {shader}, layout |-> layout])
    BY <1>5 DEF DefineComputePipeline
  <2>2. LiveIds("shader") \subseteq Ids
    BY <1>0, LiveMeans DEF TableInvariant
  <2>3. [shaders |-> {shader}, layout |-> layout] \in DescsOf("compute")
    BY <2>2 DEF DescsOf, ComputeDescs
  <2>4. QED
    BY <1>0, <2>1, <2>3, DefinitionKeeps DEF Definition
<1>6. CASE DefineProgrammableRenderPipeline
  <2>1. PICK vertex \in LiveIds("shader"), fragment \in LiveIds("shader"), p \in Programs :
          Define("program", [shaders |-> {vertex, fragment}, layout |-> p.layout,
                             depth |-> p.depth, targets |-> p.targets, buffers |-> p.buffers])
    BY <1>6 DEF DefineProgrammableRenderPipeline
  <2> DEFINE desc == [shaders |-> {vertex, fragment}, layout |-> p.layout,
                      depth |-> p.depth, targets |-> p.targets, buffers |-> p.buffers]
  <2>2. LiveIds("shader") \subseteq Ids
    BY <1>0, LiveMeans DEF TableInvariant
  <2>3. desc \in DescsOf("program")
    BY <2>2, TableAssumption DEF DescsOf, ProgramDescs, TableAssumption
  <2>4. desc.shaders \subseteq LiveIds("shader")
    OBVIOUS
  <2>5. QED
    BY <1>0, <2>1, <2>3, <2>4, DefinitionKeeps DEF Definition
<1>7. CASE ReleaseTexture \/ ReleaseBuffer \/ ReleaseBindGroup \/ ReleaseShaderModule
           \/ ReleaseComputePipeline \/ ReleaseProgrammableRenderPipeline
  <2>1. \E kind \in SlotKinds : \E id \in LiveIds(kind) :
          Release(id) /\ (kind = "shader" => ~ShaderInUse(id))
    BY <1>0, <1>7 DEF ReleaseTexture, ReleaseBuffer, ReleaseBindGroup, ReleaseShaderModule,
        ReleaseComputePipeline, ReleaseProgrammableRenderPipeline
  <2>2. QED
    BY <2>1, ReleaseKeeps DEF Removal
<1>8. CASE DefineSampler \/ DefineRenderPipeline
  <2>1. UNCHANGED <<slots, free, retired>>
    BY <1>8 DEF DefineSampler, DefineRenderPipeline, AppendTo
  <2>2. TableInvariant'
    BY <2>1, TableUntouched
  <2>3. QED
    BY <2>1, <2>2
<1>9. QED
  BY <1>1, <1>2, <1>3, <1>4, <1>5, <1>6, <1>7, <1>8 DEF TableNext

LEMMA TableInitInvariant == ASSUME TableInit PROVE TableInvariant
<1>1. /\ slots = [k \in SlotKinds |-> <<>>] /\ free = [k \in SlotKinds |-> 0] /\ retired = {}
      /\ \A k \in SlotKinds : slots[k] = <<>> /\ free[k] = 0
  BY DEF TableInit
<1>2. TableTypeOK
  BY <1>1 DEF TableTypeOK
<1>3. FreeListSound
  <2>1. ASSUME NEW k \in SlotKinds
        PROVE  \E n \in 0..Len(slots[k]) : \E c \in [1..n -> 1..Len(slots[k])] :
                  IsFreeList(k, n, c)
    <3>1. Len(slots[k]) = 0 /\ free[k] = 0
      BY <1>1
    <3>2. PICK c : c = [x \in 1..0 |-> 0]
      OBVIOUS
    <3>3. c \in [1..0 -> 1..Len(slots[k])] /\ 0 \in 0..Len(slots[k])
      BY <3>1, <3>2
    <3>4. IsFreeList(k, 0, c)
      BY <3>1 DEF IsFreeList
    <3>5. QED
      BY <3>3, <3>4
  <2>2. QED
    BY <2>1 DEF FreeListSound
<1>4. \A k \in SlotKinds : LiveIds(k) = {}
  BY <1>1 DEF LiveIds
<1>5. RetiredNeverResolves /\ PipelinesKeepShaders /\ DescriptorsStayValid
  BY <1>1, <1>4 DEF RetiredNeverResolves, PipelinesKeepShaders, DescriptorsStayValid, SlotKinds
<1>6. QED
  BY <1>2, <1>3, <1>5 DEF TableInvariant

(* The table keeps its invariant for any capacities, descriptors, layouts  *)
(* and programs: its free lists hold exactly the released slots, released  *)
(* identities are gone for good, pipelines have their shader modules, and  *)
(* what a definition validated stays valid (the define and release methods *)
(* of ResourceTable).                                                      *)
THEOREM TableCorrect == TableSpec => []TableInvariant
<1>1. TableInit => TableInvariant
  BY TableInitInvariant
<1>2. ASSUME TableInvariant, [TableNext]_tableVars PROVE TableInvariant'
  BY <1>2, TableStepFacts, TableUntouched DEF tableVars
<1>3. QED
  BY <1>1, <1>2, PTL DEF TableSpec

(* An identity names one descriptor from its definition to its release,    *)
(* whatever happens to other slots (texture_ref, buffer_ref).              *)
THEOREM IdentitiesStay == TableSpec => [][IdentitiesAreStable]_tableVars
<1>1. ASSUME TableInvariant, [TableNext]_tableVars
      PROVE  [IdentitiesAreStable]_tableVars
  <2>1. SUFFICES ASSUME TableInvariant, TableNext, NEW kind \in SlotKinds, NEW id \in LiveIds(kind)
                 PROVE  (Resolves(id)' /\ Desc(id)' = Desc(id)) \/ id \in retired' \ retired
    BY <1>1 DEF IdentitiesAreStable
  <2>2. id \in Ids /\ Resolves(id)
    BY <2>1, LiveMeans DEF TableInvariant
  <2>3. Definition \/ Removal \/ UNCHANGED <<slots, free, retired>>
    BY <2>1, TableStepFacts
  <2>4. CASE Definition
    BY <2>2, <2>4 DEF Definition, Gained, Known
  <2>5. CASE Removal
    BY <2>2, <2>5 DEF Removal, Lost
  <2>6. CASE UNCHANGED <<slots, free, retired>>
    BY <2>2, <2>6 DEF Resolves, Desc
  <2>7. QED
    BY <2>3, <2>4, <2>5, <2>6
<1>2. QED
  BY <1>1, TableCorrect, PTL DEF TableSpec

-----------------------------------------------------------------------------
(* The recorder.                                                           *)

(* A trace that grew by one entry.                                         *)
Grown(e) == e \in Entries /\ trace' = Append(trace, e)

LEMMA GrownFacts ==
    ASSUME trace \in Seq(Entries), NEW e, Grown(e)
    PROVE  /\ trace' \in Seq(Entries) /\ Len(trace) \in Nat /\ Len(trace') = Len(trace) + 1
           /\ trace'[Len(trace) + 1] = e
           /\ \A i \in 1..Len(trace) : trace'[i] = trace[i] /\ i \in 1..Len(trace')
           /\ \A i \in 1..Len(trace') : i \in 1..Len(trace) \/ i = Len(trace) + 1
<1>1. trace' \in Seq(Entries) /\ Len(trace) \in Nat /\ Len(trace') = Len(trace) + 1
      /\ trace'[Len(trace) + 1] = e /\ \A i \in 1..Len(trace) : trace'[i] = trace[i]
  BY AppendOne DEF Grown
<1>2. QED
  BY <1>1

(* No entry touches a pending write, and one that leaves the pending       *)
(* writes is covered: a shader's write stays pending until it is covered,  *)
(* so what touches it comes after a barrier.                               *)
LEMMA OrderKept ==
    ASSUME trace \in Seq(Entries), ShaderWritesAreOrdered, UncoveredIsPending, NEW e, Grown(e),
           e.access \cap pending = {},
           \A s \in pending : s \in pending' \/ Covers(e, s),
           e.written \subseteq pending'
    PROVE  ShaderWritesAreOrdered' /\ UncoveredIsPending'
<1> DEFINE n == Len(trace)
<1>1. /\ n \in Nat /\ Len(trace') = n + 1 /\ trace'[n + 1] = e
      /\ \A i \in 1..n : trace'[i] = trace[i]
      /\ \A i \in 1..(n + 1) : i \in 1..n \/ i = n + 1
  BY GrownFacts
<1>2. ASSUME NEW i \in 1..n, NEW s \in trace[i].written, s \notin pending
      PROVE  \E k \in (i + 1)..n : k \in 1..n /\ Covers(trace[k], s)
  <2>1. PICK k \in (i + 1)..n : Covers(trace[k], s)
    BY <1>2 DEF UncoveredIsPending
  <2>2. k \in 1..n
    BY <1>1, <2>1
  <2>3. QED
    BY <2>1, <2>2
<1>3. ShaderWritesAreOrdered'
  <2>1. ASSUME NEW i \in 1..(n + 1), NEW j \in 1..(n + 1), i < j,
               NEW s \in trace'[i].written \cap trace'[j].access
        PROVE  \E k \in (i + 1)..(j - 1) : Covers(trace'[k], s)
    <3>1. i \in 1..n
      BY <1>1, <2>1
    <3>2. CASE j = n + 1
      <4>1. s \in trace[i].written /\ s \notin pending
        BY <1>1, <2>1, <3>1, <3>2
      <4>2. PICK k \in (i + 1)..n : k \in 1..n /\ Covers(trace[k], s)
        BY <1>2, <3>1, <4>1
      <4>3. k \in (i + 1)..(j - 1) /\ trace'[k] = trace[k]
        BY <1>1, <3>2, <4>2
      <4>4. QED
        BY <4>2, <4>3
    <3>3. CASE j \in 1..n
      <4>1. PICK k \in (i + 1)..(j - 1) : Covers(trace[k], s)
        BY <1>1, <2>1, <3>1, <3>3 DEF ShaderWritesAreOrdered
      <4>2. k \in 1..n
        BY <1>1, <3>1, <3>3, <4>1
      <4>3. QED
        BY <1>1, <4>1, <4>2
    <3>4. QED
      BY <1>1, <3>2, <3>3
  <2>2. QED
    BY <1>1, <2>1 DEF ShaderWritesAreOrdered, Covers
<1>4. UncoveredIsPending'
  <2>1. ASSUME NEW i \in 1..(n + 1), NEW s \in trace'[i].written, s \notin pending'
        PROVE  \E k \in (i + 1)..(n + 1) : Covers(trace'[k], s)
    <3>1. i \in 1..n /\ s \in trace[i].written
      BY <1>1, <2>1
    <3>2. CASE s \in pending
      <4>1. Covers(e, s) /\ n + 1 \in (i + 1)..(n + 1)
        BY <1>1, <2>1, <3>1, <3>2
      <4>2. QED
        BY <1>1, <4>1
    <3>3. CASE s \notin pending
      <4>1. PICK k \in (i + 1)..n : k \in 1..n /\ Covers(trace[k], s)
        BY <1>2, <3>1, <3>3
      <4>2. k \in (i + 1)..(n + 1) /\ trace'[k] = trace[k]
        BY <1>1, <4>1
      <4>3. QED
        BY <4>1, <4>2
    <3>4. QED
      BY <3>2, <3>3
  <2>2. QED
    BY <1>1, <2>1 DEF UncoveredIsPending, Covers
<1>5. QED
  BY <1>3, <1>4

(* What an entry does to the passes: outside a render pass it can only     *)
(* open one; inside, its uses join those the encoder knows and it writes   *)
(* none of them.                                                           *)
Opens(e) ==
    /\ e.pass # "render"
    /\ pass' = "render" => {s.id : s \in e.access} \subseteq PassUses'
Joins(e) ==
    /\ e.pass = "render" /\ pass = "render" /\ pass' = "render"
    /\ PassUses \cup {s.id : s \in e.access} \subseteq PassUses'
    /\ {s.id : s \in e.written} \cap PassUses = {}
DepthKnown ==
    pass = "render" /\ bound.depth # None /\ Resolves(bound.depth) => Desc(bound.depth).format = "depth"

LEMMA PassesKept ==
    ASSUME trace \in Seq(Entries), PassesDoNotOverwrite, PassKnowsItsUses, NEW e, Grown(e),
           Opens(e) \/ Joins(e), DepthKnown'
    PROVE  PassesDoNotOverwrite' /\ PassKnowsItsUses'
<1> DEFINE n == Len(trace)
           ids(s) == {x.id : x \in s}
<1>1. /\ n \in Nat /\ Len(trace') = n + 1 /\ trace'[n + 1] = e
      /\ \A i \in 1..n : trace'[i] = trace[i]
      /\ \A i \in 1..(n + 1) : i \in 1..n \/ i = n + 1
  BY GrownFacts
<1>2. ASSUME NEW i \in 1..n, \A k \in (i + 1)..(n + 1) : trace'[k].pass = "render"
      PROVE  Joins(e) /\ ids(trace[i].access) \subseteq PassUses
  <2>1. e.pass = "render"
    <3>1. n + 1 \in (i + 1)..(n + 1)
      BY <1>1
    <3>2. QED
      BY <1>1, <1>2, <3>1
  <2>2. \A k \in (i + 1)..n : trace[k].pass = "render"
    <3>1. \A k \in (i + 1)..n : k \in 1..n /\ k \in (i + 1)..(n + 1)
      BY <1>1
    <3>2. QED
      BY <1>1, <1>2, <3>1
  <2>3. QED
    BY <2>1, <2>2 DEF Opens, Joins, PassKnowsItsUses
<1>3. PassesDoNotOverwrite'
  <2>1. ASSUME NEW i \in 1..(n + 1), NEW j \in 1..(n + 1), i < j,
               \A k \in (i + 1)..j : trace'[k].pass = "render"
        PROVE  ids(trace'[i].access) \cap ids(trace'[j].written) = {}
    <3>1. i \in 1..n
      BY <1>1, <2>1
    <3>2. CASE j = n + 1
      <4>1. Joins(e) /\ ids(trace[i].access) \subseteq PassUses
        BY <1>2, <2>1, <3>1, <3>2
      <4>2. trace'[i] = trace[i] /\ trace'[j] = e
        BY <1>1, <3>1, <3>2
      <4>3. QED
        BY <4>1, <4>2 DEF Joins
    <3>3. CASE j \in 1..n
      <4>1. \A k \in (i + 1)..j : k \in 1..n
        BY <1>1, <3>1, <3>3
      <4>2. \A k \in (i + 1)..j : trace[k].pass = "render"
        BY <1>1, <2>1, <4>1
      <4>3. trace'[i] = trace[i] /\ trace'[j] = trace[j]
        BY <1>1, <3>1, <3>3
      <4>4. QED
        BY <2>1, <3>1, <3>3, <4>2, <4>3 DEF PassesDoNotOverwrite
    <3>4. QED
      BY <1>1, <3>2, <3>3
  <2>2. QED
    BY <1>1, <2>1 DEF PassesDoNotOverwrite
<1>4. PassKnowsItsUses'
  <2>1. ASSUME pass' = "render", NEW i \in 1..(n + 1),
               \A k \in (i + 1)..(n + 1) : trace'[k].pass = "render"
        PROVE  ids(trace'[i].access) \subseteq PassUses'
    <3>1. CASE i = n + 1
      BY <1>1, <2>1, <3>1 DEF Opens, Joins
    <3>2. CASE i \in 1..n
      <4>1. Joins(e) /\ ids(trace[i].access) \subseteq PassUses
        BY <1>2, <2>1, <3>2
      <4>2. trace'[i] = trace[i]
        BY <1>1, <3>2
      <4>3. QED
        BY <4>1, <4>2 DEF Joins
    <3>3. QED
      BY <1>1, <3>1, <3>2
  <2>2. QED
    BY <1>1, <2>1 DEF PassKnowsItsUses, DepthKnown
<1>5. QED
  BY <1>3, <1>4

(* Announcements of a buffer after an entry: those of the entry's barrier, *)
(* and those before that the entry neither uses up nor forgets.            *)
Consumes(e) ==
    \A b \in LiveIds("buffer") :
        (\E a \in announced' : a.sub = Sub(b, 0)) <=>
            \/ Sub(b, 0) \in e.ordered
            \/ /\ \E a \in announced : a.sub = Sub(b, 0)
               /\ Sub(b, 0) \notin e.access /\ Everything \notin e.ordered

LEMMA AnnouncementsKept ==
    ASSUME trace \in Seq(Entries), BufferAnnouncements, slots' = slots,
           NEW e, Grown(e), Consumes(e)
    PROVE  BufferAnnouncements'
<1> DEFINE n == Len(trace)
<1>1. /\ n \in Nat /\ Len(trace') = n + 1 /\ trace'[n + 1] = e
      /\ \A i \in 1..n : trace'[i] = trace[i]
      /\ \A i \in 1..(n + 1) : i \in 1..n \/ i = n + 1
  BY GrownFacts
<1>2. LiveIds("buffer")' = LiveIds("buffer")
  BY DEF LiveIds
<1>3. ASSUME NEW b \in LiveIds("buffer"), NEW s, s = Sub(b, 0)
      PROVE  (\E a \in announced' : a.sub = s) <=>
                \E k \in 1..(n + 1) :
                    /\ s \in trace'[k].ordered
                    /\ \A m \in (k + 1)..(n + 1) :
                        s \notin trace'[m].access /\ Everything \notin trace'[m].ordered
  <2> DEFINE Last(k) == /\ s \in trace[k].ordered
                        /\ \A m \in (k + 1)..n :
                            s \notin trace[m].access /\ Everything \notin trace[m].ordered
             Last2(k) == /\ s \in trace'[k].ordered
                         /\ \A m \in (k + 1)..(n + 1) :
                             s \notin trace'[m].access /\ Everything \notin trace'[m].ordered
  <2>1. (\E a \in announced : a.sub = s) <=> \E k \in 1..n : Last(k)
    BY <1>3 DEF BufferAnnouncements, AnnouncedIsNext
  <2>2. Last2(n + 1) <=> s \in e.ordered
    <3>1. \A m \in ((n + 1) + 1)..(n + 1) : FALSE
      BY <1>1
    <3>2. QED
      BY <1>1, <3>1
  <2>3. ASSUME NEW k \in 1..n
        PROVE  Last2(k) <=> Last(k) /\ s \notin e.access /\ Everything \notin e.ordered
    <3>1. /\ n + 1 \in (k + 1)..(n + 1)
          /\ \A m \in (k + 1)..n : m \in 1..n /\ m \in (k + 1)..(n + 1)
          /\ \A m \in (k + 1)..(n + 1) : m \in (k + 1)..n \/ m = n + 1
      BY <1>1
    <3>2. (\A m \in (k + 1)..(n + 1) :
              s \notin trace'[m].access /\ Everything \notin trace'[m].ordered)
          <=> /\ s \notin e.access /\ Everything \notin e.ordered
              /\ \A m \in (k + 1)..n : s \notin trace[m].access /\ Everything \notin trace[m].ordered
      BY <1>1, <3>1
    <3>3. QED
      BY <1>1, <3>2
  <2>4. (\E k \in 1..(n + 1) : Last2(k)) <=> Last2(n + 1) \/ \E k \in 1..n : Last2(k)
    <3>1. n + 1 \in 1..(n + 1) /\ \A k \in 1..n : k \in 1..(n + 1)
      BY <1>1
    <3>2. QED
      BY <1>1, <3>1
  <2>5. (\E a \in announced' : a.sub = s) <=>
            \/ s \in e.ordered
            \/ (\E a \in announced : a.sub = s) /\ s \notin e.access /\ Everything \notin e.ordered
    BY <1>3 DEF Consumes
  <2> HIDE DEF Last, Last2
  <2>6. (\E a \in announced' : a.sub = s) <=> \E k \in 1..(n + 1) : Last2(k)
    BY <2>1, <2>2, <2>3, <2>4, <2>5
  <2>7. QED
    BY <2>6 DEF Last2
<1>4. QED
  BY <1>1, <1>2, <1>3 DEF BufferAnnouncements, AnnouncedIsNext, Sub

(* What an entry names.                                                    *)
Names(e) ==
    /\ \A a \in announced' : a \in announced \/ Named(a.sub.id)
    /\ \A s \in e.ordered : s = Everything \/ Named(s.id)
    /\ bound'.depth # None => Named(bound'.depth)

LEMMA NamesKept ==
    ASSUME trace \in Seq(Entries), NamesAreKnown, slots' = slots, NEW e, Grown(e), Names(e)
    PROVE  NamesAreKnown'
<1>1. \A id : Named(id)' <=> Named(id)
  BY DEF Named, Known, Old, Resolves
<1>2. \A a \in announced' : Named(a.sub.id)'
  BY <1>1 DEF Names, NamesAreKnown
<1>3. \A i \in 1..Len(trace') : \A s \in trace'[i].ordered : s = Everything \/ Named(s.id)'
  BY <1>1, GrownFacts DEF Names, NamesAreKnown
<1>4. \A id : id = bound'.depth /\ id # None => Named(id)'
  BY <1>1 DEF Names
<1>5. QED
  BY <1>2, <1>3, <1>4 DEF NamesAreKnown, Everything, Sub

(* An entry of a call that was validated keeps the invariant.              *)
LEMMA EntryKeeps ==
    ASSUME RecordingInvariant, UNCHANGED tableVars, RecorderTypeOK', PassCanEnd',
           NEW e, Grown(e), Opens(e) \/ Joins(e), Consumes(e), Names(e), DepthKnown',
           e.access \cap pending = {},
           \A s \in pending : s \in pending' \/ Covers(e, s),
           e.written \subseteq pending'
    PROVE  RecordingInvariant'
<1>1. trace \in Seq(Entries) /\ slots' = slots
  BY DEF RecordingInvariant, RecorderTypeOK, tableVars
<1>2. ShaderWritesAreOrdered' /\ UncoveredIsPending'
  BY <1>1, OrderKept DEF RecordingInvariant
<1>3. PassesDoNotOverwrite' /\ PassKnowsItsUses'
  BY <1>1, PassesKept DEF RecordingInvariant
<1>4. BufferAnnouncements'
  BY <1>1, AnnouncementsKept DEF RecordingInvariant
<1>5. NamesAreKnown'
  BY <1>1, NamesKept DEF RecordingInvariant
<1>6. QED
  BY <1>2, <1>3, <1>4, <1>5 DEF RecordingInvariant

(* A call that records no access.                                          *)
LEMMA QuietKeeps ==
    ASSUME RecordingInvariant, UNCHANGED tableVars, RecorderTypeOK', PassCanEnd',
           UNCHANGED <<pending, announced, trace>>,
           bound'.depth \in {None, bound.depth},
           pass' = "render" => pass = "render" /\ bound'.depth = bound.depth /\ PassUses \subseteq PassUses'
    PROVE  RecordingInvariant'
<1>1. ShaderWritesAreOrdered' /\ UncoveredIsPending' /\ PassesDoNotOverwrite'
  BY DEF RecordingInvariant, ShaderWritesAreOrdered, UncoveredIsPending, PassesDoNotOverwrite, Covers
<1>2. PassKnowsItsUses'
  <2>1. \A id : (Resolves(id)' <=> Resolves(id)) /\ Desc(id)' = Desc(id)
    BY DEF tableVars, Resolves, Desc
  <2>2. ASSUME pass' = "render"
        PROVE  PassKnowsItsUses'
    BY <2>1, <2>2 DEF RecordingInvariant, PassKnowsItsUses
  <2>3. QED
    BY <2>2 DEF PassKnowsItsUses
<1>3. BufferAnnouncements'
  BY DEF RecordingInvariant, BufferAnnouncements, AnnouncedIsNext, LiveIds, tableVars
<1>4. NamesAreKnown'
  <2>1. \A id : Named(id)' <=> Named(id)
    BY DEF Named, Known, Old, Resolves, tableVars
  <2>2. QED
    BY <2>1 DEF RecordingInvariant, NamesAreKnown
<1>5. QED
  BY <1>1, <1>2, <1>3, <1>4 DEF RecordingInvariant

(* Every command leaves room for the end of an open pass.                  *)
LEMMA RoomKept ==
    ASSUME count \in Nat, Push, pass' = pass
    PROVE  count' \in Nat /\ PassCanEnd'
BY RecorderAssumption DEF RecorderAssumption, Push, Room, PassCanEnd, InPass

LEMMA SetKeeps ==
    ASSUME RecordingInvariant, UNCHANGED tableVars, Push, UNCHANGED <<pass, pending, announced, trace>>,
           bound' \in Bounds,
           bound'.colors = bound.colors, bound'.depth = bound.depth, bound'.used = bound.used
    PROVE  RecordingInvariant'
<1>1. count' \in Nat /\ PassCanEnd'
  BY RoomKept DEF RecordingInvariant, RecorderTypeOK
<1>2. RecorderTypeOK'
  BY <1>1 DEF RecordingInvariant, RecorderTypeOK
<1>3. PassUses' = PassUses
  BY DEF PassUses
<1>4. QED
  BY <1>1, <1>2, <1>3, QuietKeeps

(* Identities of the table, as values of the bindings.                     *)
LEMMA LiveBound ==
    ASSUME TableInvariant
    PROVE  \A kind \in SlotKinds : LiveIds(kind) \subseteq OneOf(kind) /\ LiveIds(kind) \subseteq Ids
<1>1. ASSUME NEW kind \in SlotKinds, NEW id \in LiveIds(kind)
      PROVE  id \in OneOf(kind) /\ id \in Ids
  <2>1. id \in Ids /\ id.kind = kind
    BY LiveMeans DEF TableInvariant
  <2>2. QED
    BY <2>1 DEF Ids, OneOf
<1>2. QED
  BY <1>1

LEMMA NothingTyped == NothingBound \in Bounds
<1>1. <<>> \in Seq(Ids)
  OBVIOUS
<1>2. QED
  BY <1>1 DEF NothingBound, Bounds, OneOf

LEMMA SettersKeep ==
    ASSUME TableInvariant, RecordingInvariant, UNCHANGED tableVars,
           \/ SetPipeline \/ SetProgrammablePipeline \/ SetComputePipeline
           \/ SetBindGroup \/ SetVertexBuffer \/ SetIndexBuffer \/ SetTexture
           \/ SetSampler \/ SetUniforms \/ SetDynamicState
    PROVE  RecordingInvariant'
<1>0. /\ bound \in Bounds
      /\ {"texture", "buffer", "group", "compute", "program"} \subseteq SlotKinds
  BY DEF RecordingInvariant, RecorderTypeOK, SlotKinds
<1>1. ASSUME NEW to, Set(to), to \in Bounds,
             to.colors = bound.colors, to.depth = bound.depth, to.used = bound.used
      PROVE  RecordingInvariant'
  BY <1>1, SetKeeps DEF Set
<1>2. CASE SetPipeline
  <2>1. PICK p \in 1..Len(lists["fixed"]) :
          /\ Push /\ bound' = [bound EXCEPT !.fixed = p, !.program = None]
          /\ UNCHANGED <<pass, pending, announced, trace>>
    BY <1>2 DEF SetPipeline
  <2>2. p \in Nat
    BY <2>1
  <2>3. bound' \in Bounds
    BY <1>0, <2>1, <2>2 DEF Bounds, OneOf
  <2>4. bound'.colors = bound.colors /\ bound'.depth = bound.depth /\ bound'.used = bound.used
    BY <1>0, <2>1 DEF Bounds
  <2>5. QED
    BY <2>1, <2>3, <2>4, SetKeeps
<1>3. CASE SetProgrammablePipeline
  <2>1. PICK p \in LiveIds("program") :
          /\ Push /\ bound' = [bound EXCEPT !.program = p, !.fixed = 0]
          /\ UNCHANGED <<pass, pending, announced, trace>>
    BY <1>3 DEF SetProgrammablePipeline
  <2>2. p \in OneOf("program")
    BY <1>0, LiveBound
  <2>3. bound' \in Bounds
    BY <1>0, <2>1, <2>2 DEF Bounds
  <2>4. bound'.colors = bound.colors /\ bound'.depth = bound.depth /\ bound'.used = bound.used
    BY <1>0, <2>1 DEF Bounds
  <2>5. QED
    BY <2>1, <2>3, <2>4, SetKeeps
<1>4. CASE SetComputePipeline
  <2>1. PICK p \in LiveIds("compute") : Set([bound EXCEPT !.compute = p])
    BY <1>4 DEF SetComputePipeline
  <2>2. p \in OneOf("compute")
    BY <1>0, LiveBound
  <2>3. QED
    BY <1>0, <1>1, <2>1, <2>2 DEF Bounds
<1>5. CASE SetBindGroup
  <2>1. PICK p \in LiveIds("group") : Set([bound EXCEPT !.group = p])
    BY <1>5 DEF SetBindGroup
  <2>2. p \in OneOf("group")
    BY <1>0, LiveBound
  <2>3. QED
    BY <1>0, <1>1, <2>1, <2>2 DEF Bounds
<1>6. CASE SetVertexBuffer
  <2>1. PICK p \in LiveIds("buffer") : Set([bound EXCEPT !.vertex = p])
    BY <1>6 DEF SetVertexBuffer
  <2>2. p \in OneOf("buffer")
    BY <1>0, LiveBound
  <2>3. QED
    BY <1>0, <1>1, <2>1, <2>2 DEF Bounds
<1>7. CASE SetIndexBuffer
  <2>1. PICK p \in LiveIds("buffer") : Set([bound EXCEPT !.index = p])
    BY <1>7 DEF SetIndexBuffer
  <2>2. p \in OneOf("buffer")
    BY <1>0, LiveBound
  <2>3. QED
    BY <1>0, <1>1, <2>1, <2>2 DEF Bounds
<1>8. CASE SetTexture
  <2>1. PICK p \in LiveIds("texture") : Set([bound EXCEPT !.texture = p])
    BY <1>8 DEF SetTexture
  <2>2. p \in OneOf("texture")
    BY <1>0, LiveBound
  <2>3. QED
    BY <1>0, <1>1, <2>1, <2>2 DEF Bounds
<1>9. CASE SetSampler
  BY <1>0, <1>1, <1>9 DEF SetSampler, Bounds
<1>10. CASE SetUniforms
  BY <1>0, <1>1, <1>10 DEF SetUniforms, Bounds
<1>11. CASE SetDynamicState
  BY <1>0, <1>11, SetKeeps DEF SetDynamicState
<1>12. QED
  BY <1>2, <1>3, <1>4, <1>5, <1>6, <1>7, <1>8, <1>9, <1>10, <1>11

(* Passes that begin or end without an access, and the end of a recording. *)
LEMMA BoundariesKeep ==
    ASSUME TableInvariant, RecordingInvariant, UNCHANGED tableVars,
           BeginComputePass \/ EndPass \/ Finish \/ DropEncoder
    PROVE  RecordingInvariant'
<1>1. /\ bound' = NothingBound /\ bound'.depth = None /\ bound' \in Bounds
      /\ UNCHANGED <<pending, announced, trace>>
      /\ pass' \in {"none", "compute", "finished", "dropped"}
  <2>1. bound' = NothingBound /\ pass' \in {"none", "compute", "finished", "dropped"}
    BY DEF BeginComputePass, EndPass, Finish, DropEncoder
  <2>2. UNCHANGED <<pending, announced, trace>>
    BY DEF BeginComputePass, EndPass, Finish, DropEncoder
  <2>3. NothingBound.depth = None
    BY DEF NothingBound
  <2>4. QED
    BY <2>1, <2>2, <2>3, NothingTyped
<1>2. count \in Nat /\ MaxCommands \in Nat
  BY RecorderAssumption DEF RecorderAssumption, RecordingInvariant, RecorderTypeOK
<1>3. count' \in Nat /\ PassCanEnd'
  BY <1>2 DEF BeginComputePass, EndPass, Finish, DropEncoder, Push, Room, RoomForPass, InPass, PassCanEnd
<1>4. RecorderTypeOK'
  BY <1>1, <1>3 DEF RecordingInvariant, RecorderTypeOK
<1>5. QED
  BY <1>1, <1>3, <1>4, QuietKeeps

(* A call that only accesses: it may touch nothing pending, and uses up    *)
(* the announcements of the buffers it accesses.                           *)
LEMMA AccessKeeps ==
    ASSUME TableInvariant, RecordingInvariant, UNCHANGED tableVars,
           NEW subs \in SUBSET Subs, NEW ids, Access(subs, ids), pending' = pending,
           pass \in {"none", "render", "compute"}, pass' \in {"none", "render", "compute"},
           PassCanEnd', bound' \in Bounds, bound'.depth # None => Named(bound'.depth),
           Opens(Entry(subs, {}, {}, pass)) \/ Joins(Entry(subs, {}, {}, pass)), DepthKnown',
           subs \cap pending = {},
           \A b \in LiveIds("buffer") : b \in ids <=> Sub(b, 0) \in subs
    PROVE  RecordingInvariant'
<1>0. PICK e : e = Entry(subs, {}, {}, pass)
  OBVIOUS
<1>1. e.access = subs /\ e.written = {} /\ e.ordered = {} /\ e.pass = pass /\ e \in Entries
  BY <1>0 DEF Entry, Entries
<1>2. Grown(e) /\ announced' = Consumed(ids) /\ count' = count + 1
  BY <1>0, <1>1 DEF Access, Record, Grown, Push
<1>3. announced' \subseteq announced
  BY <1>2 DEF Consumed
<1>4. RecorderTypeOK'
  <2>1. trace' \in Seq(Entries)
    BY <1>2, GrownFacts DEF RecordingInvariant, RecorderTypeOK
  <2>2. QED
    BY <1>2, <1>3, <2>1 DEF RecordingInvariant, RecorderTypeOK
<1>5. Consumes(e)
  <2>1. ASSUME NEW b \in LiveIds("buffer")
        PROVE  (\E a \in announced' : a.sub = Sub(b, 0)) <=>
                  (\E a \in announced : a.sub = Sub(b, 0)) /\ Sub(b, 0) \notin subs
    <3>1. Sub(b, 0).id = b
      BY DEF Sub
    <3>2. \A a \in announced : a.sub = Sub(b, 0) => (a \in announced' <=> b \notin ids)
      BY <1>2, <3>1 DEF Consumed
    <3>3. b \in ids <=> Sub(b, 0) \in subs
      OBVIOUS
    <3>4. QED
      BY <1>3, <3>2, <3>3
  <2>2. QED
    BY <1>1, <2>1 DEF Consumes
<1>6. Names(e)
  BY <1>1, <1>3 DEF Names
<1>7. QED
  BY <1>0, <1>1, <1>2, <1>4, <1>5, <1>6, EntryKeeps

LEMMA OutsideAccess ==
    ASSUME TableInvariant, RecordingInvariant, UNCHANGED tableVars,
           NEW subs \in SUBSET Subs, NEW ids, Access(subs, ids), UNCHANGED <<pass, pending, bound>>,
           pass = "none", subs \cap pending = {},
           \A b \in LiveIds("buffer") : b \in ids <=> Sub(b, 0) \in subs
    PROVE  RecordingInvariant'
<1>1. PassCanEnd'
  BY RoomKept DEF Access, RecordingInvariant, RecorderTypeOK
<1>2. bound' \in Bounds
  BY DEF RecordingInvariant, RecorderTypeOK
<1>3. bound'.depth # None => Named(bound'.depth)
  BY DEF RecordingInvariant, NamesAreKnown
<1>4. Opens(Entry(subs, {}, {}, pass)) /\ DepthKnown'
  BY DEF Opens, DepthKnown, Entry
<1>5. QED
  BY <1>1, <1>2, <1>3, <1>4, AccessKeeps

(* Subresources of live resources, and which of them are buffers.          *)
LEMMA SubFacts ==
    ASSUME TableInvariant
    PROVE  /\ \A kind \in SlotKinds : \A id \in LiveIds(kind) :
                /\ id \in Ids /\ id.kind = kind /\ Resolves(id) /\ Named(id)
                /\ \A m \in Nat : Sub(id, m) \in Subs
           /\ \A id, i2, m, m2 : Sub(id, m) = Sub(i2, m2) <=> id = i2 /\ m = m2
           /\ \A id, m : Sub(id, m).id = id
<1>1. ASSUME NEW kind \in SlotKinds, NEW id \in LiveIds(kind)
      PROVE  /\ id \in Ids /\ id.kind = kind /\ Resolves(id) /\ Named(id)
             /\ \A m \in Nat : Sub(id, m) \in Subs
  <2>1. id \in Ids /\ id.kind = kind /\ Resolves(id)
    BY LiveMeans DEF TableInvariant
  <2>2. QED
    BY <2>1 DEF Named, Known, Sub, Subs
<1>2. \A id, i2, m, m2 : Sub(id, m) = Sub(i2, m2) <=> id = i2 /\ m = m2
  BY DEF Sub
<1>3. \A id, m : Sub(id, m).id = id
  BY DEF Sub
<1>4. QED
  BY <1>1, <1>2, <1>3

LEMMA TransfersKeep ==
    ASSUME TableInvariant, RecordingInvariant, UNCHANGED tableVars,
           \/ WriteBuffer \/ WriteTexture \/ BlitTexture
           \/ CopyTextureToTexture \/ CopyBufferToBuffer
    PROVE  RecordingInvariant'
<1>0. /\ "texture" \in SlotKinds /\ "buffer" \in SlotKinds /\ 0 \in Nat
      /\ \A id \in LiveIds("texture") : id \notin LiveIds("buffer")
  <2>1. "texture" \in SlotKinds /\ "buffer" \in SlotKinds
    BY DEF SlotKinds
  <2>2. QED
    BY <2>1, SubFacts
<1>1. CASE WriteBuffer
  <2>1. PICK id \in LiveIds("buffer") :
          /\ pass = "none" /\ Allowed(Sub(id, 0), "CopyDestination")
          /\ Access({Sub(id, 0)}, {id}) /\ UNCHANGED <<pass, pending, bound>>
    BY <1>1 DEF WriteBuffer
  <2>2. {Sub(id, 0)} \in SUBSET Subs /\ {Sub(id, 0)} \cap pending = {}
    BY <1>0, <2>1, SubFacts DEF Allowed
  <2>3. \A b \in LiveIds("buffer") : b \in {id} <=> Sub(b, 0) \in {Sub(id, 0)}
    BY SubFacts
  <2>4. QED
    BY <2>1, <2>2, <2>3, OutsideAccess
<1>2. CASE WriteTexture
  <2>1. PICK id \in LiveIds("texture"), mip \in 0..1 :
          /\ pass = "none" /\ Allowed(Sub(id, mip), "CopyDestination")
          /\ Access({Sub(id, mip)}, {id}) /\ UNCHANGED <<pass, pending, bound>>
    BY <1>2 DEF WriteTexture
  <2>2. {Sub(id, mip)} \in SUBSET Subs /\ {Sub(id, mip)} \cap pending = {}
    BY <1>0, <2>1, SubFacts DEF Allowed
  <2>3. \A b \in LiveIds("buffer") : b \in {id} <=> Sub(b, 0) \in {Sub(id, mip)}
    BY <1>0, SubFacts
  <2>4. QED
    BY <2>1, <2>2, <2>3, OutsideAccess
<1>3. CASE BlitTexture
  <2>1. PICK s \in LiveIds("texture"), d \in LiveIds("texture"), sm \in 0..1, dm \in 0..1 :
          /\ pass = "none"
          /\ Allowed(Sub(s, sm), "CopySource") /\ Allowed(Sub(d, dm), "CopyDestination")
          /\ Access({Sub(s, sm), Sub(d, dm)}, {}) /\ UNCHANGED <<pass, pending, bound>>
    BY <1>3 DEF BlitTexture
  <2>2. {Sub(s, sm), Sub(d, dm)} \in SUBSET Subs /\ {Sub(s, sm), Sub(d, dm)} \cap pending = {}
    BY <1>0, <2>1, SubFacts DEF Allowed
  <2>3. \A b \in LiveIds("buffer") : b \in {} <=> Sub(b, 0) \in {Sub(s, sm), Sub(d, dm)}
    BY <1>0, SubFacts
  <2>4. QED
    BY <2>1, <2>2, <2>3, OutsideAccess
<1>4. CASE CopyTextureToTexture
  <2>1. PICK s \in LiveIds("texture"), d \in LiveIds("texture") :
          /\ pass = "none"
          /\ Allowed(Sub(s, 0), "CopySource") /\ Allowed(Sub(d, 0), "CopyDestination")
          /\ Access({Sub(s, 0), Sub(d, 0)}, {s, d}) /\ UNCHANGED <<pass, pending, bound>>
    BY <1>4 DEF CopyTextureToTexture
  <2>2. {Sub(s, 0), Sub(d, 0)} \in SUBSET Subs /\ {Sub(s, 0), Sub(d, 0)} \cap pending = {}
    BY <1>0, <2>1, SubFacts DEF Allowed
  <2>3. \A b \in LiveIds("buffer") : b \in {s, d} <=> Sub(b, 0) \in {Sub(s, 0), Sub(d, 0)}
    BY SubFacts
  <2>4. QED
    BY <2>1, <2>2, <2>3, OutsideAccess
<1>5. CASE CopyBufferToBuffer
  <2>1. PICK s \in LiveIds("buffer"), d \in LiveIds("buffer") :
          /\ pass = "none"
          /\ Allowed(Sub(s, 0), "CopySource") /\ Allowed(Sub(d, 0), "CopyDestination")
          /\ Access({Sub(s, 0), Sub(d, 0)}, {s, d}) /\ UNCHANGED <<pass, pending, bound>>
    BY <1>5 DEF CopyBufferToBuffer
  <2>2. {Sub(s, 0), Sub(d, 0)} \in SUBSET Subs /\ {Sub(s, 0), Sub(d, 0)} \cap pending = {}
    BY <1>0, <2>1, SubFacts DEF Allowed
  <2>3. \A b \in LiveIds("buffer") : b \in {s, d} <=> Sub(b, 0) \in {Sub(s, 0), Sub(d, 0)}
    BY SubFacts
  <2>4. QED
    BY <2>1, <2>2, <2>3, OutsideAccess
<1>6. QED
  BY <1>1, <1>2, <1>3, <1>4, <1>5

(* The subresources of a live buffer or texture.                           *)
LEMMA WholeFacts ==
    ASSUME TableInvariant
    PROVE  /\ \A id \in LiveIds("buffer") : Whole(id) = {Sub(id, 0)} /\ Whole(id) \subseteq Subs
           /\ \A id \in LiveIds("texture") :
                /\ Whole(id) = {Sub(id, m) : m \in 0..(Desc(id).mips - 1)}
                /\ Whole(id) \subseteq Subs
<1>0. "texture" \in SlotKinds /\ "buffer" \in SlotKinds
  BY DEF SlotKinds
<1>1. ASSUME NEW id \in LiveIds("buffer")
      PROVE  Whole(id) = {Sub(id, 0)} /\ Whole(id) \subseteq Subs
  <2>1. id.kind = "buffer" /\ Sub(id, 0) \in Subs
    BY <1>0, SubFacts
  <2>2. QED
    BY <2>1 DEF Whole
<1>2. ASSUME NEW id \in LiveIds("texture")
      PROVE  /\ Whole(id) = {Sub(id, m) : m \in 0..(Desc(id).mips - 1)}
             /\ Whole(id) \subseteq Subs
  <2>1. id.kind = "texture" /\ \A m \in Nat : Sub(id, m) \in Subs
    BY <1>0, SubFacts
  <2>2. Desc(id) \in TextureDescs
    BY <1>0, LiveDesc DEF TableInvariant, DescsOf
  <2>3. Desc(id).mips \in Nat
    BY <2>2, TableAssumption DEF TableAssumption
  <2>4. \A m \in 0..(Desc(id).mips - 1) : m \in Nat
    BY <2>3
  <2>5. QED
    BY <2>1, <2>4 DEF Whole
<1>3. QED
  BY <1>1, <1>2

LEMMA BarrierKeeps ==
    ASSUME TableInvariant, RecordingInvariant, UNCHANGED tableVars,
           NEW subs \in SUBSET Subs, \A s \in subs : s.id # None /\ Named(s.id),
           NEW write, NEW before, NEW after \in BufferAccesses \cup TextureAccesses,
           Barrier(subs, write, before, after)
    PROVE  RecordingInvariant'
<1>0. PICK e : e = Entry({}, {}, subs, "none")
  OBVIOUS
<1>1. e.access = {} /\ e.written = {} /\ e.ordered = subs /\ e.pass = "none" /\ e \in Entries
  BY <1>0 DEF Entry, Entries
<1>2. /\ Grown(e) /\ pass = "none" /\ UNCHANGED <<pass, bound>> /\ count' = count + 1
      /\ pending' = pending \ subs
      /\ announced' = {a \in announced : a.sub \notin subs} \cup {[sub |-> s, access |-> after] : s \in subs}
  BY <1>0, <1>1 DEF Barrier, Record, Grown, Push
<1>3. PassCanEnd' /\ count' \in Nat
  BY RoomKept DEF Barrier, RecordingInvariant, RecorderTypeOK
<1>4. RecorderTypeOK'
  <2>1. trace' \in Seq(Entries)
    BY <1>2, GrownFacts DEF RecordingInvariant, RecorderTypeOK
  <2>2. announced' \subseteq [sub : Subs, access : BufferAccesses \cup TextureAccesses]
    BY <1>2 DEF RecordingInvariant, RecorderTypeOK
  <2>3. QED
    BY <1>2, <1>3, <2>1, <2>2 DEF RecordingInvariant, RecorderTypeOK
<1>5. Opens(e) /\ DepthKnown'
  BY <1>1, <1>2 DEF Opens, DepthKnown
<1>6. Everything \notin subs
  BY DEF Everything, Sub
<1>7. Consumes(e)
  <2>1. ASSUME NEW s
        PROVE  (\E a \in announced' : a.sub = s) <=> s \in subs \/ \E a \in announced : a.sub = s
    <3>1. CASE s \in subs
      <4>1. [sub |-> s, access |-> after] \in announced' /\ [sub |-> s, access |-> after].sub = s
        BY <1>2, <3>1
      <4>2. QED
        BY <3>1, <4>1
    <3>2. CASE s \notin subs
      BY <1>2, <3>2
    <3>3. QED
      BY <3>1, <3>2
  <2>2. QED
    BY <1>1, <1>6, <2>1 DEF Consumes
<1>8. Names(e)
  <2>1. \A a \in announced' : a \in announced \/ Named(a.sub.id)
    BY <1>2
  <2>2. bound'.depth # None => Named(bound'.depth)
    BY <1>2 DEF RecordingInvariant, NamesAreKnown
  <2>3. QED
    BY <1>1, <2>1, <2>2 DEF Names
<1>9. \A s \in pending : s \in pending' \/ Covers(e, s)
  BY <1>1, <1>2 DEF Covers
<1>10. QED
  BY <1>1, <1>2, <1>3, <1>4, <1>5, <1>7, <1>8, <1>9, EntryKeeps

LEMMA GlobalBarrierKeeps ==
    ASSUME TableInvariant, RecordingInvariant, UNCHANGED tableVars, GlobalBarrier
    PROVE  RecordingInvariant'
<1>0. PICK e : e = Entry({}, {}, {Everything}, "none")
  OBVIOUS
<1>1. e.access = {} /\ e.written = {} /\ e.ordered = {Everything} /\ e.pass = "none" /\ e \in Entries
  BY <1>0 DEF Entry, Entries, Everything, Sub, Subs
<1>2. /\ Grown(e) /\ pass = "none" /\ UNCHANGED <<pass, bound>> /\ count' = count + 1
      /\ pending' = {} /\ announced' = {}
  BY <1>0, <1>1 DEF GlobalBarrier, Record, Grown, Push
<1>3. PassCanEnd' /\ count' \in Nat
  BY RoomKept DEF GlobalBarrier, RecordingInvariant, RecorderTypeOK
<1>4. RecorderTypeOK'
  <2>1. trace' \in Seq(Entries)
    BY <1>2, GrownFacts DEF RecordingInvariant, RecorderTypeOK
  <2>2. QED
    BY <1>2, <1>3, <2>1 DEF RecordingInvariant, RecorderTypeOK
<1>5. Opens(e) /\ DepthKnown'
  BY <1>1, <1>2 DEF Opens, DepthKnown
<1>6. Consumes(e)
  <2>1. \A b \in LiveIds("buffer") : Sub(b, 0) # Everything
    <3>1. \A b \in LiveIds("buffer") : b \in Ids
      BY SubFacts DEF SlotKinds
    <3>2. QED
      BY <3>1, SubFacts, AbsenceAssumption DEF AbsenceAssumption, Everything
  <2>2. QED
    BY <1>1, <1>2, <2>1 DEF Consumes
<1>7. Names(e)
  BY <1>1, <1>2 DEF Names, RecordingInvariant, NamesAreKnown
<1>8. \A s \in pending : Covers(e, s)
  BY <1>1 DEF Covers
<1>9. QED
  BY <1>1, <1>2, <1>3, <1>4, <1>5, <1>6, <1>7, <1>8, EntryKeeps

LEMMA BarriersKeep ==
    ASSUME TableInvariant, RecordingInvariant, UNCHANGED tableVars, ResourceBarrier
    PROVE  RecordingInvariant'
<1>0. "texture" \in SlotKinds /\ "buffer" \in SlotKinds
  BY DEF SlotKinds
<1>1. ASSUME NEW kind \in {"texture", "buffer"}, NEW id \in LiveIds(kind),
             NEW subs, subs \subseteq Whole(id)
      PROVE  subs \subseteq Subs /\ \A s \in subs : s.id # None /\ Named(s.id)
  <2>1. subs \subseteq Subs
    BY <1>1, WholeFacts
  <2>2. \A s \in subs : s.id = id
    BY <1>1, WholeFacts, SubFacts
  <2>3. id # None /\ Named(id)
    BY <1>0, SubFacts, AbsenceAssumption DEF AbsenceAssumption
  <2>4. QED
    BY <2>1, <2>2, <2>3
<1>2. CASE GlobalBarrier
  BY <1>2, GlobalBarrierKeeps
<1>3. ASSUME NEW id \in LiveIds("buffer"), NEW before \in BufferAccesses, NEW after \in BufferAccesses,
             Barrier(Whole(id), "StorageReadWrite", before, after)
      PROVE  RecordingInvariant'
  <2>1. PICK subs : subs = Whole(id)
    OBVIOUS
  <2>2. QED
    BY <1>1, <1>3, <2>1, BarrierKeeps
<1>4. ASSUME NEW id \in LiveIds("texture"), NEW before \in TextureAccesses, NEW after \in TextureAccesses,
             Barrier(Whole(id), "StorageWrite", before, after)
      PROVE  RecordingInvariant'
  <2>1. PICK subs : subs = Whole(id)
    OBVIOUS
  <2>2. QED
    BY <1>1, <1>4, <2>1, BarrierKeeps
<1>5. ASSUME NEW id \in LiveIds("texture"), NEW before \in TextureAccesses, NEW after \in TextureAccesses,
             NEW mip \in 0..(Desc(id).mips - 1),
             Barrier({Sub(id, mip)}, "StorageWrite", before, after)
      PROVE  RecordingInvariant'
  <2>1. {Sub(id, mip)} \subseteq Whole(id)
    BY <1>5, WholeFacts
  <2>2. PICK subs : subs = {Sub(id, mip)}
    OBVIOUS
  <2>3. QED
    BY <1>1, <1>5, <2>1, <2>2, BarrierKeeps
<1>6. QED
  BY <1>2, <1>3, <1>4, <1>5 DEF ResourceBarrier

(* What a binding of the encoder names, when it still resolves, is live.   *)
LEMMA BoundLive ==
    ASSUME TableInvariant, NEW kind \in SlotKinds, NEW id \in OneOf(kind), Resolves(id)
    PROVE  id \in LiveIds(kind)
<1>1. id # None
  BY DEF Resolves
<1>2. id \in Ids /\ id.kind = kind
  BY <1>1 DEF OneOf, Ids
<1>3. QED
  BY <1>2, LiveMeans DEF TableInvariant

LEMMA BeginKeeps ==
    ASSUME TableInvariant, RecordingInvariant, UNCHANGED tableVars, BeginRenderPass
    PROVE  RecordingInvariant'
<1>0. "texture" \in SlotKinds /\ \A id \in LiveIds("texture") : id \notin LiveIds("buffer")
  BY SubFacts DEF SlotKinds
<1>1. PICK colors \in ColorTargets,
           depth \in {None} \cup {id \in LiveIds("texture") : DepthTarget(id)},
           readOnly \in BOOLEAN :
        LET targets == {colors[i] : i \in 1..Len(colors)}
            all == targets \cup (IF depth = None THEN {} ELSE {depth}) IN
        /\ AllAllowed({Sub(t, 0) : t \in targets}, "RenderAttachment")
        /\ depth # None =>
            Allowed(Sub(depth, 0), IF readOnly THEN "Sampled" ELSE "RenderAttachment")
        /\ Access({Sub(t, 0) : t \in all}, all)
        /\ bound' = [NothingBound EXCEPT !.colors = colors, !.depth = depth,
                                         !.readOnly = readOnly]
  BY DEF BeginRenderPass
<1> DEFINE targets == {colors[i] : i \in 1..Len(colors)}
           all == targets \cup (IF depth = None THEN {} ELSE {depth})
           subs == {Sub(t, 0) : t \in all}
<1>2. colors \in Seq(LiveIds("texture"))
  <2> DEFINE one == {id \in LiveIds("texture") : ColorTarget(id)}
  <2>1. one \subseteq LiveIds("texture")
    OBVIOUS
  <2>2. \A id \in one : <<id>> \in Seq(LiveIds("texture"))
    OBVIOUS
  <2>3. \A p \in one \X one : p \in Seq(LiveIds("texture"))
    <3>1. \A a, b \in one : <<a, b>> \in Seq(LiveIds("texture"))
      OBVIOUS
    <3>2. \A p \in one \X one : p[1] \in one /\ p[2] \in one /\ p = <<p[1], p[2]>>
      OBVIOUS
    <3> HIDE DEF one
    <3>3. QED
      BY <3>1, <3>2
  <2>4. QED
    BY <2>2, <2>3 DEF ColorTargets
<1>3. targets \subseteq LiveIds("texture") /\ all \subseteq LiveIds("texture") /\ colors \in Seq(Ids)
  <2>1. LiveIds("texture") \subseteq Ids
    BY <1>0, LiveBound
  <2>2. targets \subseteq LiveIds("texture")
    BY <1>2
  <2>3. QED
    BY <1>2, <2>1, <2>2
<1>4. subs \in SUBSET Subs
  BY <1>0, <1>3, SubFacts
<1>5. subs \cap pending = {}
  BY <1>1 DEF AllAllowed, Allowed
<1>6. \A b \in LiveIds("buffer") : b \in all <=> Sub(b, 0) \in subs
  BY SubFacts
<1>7. /\ bound'.colors = colors /\ bound'.depth = depth /\ bound' \in Bounds
      /\ pass = "none" /\ pass' = "render" /\ pending' = pending
  <2>1. depth \in OneOf("texture")
    BY <1>0, <1>1, LiveBound DEF OneOf
  <2>2. bound'.colors = colors /\ bound'.depth = depth
    BY <1>1 DEF NothingBound
  <2>3. bound' \in Bounds
    BY <1>1, <1>3, <2>1, NothingTyped DEF Bounds
  <2>4. QED
    BY <2>2, <2>3 DEF BeginRenderPass
<1>8. PassCanEnd'
  <2>1. count \in Nat /\ MaxCommands \in Nat /\ count' = count + 1
    BY <1>1, RecorderAssumption
    DEF RecorderAssumption, RecordingInvariant, RecorderTypeOK, Access, Push
  <2>2. QED
    BY <2>1 DEF BeginRenderPass, RoomForPass, PassCanEnd
<1>9. depth # None => Named(depth)
  BY <1>0, <1>1, SubFacts
<1>10. Opens(Entry(subs, {}, {}, pass))
  <2>1. Entry(subs, {}, {}, pass).pass = "none" /\ Entry(subs, {}, {}, pass).access = subs
    BY <1>7 DEF Entry
  <2>2. {s.id : s \in subs} \subseteq all
    BY SubFacts
  <2>3. all \subseteq PassUses'
    BY <1>7 DEF PassUses
  <2>4. QED
    BY <2>1, <2>2, <2>3 DEF Opens
<1>11. DepthKnown'
  <2>1. depth # None => Desc(depth).format = "depth"
    BY <1>1 DEF DepthTarget
  <2>2. Desc(depth)' = Desc(depth)
    BY DEF tableVars, Desc
  <2>3. QED
    BY <1>7, <2>1, <2>2 DEF DepthKnown, Desc
<1>12. QED
  BY <1>1, <1>4, <1>5, <1>6, <1>7, <1>8, <1>9, <1>10, <1>11, AccessKeeps

LEMMA DrawFixedKeeps ==
    ASSUME TableInvariant, RecordingInvariant, UNCHANGED tableVars, DrawFixed
    PROVE  RecordingInvariant'
<1>0. /\ "texture" \in SlotKinds /\ "buffer" \in SlotKinds /\ bound \in Bounds
      /\ bound.vertex \in OneOf("buffer") /\ bound.index \in OneOf("buffer")
      /\ bound.texture \in OneOf("texture")
  <2>1. bound \in Bounds
    BY DEF RecordingInvariant, RecorderTypeOK
  <2>2. QED
    BY <2>1 DEF SlotKinds, Bounds
<1>1. PICK indexed \in BOOLEAN :
        LET textured == lists["fixed"][bound.fixed].textured
            fetched == {bound.vertex} \cup (IF indexed THEN {bound.index} ELSE {})
            used == fetched \cup (IF textured THEN {bound.texture} ELSE {}) IN
        /\ textured => bound.sampler /\ Resolves(bound.texture)
                        /\ AllAllowed(Whole(bound.texture), "Sampled")
        /\ Resolves(bound.vertex) /\ Allowed(Sub(bound.vertex, 0), "Vertex")
        /\ indexed => Resolves(bound.index) /\ Allowed(Sub(bound.index, 0), "Index")
        /\ Access(UNION {Whole(id) : id \in used}, used)
        /\ bound' = [bound EXCEPT !.used = @ \cup used]
  BY DEF DrawFixed
<1> DEFINE textured == lists["fixed"][bound.fixed].textured
<1>2. PICK used : used = {bound.vertex} \cup (IF indexed THEN {bound.index} ELSE {})
                            \cup (IF textured THEN {bound.texture} ELSE {})
  OBVIOUS
<1>3. PICK subs : subs = UNION {Whole(id) : id \in used}
  OBVIOUS
<1>4. Access(subs, used) /\ bound' = [bound EXCEPT !.used = @ \cup used]
  BY <1>1, <1>2, <1>3
<1>5. ASSUME NEW id \in used
      PROVE  /\ id \in LiveIds("buffer") \/ id \in LiveIds("texture")
             /\ Whole(id) \cap pending = {}
  <2>1. CASE id = bound.vertex
    <3>1. id \in LiveIds("buffer")
      BY <1>0, <1>1, <2>1, BoundLive
    <3>2. QED
      BY <1>1, <2>1, <3>1, WholeFacts DEF Allowed
  <2>2. CASE id = bound.index /\ indexed
    <3>1. id \in LiveIds("buffer")
      BY <1>0, <1>1, <2>2, BoundLive
    <3>2. QED
      BY <1>1, <2>2, <3>1, WholeFacts DEF Allowed
  <2>3. CASE id = bound.texture /\ textured
    <3>1. id \in LiveIds("texture")
      BY <1>0, <1>1, <2>3, BoundLive
    <3>2. QED
      BY <1>1, <2>3, <3>1 DEF AllAllowed, Allowed
  <2>4. QED
    BY <1>2, <1>5, <2>1, <2>2, <2>3
<1>6. \A id \in used : id \in Ids /\ Whole(id) \subseteq Subs /\ \A s \in Whole(id) : s.id = id
  BY <1>0, <1>5, SubFacts, WholeFacts
<1>7. subs \in SUBSET Subs /\ subs \cap pending = {}
  BY <1>3, <1>5, <1>6
<1>8. \A b \in LiveIds("buffer") : b \in used <=> Sub(b, 0) \in subs
  <2>1. ASSUME NEW b \in LiveIds("buffer"), b \in used
        PROVE  Sub(b, 0) \in subs
    BY <1>3, <2>1, WholeFacts
  <2>2. ASSUME NEW b \in LiveIds("buffer"), Sub(b, 0) \in subs
        PROVE  b \in used
    BY <1>3, <1>6, <2>2, SubFacts
  <2>3. QED
    BY <2>1, <2>2
<1>9. /\ bound'.colors = bound.colors /\ bound'.depth = bound.depth
      /\ bound'.used = bound.used \cup used
      /\ bound' \in Bounds
      /\ pass = "render" /\ pass' = "render" /\ pending' = pending
  <2>1. bound'.colors = bound.colors /\ bound'.depth = bound.depth
        /\ bound'.used = bound.used \cup used
    BY <1>0, <1>4 DEF Bounds
  <2>2. bound.used \cup used \in SUBSET Ids
    BY <1>0, <1>6 DEF Bounds
  <2>3. bound' \in Bounds
    BY <1>0, <1>4, <2>2 DEF Bounds
  <2>4. QED
    BY <2>1, <2>3 DEF DrawFixed
<1>10. PassCanEnd'
  BY <1>4, <1>9, RoomKept DEF Access, RecordingInvariant, RecorderTypeOK
<1>11. Joins(Entry(subs, {}, {}, pass))
  <2>1. PassUses' = PassUses \cup used
    BY <1>9 DEF PassUses
  <2>2. {s.id : s \in subs} \subseteq used
    BY <1>3, <1>6
  <2>3. QED
    BY <1>9, <2>1, <2>2 DEF Joins, Entry
<1>12. bound'.depth # None => Named(bound'.depth)
  BY <1>9 DEF RecordingInvariant, NamesAreKnown
<1>13. DepthKnown'
  <2>1. Desc(bound.depth)' = Desc(bound'.depth) /\ (Resolves(bound.depth)' <=> Resolves(bound.depth))
    BY <1>9 DEF tableVars, Desc, Resolves
  <2>2. QED
    BY <1>9, <2>1 DEF DepthKnown, RecordingInvariant, PassKnowsItsUses
<1>14. QED
  BY <1>4, <1>7, <1>8, <1>9, <1>10, <1>11, <1>12, <1>13, AccessKeeps

(* The bindings of a group that validate_groups accepted: subresources of  *)
(* live resources that are not pending; those a shader writes are buffers  *)
(* or storage textures, and no attachments.                                *)
LEMMA GroupSubsFacts ==
    ASSUME TableInvariant, RecordingInvariant,
           NEW layout \in Seq(BindingTypes), NEW attachments, NEW fetched,
           ValidGroups(layout, attachments, fetched)
    PROVE  /\ GroupSubs(layout, FALSE) \subseteq Subs
           /\ GroupSubs(layout, FALSE) \cap pending = {}
           /\ GroupSubs(layout, TRUE) \subseteq GroupSubs(layout, FALSE)
           /\ \A s \in GroupSubs(layout, FALSE) : s.id \in Ids
           /\ \A s \in GroupSubs(layout, TRUE) :
                /\ s.id \notin attachments
                /\ s.id \in Ids /\ Resolves(s.id)
                /\ s.id.kind = "texture" => "STORAGE" \in Desc(s.id).usage
<1>1. CASE layout = <<>>
  <2>1. \A j : j \notin 1..Len(layout)
    BY <1>1
  <2>2. GroupSubs(layout, FALSE) = {} /\ GroupSubs(layout, TRUE) = {}
    BY <2>1 DEF GroupSubs
  <2>3. QED
    BY <2>2
<1>2. CASE layout # <<>>
  <2> DEFINE g == bound.group
             entries == Desc(g).entries
  <2>1. /\ Resolves(g) /\ Desc(g).layout = layout
        /\ \A i \in 1..Len(layout) :
            /\ Resolves(entries[i].id)
            /\ AllAllowed(BindingSubs(entries[i]), AccessOf(layout[i]))
            /\ entries[i].id \notin attachments
    BY <1>2 DEF ValidGroups
  <2>2. g \in LiveIds("group") /\ g # None
    <3>1. "group" \in SlotKinds /\ g \in OneOf("group")
      BY DEF SlotKinds, RecordingInvariant, RecorderTypeOK, Bounds
    <3>2. QED
      BY <2>1, <3>1, BoundLive DEF Resolves
  <2>3. ASSUME NEW i \in 1..Len(layout), NEW b, b = entries[i]
        PROVE  /\ b.id \in Ids /\ BindingSubs(b) \subseteq Subs
               /\ BindingSubs(b) \cap pending = {}
               /\ \A s \in BindingSubs(b) : s.id = b.id
               /\ b.id \notin attachments /\ Resolves(b.id)
               /\ Writes(layout[i]) /\ b.id.kind = "texture" => "STORAGE" \in Desc(b.id).usage
    <3>1. b \in AnyBinding /\ b.id \in Ids /\ ValidBinding(layout[i], b)
      BY <2>1, <2>2, <2>3, GroupFacts DEF TableInvariant
    <3>2. BindingSubs(b) \subseteq Subs
      <4>1. b.base \in Nat /\ b.count \in Nat
        BY <3>1 DEF AnyBinding
      <4>2. \A m \in b.base..(b.base + b.count - 1) : m \in Nat
        BY <4>1
      <4>3. QED
        BY <3>1, <4>2 DEF BindingSubs, Sub, Subs
    <3>3. \A s \in BindingSubs(b) : s.id = b.id
      BY DEF BindingSubs, Sub
    <3>4. BindingSubs(b) \cap pending = {}
      BY <2>1, <2>3 DEF AllAllowed, Allowed
    <3>5. Writes(layout[i]) /\ b.id.kind = "texture" => "STORAGE" \in Desc(b.id).usage
      BY <3>1 DEF Writes, ValidBinding
    <3>6. QED
      BY <2>1, <2>3, <3>1, <3>2, <3>3, <3>4, <3>5
  <2>4. \A s \in GroupSubs(layout, FALSE) : \E i \in 1..Len(layout) : s \in BindingSubs(entries[i])
    <3>1. GroupSubs(layout, FALSE) =
             UNION {BindingSubs(entries[i]) : i \in {j \in 1..Len(layout) : FALSE => Writes(layout[j])}}
      BY <2>2 DEF GroupSubs
    <3>2. QED
      BY <3>1
  <2>5. \A s \in GroupSubs(layout, TRUE) :
            \E i \in 1..Len(layout) : Writes(layout[i]) /\ s \in BindingSubs(entries[i])
    BY <2>2 DEF GroupSubs
  <2>6. GroupSubs(layout, TRUE) \subseteq GroupSubs(layout, FALSE)
    BY <2>2 DEF GroupSubs
  <2>7. ASSUME NEW s \in GroupSubs(layout, FALSE)
        PROVE  s \in Subs /\ s \notin pending /\ s.id \in Ids
    BY <2>3, <2>4
  <2>8. ASSUME NEW s \in GroupSubs(layout, TRUE)
        PROVE  /\ s.id \notin attachments
               /\ s.id \in Ids /\ Resolves(s.id)
               /\ s.id.kind = "texture" => "STORAGE" \in Desc(s.id).usage
    <3>1. PICK i \in 1..Len(layout) : Writes(layout[i]) /\ s \in BindingSubs(entries[i])
      BY <2>5
    <3>2. PICK b : b = entries[i]
      OBVIOUS
    <3>3. s.id = b.id
      BY <2>3, <3>1, <3>2
    <3>4. QED
      BY <2>3, <3>1, <3>2, <3>3
  <2>9. QED
    BY <2>6, <2>7, <2>8
<1>3. QED
  BY <1>1, <1>2

(* A draw or a dispatch with bind groups.                                  *)
LEMMA RecordKeeps ==
    ASSUME TableInvariant, RecordingInvariant, UNCHANGED tableVars,
           NEW layout \in Seq(BindingTypes), NEW attachments,
           NEW fetched \in SUBSET LiveIds("buffer"),
           ValidGroups(layout, attachments, fetched),
           \A id \in fetched : Sub(id, 0) \notin pending,
           RecordWithWrites(layout, fetched),
           pass \in {"render", "compute"}, pass' = pass, bound' \in Bounds, bound'.depth = bound.depth,
           pass = "render" =>
              /\ PassUses \cup fetched \cup {s.id : s \in GroupSubs(layout, FALSE)} \subseteq PassUses'
              /\ {s.id : s \in GroupSubs(layout, TRUE)} \cap PassUses = {}
    PROVE  RecordingInvariant'
<1> DEFINE fetches == {Sub(id, 0) : id \in fetched}
<1>0. PICK used, written :
        used = GroupSubs(layout, FALSE) \cup fetches /\ written = GroupSubs(layout, TRUE)
  OBVIOUS
<1>1. /\ written \subseteq used /\ used \subseteq Subs /\ used \cap pending = {}
      /\ written \subseteq Subs
  <2>1. "buffer" \in SlotKinds
    BY DEF SlotKinds
  <2>2. \A s \in fetches : s \in Subs /\ s \notin pending
    BY <2>1, SubFacts
  <2>3. QED
    BY <1>0, <2>2, GroupSubsFacts
<1>2. PICK e : e = Entry(used, written, {}, pass)
  OBVIOUS
<1>3. e.access = used /\ e.written = written /\ e.ordered = {} /\ e.pass = pass /\ e \in Entries
  BY <1>1, <1>2 DEF Entry, Entries
<1>4. /\ Grown(e) /\ Push /\ count' = count + 1
      /\ announced' = {a \in announced : a.sub \notin used}
      /\ pending' = pending \cup written
  BY <1>0, <1>2, <1>3 DEF RecordWithWrites, Record, Grown, Push
<1>5. PassCanEnd' /\ count' \in Nat
  BY <1>4, RoomKept DEF RecordingInvariant, RecorderTypeOK
<1>6. RecorderTypeOK'
  <2>1. trace' \in Seq(Entries)
    BY <1>4, GrownFacts DEF RecordingInvariant, RecorderTypeOK
  <2>2. pending' \subseteq Subs /\ announced' \subseteq announced
    BY <1>1, <1>4 DEF RecordingInvariant, RecorderTypeOK
  <2>3. QED
    BY <1>5, <2>1, <2>2 DEF RecordingInvariant, RecorderTypeOK
<1>7. Consumes(e)
  <2>1. \A s : (\E a \in announced' : a.sub = s) <=> (\E a \in announced : a.sub = s) /\ s \notin used
    BY <1>4
  <2>2. QED
    BY <1>3, <2>1 DEF Consumes
<1>8. Names(e)
  BY <1>3, <1>4 DEF Names, RecordingInvariant, NamesAreKnown
<1>9. Opens(e) \/ Joins(e)
  <2>1. CASE pass = "compute"
    BY <1>3, <2>1 DEF Opens
  <2>2. CASE pass = "render"
    <3>1. ASSUME NEW s \in used
          PROVE  s.id \in fetched \cup {x.id : x \in GroupSubs(layout, FALSE)}
      <4>1. CASE s \in GroupSubs(layout, FALSE)
        BY <4>1
      <4>2. CASE s \in fetches
        <5>1. PICK id \in fetched : s = Sub(id, 0)
          BY <4>2
        <5>2. s.id = id
          BY <5>1 DEF Sub
        <5>3. QED
          BY <5>1, <5>2
      <4>3. QED
        BY <1>0, <4>1, <4>2
    <3>2. QED
      BY <1>0, <1>3, <2>2, <3>1 DEF Joins
  <2>3. QED
    BY <2>1, <2>2
<1>10. DepthKnown'
  <2>1. Desc(bound.depth)' = Desc(bound'.depth) /\ (Resolves(bound.depth)' <=> Resolves(bound.depth))
    BY DEF tableVars, Desc, Resolves
  <2>2. QED
    BY <2>1 DEF DepthKnown, RecordingInvariant, PassKnowsItsUses
<1>11. /\ e.access \cap pending = {}
       /\ \A s \in pending : s \in pending' \/ Covers(e, s)
       /\ e.written \subseteq pending'
  BY <1>1, <1>3, <1>4
<1>12. QED
  BY <1>4, <1>5, <1>6, <1>7, <1>8, <1>9, <1>10, <1>11, EntryKeeps

LEMMA DispatchKeeps ==
    ASSUME TableInvariant, RecordingInvariant, UNCHANGED tableVars, Dispatch
    PROVE  RecordingInvariant'
<1>1. "compute" \in SlotKinds /\ bound \in Bounds /\ bound.compute \in OneOf("compute")
  BY DEF SlotKinds, RecordingInvariant, RecorderTypeOK, Bounds
<1>2. PICK layout : layout = Desc(bound.compute).layout
  OBVIOUS
<1>3. /\ pass = "compute" /\ UNCHANGED <<pass, bound>> /\ Resolves(bound.compute)
      /\ ValidGroups(layout, {}, {}) /\ RecordWithWrites(layout, {})
  BY <1>2 DEF Dispatch
<1>4. Desc(bound.compute) \in ComputeDescs
  BY <1>1, <1>3, BoundLive, LiveDesc DEF TableInvariant, DescsOf
<1>5. layout \in Seq(BindingTypes)
  BY <1>2, <1>4, TableAssumption DEF ComputeDescs, TableAssumption
<1>6. QED
  BY <1>1, <1>3, <1>5, RecordKeeps

LEMMA DrawProgrammableKeeps ==
    ASSUME TableInvariant, RecordingInvariant, UNCHANGED tableVars, DrawProgrammable
    PROVE  RecordingInvariant'
<1>0. /\ {"program", "buffer", "texture"} \subseteq SlotKinds /\ bound \in Bounds
      /\ bound.program \in OneOf("program") /\ bound.vertex \in OneOf("buffer")
      /\ bound.index \in OneOf("buffer") /\ bound.depth \in OneOf("texture")
      /\ bound.used \subseteq Ids
  <2>1. bound \in Bounds
    BY DEF RecordingInvariant, RecorderTypeOK
  <2>2. QED
    BY <2>1 DEF SlotKinds, Bounds
<1>1. PICK layout : layout = Desc(bound.program).layout
  OBVIOUS
<1>2. PICK indexed \in BOOLEAN :
        /\ Fetchable(indexed)
        /\ ValidGroups(layout, Attachments, Fetched(indexed))
        /\ \A s \in GroupSubs(layout, TRUE) : s.id \notin bound.used
        /\ RecordWithWrites(layout, Fetched(indexed))
        /\ bound' = [bound EXCEPT !.used = @ \cup Fetched(indexed)
                        \cup {s.id : s \in GroupSubs(layout, FALSE)}]
  BY <1>1 DEF DrawProgrammable
<1>3. PICK fetched : fetched = Fetched(indexed)
  OBVIOUS
<1>4. pass = "render" /\ pass' = pass /\ Resolves(bound.program)
  BY DEF DrawProgrammable
<1>5. layout \in Seq(BindingTypes)
  <2>1. Desc(bound.program) \in ProgramDescs
    BY <1>0, <1>4, BoundLive, LiveDesc DEF TableInvariant, DescsOf
  <2>2. QED
    BY <1>1, <2>1 DEF ProgramDescs
<1>6. fetched \subseteq LiveIds("buffer") /\ \A id \in fetched : Sub(id, 0) \notin pending
  <2>1. ASSUME NEW id \in fetched
        PROVE  Resolves(id) /\ id \in OneOf("buffer") /\ Sub(id, 0) \notin pending
    <3>1. CASE id = bound.vertex /\ Desc(bound.program).buffers = 1
      BY <1>0, <1>2, <3>1 DEF Fetchable, Allowed
    <3>2. CASE id = bound.index /\ indexed
      BY <1>0, <1>2, <3>2 DEF Fetchable, Allowed
    <3>3. QED
      BY <1>3, <2>1, <3>1, <3>2 DEF Fetched
  <2>2. QED
    BY <1>0, <2>1, BoundLive
<1>7. PICK grouped : grouped = {s.id : s \in GroupSubs(layout, FALSE)}
  OBVIOUS
<1>8. grouped \subseteq Ids
  BY <1>2, <1>5, <1>7, GroupSubsFacts
<1>9. /\ bound'.colors = bound.colors /\ bound'.depth = bound.depth
      /\ bound'.used = bound.used \cup fetched \cup grouped
      /\ bound' \in Bounds
  <2>1. bound' = [bound EXCEPT !.used = @ \cup fetched \cup grouped]
    BY <1>2, <1>3, <1>7
  <2>2. bound'.colors = bound.colors /\ bound'.depth = bound.depth
        /\ bound'.used = bound.used \cup fetched \cup grouped
    BY <1>0, <2>1 DEF Bounds
  <2>3. fetched \subseteq Ids
    BY <1>0, <1>6, LiveBound
  <2>4. bound.used \cup fetched \cup grouped \in SUBSET Ids
    BY <1>0, <1>8, <2>3
  <2>5. bound' \in Bounds
    BY <1>0, <2>1, <2>4 DEF Bounds
  <2>6. QED
    BY <2>2, <2>5
<1>10. PassUses \cup fetched \cup grouped \subseteq PassUses'
  BY <1>9 DEF PassUses
<1>11. ASSUME NEW s \in GroupSubs(layout, TRUE)
       PROVE  s.id \notin PassUses
  <2>1. /\ s.id \notin Attachments /\ s.id \in Ids /\ Resolves(s.id)
        /\ s.id.kind = "texture" => "STORAGE" \in Desc(s.id).usage
    BY <1>2, <1>5, GroupSubsFacts
  <2>2. s.id \notin bound.used
    BY <1>2
  <2>3. s.id \notin {bound.colors[c] : c \in 1..Len(bound.colors)}
    BY <2>1 DEF Attachments
  <2>4. s.id # bound.depth
    <3>1. SUFFICES ASSUME s.id = bound.depth PROVE FALSE
      OBVIOUS
    <3>2. bound.depth # None /\ bound.depth.kind = "texture" /\ bound.depth \in LiveIds("texture")
      <4>1. bound.depth # None
        BY <2>1, <3>1, AbsenceAssumption DEF AbsenceAssumption
      <4>2. bound.depth \in LiveIds("texture")
        BY <1>0, <2>1, <3>1, BoundLive
      <4>3. QED
        BY <1>0, <4>1, <4>2, SubFacts
    <3>3. Desc(bound.depth).format = "depth"
      BY <1>4, <2>1, <3>1, <3>2 DEF RecordingInvariant, PassKnowsItsUses
    <3>4. "STORAGE" \notin Desc(bound.depth).usage
      BY <3>2, <3>3 DEF TableInvariant, DescriptorsStayValid, ValidTexture
    <3>5. QED
      BY <2>1, <3>1, <3>2, <3>4
  <2>5. QED
    BY <2>2, <2>3, <2>4 DEF PassUses
<1>12. {s.id : s \in GroupSubs(layout, TRUE)} \cap PassUses = {}
  BY <1>11
<1>13. ValidGroups(layout, Attachments, fetched) /\ RecordWithWrites(layout, fetched)
  BY <1>2, <1>3
<1>14. PICK attachments : attachments = Attachments
  OBVIOUS
<1>15. QED
  BY <1>4, <1>5, <1>6, <1>7, <1>9, <1>10, <1>12, <1>13, <1>14, RecordKeeps

(* A call of the encoder, over a table that does not change meanwhile.     *)
LEMMA CallKeeps ==
    ASSUME TableInvariant, RecordingInvariant, UNCHANGED tableVars, Call
    PROVE  RecordingInvariant'
BY TransfersKeep, BarriersKeep, BeginKeeps, BoundariesKeep, SettersKeep, DispatchKeeps,
   DrawProgrammableKeeps, DrawFixedKeeps DEF Call

(* Definitions and releases between two calls.                             *)
LEMMA RecordingOutlivesTable ==
    ASSUME TableInvariant, RecordingInvariant, TableNext, UNCHANGED encoderVars
    PROVE  RecordingInvariant'
<1>0. /\ UNCHANGED <<pass, count, pending, announced, bound, trace>>
      /\ "texture" \in SlotKinds /\ "buffer" \in SlotKinds
  BY DEF encoderVars, SlotKinds
<1>1. TableInvariant' /\ (Definition \/ Removal \/ UNCHANGED <<slots, free, retired>>)
  BY TableStepFacts
<1>2. \A id \in Ids :
        /\ Known(id) => Known(id)'
        /\ Known(id) /\ Resolves(id)' => Resolves(id) /\ Desc(id)' = Desc(id)
  <2>1. CASE Definition
    BY <2>1 DEF Definition, Gained, Known
  <2>2. CASE Removal
    BY <2>2 DEF Removal, Lost, Known
  <2>3. CASE UNCHANGED <<slots, free, retired>>
    BY <2>3 DEF Known, Resolves, Old, Desc
  <2>4. QED
    BY <1>1, <2>1, <2>2, <2>3
<1>3. ShaderWritesAreOrdered' /\ UncoveredIsPending' /\ PassesDoNotOverwrite' /\ PassCanEnd'
  BY <1>0 DEF RecordingInvariant, ShaderWritesAreOrdered, UncoveredIsPending, PassesDoNotOverwrite,
      Covers, PassCanEnd, InPass
<1>4. RecorderTypeOK'
  BY <1>0 DEF RecordingInvariant, RecorderTypeOK
<1>5. PassKnowsItsUses'
  <2>1. bound.depth # None => bound.depth \in Ids /\ Known(bound.depth)
    BY DEF RecordingInvariant, NamesAreKnown, Named
  <2>2. PICK depth : depth = bound.depth
    OBVIOUS
  <2>3. pass = "render" /\ depth # None /\ Resolves(depth)' => Desc(depth)'.format = "depth"
    BY <1>2, <2>1, <2>2 DEF RecordingInvariant, PassKnowsItsUses
  <2>4. PassUses' = PassUses
    BY <1>0 DEF PassUses
  <2>5. QED
    BY <1>0, <2>2, <2>3, <2>4 DEF RecordingInvariant, PassKnowsItsUses
<1>6. NamesAreKnown'
  <2>1. \A id : Named(id) => Named(id)'
    BY <1>2 DEF Named
  <2>2. \A a \in announced' : Named(a.sub.id)'
    BY <1>0, <2>1 DEF RecordingInvariant, NamesAreKnown
  <2>3. \A i \in 1..Len(trace') : \A s \in trace'[i].ordered : s = Everything \/ Named(s.id)'
    BY <1>0, <2>1 DEF RecordingInvariant, NamesAreKnown
  <2>4. \A id : id = bound'.depth /\ id # None => Named(id)'
    BY <1>0, <2>1 DEF RecordingInvariant, NamesAreKnown
  <2>5. QED
    BY <2>2, <2>3, <2>4 DEF NamesAreKnown, Everything, Sub
<1>7. BufferAnnouncements'
  <2>1. ASSUME NEW id \in LiveIds("buffer")', NEW s, s = Sub(id, 0)
        PROVE  (\E a \in announced : a.sub = s) <=>
                  \E k \in 1..Len(trace) :
                      /\ s \in trace[k].ordered
                      /\ \A m \in (k + 1)..Len(trace) :
                          s \notin trace[m].access /\ Everything \notin trace[m].ordered
    <3>1. id \in Ids /\ id.kind = "buffer" /\ Resolves(id)'
      BY <1>0, <1>1, <2>1, LiveMeansNext DEF TableInvariant
    <3>2. CASE id \in LiveIds("buffer")
      BY <2>1, <3>2 DEF RecordingInvariant, BufferAnnouncements, AnnouncedIsNext
    <3>3. CASE id \notin LiveIds("buffer")
      <4>1. ~Named(id)
        <5>1. ~Resolves(id)
          BY <1>0, <3>1, <3>3, LiveMeans DEF TableInvariant
        <5>2. QED
          BY <1>2, <3>1, <5>1 DEF Named
      <4>2. s.id = id /\ s # Everything
        BY <2>1, <3>1, AbsenceAssumption DEF Sub, Everything, AbsenceAssumption
      <4>3. \A a \in announced : a.sub # s
        BY <4>1, <4>2 DEF RecordingInvariant, NamesAreKnown
      <4>4. \A k \in 1..Len(trace) : s \notin trace[k].ordered
        BY <4>1, <4>2 DEF RecordingInvariant, NamesAreKnown
      <4>5. QED
        BY <4>3, <4>4
    <3>4. QED
      BY <3>2, <3>3
  <2>2. QED
    BY <1>0, <2>1 DEF BufferAnnouncements, AnnouncedIsNext, Sub
<1>9. QED
  BY <1>3, <1>4, <1>5, <1>6, <1>7 DEF RecordingInvariant


(* A step of the composition: a call, a step of the table, or neither.     *)
LEMMA RecorderStepKeeps ==
    ASSUME TableInvariant, RecordingInvariant, [RecorderNext]_recorderVars
    PROVE  TableInvariant' /\ RecordingInvariant'
<1>1. CASE Call /\ UNCHANGED <<tableVars, tableOps>>
  <2>1. UNCHANGED tableVars /\ UNCHANGED <<slots, free, retired>>
    BY <1>1 DEF tableVars
  <2>2. QED
    BY <1>1, <2>1, CallKeeps, TableUntouched
<1>2. CASE TableStep
  BY <1>2, TableStepFacts, RecordingOutlivesTable DEF TableStep
<1>3. CASE UNCHANGED recorderVars
  <2>1. /\ UNCHANGED <<slots, free, retired>> /\ UNCHANGED tableVars
        /\ UNCHANGED <<pass, count, pending, announced, bound, trace>>
    BY <1>3 DEF recorderVars, tableVars, encoderVars
  <2>2. RecorderTypeOK' /\ PassCanEnd' /\ PassUses' = PassUses
    BY <2>1 DEF RecordingInvariant, RecorderTypeOK, PassCanEnd, InPass, PassUses
  <2>3. QED
    BY <2>1, <2>2, QuietKeeps, TableUntouched
<1>4. QED
  BY <1>1, <1>2, <1>3 DEF RecorderNext

LEMMA RecorderInitInvariant ==
    ASSUME TableInit, RecorderInit
    PROVE  TableInvariant /\ RecordingInvariant
<1>1. /\ pass = "none" /\ count = 0 /\ pending = {} /\ announced = {} /\ trace = <<>>
      /\ bound = NothingBound /\ Len(trace) = 0
  BY DEF RecorderInit
<1>2. \A i \in 1..Len(trace) : FALSE
  BY <1>1
<1>3. RecorderTypeOK
  BY <1>1, NothingTyped DEF RecorderTypeOK
<1>4. ShaderWritesAreOrdered /\ UncoveredIsPending /\ PassesDoNotOverwrite
  BY <1>2 DEF ShaderWritesAreOrdered, UncoveredIsPending, PassesDoNotOverwrite
<1>5. PassKnowsItsUses /\ PassCanEnd
  BY <1>1 DEF PassKnowsItsUses, PassCanEnd, InPass
<1>6. BufferAnnouncements
  BY <1>1, <1>2 DEF BufferAnnouncements, AnnouncedIsNext
<1>7. NamesAreKnown
  BY <1>1, <1>2 DEF NamesAreKnown, NothingBound
<1>8. QED
  BY TableInitInvariant, <1>3, <1>4, <1>5, <1>6, <1>7 DEF RecordingInvariant

(* Every recording the encoder accepts keeps the rules of its validation,  *)
(* whatever is defined and released between two calls: accesses to what a  *)
(* shader wrote wait for a barrier (pending_writes), the draws of a pass   *)
(* do not write what the pass uses (validate_cumulative_accesses), an open *)
(* pass can be ended (push, reserve_pass_begin), and the announcement of a *)
(* buffer is used up by the first access after its barrier                 *)
(* (announced_accesses).                                                   *)
THEOREM RecordingCorrect == RecorderSpec => [](TableInvariant /\ RecordingInvariant)
<1>1. TableInit /\ RecorderInit => TableInvariant /\ RecordingInvariant
  BY RecorderInitInvariant
<1>2. ASSUME TableInvariant /\ RecordingInvariant, [RecorderNext]_recorderVars
      PROVE  (TableInvariant /\ RecordingInvariant)'
  BY <1>2, RecorderStepKeeps
<1>3. QED
  BY <1>1, <1>2, PTL DEF RecorderSpec

(* "Storage writes must be followed by this command before another access" *)
(* (resource_barrier) is enforced by the recorder, not left to its caller: *)
(* between a shader's write and the next access of the recording to the    *)
(* same buffer or mip level there is a barrier that covers it.             *)
THEOREM WritesWaitForBarriers == RecorderSpec => []ShaderWritesAreOrdered
BY RecordingCorrect, PTL DEF RecordingInvariant
=============================================================================
