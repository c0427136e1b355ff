---------------------------- MODULE LibraryProofs ----------------------------
(* Proofs about the loading of drivers and about the facade over a loaded one, *)
(* for any driver files and any bounds on revisions and receipts.              *)
(* LoaderInvariant and FacadeInvariant are inductive; that a current mirror is *)
(* the application's table follows.  A handler of the plugin enters the second *)
(* argument only by what it leaves: a plugin whose mirror is as it was (Kept), *)
(* that releases nothing (Grows) unless no work is in flight (Harmless).       *)
EXTENDS DriverFacade, DriverLoader, TLAPS

-------------------------------------------------------------------------------
(* Selection and loading.                                                      *)

(* A driver that is discovered for a name has that name.                       *)
LEMMA DiscoveredName ==
    ASSUME NEW id, NEW wanted, wanted # None, discover(id, wanted) # None
    PROVE  discover(id, wanted).name = wanted
<1>1. PICK f \in Files : Matching(id, wanted) = {f}
  BY DEF discover
<1>2. discover(id, wanted) = manifests[CHOOSE g \in Files : Matching(id, wanted) = {g}]
  BY <1>1 DEF discover
<1>3. (CHOOSE g \in Files : Matching(id, wanted) = {g}) \in Matching(id, wanted)
  BY <1>1
<1>4. QED
  BY <1>2, <1>3 DEF Matching

(* A library that was loaded for a manifest is the driver it names.            *)
LEMMA LoadedName ==
    ASSUME NEW m, load(m) # None
    PROVE  load(m).name = m.name
BY DEF load, Reuse, load_uncached

(* A new call has found nothing yet.                                           *)
LEMMA NewCallFacts ==
    ASSUME NEW op \in {"discover", "create", "open"}, NEW wanted, NEW adapter
    PROVE  /\ NewCall(op, wanted, adapter).op \in {"discover", "create", "open"}
           /\ NewCall(op, wanted, adapter).stage = "reopen"
BY DEF NewCall

(* A call that has found nothing keeps its selection.                          *)
LEMMA FreshCall ==
    ASSUME call' # None => /\ call'.op \in {"discover", "create", "open"}
                           /\ call'.stage = "reopen"
    PROVE  CallKeepsSelection'
BY DEF CallKeepsSelection

(* Opening, querying and looking for the driver keeps the selection.           *)
LEMMA ReopenKeeps == ASSUME LoaderInvariant, Reopen PROVE LoaderInvariant'
<1>1. SelectedDriverOpens'
  BY DEF LoaderInvariant, Reopen, FailCall, SelectedDriverOpens
<1>2. CASE FailCall
  BY <1>1, <1>2 DEF FailCall, LoaderInvariant, CallKeepsSelection
<1>3. CASE /\ discover(gpu.id, call.wanted) # None
           /\ call' = [call EXCEPT !.stage = "load", !.manifest = discover(gpu.id, call.wanted)]
  <2>0. call # None /\ CallKeepsSelection
    BY DEF Reopen, LoaderInvariant
  <2>1. call.wanted # None => discover(gpu.id, call.wanted).name = call.wanted
    BY <1>3, DiscoveredName
  <2>. DEFINE found == discover(gpu.id, call.wanted)
  <2>. HIDE DEF found
  <2>2. call'.op = call.op /\ call'.stage = "load" /\ call'.wanted = call.wanted
        /\ (call.wanted # None => call'.manifest = found)
    BY <1>3 DEF found
  <2>3. QED
    BY <1>1, <2>0, <2>1, <2>2 DEF LoaderInvariant, CallKeepsSelection, found
<1>4. QED
  BY <1>2, <1>3 DEF Reopen

(* Loading the library, or taking it as it is loaded, keeps the selection.     *)
LEMMA LoadKeeps == ASSUME LoaderInvariant, Load PROVE LoaderInvariant'
<1>1. SelectedDriverOpens'
  BY DEF LoaderInvariant, Load, FailCall, SelectedDriverOpens
<1>2. CASE FailCall
  BY <1>1, <1>2 DEF FailCall, LoaderInvariant, CallKeepsSelection
<1>3. CASE /\ load(call.manifest) # None
           /\ call' = [call EXCEPT !.stage = "open", !.image = load(call.manifest)]
  <2>0. call # None /\ call.stage = "load" /\ CallKeepsSelection
    BY DEF Load, LoaderInvariant
  <2>1. load(call.manifest).name = call.manifest.name
    BY <1>3, LoadedName
  <2>2. call'.op = call.op /\ call'.stage = "open" /\ call'.wanted = call.wanted
    BY <1>3
  <2>3. call'.manifest = call.manifest /\ call'.image = load(call.manifest)
    BY <1>3
  <2>4. CallKeepsSelection'
    BY <2>0, <2>1, <2>2, <2>3 DEF CallKeepsSelection
  <2>5. QED
    BY <1>1, <2>4 DEF LoaderInvariant
<1>4. QED
  BY <1>2, <1>3 DEF Load

(* A device is opened by the driver of its GPU, and by the one its call asks   *)
(* for.                                                                        *)
LEMMA OpenKeeps == ASSUME LoaderInvariant, Open PROVE LoaderInvariant'
<1>1. call' = None
  BY DEF Open, FailCall
<1>2. CallKeepsSelection'
  BY <1>1 DEF CallKeepsSelection
<1>3. CASE devices' = devices
  BY <1>2, <1>3 DEF LoaderInvariant, SelectedDriverOpens
<1>4. ASSUME plugin_open(call.image, gpu), Finish(call.image, gpu), devices' # devices
      PROVE  SelectedDriverOpens'
  <2>0. /\ call # None /\ call.stage = "open" /\ CallKeepsSelection
        /\ call.wanted # None => call.image.name = call.wanted
    BY DEF Open, LoaderInvariant, CallKeepsSelection
  <2>1. call.image.gpu = gpu.id
    BY <1>4 DEF plugin_open
  <2>2. CASE call.op = "create"
    <3>1. /\ call.image.name = call.adapter.name
          /\ devices' = devices \cup {[image |-> call.image, gpu |-> gpu.id,
                                       wanted |-> call.adapter.name]}
      BY <1>4, <2>2 DEF Finish
    <3>2. QED
      BY <2>1, <3>1 DEF LoaderInvariant, SelectedDriverOpens
  <2>3. CASE call.op = "open"
    <3>1. devices' = devices \cup {[image |-> call.image, gpu |-> gpu.id, wanted |-> call.wanted]}
      BY <1>4, <2>3 DEF Finish
    <3>2. QED
      BY <2>0, <2>1, <3>1 DEF LoaderInvariant, SelectedDriverOpens
  <2>4. CASE call.op = "discover"
    BY <1>4, <2>4 DEF Finish
  <2>5. QED
    BY <2>0, <2>2, <2>3, <2>4 DEF CallKeepsSelection
<1>5. QED
  BY <1>2, <1>3, <1>4 DEF Open, FailCall, LoaderInvariant

(* A call of the facade or of the direct API starts without a selection.       *)
LEMMA CallsStart ==
    ASSUME LoaderInvariant,
           CreateDevice \/ \E p \in Preferences : WithPreference(p) \/ open_device(p)
    PROVE  LoaderInvariant'
<1>1. devices' = devices
  BY DEF CreateDevice, create_dynamic_device, create_wgpu_device, WithPreference, open_device,
         loaderVars
<1>2. SelectedDriverOpens'
  BY <1>1 DEF LoaderInvariant, SelectedDriverOpens
<1>3. CASE call' = None
  BY <1>2, <1>3, FreshCall DEF LoaderInvariant
<1>4. CASE UNCHANGED loaderVars
  BY <1>2, <1>4 DEF LoaderInvariant, CallKeepsSelection, loaderVars
<1>5. ASSUME NEW op \in {"discover", "create", "open"}, NEW w, NEW a, call' = NewCall(op, w, a)
      PROVE  LoaderInvariant'
  BY <1>2, <1>5, NewCallFacts, FreshCall DEF LoaderInvariant
<1>6. ASSUME CreateDevice PROVE LoaderInvariant'
  BY <1>3, <1>4, <1>5, <1>6 DEF CreateDevice, create_dynamic_device, create_wgpu_device
<1>7. ASSUME NEW p \in Preferences, WithPreference(p) PROVE LoaderInvariant'
  BY <1>3, <1>5, <1>7 DEF WithPreference
<1>8. ASSUME NEW p \in Preferences, open_device(p) PROVE LoaderInvariant'
  BY <1>3, <1>5, <1>8 DEF open_device, open_auto, open_virgl, open_adreno
<1>9. QED
  BY <1>6, <1>7, <1>8

(* LoaderInvariant is inductive, whatever is installed, replaced or exchanged  *)
(* between the steps of a call.                                                *)
LEMMA LoaderStep == ASSUME LoaderInvariant, [LoaderNext]_loaderVars PROVE LoaderInvariant'
<1>1. CASE DropDevice
  BY <1>1 DEF DropDevice, LoaderInvariant, CallKeepsSelection, SelectedDriverOpens
<1>2. CASE InstallManifest \/ ReplaceLibrary \/ ExchangeGpu
  BY <1>2 DEF InstallManifest, ReplaceLibrary, ExchangeGpu, LoaderInvariant, CallKeepsSelection,
              SelectedDriverOpens
<1>3. CASE UNCHANGED loaderVars
  BY <1>3 DEF loaderVars, LoaderInvariant, CallKeepsSelection, SelectedDriverOpens
<1>4. QED
  BY <1>1, <1>2, <1>3, ReopenKeeps, LoadKeeps, OpenKeeps, CallsStart DEF LoaderNext

(* The device a caller gets is driven by a driver of its GPU and by the one    *)
(* that was asked for, by name or through an adapter (Device::open_with_backend *)
(* of dynamic.rs, the loader's table and Instance::create_device), whatever is *)
(* installed, replaced or exchanged meanwhile.                                 *)
THEOREM LoaderCorrect == LoaderSpec => []LoaderInvariant
<1>1. LoaderInit => LoaderInvariant
  BY DEF LoaderInit, LoaderInvariant, CallKeepsSelection, SelectedDriverOpens
<1>2. LoaderInvariant /\ [LoaderNext]_loaderVars => LoaderInvariant'
  BY LoaderStep
<1>3. QED
  BY <1>1, <1>2, PTL DEF LoaderSpec

-------------------------------------------------------------------------------
(* The mirror.                                                                 *)

(* A state of an import: what is left to refuse, and the mirror so far.        *)
Importing(st) == st \in [ok : BOOLEAN, m : MirrorStates] /\ AcceptedIsHeld(st.m)

(* A row is refused, or the mirror holds it afterwards.                        *)
LEMMA RowIsHeld ==
    ASSUME NEW m \in MirrorStates, AcceptedIsHeld(m), NEW k \in Kinds, NEW row \in RowSet
    PROVE  /\ RowVerdict(m, k, row) \in {"keep", "refuse", "accept", "replace"}
           /\ RowVerdict(m, k, row) \in {"keep", "accept"} => m.rows[k] = row
BY DEF RowVerdict, AcceptedIsHeld

(* One row is imported: the other rows stay, and this one is the mirror's      *)
(* unless the import has failed.                                               *)
LEMMA SlotImported ==
    ASSUME NEW st, Importing(st), NEW k \in Kinds, NEW row \in RowSet
    PROVE  LET q == sync_slots(st, k, row)
           IN  /\ Importing(q)
               /\ q.m.revision = st.m.revision /\ q.m.poisoned = st.m.poisoned
               /\ \A j \in Kinds \ {k} : q.m.rows[j] = st.m.rows[j]
               /\ q.ok => st.ok /\ q.m.rows[k] = row
<1>. DEFINE q == sync_slots(st, k, row)
            m == st.m
            v == IF st.ok THEN RowVerdict(st.m, k, row) ELSE "refuse"
            accepted == IF v \in {"accept", "replace"} THEN [m.accepted EXCEPT ![k] = row]
                        ELSE m.accepted
            rows == IF v = "replace" THEN [m.rows EXCEPT ![k] = row] ELSE m.rows
<1>0. m \in MirrorStates /\ AcceptedIsHeld(m) /\ st.ok \in BOOLEAN
  BY DEF Importing
<1>1. /\ v \in {"keep", "refuse", "accept", "replace"}
      /\ v \in {"keep", "accept"} => m.rows[k] = row
      /\ v # "refuse" => st.ok
  BY <1>0, RowIsHeld
<1>2. q = [ok |-> v # "refuse", m |-> ApplyRow(m, k, row, v)]
  BY DEF sync_slots
<1>. HIDE DEF q, m, v
<1>3. /\ m.accepted \in [Kinds -> RowSet \cup {None}] /\ m.rows \in Rows
      /\ m.revision \in Nat /\ m.poisoned \in BOOLEAN
      /\ m = [rows |-> m.rows, accepted |-> m.accepted, revision |-> m.revision,
              poisoned |-> m.poisoned]
  BY <1>0 DEF MirrorStates
<1>4. ApplyRow(m, k, row, v) = [rows |-> rows, accepted |-> accepted, revision |-> m.revision,
                                poisoned |-> m.poisoned]
  <2>1. ApplyRow(m, k, row, v) = [m EXCEPT !.accepted = accepted, !.rows = rows]
    BY DEF ApplyRow
  <2>. HIDE DEF accepted, rows
  <2>2. QED
    BY <1>3, <2>1
<1>5. accepted \in [Kinds -> RowSet \cup {None}] /\ rows \in Rows
  BY <1>3 DEF Rows
<1>6. ApplyRow(m, k, row, v) \in MirrorStates
  BY <1>3, <1>4, <1>5 DEF MirrorStates
<1>7. /\ \A j \in Kinds \ {k} : rows[j] = m.rows[j] /\ accepted[j] = m.accepted[j]
      /\ v \in {"accept", "replace"} => accepted[k] = row
      /\ v \in {"refuse", "keep"} => accepted[k] = m.accepted[k] /\ rows[k] = m.rows[k]
      /\ v = "accept" => rows[k] = m.rows[k]
      /\ v = "replace" => rows[k] = row
  BY <1>3 DEF Rows
<1>. HIDE DEF rows, accepted
<1>8. \A j \in Kinds : accepted[j] # None => accepted[j] = rows[j]
  <2>1. accepted[k] # None => accepted[k] = rows[k]
    BY <1>0, <1>1, <1>7 DEF AcceptedIsHeld
  <2>2. \A j \in Kinds \ {k} : accepted[j] # None => accepted[j] = rows[j]
    BY <1>0, <1>7 DEF AcceptedIsHeld
  <2>3. QED
    BY <2>1, <2>2
<1>9. v # "refuse" => rows[k] = row
  BY <1>1, <1>7
<1>10. Importing(q)
  BY <1>2, <1>4, <1>6, <1>8 DEF Importing, AcceptedIsHeld
<1>11. q.ok = (v # "refuse") /\ q.m.rows = rows
       /\ q.m.revision = m.revision /\ q.m.poisoned = m.poisoned
  BY <1>2, <1>4
<1>12. q.ok => st.ok /\ q.m.rows[k] = row
  BY <1>1, <1>9, <1>11
<1>13. \A j \in Kinds \ {k} : q.m.rows[j] = m.rows[j]
  BY <1>7, <1>11
<1>14. QED
  BY <1>10, <1>11, <1>12, <1>13 DEF q, m

(* The six categories are imported in turn: unless one is refused, the mirror  *)
(* holds the rows of the snapshot.                                             *)
LEMMA RowsImported ==
    ASSUME NEW m \in MirrorStates, AcceptedIsHeld(m), NEW s, s.rows \in Rows
    PROVE  LET q == ImportRows(m, s)
           IN  /\ q \in [ok : BOOLEAN, m : MirrorStates] /\ AcceptedIsHeld(q.m)
               /\ q.m.revision = m.revision /\ q.m.poisoned = m.poisoned
               /\ q.ok => q.m.rows = s.rows
<1>. DEFINE q0 == [ok |-> TRUE, m |-> m]
            q1 == sync_slots(q0, "texture", s.rows["texture"])
            q2 == sync_slots(q1, "buffer", s.rows["buffer"])
            q3 == sync_slots(q2, "shader", s.rows["shader"])
            q4 == sync_slots(q3, "group", s.rows["group"])
            q5 == sync_slots(q4, "compute", s.rows["compute"])
            q6 == sync_slots(q5, "render", s.rows["render"])
            Same(q, st, k) ==
               /\ Importing(q)
               /\ q.m.revision = st.m.revision /\ q.m.poisoned = st.m.poisoned
               /\ \A j \in Kinds \ {k} : q.m.rows[j] = st.m.rows[j]
               /\ q.ok => st.ok /\ q.m.rows[k] = s.rows[k]
<1>0. Importing(q0)
  BY DEF Importing
<1>a. \A k \in Kinds : s.rows[k] \in RowSet
  BY DEF Rows
<1>b. {"texture", "buffer", "shader", "group", "compute", "render"} = Kinds
  BY DEF Kinds
<1>c. ASSUME NEW st, Importing(st), NEW k \in Kinds PROVE Same(sync_slots(st, k, s.rows[k]), st, k)
  <2>1. s.rows[k] \in RowSet
    BY <1>a, <1>c
  <2>2. QED
    BY <1>c, <2>1, SlotImported
<1>d. /\ q1 = sync_slots(q0, "texture", s.rows["texture"])
      /\ q2 = sync_slots(q1, "buffer", s.rows["buffer"])
      /\ q3 = sync_slots(q2, "shader", s.rows["shader"])
      /\ q4 = sync_slots(q3, "group", s.rows["group"])
      /\ q5 = sync_slots(q4, "compute", s.rows["compute"])
      /\ q6 = sync_slots(q5, "render", s.rows["render"])
  OBVIOUS
<1>7. ImportRows(m, s) = q6
  <2>. DEFINE Turn(after) ==
                [n \in 0..6 |->
                    IF n = 0
                    THEN q0
                    ELSE sync_slots(after[n - 1], ImportOrder[n], s.rows[ImportOrder[n]])]
              turns == [n \in 0..6 |-> IF n = 0 THEN q0 ELSE IF n = 1 THEN q1
                                       ELSE IF n = 2 THEN q2 ELSE IF n = 3 THEN q3
                                       ELSE IF n = 4 THEN q4 ELSE IF n = 5 THEN q5 ELSE q6]
              after == CHOOSE f : f = Turn(f)
  <2>1. /\ ImportOrder[1] = "texture" /\ ImportOrder[2] = "buffer"
        /\ ImportOrder[3] = "shader" /\ ImportOrder[4] = "group"
        /\ ImportOrder[5] = "compute" /\ ImportOrder[6] = "render"
    BY DEF ImportOrder
  <2>2. ImportRows(m, s) = after[6]
    BY DEF ImportRows
  <2>. HIDE DEF q0, q1, q2, q3, q4, q5, q6
  <2>3. \A n \in 0..6 : n \in {0, 1, 2, 3, 4, 5, 6}
    OBVIOUS
  <2>4. turns = Turn(turns)
    <3>1. \A n \in 0..6 : turns[n] = Turn(turns)[n]
      <4>1. turns[0] = Turn(turns)[0]
        OBVIOUS
      <4>2. turns[1] = Turn(turns)[1]
        BY <1>d, <2>1
      <4>3. turns[2] = Turn(turns)[2]
        BY <1>d, <2>1
      <4>4. turns[3] = Turn(turns)[3]
        BY <1>d, <2>1
      <4>5. turns[4] = Turn(turns)[4]
        BY <1>d, <2>1
      <4>6. turns[5] = Turn(turns)[5]
        BY <1>d, <2>1
      <4>7. turns[6] = Turn(turns)[6]
        BY <1>d, <2>1
      <4>. HIDE DEF turns, Turn
      <4>8. QED
        BY <2>3, <4>1, <4>2, <4>3, <4>4, <4>5, <4>6, <4>7
    <3>2. QED
      BY <3>1
  <2>5. after = Turn(after)
    <3>. HIDE DEF Turn
    <3>1. \E f : f = Turn(f)
      BY <2>4
    <3>2. QED
      BY <3>1
  <2>. HIDE DEF after
  <2>6. after[0] = q0
    BY <2>5
  <2>7. after[1] = q1
    BY <1>d, <2>1, <2>5, <2>6
  <2>8. after[2] = q2
    BY <1>d, <2>1, <2>5, <2>7
  <2>9. after[3] = q3
    BY <1>d, <2>1, <2>5, <2>8
  <2>10. after[4] = q4
    BY <1>d, <2>1, <2>5, <2>9
  <2>11. after[5] = q5
    BY <1>d, <2>1, <2>5, <2>10
  <2>12. after[6] = q6
    BY <1>d, <2>1, <2>5, <2>11
  <2>13. QED
    BY <2>2, <2>12
<1>. HIDE DEF q0, q1, q2, q3, q4, q5, q6, Same
<1>1. Same(q1, q0, "texture")
  BY <1>0, <1>b, <1>c, <1>d
<1>2. Same(q2, q1, "buffer")
  <2>1. Importing(q1)
    BY <1>1 DEF Same
  <2>2. QED
    BY <2>1, <1>b, <1>c, <1>d
<1>3. Same(q3, q2, "shader")
  <2>1. Importing(q2)
    BY <1>2 DEF Same
  <2>2. QED
    BY <2>1, <1>b, <1>c, <1>d
<1>4. Same(q4, q3, "group")
  <2>1. Importing(q3)
    BY <1>3 DEF Same
  <2>2. QED
    BY <2>1, <1>b, <1>c, <1>d
<1>5. Same(q5, q4, "compute")
  <2>1. Importing(q4)
    BY <1>4 DEF Same
  <2>2. QED
    BY <2>1, <1>b, <1>c, <1>d
<1>6. Same(q6, q5, "render")
  <2>1. Importing(q5)
    BY <1>5 DEF Same
  <2>2. QED
    BY <2>1, <1>b, <1>c, <1>d
<1>8. q6.m.revision = m.revision /\ q6.m.poisoned = m.poisoned
  BY <1>1, <1>2, <1>3, <1>4, <1>5, <1>6 DEF Same, q0
<1>9. q6 \in [ok : BOOLEAN, m : MirrorStates] /\ AcceptedIsHeld(q6.m)
  BY <1>6 DEF Same, Importing
<1>10. ASSUME q6.ok PROVE q6.m.rows = s.rows
  <2>1. q6.ok /\ q5.ok /\ q4.ok /\ q3.ok /\ q2.ok /\ q1.ok
    BY <1>10, <1>2, <1>3, <1>4, <1>5, <1>6 DEF Same
  <2>2. q6.m.rows["texture"] = s.rows["texture"]
    BY <2>1, <1>1, <1>2, <1>3, <1>4, <1>5, <1>6, <1>b DEF Same
  <2>3. q6.m.rows["buffer"] = s.rows["buffer"]
    BY <2>1, <1>2, <1>3, <1>4, <1>5, <1>6, <1>b DEF Same
  <2>4. q6.m.rows["shader"] = s.rows["shader"]
    BY <2>1, <1>3, <1>4, <1>5, <1>6, <1>b DEF Same
  <2>5. q6.m.rows["group"] = s.rows["group"]
    BY <2>1, <1>4, <1>5, <1>6, <1>b DEF Same
  <2>6. q6.m.rows["compute"] = s.rows["compute"] /\ q6.m.rows["render"] = s.rows["render"]
    BY <2>1, <1>5, <1>6, <1>b DEF Same
  <2>7. \A j \in Kinds : q6.m.rows[j] = s.rows[j]
    BY <2>2, <2>3, <2>4, <2>5, <2>6, <1>b
  <2>8. q6.m.rows \in Rows
    BY <1>9 DEF MirrorStates
  <2>9. QED
    BY <2>7, <2>8 DEF Rows
<1>11. QED
  BY <1>7, <1>8, <1>9, <1>10

(* A snapshot that is imported without a failure is the mirror; a failure      *)
(* poisons it.                                                                 *)
LEMMA SnapshotImported ==
    ASSUME NEW m \in MirrorStates, AcceptedIsHeld(m), ~m.poisoned,
           NEW s, s.rows \in Rows, s.revision \in Nat
    PROVE  LET q == sync_abi_snapshot(m, s)
           IN  /\ q \in MirrorStates /\ AcceptedIsHeld(q)
               /\ q.revision \in {m.revision, s.revision}
               /\ ~q.poisoned => q.revision = s.revision /\ q.rows = s.rows
<1>. DEFINE st == ImportRows(m, s)
            q == sync_abi_snapshot(m, s)
<1>1. /\ st \in [ok : BOOLEAN, m : MirrorStates] /\ AcceptedIsHeld(st.m)
      /\ st.m.revision = m.revision /\ st.m.poisoned = m.poisoned
      /\ st.ok => st.m.rows = s.rows
  BY RowsImported
<1>2. \/ st.ok /\ q = [st.m EXCEPT !.revision = s.revision]
      \/ q = [st.m EXCEPT !.poisoned = TRUE]
  BY DEF sync_abi_snapshot
<1>. HIDE DEF st, q
<1>3. /\ st.m.rows \in Rows /\ st.m.accepted \in [Kinds -> RowSet \cup {None}]
      /\ st.m = [rows |-> st.m.rows, accepted |-> st.m.accepted, revision |-> st.m.revision,
                 poisoned |-> st.m.poisoned]
  BY <1>1 DEF MirrorStates
<1>4. CASE st.ok /\ q = [st.m EXCEPT !.revision = s.revision]
  <2>1. q = [rows |-> st.m.rows, accepted |-> st.m.accepted, revision |-> s.revision,
             poisoned |-> FALSE]
    BY <1>1, <1>3, <1>4 DEF MirrorStates
  <2>2. QED
    BY <1>1, <1>3, <1>4, <2>1 DEF MirrorStates, AcceptedIsHeld, q
<1>5. CASE q = [st.m EXCEPT !.poisoned = TRUE]
  <2>1. q = [rows |-> st.m.rows, accepted |-> st.m.accepted, revision |-> m.revision,
             poisoned |-> TRUE]
    BY <1>1, <1>3, <1>5
  <2>2. QED
    BY <1>1, <1>3, <2>1 DEF MirrorStates, AcceptedIsHeld, q
<1>6. QED
  BY <1>2, <1>4, <1>5

(* An encoded program row, from the cache or not, is the slot's row.           *)
LEMMA ProgramEncoded ==
    ASSUME NEW rows \in Rows, NEW k \in Programs,
           NEW cached \in [gen : Nat, active : BOOLEAN, row : RowSet] \cup {None},
           EncodedSound(rows, cached, k)
    PROVE  LET e == EncodeProgram(cached, rows[k])
           IN  /\ e \in [gen : Nat, active : BOOLEAN, row : RowSet]
               /\ e.row = rows[k]
               /\ EncodedSound(rows, e, k)
<1>1. k \in Kinds /\ rows[k] \in RowSet /\ rows[k].gen \in Nat
  BY DEF Programs, Kinds, Rows, RowSet
<1>2. Active(rows[k]) \in BOOLEAN
  BY DEF Active
<1>3. CASE StaleRow(cached, rows[k])
  <2>. DEFINE e == [gen |-> rows[k].gen, active |-> Active(rows[k]), row |-> rows[k]]
  <2>1. EncodeProgram(cached, rows[k]) = e
    BY <1>3 DEF EncodeProgram
  <2>2. e \in [gen : Nat, active : BOOLEAN, row : RowSet] /\ e.row = rows[k]
    BY <1>1, <1>2
  <2>3. EncodedSound(rows, e, k)
    BY <1>1, <1>2 DEF EncodedSound
  <2>4. QED
    BY <2>1, <2>2, <2>3
<1>4. CASE ~StaleRow(cached, rows[k])
  <2>1. cached # None /\ cached.gen = rows[k].gen /\ cached.active = Active(rows[k])
    BY <1>4 DEF StaleRow
  <2>2. EncodeProgram(cached, rows[k]) = cached
    BY <1>4 DEF EncodeProgram
  <2>3. cached.row = rows[k]
    BY <1>2, <2>1 DEF EncodedSound
  <2>4. QED
    BY <2>1, <2>2, <2>3
<1>5. QED
  BY <1>3, <1>4

(* The snapshot of a table is the table, and taking it keeps its caches.       *)
LEMMA SnapshotTaken ==
    ASSUME NEW t \in TableStates, CachesAreCurrent(t)
    PROVE  LET u == abi_snapshot(t)
           IN  /\ u \in TableStates /\ CachesAreCurrent(u)
               /\ u.rows = t.rows /\ u.revision = t.revision
               /\ u.snapshot.revision = t.revision /\ u.snapshot.rows = t.rows
<1>0. /\ t.rows \in Rows /\ t.revision \in Nat
      /\ t.snapshot.revision \in Nat /\ t.snapshot.rows \in Rows
      /\ t.encoded \in [Programs -> [gen : Nat, active : BOOLEAN, row : RowSet] \cup {None}]
      /\ t = [rows |-> t.rows, revision |-> t.revision, snapshot |-> t.snapshot,
              encoded |-> t.encoded]
      /\ t.revision # 0
  BY DEF TableStates
<1>1. CASE t.snapshot.revision = t.revision
  BY <1>0, <1>1 DEF abi_snapshot, CachesAreCurrent
<1>2. CASE t.snapshot.revision # t.revision
  <2>. DEFINE encoded == [k \in Programs |-> EncodeProgram(t.encoded[k], t.rows[k])]
              rows == [k \in Kinds |-> IF k \in Programs THEN encoded[k].row ELSE t.rows[k]]
              u == [rows |-> t.rows, revision |-> t.revision,
                    snapshot |-> [revision |-> t.revision, rows |-> rows], encoded |-> encoded]
  <2>1. \A k \in Programs : /\ encoded[k] \in [gen : Nat, active : BOOLEAN, row : RowSet]
                            /\ encoded[k].row = t.rows[k]
                            /\ EncodedSound(t.rows, encoded[k], k)
    BY <1>0, ProgramEncoded DEF CachesAreCurrent
  <2>2. abi_snapshot(t) = [t EXCEPT !.encoded = encoded,
                                    !.snapshot = [revision |-> t.revision, rows |-> rows]]
    BY <1>2 DEF abi_snapshot
  <2>. HIDE DEF encoded
  <2>3. rows = t.rows
    BY <1>0, <2>1 DEF Rows
  <2>. HIDE DEF rows
  <2>4. abi_snapshot(t) = u
    BY <1>0, <2>2
  <2>5. encoded \in [Programs -> [gen : Nat, active : BOOLEAN, row : RowSet] \cup {None}]
    BY <2>1 DEF encoded
  <2>6. u \in TableStates
    BY <1>0, <2>3, <2>5 DEF TableStates
  <2>7. CachesAreCurrent(u)
    BY <1>0, <2>1, <2>3 DEF CachesAreCurrent
  <2>8. QED
    BY <2>3, <2>4, <2>6, <2>7
<1>3. QED
  BY <1>1, <1>2

-------------------------------------------------------------------------------
(* The handlers of the plugin.                                                 *)

(* A handler leaves a plugin whose mirror is as it was.                        *)
Kept(p, q) == q \in PluginStates /\ q.mirror = p.mirror

(* A handler releases nothing.                                                 *)
Grows(p, q) ==
    /\ Kept(p, q)
    /\ p.native \subseteq q.native /\ p.mapped \subseteq q.mapped /\ p.imported \subseteq q.imported

(* The fields of a plugin.                                                     *)
LEMMA PluginFields ==
    ASSUME NEW p \in PluginStates
    PROVE  /\ p.mirror \in MirrorStates /\ p.native \in SUBSET [kind : Kinds, gen : Nat]
           /\ p.mapped \in SUBSET Nat /\ p.imported \in SUBSET Nat /\ p.failed \in BOOLEAN
           /\ p = [mirror |-> p.mirror, native |-> p.native, mapped |-> p.mapped,
                   imported |-> p.imported, failed |-> p.failed]
           /\ \A k \in Kinds : p.mirror.rows[k] \in RowSet /\ p.mirror.rows[k].gen \in Nat
BY DEF PluginStates, MirrorStates, Rows, RowSet

(* What each assignment to a plugin changes.                                   *)
LEMMA FailedPlugin ==
    ASSUME NEW p \in PluginStates
    PROVE  LET q == [p EXCEPT !.failed = TRUE]
           IN  /\ Grows(p, q) /\ q.native = p.native /\ q.mapped = p.mapped
               /\ q.imported = p.imported
BY PluginFields DEF Grows, Kept, PluginStates

(* The native objects of a plugin may be replaced.                             *)
LEMMA NativePlugin ==
    ASSUME NEW p \in PluginStates, NEW native \in SUBSET [kind : Kinds, gen : Nat]
    PROVE  LET q == [p EXCEPT !.native = native]
           IN  /\ Kept(p, q) /\ q.native = native /\ q.mapped = p.mapped
               /\ q.imported = p.imported
BY PluginFields DEF Kept, PluginStates

(* Its mapped textures may be replaced.                                        *)
LEMMA MappedPlugin ==
    ASSUME NEW p \in PluginStates, NEW mapped \in SUBSET Nat
    PROVE  LET q == [p EXCEPT !.mapped = mapped]
           IN  /\ Kept(p, q) /\ q.native = p.native /\ q.mapped = mapped
               /\ q.imported = p.imported
BY PluginFields DEF Kept, PluginStates

(* Its imported textures may be replaced.                                      *)
LEMMA ImportedPlugin ==
    ASSUME NEW p \in PluginStates, NEW imported \in SUBSET Nat
    PROVE  LET q == [p EXCEPT !.imported = imported]
           IN  /\ Kept(p, q) /\ q.native = p.native /\ q.mapped = p.mapped
               /\ q.imported = imported
BY PluginFields DEF Kept, PluginStates

(* Nothing done is nothing released.                                           *)
LEMMA SamePlugin == ASSUME NEW p \in PluginStates PROVE Grows(p, p)
BY DEF Grows, Kept

(* A refusal changes nothing.                                                  *)
LEMMA Refused ==
    ASSUME NEW status, NEW p, NEW r \in Refuse(status, p)
    PROVE  r = Result(status, p) /\ r.p = p /\ r.status = status
BY DEF Refuse, Result

(* A retirement is made, or the caches are given up.                           *)
LEMMA Retirement ==
    ASSUME NEW p, NEW done, NEW r \in run_retirement(p, done)
    PROVE  \/ r.p = done /\ r.status = "ok"
           \/ r.p = [p EXCEPT !.failed = TRUE] /\ r.status = "lost"
<1>. DEFINE failed == [p EXCEPT !.failed = TRUE]
<1>1. r = Result("ok", done) \/ r = Result("lost", failed)
  BY DEF run_retirement
<1>. HIDE DEF failed
<1>2. (r.p = done /\ r.status = "ok") \/ (r.p = failed /\ r.status = "lost")
  BY <1>1 DEF Result
<1>3. QED
  BY <1>2 DEF failed

(* A release leaves the mirror alone and answers with one of its statuses.     *)
Settled(p, r) == Kept(p, r.p) /\ r.status \in {"ok", "lost", "invalid"}

(* Releasing a native object leaves the mirror alone.                          *)
LEMMA NativeReleased ==
    ASSUME NEW p \in PluginStates, NEW x,
           NEW r \in run_retirement(p, [p EXCEPT !.native = @ \ {x}])
    PROVE  Settled(p, r)
<1>1. p.native \ {x} \in SUBSET [kind : Kinds, gen : Nat]
  BY PluginFields
<1>2. [p EXCEPT !.native = @ \ {x}] = [p EXCEPT !.native = p.native \ {x}]
  OBVIOUS
<1>3. Kept(p, [p EXCEPT !.native = @ \ {x}])
  BY <1>1, <1>2, NativePlugin
<1>4. Kept(p, [p EXCEPT !.failed = TRUE])
  BY FailedPlugin DEF Grows
<1>5. QED
  BY <1>3, <1>4, Retirement DEF Settled

(* A texture's release keeps mirror and types.                                 *)
LEMMA TextureReleased ==
    ASSUME NEW p \in PluginStates, NEW gen, NEW r \in ir_release_texture(p, gen)
    PROVE  Settled(p, r)
<1>1. \/ r \in Refuse("lost", p) \/ r \in Refuse("invalid", p)
      \/ r \in Refuse("invalid", [p EXCEPT !.failed = TRUE])
      \/ r \in run_retirement(p, [p EXCEPT !.native = @ \ {[kind |-> "texture", gen |-> gen]}])
  BY DEF ir_release_texture
<1>2. Kept(p, p) /\ Kept(p, [p EXCEPT !.failed = TRUE])
  BY SamePlugin, FailedPlugin DEF Grows
<1>3. CASE \/ r \in Refuse("lost", p) \/ r \in Refuse("invalid", p)
           \/ r \in Refuse("invalid", [p EXCEPT !.failed = TRUE])
  BY <1>2, <1>3, Refused DEF Settled
<1>4. QED
  BY <1>1, <1>3, NativeReleased

(* A buffer's release keeps mirror and types.                                  *)
LEMMA BufferReleased ==
    ASSUME NEW p \in PluginStates, NEW gen, NEW r \in ir_release_buffer(p, gen)
    PROVE  Settled(p, r)
<1>1. \/ r \in Refuse("lost", p)
      \/ r \in run_retirement(p, [p EXCEPT !.native = @ \ {[kind |-> "buffer", gen |-> gen]}])
  BY DEF ir_release_buffer
<1>2. CASE r \in Refuse("lost", p)
  BY <1>2, SamePlugin, Refused DEF Grows, Settled
<1>3. QED
  BY <1>1, <1>2, NativeReleased

(* A render pipeline's release keeps mirror and types.                         *)
LEMMA RenderReleased ==
    ASSUME NEW p \in PluginStates, NEW gen, NEW r \in ir_release_render(p, gen)
    PROVE  Settled(p, r)
<1>1. \/ r \in Refuse("lost", p)
      \/ r \in run_retirement(p, [p EXCEPT !.native = @ \ {[kind |-> "render", gen |-> gen]}])
  BY DEF ir_release_render
<1>2. CASE r \in Refuse("lost", p)
  BY <1>2, SamePlugin, Refused DEF Grows, Settled
<1>3. QED
  BY <1>1, <1>2, NativeReleased

(* Shaders and compute pipelines own no native object.                         *)
LEMMA ProgramReleased ==
    ASSUME NEW p \in PluginStates, NEW r \in ir_release_compute(p) \cup ir_release_shader(p)
    PROVE  Settled(p, r)
BY SamePlugin, Refused DEF Grows, Settled, ir_release_compute, ir_release_shader

(* Releasing any row leaves the mirror alone.                                  *)
LEMMA ReleaseKeeps ==
    ASSUME NEW p \in PluginStates,
           NEW k \in {"texture", "buffer", "render", "compute", "shader"},
           NEW r \in ir_release(p, k)
    PROVE  Settled(p, r)
<1>. DEFINE gen == p.mirror.rows[k].gen
<1>1. CASE k = "texture"
  BY <1>1, TextureReleased, r \in ir_release_texture(p, gen) DEF ir_release
<1>2. CASE k = "buffer"
  BY <1>2, BufferReleased, r \in ir_release_buffer(p, gen) DEF ir_release
<1>3. CASE k = "render"
  BY <1>3, RenderReleased, r \in ir_release_render(p, gen) DEF ir_release
<1>4. CASE k = "compute"
  BY <1>4, ProgramReleased, r \in ir_release_compute(p) DEF ir_release
<1>5. CASE k = "shader"
  BY <1>5, ProgramReleased, r \in ir_release_shader(p) DEF ir_release
<1>6. QED
  BY <1>1, <1>2, <1>3, <1>4, <1>5

(* One category of the retired rows.                                           *)
LEMMA CategoryReleased ==
    ASSUME NEW p \in PluginStates, NEW results, \A r \in results : Settled(p, r),
           NEW k \in {"texture", "buffer", "render", "compute", "shader"}, NEW gone
    PROVE  /\ \A r \in ReleaseNext(results, k, gone) : Settled(p, r)
           /\ gone = {} => ReleaseNext(results, k, gone) = results
<1>1. ASSUME NEW r \in ReleaseNext(results, k, gone) PROVE Settled(p, r)
  <2>1. PICK q \in results : r \in (IF q.status = "ok" /\ k \in gone THEN ir_release(q.p, k) ELSE {q})
    BY <1>1 DEF ReleaseNext
  <2>2. q.p \in PluginStates /\ q.p.mirror = p.mirror
    BY <2>1 DEF Settled, Kept
  <2>3. CASE r \in ir_release(q.p, k)
    BY <2>2, <2>3, ReleaseKeeps DEF Settled, Kept
  <2>4. CASE r = q
    BY <2>1, <2>4
  <2>5. QED
    BY <2>1, <2>3, <2>4
<1>2. ASSUME gone = {} PROVE ReleaseNext(results, k, gone) = results
  BY <1>2 DEF ReleaseNext
<1>3. QED
  BY <1>1, <1>2

(* Releasing what was retired leaves the mirror alone, and nothing retired is  *)
(* nothing released.                                                           *)
LEMMA RetiredReleased ==
    ASSUME NEW p \in PluginStates, NEW gone
    PROVE  /\ \A r \in ReleaseRetired(p, gone) : Settled(p, r)
           /\ gone = {} => ReleaseRetired(p, gone) = {Result("ok", p)}
<1>. DEFINE Sound(results) == /\ \A r \in results : Settled(p, r)
                              /\ gone = {} => results = {Result("ok", p)}
            r0 == {Result("ok", p)}
            r1 == ReleaseNext(r0, "texture", gone)
            r2 == ReleaseNext(r1, "buffer", gone)
            r3 == ReleaseNext(r2, "render", gone)
            r4 == ReleaseNext(r3, "compute", gone)
            r5 == ReleaseNext(r4, "shader", gone)
<1>0. Sound(r0)
  BY SamePlugin DEF Grows, Settled, Result
<1>a. ASSUME NEW rs, Sound(rs), NEW k \in {"texture", "buffer", "render", "compute", "shader"}
      PROVE  Sound(ReleaseNext(rs, k, gone))
  BY <1>a, CategoryReleased
<1>b. /\ r1 = ReleaseNext(r0, "texture", gone) /\ r2 = ReleaseNext(r1, "buffer", gone)
      /\ r3 = ReleaseNext(r2, "render", gone) /\ r4 = ReleaseNext(r3, "compute", gone)
      /\ r5 = ReleaseNext(r4, "shader", gone)
  OBVIOUS
<1>c. ReleaseRetired(p, gone) = r5
  BY DEF ReleaseRetired
<1>. HIDE DEF Sound, r0, r1, r2, r3, r4, r5
<1>1. Sound(r1)
  BY <1>0, <1>a, <1>b
<1>2. Sound(r2)
  BY <1>1, <1>a, <1>b
<1>3. Sound(r3)
  BY <1>2, <1>a, <1>b
<1>4. Sound(r4)
  BY <1>3, <1>a, <1>b
<1>5. Sound(r5)
  BY <1>4, <1>a, <1>b
<1>6. QED
  BY <1>5, <1>c DEF Sound

(* An import replaces the mirror and nothing else.                             *)
LEMMA ImportFacts ==
    ASSUME NEW p \in PluginStates, ~p.mirror.poisoned, AcceptedIsHeld(p.mirror),
           NEW s, s.rows \in Rows, s.revision \in Nat
    PROVE  LET r == Import(p, s)
           IN  /\ r.p \in PluginStates /\ AcceptedIsHeld(r.p.mirror)
               /\ r.p.native = p.native /\ r.p.mapped = p.mapped /\ r.p.imported = p.imported
               /\ r.p.mirror.revision \in {p.mirror.revision, s.revision}
               /\ ~r.p.mirror.poisoned => /\ r.p.mirror.revision = s.revision
                                          /\ r.p.mirror.rows = s.rows
               /\ r.status = "ok" => ~r.p.mirror.poisoned
               /\ r.status \in {"ok", "invalid"}
<1>. DEFINE m == sync_abi_snapshot(p.mirror, s)
            q == [p EXCEPT !.mirror = m]
<1>1. /\ m \in MirrorStates /\ AcceptedIsHeld(m)
      /\ m.revision \in {p.mirror.revision, s.revision}
      /\ ~m.poisoned => m.revision = s.revision /\ m.rows = s.rows
  BY PluginFields, SnapshotImported
<1>2. Import(p, s) = Result(IF m.poisoned THEN "invalid" ELSE "ok", q)
  BY DEF Import
<1>. HIDE DEF m
<1>3. q = [mirror |-> m, native |-> p.native, mapped |-> p.mapped, imported |-> p.imported,
           failed |-> p.failed]
  BY PluginFields
<1>4. q \in PluginStates
  BY <1>1, <1>3, PluginFields DEF PluginStates
<1>5. Import(p, s).p = q
  BY <1>2 DEF Result
<1>6. /\ Import(p, s).status = "ok" => ~m.poisoned
      /\ Import(p, s).status \in {"ok", "invalid"}
  BY <1>2 DEF Result
<1>7. QED
  BY <1>1, <1>3, <1>4, <1>5, <1>6

(* What synchronizing with a snapshot leaves: a mirror of the table, imported  *)
(* when the call succeeds; native objects are released only when the device is *)
(* idle.                                                                       *)
LEMMA ResourcesSynced ==
    ASSUME NEW p \in PluginStates, NEW t \in TableStates, MirrorOf(p.mirror, t),
           t.snapshot.revision = t.revision, t.snapshot.rows = t.rows,
           NEW idle \in BOOLEAN,
           NEW r \in sync_resources(p, t.snapshot, idle)
    PROVE  /\ r.p \in PluginStates /\ MirrorOf(r.p.mirror, t)
           /\ r.status \in {"ok", "lost", "invalid", "busy"}
           /\ r.status = "ok" => r.p.mirror.revision = t.revision
           /\ ~idle => /\ r.p.native = p.native /\ r.p.mapped = p.mapped
                       /\ r.p.imported = p.imported
<1>. DEFINE s == t.snapshot
            gone == abi_retired_resources(p.mirror, s) \cup abi_retired_programs(p.mirror, s)
<1>0. /\ t.rows \in Rows /\ t.revision \in Nat /\ s.rows \in Rows /\ s.revision \in Nat
      /\ p.mirror.revision \in Nat
  BY PluginFields DEF TableStates, MirrorStates
<1>1. \/ r \in Refuse("lost", p) \/ r \in Refuse("invalid", p) \/ r \in Refuse("busy", p)
      \/ r \in Refuse("ok", p) /\ s.revision = p.mirror.revision
      \/ /\ ~p.mirror.poisoned /\ ~MustWait(gone, idle)
         /\ r \in {IF q.status = "ok" THEN Import(q.p, s) ELSE q : q \in ReleaseRetired(p, gone)}
  <2>1. CASE p.mirror.poisoned
    BY <2>1 DEF sync_resources
  <2>2. CASE ~p.mirror.poisoned /\ s.revision < p.mirror.revision
    BY <2>2 DEF sync_resources
  <2>3. CASE ~p.mirror.poisoned /\ s.revision = p.mirror.revision
    BY <1>0, <2>3 DEF sync_resources
  <2>4. CASE ~p.mirror.poisoned /\ s.revision > p.mirror.revision
    <3>1. CASE ScanFails(p.mirror, s) \/ MustWait(gone, idle)
      BY <1>0, <2>4, <3>1 DEF sync_resources
    <3>2. CASE ~ScanFails(p.mirror, s) /\ ~MustWait(gone, idle)
      BY <1>0, <2>4, <3>2 DEF sync_resources
    <3>3. QED
      BY <3>1, <3>2
  <2>5. s.revision < p.mirror.revision \/ s.revision = p.mirror.revision
        \/ s.revision > p.mirror.revision
    BY <1>0
  <2>6. QED
    BY <2>1, <2>2, <2>3, <2>4, <2>5, Zenon
<1>. HIDE DEF gone, s
<1>2. CASE r \in Refuse("lost", p) \/ r \in Refuse("invalid", p) \/ r \in Refuse("busy", p)
  BY <1>2, Refused
<1>3. CASE r \in Refuse("ok", p) /\ s.revision = p.mirror.revision
  BY <1>3, Refused DEF s
<1>4. ASSUME ~p.mirror.poisoned, ~MustWait(gone, idle), NEW q \in ReleaseRetired(p, gone),
             r = IF q.status = "ok" THEN Import(q.p, s) ELSE q
      PROVE  /\ r.p \in PluginStates /\ MirrorOf(r.p.mirror, t)
             /\ r.status \in {"ok", "lost", "invalid", "busy"}
             /\ r.status = "ok" => r.p.mirror.revision = t.revision
             /\ ~idle => /\ r.p.native = p.native /\ r.p.mapped = p.mapped
                         /\ r.p.imported = p.imported
  <2>1. q.p \in PluginStates /\ q.p.mirror = p.mirror /\ q.status \in {"ok", "lost", "invalid"}
    BY <1>4, RetiredReleased DEF Settled, Kept
  <2>2. ~idle => q = Result("ok", p)
    BY <1>4, RetiredReleased DEF MustWait
  <2>3. ~idle => q.p = p
    BY <2>2 DEF Result
  <2>4. CASE q.status # "ok"
    BY <1>4, <2>1, <2>3, <2>4
  <2>5. CASE q.status = "ok"
    <3>1. r = Import(q.p, s)
      BY <1>4, <2>5
    <3>2. AcceptedIsHeld(q.p.mirror) /\ ~q.p.mirror.poisoned
      BY <1>4, <2>1 DEF MirrorOf
    <3>3. /\ r.p \in PluginStates /\ AcceptedIsHeld(r.p.mirror)
          /\ r.p.native = q.p.native /\ r.p.mapped = q.p.mapped /\ r.p.imported = q.p.imported
          /\ r.p.mirror.revision \in {q.p.mirror.revision, s.revision}
          /\ ~r.p.mirror.poisoned => /\ r.p.mirror.revision = s.revision
                                     /\ r.p.mirror.rows = s.rows
          /\ r.status = "ok" => ~r.p.mirror.poisoned
          /\ r.status \in {"ok", "invalid"}
      BY <1>0, <2>1, <3>1, <3>2, ImportFacts
    <3>4. MirrorOf(r.p.mirror, t)
      BY <1>0, <2>1, <3>3 DEF MirrorOf, s
    <3>5. QED
      BY <2>3, <3>3, <3>4 DEF s
  <2>6. QED
    BY <2>4, <2>5
<1>5. QED
  BY <1>1, <1>2, <1>3, <1>4

-------------------------------------------------------------------------------
(* The facade.                                                                 *)

(* What a synchronization that is part of a call has left.                     *)
Synced(s) ==
    /\ s.p \in PluginStates
    /\ s.table \in TableStates /\ CachesAreCurrent(s.table)
    /\ s.table.rows = table.rows /\ s.table.revision = table.revision
    /\ MirrorOf(s.p.mirror, s.table)
    /\ s.status \in {"ok", "lost", "invalid", "busy"}
    /\ s.known \in {known, table.revision} /\ s.known <= table.revision
    /\ s.known = table.revision => s.p.mirror.poisoned \/ s.p.mirror.revision = table.revision
    /\ work = {} \/ /\ s.p.native = plugin.native /\ s.p.mapped = plugin.mapped
                    /\ s.p.imported = plugin.imported

(* A synchronization leaves a plugin that follows the table.                   *)
LEMMA SyncFacts ==
    ASSUME FacadeInvariant, NEW s \in sync
    PROVE  Synced(s)
<1>0. /\ table \in TableStates /\ plugin \in PluginStates /\ known \in Nat
      /\ CachesAreCurrent(table) /\ MirrorOf(plugin.mirror, table)
      /\ known <= table.revision
      /\ known = table.revision => plugin.mirror.poisoned \/ plugin.mirror.revision = known
      /\ table.revision \in Nat
  BY DEF FacadeInvariant, FacadeTypeOK, KnownIsImported, TableStates
<1>1. CASE table.revision = known
  <2>1. s = [status |-> "ok", p |-> plugin, table |-> table, known |-> known]
    BY <1>1 DEF sync
  <2>2. s.p = plugin /\ s.table = table /\ s.known = known /\ s.status = "ok"
    BY <2>1
  <2>3. QED
    BY <1>0, <1>1, <2>2 DEF Synced
<1>2. CASE table.revision # known
  <2>. DEFINE t == abi_snapshot(table)
  <2>1. PICK r \in sync_resources(plugin, t.snapshot, Idle) :
          s = [status |-> r.status, p |-> r.p, table |-> t,
               known |-> Remembered(r.status, t.revision)]
    BY <1>2 DEF sync
  <2>2. /\ t \in TableStates /\ CachesAreCurrent(t)
        /\ t.rows = table.rows /\ t.revision = table.revision
        /\ t.snapshot.revision = t.revision /\ t.snapshot.rows = t.rows
    BY <1>0, SnapshotTaken
  <2>. HIDE DEF t
  <2>3. MirrorOf(plugin.mirror, t)
    BY <1>0, <2>2 DEF MirrorOf
  <2>4. Idle \in BOOLEAN
    BY DEF Idle
  <2>5. /\ r.p \in PluginStates /\ MirrorOf(r.p.mirror, t)
        /\ r.status \in {"ok", "lost", "invalid", "busy"}
        /\ r.status = "ok" => r.p.mirror.revision = t.revision
        /\ ~Idle => /\ r.p.native = plugin.native /\ r.p.mapped = plugin.mapped
                    /\ r.p.imported = plugin.imported
    BY <1>0, <2>1, <2>2, <2>3, <2>4, ResourcesSynced
  <2>6. s.p = r.p /\ s.table = t /\ s.known = Remembered(r.status, t.revision)
        /\ s.status = r.status
    BY <2>1
  <2>7. s.known = known \/ (r.status = "ok" /\ s.known = table.revision)
    <3>1. CASE r.status = "ok"
      BY <2>2, <2>6, <3>1 DEF Remembered
    <3>2. CASE r.status # "ok"
      BY <2>6, <3>2 DEF Remembered
    <3>3. QED
      BY <3>1, <3>2
  <2>8. QED
    BY <1>0, <1>2, <2>2, <2>5, <2>6, <2>7 DEF Synced, Idle
<1>3. QED
  BY <1>1, <1>2

(* What is native to work depends on the plugin's mappings only for textures.  *)
LEMMA NativeGrows ==
    ASSUME NEW p, NEW q, NEW ids,
           p.native \subseteq q.native, p.mapped \subseteq q.mapped,
           p.imported \subseteq q.imported, NativeOf(p, ids) \subseteq p.native
    PROVE  NativeOf(q, ids) \subseteq q.native
BY DEF NativeOf, HasNative

(* Work in flight stays native through a synchronization.                      *)
LEMMA SyncedNative ==
    ASSUME FacadeInvariant, NEW s, Synced(s)
    PROVE  NativeOf(s.p, work) \subseteq s.p.native
<1>1. CASE work = {}
  BY <1>1 DEF NativeOf
<1>2. CASE work # {}
  BY <1>2, NativeGrows DEF Synced, FacadeInvariant, InFlightStaysNative
<1>3. QED
  BY <1>1, <1>2

(* A call that synchronizes, keeps the mirror it leaves and keeps what the     *)
(* work in flight needs, keeps the invariant.                                  *)
LEMMA CallKeeps ==
    ASSUME FacadeInvariant, Exists, NEW s, Synced(s), NEW q, Kept(s.p, q),
           table' = s.table, known' = s.known, plugin' = q,
           work' \subseteq Identities, NativeOf(q, work') \subseteq q.native,
           recording' = recording, HandlesAreOwned'
    PROVE  FacadeInvariant'
<1>1. plugin' \in PluginStates /\ plugin'.mirror = s.p.mirror
  BY DEF Kept
<1>2. table'.revision = table.revision /\ table.revision \in Nat /\ table.revision # 0
      /\ known \in Nat /\ known # 0
  BY DEF Synced, FacadeInvariant, FacadeTypeOK, TableStates, Exists
<1>3. FacadeTypeOK'
  BY <1>1, <1>2 DEF FacadeTypeOK, FacadeInvariant, Synced
<1>4. CachesAreCurrent(table)' /\ MirrorOf(plugin.mirror, table)'
  BY <1>1 DEF Synced
<1>5. KnownIsImported'
  BY <1>1, <1>2 DEF KnownIsImported, Synced
<1>6. InFlightStaysNative'
  BY DEF InFlightStaysNative
<1>7. QED
  BY <1>3, <1>4, <1>5, <1>6 DEF FacadeInvariant

(* Results that release nothing, unless the device is idle.                    *)
Harmless(results, p, idle) == \A r \in results : Kept(p, r.p) /\ (idle \/ Grows(p, r.p))

(* A refusal changes nothing.                                                  *)
LEMMA RefusalIsHarmless ==
    ASSUME NEW p \in PluginStates, NEW idle, NEW status
    PROVE  Harmless(Refuse(status, p), p, idle)
BY Refused, SamePlugin DEF Harmless, Grows

(* Nor does a handler whose results all leave the plugin as it was.            *)
LEMMA ResultsAreHarmless ==
    ASSUME NEW p \in PluginStates, NEW idle, NEW a, NEW b, NEW c
    PROVE  Harmless({Result(a, p), Result(b, p), Result(c, p)}, p, idle)
BY SamePlugin DEF Harmless, Grows, Result

(* The checks of a slot add only refusals.                                     *)
LEMMA OnSlotIsHarmless ==
    ASSUME NEW p \in PluginStates, NEW idle, NEW k, NEW results, Harmless(results, p, idle)
    PROVE  Harmless(OnSlot(p, k, results), p, idle)
<1>1. \/ OnSlot(p, k, results) = Refuse("lost", p) \/ OnSlot(p, k, results) = Refuse("invalid", p)
      \/ OnSlot(p, k, results) = results
  BY DEF OnSlot
<1>2. QED
  BY <1>1, RefusalIsHarmless

(* A release is harmless without work in flight.                               *)
LEMMA ReleaseIsHarmless ==
    ASSUME NEW p \in PluginStates,
           NEW k \in {"texture", "buffer", "render", "compute", "shader"}
    PROVE  Harmless(ir_release(p, k), p, TRUE)
BY ReleaseKeeps DEF Harmless, Settled

(* A handler that waits for idleness is harmless at any time.                  *)
LEMMA WhenIdleIsHarmless ==
    ASSUME NEW p \in PluginStates, NEW idle \in BOOLEAN, NEW results, Harmless(results, p, TRUE)
    PROVE  Harmless(WhenIdle(p, idle, results), p, idle)
<1>1. CASE idle
  BY <1>1 DEF WhenIdle, Harmless
<1>2. CASE ~idle
  BY <1>2, RefusalIsHarmless DEF WhenIdle
<1>3. QED
  BY <1>1, <1>2

(* A buffer is not released under work.                                        *)
LEMMA BufferReleaseIsHarmless ==
    ASSUME NEW p \in PluginStates, NEW idle \in BOOLEAN
    PROVE  Harmless(release_buffer(p, idle), p, idle)
<1>1. Harmless(WhenIdle(p, idle, ir_release(p, "buffer")), p, idle)
  BY ReleaseIsHarmless, WhenIdleIsHarmless
<1>2. QED
  BY <1>1, OnSlotIsHarmless DEF release_buffer

(* A texture is not released under work.                                       *)
LEMMA TextureReleaseIsHarmless ==
    ASSUME NEW p \in PluginStates, NEW idle \in BOOLEAN
    PROVE  Harmless(release_texture(p, idle), p, idle)
<1>1. Harmless(WhenIdle(p, idle, ir_release(p, "texture")), p, idle)
  BY ReleaseIsHarmless, WhenIdleIsHarmless
<1>2. QED
  BY <1>1, OnSlotIsHarmless DEF release_texture

(* A program that is released by slot and generation, or refused because the   *)
(* library has no such call.                                                   *)
LEMMA ProgramReleaseIsHarmless ==
    ASSUME NEW p \in PluginStates, NEW k \in {"render", "compute", "shader"}, NEW gen
    PROVE  Harmless(ProgramRelease(p, OnProgram(p, k, gen, ir_release(p, k))), p, TRUE)
<1>. DEFINE inner == IF p.mirror.rows[k].gen # gen THEN Refuse("invalid", p) ELSE ir_release(p, k)
<1>1. inner = Refuse("invalid", p) \/ inner = ir_release(p, k)
  OBVIOUS
<1>. HIDE DEF inner
<1>2. Harmless(inner, p, TRUE)
  BY <1>1, ReleaseIsHarmless, RefusalIsHarmless
<1>3. Harmless(OnProgram(p, k, gen, ir_release(p, k)), p, TRUE)
  BY <1>2, OnSlotIsHarmless DEF OnProgram, inner
<1>4. Harmless(Refuse("unsupported", p), p, TRUE)
  BY RefusalIsHarmless
<1>5. QED
  BY <1>3, <1>4 DEF ProgramRelease, Harmless

(* Mapping a texture to an image releases nothing.                             *)
LEMMA MappingIsHarmless ==
    ASSUME NEW p \in PluginStates, NEW idle, NEW same
    PROVE  Harmless(map_image(p, same), p, idle)
<1>. DEFINE gen == p.mirror.rows["texture"].gen
            q == [p EXCEPT !.mapped = @ \cup {gen}]
            inner == IF ~same \/ p.mapped # {} THEN Refuse("invalid", p)
                     ELSE {Result("ok", q), Result("invalid", p)}
<1>1. gen \in Nat /\ p.mapped \cup {gen} \in SUBSET Nat
  <2>1. "texture" \in Kinds
    BY DEF Kinds
  <2>2. QED
    BY <2>1, PluginFields
<1>2. q = [p EXCEPT !.mapped = p.mapped \cup {gen}]
  OBVIOUS
<1>. HIDE DEF gen
<1>3. Grows(p, q)
  BY <1>1, <1>2, MappedPlugin DEF Grows
<1>4. inner = Refuse("invalid", p) \/ inner = {Result("ok", q), Result("invalid", p)}
  OBVIOUS
<1>5. map_image(p, same) = OnSlot(p, "texture", inner)
  BY DEF map_image, gen
<1>. HIDE DEF inner, q
<1>6. Harmless({Result("ok", q), Result("invalid", p)}, p, idle)
  BY <1>3, SamePlugin DEF Harmless, Grows, Result
<1>7. Harmless(inner, p, idle)
  BY <1>4, <1>6, RefusalIsHarmless
<1>8. QED
  BY <1>5, <1>7, OnSlotIsHarmless

(* Validation, readback and a group's release change nothing.                  *)
LEMMA ReadingIsHarmless ==
    ASSUME NEW p \in PluginStates, NEW idle, NEW k
    PROVE  /\ Harmless(validate(p, k), p, idle)
           /\ Harmless(read_buffer(p), p, idle) /\ Harmless(read_texture(p), p, idle)
           /\ Harmless(release_bind_group(p), p, idle)
<1>1. Harmless({Result("ok", p), Result("unsupported", p), Result("invalid", p)}, p, idle)
  BY ResultsAreHarmless
<1>2. Harmless({Result("ok", p), Result("lost", p)}, p, idle)
  BY SamePlugin DEF Harmless, Grows, Result
<1>3. QED
  BY <1>1, <1>2, OnSlotIsHarmless, RefusalIsHarmless
     DEF validate, read_buffer, read_texture, release_bind_group

(* A call whose results are harmless and that leaves the rest alone.           *)
LEMMA RestKeeps ==
    ASSUME FacadeInvariant, Exists, NEW s \in sync, NEW results, Harmless(results, s.p, work = {}),
           NEW r \in (IF s.status = "ok" THEN results ELSE {Result(s.status, s.p)}),
           table' = s.table, known' = s.known, plugin' = r.p,
           UNCHANGED <<flavour, work, recording, abiEnabled, handle, receipts, strong>>
    PROVE  FacadeInvariant'
<1>1. Synced(s)
  BY SyncFacts
<1>2. s.p \in PluginStates
  BY <1>1 DEF Synced
<1>3. Kept(s.p, r.p) /\ (work = {} \/ Grows(s.p, r.p))
  <2>1. CASE r \in results
    BY <2>1 DEF Harmless
  <2>2. CASE r = Result(s.status, s.p)
    BY <1>2, <2>2, SamePlugin DEF Grows, Result
  <2>3. QED
    BY <2>1, <2>2
<1>4. NativeOf(r.p, work) \subseteq r.p.native
  <2>1. CASE work = {}
    BY <2>1 DEF NativeOf
  <2>2. CASE Grows(s.p, r.p)
    BY <1>1, <2>2, SyncedNative, NativeGrows DEF Grows
  <2>3. QED
    BY <1>3, <2>1, <2>2
<1>5. HandlesAreOwned' /\ work' = work /\ recording' = recording
  BY DEF FacadeInvariant, HandlesAreOwned
<1>6. work' \subseteq Identities /\ NativeOf(r.p, work') \subseteq r.p.native
  BY <1>4, <1>5 DEF FacadeInvariant, FacadeTypeOK
<1>7. QED
  BY <1>1, <1>3, <1>5, <1>6, CallKeeps

(* The low-level calls that leave the accepted work alone.                     *)
LEMMA ReleaseBufferKeeps == ASSUME FacadeInvariant, dyn_release_buffer PROVE FacadeInvariant'
<1>1. PICK s \in sync : /\ table' = s.table /\ known' = s.known
                        /\ \E r \in (IF s.status = "ok" THEN release_buffer(s.p, Idle)
                                     ELSE {Result(s.status, s.p)}) : plugin' = r.p /\ Rest(r.status)
  BY DEF dyn_release_buffer, AfterSync
<1>2. Harmless(release_buffer(s.p, Idle), s.p, work = {})
  BY <1>1, SyncFacts, BufferReleaseIsHarmless DEF Synced, Idle
<1>3. QED
  BY <1>1, <1>2, RestKeeps DEF Rest, dyn_release_buffer, Low

(* A texture is released by a call that changes only the plugin.               *)
LEMMA ReleaseTextureKeeps == ASSUME FacadeInvariant, dyn_release_texture PROVE FacadeInvariant'
<1>1. PICK s \in sync : /\ table' = s.table /\ known' = s.known
                        /\ \E r \in (IF s.status = "ok" THEN release_texture(s.p, Idle) ELSE {Result(s.status, s.p)}) :
                             plugin' = r.p /\ Rest(r.status)
  BY DEF dyn_release_texture, AfterSync
<1>2. Harmless(release_texture(s.p, Idle), s.p, work = {})
  BY <1>1, SyncFacts, TextureReleaseIsHarmless DEF Synced, Idle
<1>3. QED
  BY <1>1, <1>2, RestKeeps DEF Rest, Low, dyn_release_texture

(* A bind group has no native object to release.                               *)
LEMMA ReleaseBindGroupKeeps == ASSUME FacadeInvariant, dyn_release_bind_group PROVE FacadeInvariant'
<1>1. PICK s \in sync : /\ table' = s.table /\ known' = s.known
                        /\ \E r \in (IF s.status = "ok" THEN release_bind_group(s.p) ELSE {Result(s.status, s.p)}) :
                             plugin' = r.p /\ Rest(r.status)
  BY DEF dyn_release_bind_group, AfterSync
<1>2. Harmless(release_bind_group(s.p), s.p, work = {})
  BY <1>1, SyncFacts, ReadingIsHarmless DEF Synced, Idle
<1>3. QED
  BY <1>1, <1>2, RestKeeps DEF Rest, Low, dyn_release_bind_group

(* A texture is mapped to a presentation image.                                *)
LEMMA MapImageKeeps == ASSUME FacadeInvariant, dyn_map_image PROVE FacadeInvariant'
<1>1. PICK s \in sync : /\ table' = s.table /\ known' = s.known
                        /\ \E r \in (IF s.status = "ok" THEN map_image(s.p, TRUE) ELSE {Result(s.status, s.p)}) :
                             plugin' = r.p /\ Rest(r.status)
  BY DEF dyn_map_image, AfterSync
<1>2. Harmless(map_image(s.p, TRUE), s.p, work = {})
  BY <1>1, SyncFacts, MappingIsHarmless DEF Synced, Idle
<1>3. QED
  BY <1>1, <1>2, RestKeeps DEF Rest, Low, dyn_map_image

(* A shader module is validated.                                               *)
LEMMA ValidateShaderKeeps == ASSUME FacadeInvariant, dyn_validate_shader_module PROVE FacadeInvariant'
<1>1. PICK s \in sync : /\ table' = s.table /\ known' = s.known
                        /\ \E r \in (IF s.status = "ok" THEN validate(s.p, "shader") ELSE {Result(s.status, s.p)}) :
                             plugin' = r.p /\ Rest(r.status)
  BY DEF dyn_validate_shader_module, AfterSync
<1>2. Harmless(validate(s.p, "shader"), s.p, work = {})
  BY <1>1, SyncFacts, ReadingIsHarmless DEF Synced, Idle
<1>3. QED
  BY <1>1, <1>2, RestKeeps DEF Rest, Low, dyn_validate_shader_module

(* A render pipeline is validated.                                             *)
LEMMA ValidateRenderKeeps == ASSUME FacadeInvariant, dyn_validate_programmable_render_pipeline PROVE FacadeInvariant'
<1>1. PICK s \in sync : /\ table' = s.table /\ known' = s.known
                        /\ \E r \in (IF s.status = "ok" THEN validate(s.p, "render") ELSE {Result(s.status, s.p)}) :
                             plugin' = r.p /\ Rest(r.status)
  BY DEF dyn_validate_programmable_render_pipeline, AfterSync
<1>2. Harmless(validate(s.p, "render"), s.p, work = {})
  BY <1>1, SyncFacts, ReadingIsHarmless DEF Synced, Idle
<1>3. QED
  BY <1>1, <1>2, RestKeeps DEF Rest, Low, dyn_validate_programmable_render_pipeline

(* A compute pipeline is validated.                                            *)
LEMMA ValidateComputeKeeps == ASSUME FacadeInvariant, dyn_validate_compute_pipeline PROVE FacadeInvariant'
<1>1. PICK s \in sync : /\ table' = s.table /\ known' = s.known
                        /\ \E r \in (IF s.status = "ok" THEN validate(s.p, "compute") ELSE {Result(s.status, s.p)}) :
                             plugin' = r.p /\ Rest(r.status)
  BY DEF dyn_validate_compute_pipeline, AfterSync
<1>2. Harmless(validate(s.p, "compute"), s.p, work = {})
  BY <1>1, SyncFacts, ReadingIsHarmless DEF Synced, Idle
<1>3. QED
  BY <1>1, <1>2, RestKeeps DEF Rest, Low, dyn_validate_compute_pipeline

(* The program releases, once the accepted work has completed.                 *)
LEMMA ReleaseShaderKeeps == ASSUME FacadeInvariant, dyn_release_shader_module PROVE FacadeInvariant'
<1>. DEFINE Released(p) == ProgramRelease(p, release_shader_module(p, Row("shader").gen))
<1>1. PICK s \in sync : /\ table' = s.table /\ known' = s.known
                        /\ \E r \in (IF s.status = "ok" THEN Released(s.p) ELSE {Result(s.status, s.p)}) :
                             plugin' = r.p /\ Rest(r.status)
  BY DEF dyn_release_shader_module, AfterSync
<1>2. Harmless(Released(s.p), s.p, TRUE)
  BY <1>1, SyncFacts, ProgramReleaseIsHarmless DEF Synced, release_shader_module
<1>3. Harmless(Released(s.p), s.p, work = {})
  BY <1>2 DEF dyn_release_shader_module, Idle, Harmless
<1>. HIDE DEF Released
<1>4. QED
  BY <1>1, <1>3, RestKeeps DEF Rest, Low, dyn_release_shader_module

(* A compute pipeline is released.                                             *)
LEMMA ReleaseComputeKeeps == ASSUME FacadeInvariant, dyn_release_compute_pipeline PROVE FacadeInvariant'
<1>. DEFINE Released(p) == ProgramRelease(p, release_compute_pipeline(p, Row("compute").gen))
<1>1. PICK s \in sync : /\ table' = s.table /\ known' = s.known
                        /\ \E r \in (IF s.status = "ok" THEN Released(s.p) ELSE {Result(s.status, s.p)}) :
                             plugin' = r.p /\ Rest(r.status)
  BY DEF dyn_release_compute_pipeline, AfterSync
<1>2. Harmless(Released(s.p), s.p, TRUE)
  BY <1>1, SyncFacts, ProgramReleaseIsHarmless DEF Synced, release_compute_pipeline
<1>3. Harmless(Released(s.p), s.p, work = {})
  BY <1>2 DEF dyn_release_compute_pipeline, Idle, Harmless
<1>. HIDE DEF Released
<1>4. QED
  BY <1>1, <1>3, RestKeeps DEF Rest, Low, dyn_release_compute_pipeline

(* A render pipeline is released.                                              *)
LEMMA ReleaseRenderKeeps == ASSUME FacadeInvariant, dyn_release_programmable_render_pipeline PROVE FacadeInvariant'
<1>. DEFINE Released(p) == ProgramRelease(p, release_programmable_render_pipeline(p, Row("render").gen))
<1>1. PICK s \in sync : /\ table' = s.table /\ known' = s.known
                        /\ \E r \in (IF s.status = "ok" THEN Released(s.p) ELSE {Result(s.status, s.p)}) :
                             plugin' = r.p /\ Rest(r.status)
  BY DEF dyn_release_programmable_render_pipeline, AfterSync
<1>2. Harmless(Released(s.p), s.p, TRUE)
  BY <1>1, SyncFacts, ProgramReleaseIsHarmless DEF Synced, release_programmable_render_pipeline
<1>3. Harmless(Released(s.p), s.p, work = {})
  BY <1>2 DEF dyn_release_programmable_render_pipeline, Idle, Harmless
<1>. HIDE DEF Released
<1>4. QED
  BY <1>1, <1>3, RestKeeps DEF Rest, Low, dyn_release_programmable_render_pipeline

(* A call that is answered without the plugin.                                 *)
LEMMA FacadeUnchanged == ASSUME FacadeInvariant, UNCHANGED dynVars PROVE FacadeInvariant'
BY DEF dynVars, FacadeInvariant, FacadeTypeOK, KnownIsImported, InFlightStaysNative, HandlesAreOwned

(* A readback may be refused before the synchronization.                       *)
LEMMA ReadBufferKeeps == ASSUME FacadeInvariant, dyn_read_buffer PROVE FacadeInvariant'
<1>0. CASE UNCHANGED dynVars
  BY <1>0, FacadeUnchanged
<1>1. CASE ~UNCHANGED dynVars
  <2>1. PICK s \in sync : /\ table' = s.table /\ known' = s.known
                          /\ \E r \in (IF s.status = "ok" THEN read_buffer(s.p) ELSE {Result(s.status, s.p)}) :
                               plugin' = r.p /\ Rest(r.status)
    BY <1>1 DEF dyn_read_buffer, AfterSync
  <2>2. Harmless(read_buffer(s.p), s.p, work = {})
    BY <2>1, SyncFacts, ReadingIsHarmless DEF Synced
  <2>3. QED
    BY <2>1, <2>2, RestKeeps DEF Rest, Low, dyn_read_buffer
<1>2. QED
  BY <1>0, <1>1

(* So may that of a texture.                                                   *)
LEMMA ReadTextureKeeps == ASSUME FacadeInvariant, dyn_read_texture PROVE FacadeInvariant'
<1>0. CASE UNCHANGED dynVars
  BY <1>0, FacadeUnchanged
<1>1. CASE ~UNCHANGED dynVars
  <2>1. PICK s \in sync : /\ table' = s.table /\ known' = s.known
                          /\ \E r \in (IF s.status = "ok" THEN read_texture(s.p) ELSE {Result(s.status, s.p)}) :
                               plugin' = r.p /\ Rest(r.status)
    BY <1>1 DEF dyn_read_texture, AfterSync
  <2>2. Harmless(read_texture(s.p), s.p, work = {})
    BY <2>1, SyncFacts, ReadingIsHarmless DEF Synced
  <2>3. QED
    BY <2>1, <2>2, RestKeeps DEF Rest, Low, dyn_read_texture
<1>2. QED
  BY <1>0, <1>1

-------------------------------------------------------------------------------
(* Calls that change the accepted work.                                        *)

(* Work that uses no texture does not depend on what is mapped.                *)
LEMMA NativeWithoutTextures ==
    ASSUME NEW p, NEW q, NEW ids, ~\E id \in ids : SlotOf(id) = "texture",
           q.native = p.native, NativeOf(p, ids) \subseteq p.native
    PROVE  NativeOf(q, ids) \subseteq q.native
BY DEF NativeOf, HasNative

(* A call that gives a texture back waits for the work that uses it.           *)
LEMMA WaitedNative ==
    ASSUME FacadeInvariant, NEW p, NEW q, NEW status, NativeOf(p, work) \subseteq p.native,
           Kept(p, q), status = "ok" => q.native = p.native, status # "ok" => Grows(p, q),
           WaitsForTexture(status)
    PROVE  /\ work' \in {{}, work} /\ work' \subseteq Identities
           /\ NativeOf(q, work') \subseteq q.native
<1>1. CASE status = "ok" /\ \E id \in work : SlotOf(id) = "texture"
  BY <1>1 DEF WaitsForTexture, NativeOf
<1>2. CASE status = "ok" /\ ~\E id \in work : SlotOf(id) = "texture"
  BY <1>2, NativeWithoutTextures DEF WaitsForTexture, FacadeInvariant, FacadeTypeOK
<1>3. CASE status # "ok"
  BY <1>3, NativeGrows DEF WaitsForTexture, FacadeInvariant, FacadeTypeOK, Grows
<1>4. QED
  BY <1>1, <1>2, <1>3

(* What unmapping a texture's image leaves.                                    *)
LEMMA UnmapFacts ==
    ASSUME NEW p \in PluginStates, NEW r \in unmap_image(p)
    PROVE  Kept(p, r.p) /\ (r.status = "ok" => r.p.native = p.native)
           /\ (r.status # "ok" => Grows(p, r.p))
<1>. DEFINE gen == p.mirror.rows["texture"].gen
            q == [p EXCEPT !.mapped = @ \ {gen}]
<1>1. \/ r \in Refuse("lost", p) \/ r \in Refuse("invalid", p) \/ r \in run_retirement(p, q)
  BY DEF unmap_image, OnSlot
<1>2. p.mapped \ {gen} \in SUBSET Nat /\ q = [p EXCEPT !.mapped = p.mapped \ {gen}]
  BY PluginFields
<1>3. Kept(p, q) /\ q.native = p.native
  BY <1>2, MappedPlugin
<1>. HIDE DEF q
<1>4. CASE r \in Refuse("lost", p) \/ r \in Refuse("invalid", p)
  BY <1>4, Refused, SamePlugin DEF Grows
<1>. DEFINE failed == [p EXCEPT !.failed = TRUE]
<1>5. Grows(p, failed)
  BY FailedPlugin
<1>6. CASE r \in run_retirement(p, q)
  <2>1. (r.p = q /\ r.status = "ok") \/ (r.p = failed /\ r.status = "lost")
    BY <1>6, Retirement
  <2>. HIDE DEF failed
  <2>2. QED
    BY <1>3, <1>5, <2>1 DEF Grows
<1>7. QED
  BY <1>1, <1>4, <1>6

(* Unmapping a texture work used ends that work first.                         *)
LEMMA UnmapImageKeeps == ASSUME FacadeInvariant, dyn_unmap_image PROVE FacadeInvariant'
<1>1. PICK s \in sync : /\ table' = s.table /\ known' = s.known
                        /\ \E r \in (IF s.status = "ok" THEN unmap_image(s.p)
                                     ELSE {Result(s.status, s.p)}) :
                             plugin' = r.p /\ WaitsForTexture(r.status)
  BY DEF dyn_unmap_image, AfterSync
<1>2. PICK r \in (IF s.status = "ok" THEN unmap_image(s.p) ELSE {Result(s.status, s.p)}) :
        plugin' = r.p /\ WaitsForTexture(r.status)
  BY <1>1
<1>3. Synced(s) /\ s.p \in PluginStates /\ NativeOf(s.p, work) \subseteq s.p.native
  BY <1>1, SyncFacts, SyncedNative DEF Synced
<1>4. Kept(s.p, r.p) /\ (r.status = "ok" => r.p.native = s.p.native)
      /\ (r.status # "ok" => Grows(s.p, r.p))
  <2>1. CASE s.status = "ok"
    BY <1>2, <1>3, <2>1, UnmapFacts
  <2>2. CASE s.status # "ok"
    BY <1>2, <1>3, <2>2, SamePlugin DEF Result, Grows
  <2>3. QED
    BY <2>1, <2>2
<1>5. work' \subseteq Identities /\ NativeOf(r.p, work') \subseteq r.p.native
  BY <1>2, <1>3, <1>4, WaitedNative
<1>6. HandlesAreOwned' /\ recording' = recording /\ Exists
  BY DEF dyn_unmap_image, Low, FacadeInvariant, HandlesAreOwned
<1>7. QED
  BY <1>1, <1>2, <1>3, <1>4, <1>5, <1>6, CallKeeps

(* The identities that work reaches.                                           *)
LEMMA ReachedIdentities ==
    ASSUME NEW rows \in Rows, NEW uses \in SUBSET Identities
    PROVE  Reached(rows, uses) \subseteq Identities
<1>1. ASSUME Active(rows["group"]) PROVE rows["group"].desc \subseteq Identities
  <2>1. rows["group"] \in RowSet
    BY DEF Rows, Kinds
  <2>2. rows["group"].desc \in (SUBSET Identities) \cup {None}
    BY <2>1 DEF RowSet
  <2>3. QED
    BY <1>1, <2>2 DEF Active
<1>2. QED
  BY <1>1 DEF Reached

(* The native objects of identities are objects of known kinds.                *)
LEMMA NativeTyped ==
    ASSUME NEW p, NEW ids \in SUBSET Identities
    PROVE  NativeOf(p, ids) \in SUBSET [kind : Kinds, gen : Nat]
BY DEF NativeOf, HasNative, Identities, Kinds

(* What an accepted submission has made: the native objects of everything it   *)
(* reaches.                                                                    *)
LEMMA MadeFacts ==
    ASSUME NEW p \in PluginStates, NEW uses \in SUBSET Identities
    PROVE  LET ids == Reached(p.mirror.rows, uses)
               made == [p EXCEPT !.native = @ \cup NativeOf(p, ids)]
               stopped == [made EXCEPT !.failed = TRUE]
           IN  /\ Grows(p, made) /\ NativeOf(made, ids) \subseteq made.native
               /\ Grows(p, stopped) /\ NativeOf(stopped, ids) \subseteq stopped.native
<1>. DEFINE ids == Reached(p.mirror.rows, uses)
            native == p.native \cup NativeOf(p, ids)
            made == [p EXCEPT !.native = @ \cup NativeOf(p, ids)]
            stopped == [made EXCEPT !.failed = TRUE]
<1>1. ids \in SUBSET Identities
  BY PluginFields, ReachedIdentities DEF MirrorStates
<1>. HIDE DEF ids
<1>2. native \in SUBSET [kind : Kinds, gen : Nat]
  BY <1>1, NativeTyped, PluginFields
<1>3. made = [p EXCEPT !.native = native]
  OBVIOUS
<1>. HIDE DEF native, made
<1>4. /\ Kept(p, made) /\ made.native = native /\ made.mapped = p.mapped
      /\ made.imported = p.imported
  <2>. DEFINE q == [p EXCEPT !.native = native]
  <2>1. Kept(p, q) /\ q.native = native /\ q.mapped = p.mapped /\ q.imported = p.imported
    BY <1>2, NativePlugin
  <2>. HIDE DEF q
  <2>2. made = q
    BY <1>3 DEF q
  <2>3. QED
    BY <2>1, <2>2
<1>5. /\ made \in PluginStates
      /\ Grows(made, stopped) /\ stopped.native = made.native /\ stopped.mapped = made.mapped
      /\ stopped.imported = made.imported
  BY <1>4, FailedPlugin DEF Kept
<1>. HIDE DEF stopped
<1>6. Grows(p, made) /\ Grows(p, stopped)
  BY <1>4, <1>5 DEF Grows, Kept, native
<1>7. NativeOf(made, ids) \subseteq made.native /\ NativeOf(stopped, ids) \subseteq stopped.native
  BY <1>4, <1>5 DEF NativeOf, HasNative, native
<1>8. QED
  BY <1>6, <1>7 DEF ids, made, stopped

(* The results of a submission.                                                *)
LEMMA SubmitFacts ==
    ASSUME NEW p \in PluginStates, NEW uses \in SUBSET Identities,
           NEW r \in submit(p, uses)
    PROVE  /\ Grows(p, r.p)
           /\ r.status \in {"accepted", "partial"}
                => NativeOf(r.p, Reached(p.mirror.rows, uses)) \subseteq r.p.native
<1>. DEFINE ids == Reached(p.mirror.rows, uses)
            made == [p EXCEPT !.native = @ \cup NativeOf(p, ids)]
            stopped == [made EXCEPT !.failed = TRUE]
<1>1. \/ r \in Refuse("lost", p) \/ r \in Refuse("invalid", p)
      \/ r \in {Result("accepted", made), Result("busy", p), Result("invalid", p),
                Result("partial", stopped)}
  BY DEF submit
<1>2. /\ Grows(p, made) /\ NativeOf(made, ids) \subseteq made.native
      /\ Grows(p, stopped) /\ NativeOf(stopped, ids) \subseteq stopped.native
  BY MadeFacts
<1>. HIDE DEF ids, made, stopped
<1>3. CASE r \in Refuse("lost", p) \/ r \in Refuse("invalid", p)
  BY <1>3, Refused, SamePlugin
<1>4. CASE r = Result("busy", p) \/ r = Result("invalid", p)
  BY <1>4, SamePlugin DEF Result
<1>5. CASE r = Result("accepted", made) \/ r = Result("partial", stopped)
  BY <1>2, <1>5 DEF Result, ids
<1>6. QED
  BY <1>1, <1>3, <1>4, <1>5

(* A submission, accepted or not, on a plugin that was synchronized.           *)
LEMMA SubmissionKeeps ==
    ASSUME FacadeInvariant, Exists, recording # None, NEW s \in sync,
           NEW uses, uses = recording.uses,
           NEW r, (r.p = s.p /\ r.status \notin {"accepted", "partial"}) \/ r \in submit(s.p, uses),
           table' = s.table, known' = s.known, plugin' = r.p,
           decode_submission(r.status, uses, r.p.mirror.rows),
           UNCHANGED <<recording, handle>>
    PROVE  FacadeInvariant'
<1>1. Synced(s) /\ s.p \in PluginStates /\ NativeOf(s.p, work) \subseteq s.p.native
  BY SyncFacts, SyncedNative DEF Synced
<1>2. uses \in SUBSET Identities /\ work \subseteq Identities
  BY DEF FacadeInvariant, FacadeTypeOK
<1>3. /\ Grows(s.p, r.p)
      /\ r.status \in {"accepted", "partial"}
           => NativeOf(r.p, Reached(r.p.mirror.rows, uses)) \subseteq r.p.native
  <2>1. CASE r.p = s.p /\ r.status \notin {"accepted", "partial"}
    BY <1>1, <2>1, SamePlugin
  <2>2. CASE r \in submit(s.p, uses)
    BY <1>1, <1>2, <2>2, SubmitFacts DEF Grows, Kept
  <2>3. QED
    BY <2>1, <2>2
<1>4. NativeOf(r.p, work) \subseteq r.p.native
  BY <1>1, <1>3, NativeGrows DEF Grows
<1>5. CASE r.status \in {"accepted", "partial"}
  <2>. DEFINE ids == Reached(r.p.mirror.rows, uses)
  <2>1. work' = work \cup ids /\ receipts' = 1 /\ strong' = 1
    BY <1>5 DEF decode_submission
  <2>2. ids \subseteq Identities
    BY <1>2, <1>3, ReachedIdentities, PluginFields DEF Grows, Kept, MirrorStates
  <2>3. NativeOf(r.p, ids) \subseteq r.p.native
    BY <1>3, <1>5
  <2>. HIDE DEF ids
  <2>4. NativeOf(r.p, work') \subseteq r.p.native
    BY <1>4, <2>1, <2>3 DEF NativeOf
  <2>5. HandlesAreOwned'
    BY <2>1 DEF FacadeInvariant, HandlesAreOwned
  <2>6. QED
    BY <1>1, <1>2, <1>3, <2>1, <2>2, <2>4, <2>5, CallKeeps DEF Grows
<1>6. CASE r.status \notin {"accepted", "partial"}
  <2>1. work' = work /\ HandlesAreOwned'
    BY <1>6 DEF decode_submission, FacadeInvariant, HandlesAreOwned
  <2>2. QED
    BY <1>1, <1>2, <1>3, <1>4, <2>1, CallKeeps DEF Grows
<1>7. QED
  BY <1>5, <1>6

(* A submission to the low-level queue.                                        *)
LEMMA SubmitIrKeeps == ASSUME FacadeInvariant, submit_ir_async PROVE FacadeInvariant'
<1>. DEFINE uses == recording.uses
            Call(p) == IF ~recording.abi THEN Refuse("recording_mode", p) ELSE submit(p, uses)
<1>1. PICK s \in sync : /\ table' = s.table /\ known' = s.known
                        /\ \E r \in (IF s.status = "ok" THEN Call(s.p)
                                     ELSE {Result(s.status, s.p)}) :
                             /\ plugin' = r.p
                             /\ decode_submission(r.status, uses, plugin'.mirror.rows)
  BY DEF submit_ir_async, AfterSync
<1>2. PICK r \in (IF s.status = "ok" THEN Call(s.p) ELSE {Result(s.status, s.p)}) :
        plugin' = r.p /\ decode_submission(r.status, uses, plugin'.mirror.rows)
  BY <1>1
<1>3. (r.p = s.p /\ r.status \notin {"accepted", "partial"}) \/ r \in submit(s.p, uses)
  <2>1. CASE r \in Refuse("recording_mode", s.p)
    BY <2>1, Refused
  <2>2. CASE r = Result(s.status, s.p)
    BY <1>1, <2>2, SyncFacts DEF Synced, Result
  <2>3. QED
    BY <1>2, <2>1, <2>2
<1>4. Exists /\ recording # None /\ UNCHANGED <<recording, handle>>
  BY DEF submit_ir_async
<1>. HIDE DEF uses
<1>5. uses = recording.uses
  BY DEF uses
<1>6. decode_submission(r.status, uses, r.p.mirror.rows)
  BY <1>2
<1>7. QED
  BY <1>1, <1>2, <1>3, <1>4, <1>5, <1>6, SubmissionKeeps

(* A call that stops before the plugin is synchronized, or changes it without. *)
LEMMA LocalKeeps ==
    ASSUME FacadeInvariant, table' = table, known' = known, Kept(plugin, plugin'),
           work' \subseteq Identities, NativeOf(plugin', work') \subseteq plugin'.native,
           known = 0 => work' = {},
           recording' = None \/ recording'.uses \subseteq Identities, HandlesAreOwned'
    PROVE  FacadeInvariant'
<1>1. plugin' \in PluginStates /\ plugin'.mirror = plugin.mirror
  BY DEF Kept
<1>2. FacadeTypeOK'
  BY <1>1 DEF FacadeTypeOK, FacadeInvariant
<1>3. CachesAreCurrent(table)' /\ MirrorOf(plugin.mirror, table)'
  BY <1>1 DEF FacadeInvariant
<1>4. KnownIsImported'
  BY <1>1 DEF KnownIsImported, FacadeInvariant
<1>5. InFlightStaysNative'
  BY DEF InFlightStaysNative
<1>6. QED
  BY <1>2, <1>3, <1>4, <1>5 DEF FacadeInvariant

(* A step that leaves table and plugin alone, and adds no work.                *)
LEMMA OutsideKeeps ==
    ASSUME FacadeInvariant, UNCHANGED <<table, known, plugin>>, work' \in {{}, work},
           recording' = None \/ recording'.uses \subseteq Identities, HandlesAreOwned'
    PROVE  FacadeInvariant'
<1>1. Kept(plugin, plugin')
  BY DEF FacadeInvariant, FacadeTypeOK, Kept
<1>2. work' \subseteq Identities /\ (known = 0 => work' = {})
  BY DEF FacadeInvariant, FacadeTypeOK, KnownIsImported
<1>3. NativeOf(plugin', work') \subseteq plugin'.native
  <2>1. CASE work' = {}
    BY <2>1 DEF NativeOf
  <2>2. CASE work' = work
    BY <2>2 DEF FacadeInvariant, InFlightStaysNative
  <2>3. QED
    BY <2>1, <2>2
<1>4. QED
  BY <1>1, <1>2, <1>3, LocalKeeps

(* A recording that is kept names identities.                                  *)
LEMMA RecordingTyped ==
    ASSUME FacadeInvariant, recording' = recording
    PROVE  recording' = None \/ recording'.uses \subseteq Identities
BY DEF FacadeInvariant, FacadeTypeOK

(* A submission to a session, refused or synchronized.                         *)
LEMMA SessionSubmitKeeps == ASSUME FacadeInvariant, session_submit PROVE FacadeInvariant'
<1>. DEFINE uses == recording.uses
<1>0. Exists /\ recording # None /\ UNCHANGED <<recording, handle>>
  BY DEF session_submit, Session
<1>1. CASE ~recording.abi
  <2>1. /\ decode_submission("recording_mode", uses, plugin'.mirror.rows)
        /\ UNCHANGED <<table, known, plugin>>
    BY <1>1 DEF session_submit, batchCall
  <2>2. UNCHANGED <<work, receipts, strong>>
    BY <2>1 DEF decode_submission
  <2>3. HandlesAreOwned'
    BY <1>0, <2>2 DEF FacadeInvariant, HandlesAreOwned
  <2>4. QED
    BY <1>0, <2>1, <2>2, <2>3, OutsideKeeps, RecordingTyped
<1>2. CASE recording.abi
  <2>1. PICK s \in sync : /\ table' = s.table /\ known' = s.known
                          /\ \E r \in (IF s.status = "ok" THEN submit(s.p, uses)
                                       ELSE {Result(s.status, s.p)}) :
                               /\ plugin' = r.p
                               /\ decode_submission(r.status, uses, plugin'.mirror.rows)
    BY <1>2 DEF session_submit, batchCall, AfterSync
  <2>2. PICK r \in (IF s.status = "ok" THEN submit(s.p, uses) ELSE {Result(s.status, s.p)}) :
          plugin' = r.p /\ decode_submission(r.status, uses, plugin'.mirror.rows)
    BY <2>1
  <2>3. (r.p = s.p /\ r.status \notin {"accepted", "partial"}) \/ r \in submit(s.p, uses)
    <3>1. CASE r = Result(s.status, s.p)
      BY <2>1, <3>1, SyncFacts DEF Synced, Result
    <3>2. QED
      BY <2>2, <3>1
  <2>. HIDE DEF uses
  <2>4. uses = recording.uses
    BY DEF uses
  <2>5. decode_submission(r.status, uses, r.p.mirror.rows)
    BY <2>2
  <2>6. QED
    BY <1>0, <2>1, <2>2, <2>3, <2>4, <2>5, SubmissionKeeps
<1>3. QED
  BY <1>1, <1>2

(* The results of a synchronous execution.                                     *)
LEMMA ExecuteFacts ==
    ASSUME NEW p \in PluginStates, NEW uses \in SUBSET Identities, NEW r \in execute(p, uses)
    PROVE  Grows(p, r.p)
<1>. DEFINE ids == Reached(p.mirror.rows, uses)
            made == [p EXCEPT !.native = @ \cup NativeOf(p, ids)]
            stopped == [made EXCEPT !.failed = TRUE]
<1>1. \/ r \in Refuse("lost", p) \/ r \in Refuse("invalid", p)
      \/ r \in {Result("ok", made), Result("invalid", p), Result("lost", stopped)}
  BY DEF execute
<1>2. Grows(p, made) /\ Grows(p, stopped)
  BY MadeFacts
<1>. HIDE DEF ids, made, stopped
<1>3. CASE r \in Refuse("lost", p) \/ r \in Refuse("invalid", p)
  BY <1>3, Refused, SamePlugin
<1>4. CASE r = Result("ok", made) \/ r = Result("invalid", p) \/ r = Result("lost", stopped)
  BY <1>2, <1>4, SamePlugin DEF Result
<1>5. QED
  BY <1>1, <1>3, <1>4

(* The synchronous executor leaves no work behind.                             *)
LEMMA SessionExecuteKeeps == ASSUME FacadeInvariant, session_execute PROVE FacadeInvariant'
<1>. DEFINE uses == recording.uses
            Then(status) == work' = IF status \in {"ok", "lost"} THEN {} ELSE work
<1>0. /\ Exists /\ UNCHANGED <<recording, handle, receipts, strong>>
      /\ uses \in SUBSET Identities
  BY DEF session_execute, Session, FacadeInvariant, FacadeTypeOK
<1>a. HandlesAreOwned'
  BY <1>0 DEF FacadeInvariant, HandlesAreOwned
<1>1. CASE ~recording.abi
  <2>1. Then("recording_mode") /\ UNCHANGED <<table, known, plugin>>
    BY <1>1 DEF session_execute, batchCall
  <2>2. QED
    BY <1>0, <1>a, <2>1, OutsideKeeps, RecordingTyped
<1>2. CASE recording.abi
  <2>1. PICK s \in sync : /\ table' = s.table /\ known' = s.known
                          /\ \E r \in (IF s.status = "ok" THEN execute(s.p, uses)
                                       ELSE {Result(s.status, s.p)}) :
                               plugin' = r.p /\ Then(r.status)
    BY <1>2 DEF session_execute, batchCall, AfterSync
  <2>2. PICK r \in (IF s.status = "ok" THEN execute(s.p, uses) ELSE {Result(s.status, s.p)}) :
          plugin' = r.p /\ Then(r.status)
    BY <2>1
  <2>3. Synced(s) /\ s.p \in PluginStates /\ NativeOf(s.p, work) \subseteq s.p.native
    BY <2>1, SyncFacts, SyncedNative DEF Synced
  <2>4. Grows(s.p, r.p)
    <3>1. CASE r = Result(s.status, s.p)
      BY <2>3, <3>1, SamePlugin DEF Result
    <3>2. QED
      BY <1>0, <2>2, <2>3, <3>1, ExecuteFacts
  <2>5. NativeOf(r.p, work) \subseteq r.p.native /\ work' \in {{}, work}
    BY <2>2, <2>3, <2>4, NativeGrows DEF Grows
  <2>6. work' \subseteq Identities /\ NativeOf(r.p, work') \subseteq r.p.native
    BY <2>5 DEF NativeOf, FacadeInvariant, FacadeTypeOK
  <2>7. QED
    BY <1>0, <1>a, <2>1, <2>2, <2>3, <2>4, <2>6, CallKeeps DEF Grows
<1>3. QED
  BY <1>1, <1>2

(* The results of an import.                                                   *)
LEMMA ImportBgraFacts ==
    ASSUME NEW p \in PluginStates, NEW r \in import_bgra(p)
    PROVE  Grows(p, r.p)
<1>. DEFINE gen == p.mirror.rows["texture"].gen
            q == [p EXCEPT !.imported = @ \cup {gen}]
            failed == [p EXCEPT !.failed = TRUE]
<1>1. \/ r \in Refuse("lost", p) \/ r \in Refuse("invalid", p)
      \/ r \in {Result("ok", q), Result("invalid", p), Result("lost", failed)}
  BY DEF import_bgra
<1>2. gen \in Nat /\ p.imported \cup {gen} \in SUBSET Nat
  <2>1. "texture" \in Kinds
    BY DEF Kinds
  <2>2. QED
    BY <2>1, PluginFields
<1>3. q = [p EXCEPT !.imported = p.imported \cup {gen}]
  OBVIOUS
<1>. HIDE DEF gen
<1>4. Grows(p, q)
  BY <1>2, <1>3, ImportedPlugin DEF Grows
<1>5. Grows(p, failed)
  BY FailedPlugin
<1>. HIDE DEF q, failed
<1>6. CASE r \in Refuse("lost", p) \/ r \in Refuse("invalid", p)
  BY <1>6, Refused, SamePlugin
<1>7. CASE r = Result("ok", q) \/ r = Result("invalid", p) \/ r = Result("lost", failed)
  BY <1>4, <1>5, <1>7, SamePlugin DEF Result
<1>8. QED
  BY <1>1, <1>6, <1>7

(* Whatever the import answers, the handle has an owner or is closed.          *)
LEMMA ImportBgraKeeps ==
    ASSUME FacadeInvariant, import_shared_bgra_texture PROVE FacadeInvariant'
<1>. DEFINE Call(p) == {[r EXCEPT !.status = IF @ = "ok" THEN "imported" ELSE @] : r \in import_bgra(p)}
<1>1. PICK s \in sync : /\ table' = s.table /\ known' = s.known
                        /\ \E r \in (IF s.status = "ok" THEN Call(s.p) ELSE {Result(s.status, s.p)}) :
                             /\ plugin' = r.p
                             /\ handle' \in {"plugin", "closed"}
  BY DEF import_shared_bgra_texture, AfterSync, TakesHandle
<1>2. PICK r \in (IF s.status = "ok" THEN Call(s.p) ELSE {Result(s.status, s.p)}) : plugin' = r.p
  BY <1>1
<1>3. Synced(s) /\ s.p \in PluginStates /\ NativeOf(s.p, work) \subseteq s.p.native
  BY <1>1, SyncFacts, SyncedNative DEF Synced
<1>4. Grows(s.p, r.p)
  <2>1. CASE r \in Call(s.p)
    <3>1. PICK x \in import_bgra(s.p) : r = [x EXCEPT !.status = IF @ = "ok" THEN "imported" ELSE @]
      BY <2>1
    <3>2. r.p = x.p
      BY <3>1
    <3>3. QED
      BY <1>3, <3>1, <3>2, ImportBgraFacts
  <2>2. CASE r = Result(s.status, s.p)
    BY <1>3, <2>2, SamePlugin DEF Result
  <2>3. QED
    BY <1>2, <2>1, <2>2
<1>5. NativeOf(r.p, work) \subseteq r.p.native
  BY <1>3, <1>4, NativeGrows DEF Grows
<1>6. /\ Exists /\ UNCHANGED <<work, recording, receipts, strong>>
  BY DEF import_shared_bgra_texture, Session
<1>7. HandlesAreOwned' /\ work' \subseteq Identities
  BY <1>1, <1>6 DEF FacadeInvariant, FacadeTypeOK, HandlesAreOwned
<1>8. QED
  BY <1>1, <1>2, <1>3, <1>4, <1>5, <1>6, <1>7, CallKeeps DEF Grows

(* A refused import closes its handle.                                         *)
LEMMA ImportYcbcrKeeps == ASSUME FacadeInvariant, import_ycbcr_texture PROVE FacadeInvariant'
<1>1. HandlesAreOwned'
  BY DEF import_ycbcr_texture, FacadeInvariant, HandlesAreOwned
<1>2. QED
  BY <1>1, OutsideKeeps, RecordingTyped DEF import_ycbcr_texture

(* What releasing an import leaves.                                            *)
LEMMA ReleaseImportFacts ==
    ASSUME NEW p \in PluginStates, NEW r \in release_import(p)
    PROVE  Kept(p, r.p) /\ (r.status = "ok" => r.p.native = p.native)
           /\ (r.status # "ok" => Grows(p, r.p))
<1>. DEFINE gen == p.mirror.rows["texture"].gen
            q == [p EXCEPT !.imported = @ \ {gen}]
            failed == [p EXCEPT !.failed = TRUE]
<1>1. \/ r \in Refuse("lost", p) \/ r \in Refuse("invalid", p) \/ r \in run_retirement(p, q)
  BY DEF release_import
<1>2. p.imported \ {gen} \in SUBSET Nat /\ q = [p EXCEPT !.imported = p.imported \ {gen}]
  BY PluginFields
<1>3. Kept(p, q) /\ q.native = p.native
  BY <1>2, ImportedPlugin
<1>4. Grows(p, failed)
  BY FailedPlugin
<1>. HIDE DEF q
<1>5. CASE r \in Refuse("lost", p) \/ r \in Refuse("invalid", p)
  BY <1>5, Refused, SamePlugin DEF Grows
<1>6. CASE r \in run_retirement(p, q)
  <2>1. (r.p = q /\ r.status = "ok") \/ (r.p = failed /\ r.status = "lost")
    BY <1>6, Retirement
  <2>. HIDE DEF failed
  <2>2. QED
    BY <1>3, <1>4, <2>1 DEF Grows
<1>7. QED
  BY <1>1, <1>5, <1>6

(* Releasing an import ends the work on the texture.                           *)
LEMMA ReleaseImportedKeeps ==
    ASSUME FacadeInvariant, release_imported_texture PROVE FacadeInvariant'
<1>1. PICK r \in release_import(plugin) : /\ plugin' = r.p /\ WaitsForTexture(r.status)
                                          /\ handle' \in {handle, "closed"}
  BY DEF release_imported_texture
<1>2. /\ plugin \in PluginStates /\ NativeOf(plugin, work) \subseteq plugin.native
      /\ known = 0 => work = {}
  BY DEF FacadeInvariant, FacadeTypeOK, InFlightStaysNative, KnownIsImported
<1>3. Kept(plugin, r.p) /\ (r.status = "ok" => r.p.native = plugin.native)
      /\ (r.status # "ok" => Grows(plugin, r.p))
  BY <1>1, <1>2, ReleaseImportFacts
<1>4. /\ work' \in {{}, work} /\ work' \subseteq Identities
      /\ NativeOf(r.p, work') \subseteq r.p.native
  BY <1>1, <1>2, <1>3, WaitedNative
<1>5. UNCHANGED <<table, known, recording, receipts, strong>>
  BY DEF release_imported_texture
<1>6. HandlesAreOwned'
  BY <1>1, <1>5 DEF FacadeInvariant, HandlesAreOwned
<1>7. QED
  BY <1>1, <1>2, <1>3, <1>4, <1>5, <1>6, LocalKeeps, RecordingTyped

(* A target's pixels are read without a change.                                *)
LEMMA ReadbackKeeps == ASSUME FacadeInvariant, readback_bgra PROVE FacadeInvariant'
<1>1. PICK r \in image(plugin) \cup readback(plugin) : plugin' = r.p
  BY DEF readback_bgra
<1>2. r.p = plugin
  BY <1>1 DEF image, readback, Refuse, Result
<1>3. UNCHANGED dynVars
  BY <1>1, <1>2 DEF readback_bgra, Rest, dynVars
<1>4. QED
  BY <1>3, FacadeUnchanged

-------------------------------------------------------------------------------
(* Creation and destruction.                                                   *)

(* A new mirror has accepted nothing.                                          *)
LEMMA NewMirrorTyped == NewMirror \in MirrorStates /\ AcceptedIsHeld(NewMirror) /\ ~NewMirror.poisoned
<1>1. Vacant \in RowSet
  BY DEF Vacant, RowSet
<1>2. QED
  BY <1>1 DEF NewMirror, MirrorStates, AcceptedIsHeld, Rows

(* An object that is created has imported the whole table.                     *)
LEMMA CreatedKeeps ==
    ASSUME FacadeInvariant, known = 0, table' = abi_snapshot(table),
           NEW q, q.native = {}, q \in PluginStates,
           q.mirror = sync_abi_snapshot(NewMirror, table'.snapshot), ~q.mirror.poisoned,
           plugin' = q, known' = table.revision,
           UNCHANGED <<work, recording, handle, receipts, strong>>
    PROVE  FacadeInvariant'
<1>0. /\ table \in TableStates /\ CachesAreCurrent(table) /\ work = {}
      /\ table.revision \in Nat /\ table.revision # 0
  BY DEF FacadeInvariant, FacadeTypeOK, KnownIsImported, TableStates
<1>1. /\ table' \in TableStates /\ CachesAreCurrent(table')
      /\ table'.rows = table.rows /\ table'.revision = table.revision
      /\ table'.snapshot.revision = table.revision /\ table'.snapshot.rows = table.rows
  BY <1>0, SnapshotTaken
<1>2. table.rows \in Rows
  BY <1>0 DEF TableStates
<1>3. /\ AcceptedIsHeld(q.mirror) /\ q.mirror.revision = table.revision
      /\ q.mirror.rows = table.rows
  BY <1>0, <1>1, <1>2, NewMirrorTyped, SnapshotImported
<1>4. FacadeTypeOK'
  BY <1>0, <1>1 DEF FacadeInvariant, FacadeTypeOK
<1>5. CachesAreCurrent(table)' /\ MirrorOf(plugin.mirror, table)'
  BY <1>0, <1>1, <1>3 DEF MirrorOf
<1>6. KnownIsImported'
  BY <1>0, <1>1, <1>3 DEF KnownIsImported
<1>7. InFlightStaysNative'
  BY <1>0 DEF InFlightStaysNative, NativeOf
<1>8. HandlesAreOwned'
  BY DEF FacadeInvariant, HandlesAreOwned
<1>9. QED
  BY <1>4, <1>5, <1>6, <1>7, <1>8 DEF FacadeInvariant

(* A creation that fails leaves no object.                                     *)
LEMMA NotCreatedKeeps ==
    ASSUME FacadeInvariant, known = 0, table' = abi_snapshot(table), UNCHANGED <<plugin, known>>,
           UNCHANGED <<work, recording, handle, receipts, strong>>
    PROVE  FacadeInvariant'
<1>0. /\ table \in TableStates /\ CachesAreCurrent(table) /\ MirrorOf(plugin.mirror, table)
      /\ table.revision # 0 /\ table.revision \in Nat
  BY DEF FacadeInvariant, FacadeTypeOK, TableStates
<1>1. /\ table' \in TableStates /\ CachesAreCurrent(table')
      /\ table'.rows = table.rows /\ table'.revision = table.revision
  BY <1>0, SnapshotTaken
<1>2. FacadeTypeOK'
  BY <1>1 DEF FacadeInvariant, FacadeTypeOK
<1>3. CachesAreCurrent(table)' /\ MirrorOf(plugin.mirror, table)'
  BY <1>0, <1>1 DEF MirrorOf
<1>4. KnownIsImported'
  BY <1>0, <1>1 DEF KnownIsImported, FacadeInvariant
<1>5. InFlightStaysNative' /\ HandlesAreOwned'
  BY DEF FacadeInvariant, InFlightStaysNative, HandlesAreOwned
<1>6. QED
  BY <1>2, <1>3, <1>4, <1>5 DEF FacadeInvariant

(* A new object around an imported mirror.                                     *)
LEMMA NewObjectTyped ==
    ASSUME NEW m \in MirrorStates, NEW mapped \in SUBSET Nat
    PROVE  LET q == [NewObject(m) EXCEPT !.mapped = mapped]
           IN  /\ q \in PluginStates /\ q.native = {} /\ q.mirror = m
               /\ NewObject(m) \in PluginStates /\ NewObject(m).native = {}
               /\ NewObject(m).mirror = m
<1>1. NewObject(m) \in PluginStates /\ NewObject(m).native = {} /\ NewObject(m).mirror = m
  BY DEF NewObject, PluginStates
<1>2. QED
  BY <1>1, MappedPlugin DEF Kept

(* Low-level resources are created from the table's snapshot.                  *)
LEMMA CreateResourcesKeeps == ASSUME FacadeInvariant, create_ir_resources PROVE FacadeInvariant'
<1>. DEFINE m == sync_abi_snapshot(NewMirror, table'.snapshot)
<1>1. PICK r \in create_resources(table'.snapshot) :
        IF r.status = "ok" THEN plugin' = r.p /\ known' = table.revision
        ELSE UNCHANGED <<plugin, known>>
  BY DEF create_ir_resources, CreateWith
<1>2. /\ known = 0 /\ table' = abi_snapshot(table)
      /\ UNCHANGED <<work, recording, handle, receipts, strong>>
  BY DEF create_ir_resources, Exists
<1>3. r.p = NewObject(m) /\ (r.status = "ok" => ~NewObject(m).mirror.poisoned)
  BY <1>1 DEF create_resources, Refuse, Result
<1>4. m \in MirrorStates
  <2>1. /\ table \in TableStates /\ CachesAreCurrent(table) /\ table.revision \in Nat
        /\ table.rows \in Rows
    BY DEF FacadeInvariant, FacadeTypeOK, TableStates
  <2>2. table'.snapshot.revision = table.revision /\ table'.snapshot.rows = table.rows
    BY <1>2, <2>1, SnapshotTaken
  <2>3. QED
    BY <2>1, <2>2, NewMirrorTyped, SnapshotImported
<1>. HIDE DEF m
<1>5. NewObject(m) \in PluginStates /\ NewObject(m).native = {} /\ NewObject(m).mirror = m
  BY <1>4, NewObjectTyped
<1>6. CASE r.status = "ok"
  <2>1. /\ plugin' = NewObject(m) /\ known' = table.revision
        /\ NewObject(m).mirror = sync_abi_snapshot(NewMirror, table'.snapshot)
    BY <1>1, <1>3, <1>5, <1>6 DEF m
  <2>2. QED
    BY <1>2, <1>3, <1>5, <1>6, <2>1, CreatedKeeps
<1>7. CASE r.status # "ok"
  BY <1>1, <1>2, <1>7, NotCreatedKeeps
<1>8. QED
  BY <1>6, <1>7

(* A session is created from it too, with or without a mapped target.          *)
LEMMA CreateSessionKeeps ==
    ASSUME FacadeInvariant, create_mapped_target_session PROVE FacadeInvariant'
<1>. DEFINE m == sync_abi_snapshot(NewMirror, table'.snapshot)
            p == NewObject(m)
            mapped == {p.mirror.rows["texture"].gen}
            q == [p EXCEPT !.mapped = mapped]
<1>1. PICK target \in BOOLEAN :
        CreateWith(create_session(table'.snapshot, target) \cup Refuse("refused_object", plugin))
  BY DEF create_mapped_target_session
<1>2. PICK r \in create_session(table'.snapshot, target) \cup Refuse("refused_object", plugin) :
        IF r.status = "ok" THEN plugin' = r.p /\ known' = table.revision
        ELSE UNCHANGED <<plugin, known>>
  BY <1>1 DEF CreateWith
<1>3. /\ known = 0 /\ table' = abi_snapshot(table)
      /\ UNCHANGED <<work, recording, handle, receipts, strong>>
  BY DEF create_mapped_target_session, Exists
<1>4. m \in MirrorStates
  <2>1. /\ table \in TableStates /\ CachesAreCurrent(table) /\ table.revision \in Nat
        /\ table.rows \in Rows
    BY DEF FacadeInvariant, FacadeTypeOK, TableStates
  <2>2. table'.snapshot.revision = table.revision /\ table'.snapshot.rows = table.rows
    BY <1>3, <2>1, SnapshotTaken
  <2>3. QED
    BY <2>1, <2>2, NewMirrorTyped, SnapshotImported
<1>5. ASSUME r.status = "ok" PROVE r.p \in {p, q} /\ ~p.mirror.poisoned
  <2>1. r \in create_session(table'.snapshot, target)
    BY <1>2, <1>5, Refused
  <2>2. CASE \/ p.mirror.poisoned
             \/ ~p.mirror.poisoned /\ target /\ ~Active(p.mirror.rows["texture"])
    <3>1. r \in Refuse("invalid", p)
      BY <2>1, <2>2 DEF create_session
    <3>2. QED
      BY <1>5, <3>1, Refused
  <2>3. CASE ~p.mirror.poisoned /\ ~(target /\ ~Active(p.mirror.rows["texture"]))
    <3>1. r \in {Result("ok", IF target THEN q ELSE p), Result("invalid", p)}
      BY <2>1, <2>3 DEF create_session
    <3>. HIDE DEF p, q
    <3>2. r = Result("ok", IF target THEN q ELSE p)
      BY <1>5, <3>1 DEF Result
    <3>3. r.p = IF target THEN q ELSE p
      BY <3>2 DEF Result
    <3>4. QED
      BY <2>3, <3>3
  <2>4. QED
    BY <2>2, <2>3
<1>. HIDE DEF m
<1>6. mapped \in SUBSET Nat
  <2>1. p.mirror = m
    BY DEF NewObject
  <2>2. m.rows["texture"] \in RowSet
    BY <1>4 DEF MirrorStates, Rows, Kinds
  <2>3. QED
    BY <2>1, <2>2 DEF RowSet
<1>. HIDE DEF mapped
<1>7. /\ p \in PluginStates /\ p.native = {} /\ p.mirror = m
      /\ q \in PluginStates /\ q.native = {} /\ q.mirror = m
  BY <1>4, <1>6, NewObjectTyped
<1>. HIDE DEF p, q
<1>8. CASE r.status = "ok"
  <2>1. /\ plugin' = r.p /\ known' = table.revision
    BY <1>2, <1>8
  <2>2. /\ r.p \in PluginStates /\ r.p.native = {} /\ ~r.p.mirror.poisoned
        /\ r.p.mirror = sync_abi_snapshot(NewMirror, table'.snapshot)
    BY <1>5, <1>7, <1>8 DEF m
  <2>3. QED
    BY <1>3, <2>1, <2>2, CreatedKeeps
<1>9. CASE r.status # "ok"
  BY <1>2, <1>3, <1>9, NotCreatedKeeps
<1>10. QED
  BY <1>8, <1>9

(* The object is dropped when nothing is in flight.                            *)
LEMMA DropOwnerKeeps == ASSUME FacadeInvariant, DropOwner PROVE FacadeInvariant'
<1>. DEFINE q == [plugin EXCEPT !.native = {}, !.mapped = {}, !.imported = {}]
<1>1. plugin' = q
  BY DEF DropOwner, drop_session, drop_resources
<1>2. plugin \in PluginStates
  BY DEF FacadeInvariant, FacadeTypeOK
<1>3. q \in PluginStates /\ q.mirror = plugin.mirror
  BY <1>2, PluginFields DEF PluginStates
<1>. HIDE DEF q
<1>4. /\ known' = 0 /\ work = {} /\ UNCHANGED <<table, work, recording, receipts, strong>>
      /\ handle' \in {handle, "closed"}
  BY DEF DropOwner, Idle
<1>5. table.revision \in Nat /\ table.revision # 0
  BY DEF FacadeInvariant, FacadeTypeOK, TableStates
<1>6. FacadeTypeOK'
  BY <1>1, <1>3, <1>4 DEF FacadeInvariant, FacadeTypeOK
<1>7. CachesAreCurrent(table)' /\ MirrorOf(plugin.mirror, table)'
  BY <1>1, <1>3, <1>4 DEF FacadeInvariant
<1>8. KnownIsImported'
  BY <1>4, <1>5 DEF KnownIsImported
<1>9. InFlightStaysNative'
  BY <1>4 DEF InFlightStaysNative, NativeOf
<1>10. HandlesAreOwned'
  BY <1>4 DEF FacadeInvariant, HandlesAreOwned
<1>11. QED
  BY <1>6, <1>7, <1>8, <1>9, <1>10 DEF FacadeInvariant

-------------------------------------------------------------------------------
(* The application's table and receipts.                                       *)

(* A descriptor names identities.                                              *)
LEMMA DescriptorsTyped ==
    ASSUME FacadeInvariant, NEW k \in Kinds, NEW d \in Descriptors(k)
    PROVE  d \in SUBSET Identities
<1>1. \A j \in Kinds : Row(j).gen \in Nat
  BY DEF FacadeInvariant, FacadeTypeOK, TableStates, Rows, RowSet, Row
<1>2. \A j \in {"texture", "view", "buffer", "shader"}, g \in Nat : [kind |-> j, gen |-> g] \in Identities
  BY DEF Identities, Kinds
<1>3. Row("texture").gen \in Nat /\ Row("buffer").gen \in Nat /\ Row("shader").gen \in Nat
  BY <1>1 DEF Kinds
<1>4. CASE k = "group"
  BY <1>2, <1>3, <1>4 DEF Descriptors
<1>5. CASE k \in {"compute", "render"}
  BY <1>2, <1>3, <1>5 DEF Descriptors, IdOf
<1>6. CASE k \notin {"group", "compute", "render"}
  BY <1>6 DEF Descriptors
<1>7. QED
  BY <1>4, <1>5, <1>6

(* An encoded row stays sound when a row changes: a vacant row is filled in    *)
(* its generation, or the row of the next generation is vacant.                *)
LEMMA EncodedStays ==
    ASSUME NEW rows \in Rows, NEW k \in Kinds, NEW row \in RowSet, NEW j \in Programs,
           NEW cached \in [gen : Nat, active : BOOLEAN, row : RowSet] \cup {None},
           EncodedSound(rows, cached, j),
           \/ ~Active(rows[k]) /\ row = [gen |-> rows[k].gen, desc |-> row.desc]
           \/ row = [gen |-> rows[k].gen + 1, desc |-> None]
    PROVE  EncodedSound([rows EXCEPT ![k] = row], cached, j)
<1>. DEFINE new == [rows EXCEPT ![k] = row]
<1>1. j \in Kinds /\ rows[j] \in RowSet /\ rows[j].gen \in Nat
  BY DEF Programs, Kinds, Rows, RowSet
<1>2. new[j] = IF j = k THEN row ELSE rows[j]
  BY <1>1 DEF Rows
<1>. HIDE DEF new
<1>3. CASE j # k \/ cached = None
  BY <1>2, <1>3 DEF EncodedSound, new
<1>4. CASE j = k /\ cached # None
  <2>1. new[j] = row
    BY <1>2, <1>4
  <2>2. /\ cached.gen \in Nat /\ cached.active = Active(cached.row) /\ cached.gen <= rows[j].gen
        /\ cached.gen = rows[j].gen /\ cached.active => cached.row = rows[j]
        /\ cached.gen = rows[j].gen /\ ~Active(rows[j]) => cached.row = rows[j]
    BY <1>4 DEF EncodedSound
  <2>3. CASE row = [gen |-> rows[k].gen + 1, desc |-> None]
    BY <1>1, <1>4, <2>1, <2>2, <2>3 DEF EncodedSound, new
  <2>4. CASE ~Active(rows[k]) /\ row = [gen |-> rows[k].gen, desc |-> row.desc]
    <3>1. row.gen = rows[j].gen
      BY <1>4, <2>4
    <3>2. cached.gen = rows[j].gen => cached.row = rows[j] /\ ~cached.active
      BY <1>4, <2>2, <2>4
    <3>3. ~Active(row) => row = rows[j]
      <4>1. rows[j] = [gen |-> rows[j].gen, desc |-> rows[j].desc]
        BY <1>1 DEF RowSet
      <4>2. QED
        BY <1>4, <2>4, <4>1 DEF Active
    <3>4. QED
      BY <2>1, <2>2, <3>1, <3>2, <3>3 DEF EncodedSound, new
  <2>5. QED
    BY <2>3, <2>4
<1>5. QED
  BY <1>3, <1>4

(* A change of the table starts a revision nobody has imported.                *)
LEMMA TableKeeps ==
    ASSUME FacadeInvariant, NEW k \in Kinds, NEW row \in RowSet,
           \/ ~Active(table.rows[k]) /\ row = [gen |-> table.rows[k].gen, desc |-> row.desc]
           \/ row = [gen |-> table.rows[k].gen + 1, desc |-> None],
           table' = abi_changed([table.rows EXCEPT ![k] = row]),
           UNCHANGED <<known, plugin, work, recording, handle, receipts, strong>>
    PROVE  FacadeInvariant'
<1>. DEFINE t == table
            rows == [t.rows EXCEPT ![k] = row]
<1>0. /\ t.rows \in Rows /\ t.revision \in Nat /\ t.snapshot \in [revision : Nat, rows : Rows]
      /\ t.encoded \in [Programs -> [gen : Nat, active : BOOLEAN, row : RowSet] \cup {None}]
      /\ t = [rows |-> t.rows, revision |-> t.revision, snapshot |-> t.snapshot,
              encoded |-> t.encoded]
      /\ CachesAreCurrent(t) /\ known \in Nat
      /\ plugin.mirror.revision \in Nat
  BY PluginFields DEF FacadeInvariant, FacadeTypeOK, TableStates, MirrorStates
<1>1. rows \in Rows
  BY <1>0 DEF Rows
<1>2. \A j \in Programs : EncodedSound(rows, t.encoded[j], j)
  BY <1>0, EncodedStays DEF CachesAreCurrent
<1>. HIDE DEF rows
<1>3. table' = [rows |-> rows, revision |-> t.revision + 1, snapshot |-> t.snapshot,
                encoded |-> t.encoded]
  BY <1>0 DEF abi_changed, rows
<1>4. table' \in TableStates
  BY <1>0, <1>1, <1>3 DEF TableStates
<1>5. FacadeTypeOK'
  BY <1>4 DEF FacadeInvariant, FacadeTypeOK
<1>6. CachesAreCurrent(table)'
  <2>1. t.snapshot.revision \in Nat /\ t.snapshot.revision <= t.revision
    BY <1>0 DEF CachesAreCurrent
  <2>2. CachesAreCurrent(table')
    BY <1>0, <1>2, <1>3, <2>1 DEF CachesAreCurrent
  <2>3. QED
    BY <2>2
<1>7. MirrorOf(plugin.mirror, table)'
  <2>1. plugin.mirror.revision <= t.revision /\ AcceptedIsHeld(plugin.mirror)
    BY DEF FacadeInvariant, MirrorOf
  <2>2. MirrorOf(plugin.mirror, table')
    BY <1>0, <1>3, <2>1 DEF MirrorOf
  <2>3. QED
    BY <2>2
<1>8. KnownIsImported'
  BY <1>0, <1>3 DEF FacadeInvariant, KnownIsImported
<1>9. InFlightStaysNative' /\ HandlesAreOwned'
  BY DEF FacadeInvariant, InFlightStaysNative, HandlesAreOwned
<1>10. QED
  BY <1>5, <1>6, <1>7, <1>8, <1>9 DEF FacadeInvariant

(* A definition fills a vacant slot in its generation.                         *)
LEMMA DefineKeeps == ASSUME FacadeInvariant, NEW k \in Kinds, Define(k) PROVE FacadeInvariant'
<1>1. PICK d \in Descriptors(k) : table' = abi_changed([table.rows EXCEPT ![k].desc = d])
  BY DEF Define
<1>2. d \in SUBSET Identities
  BY DescriptorsTyped
<1>. DEFINE row == [gen |-> table.rows[k].gen, desc |-> d]
<1>3. table.rows \in Rows /\ table.rows[k] \in RowSet
  BY DEF FacadeInvariant, FacadeTypeOK, TableStates, Rows
<1>4. row \in RowSet
  BY <1>2, <1>3 DEF RowSet
<1>5. [table.rows[k] EXCEPT !.desc = d] = row
  BY <1>3 DEF RowSet
<1>6. [table.rows EXCEPT ![k].desc = d] = [table.rows EXCEPT ![k] = row]
  BY <1>3, <1>5 DEF Rows
<1>7. table' = abi_changed([table.rows EXCEPT ![k] = row])
  BY <1>1, <1>6
<1>8. ~Active(table.rows[k]) /\ row = [gen |-> table.rows[k].gen, desc |-> row.desc]
  BY DEF Define, Live, Row
<1>9. UNCHANGED <<known, plugin, work, recording, handle, receipts, strong>>
  BY DEF Define
<1>. HIDE DEF row
<1>10. QED
  BY <1>4, <1>7, <1>8, <1>9, TableKeeps

(* A retirement starts the slot's next generation.                             *)
LEMMA RetireKeeps == ASSUME FacadeInvariant, NEW k \in Kinds, Retire(k) PROVE FacadeInvariant'
<1>. DEFINE row == [gen |-> table.rows[k].gen + 1, desc |-> None]
<1>1. table.rows \in Rows /\ table.rows[k] \in RowSet
  BY DEF FacadeInvariant, FacadeTypeOK, TableStates, Rows
<1>2. row \in RowSet
  BY <1>1 DEF RowSet
<1>3. table' = abi_changed([table.rows EXCEPT ![k] = row])
  BY DEF Retire
<1>4. UNCHANGED <<known, plugin, work, recording, handle, receipts, strong>>
  BY DEF Retire
<1>5. row = [gen |-> table.rows[k].gen + 1, desc |-> None]
  OBVIOUS
<1>. HIDE DEF row
<1>6. QED
  BY <1>2, <1>3, <1>4, <1>5, TableKeeps

(* A recording names an identity of the table.                                 *)
LEMMA RecordKeeps == ASSUME FacadeInvariant, NEW k \in Kinds, Record(k) PROVE FacadeInvariant'
<1>1. IdOf(k) \in Identities
  BY DEF FacadeInvariant, FacadeTypeOK, TableStates, Rows, RowSet, Identities, IdOf, Row
<1>2. recording'.uses \subseteq Identities
  BY <1>1 DEF Record
<1>3. UNCHANGED <<table, known, plugin>> /\ work' \in {{}, work} /\ HandlesAreOwned'
  BY DEF Record, FacadeInvariant, HandlesAreOwned
<1>4. QED
  BY <1>2, <1>3, OutsideKeeps

(* Recordings are dropped, work completes, receipts are cloned and dropped.    *)
LEMMA ReceiptsKeep ==
    ASSUME FacadeInvariant, Forget \/ Complete \/ CloneReceipt \/ DropReceipt
    PROVE  FacadeInvariant'
<1>1. UNCHANGED <<table, known, plugin>> /\ work' \in {{}, work}
  BY DEF Forget, Complete, CloneReceipt, DropReceipt
<1>2. recording' = None \/ recording'.uses \subseteq Identities
  BY DEF FacadeInvariant, FacadeTypeOK, Forget, Complete, CloneReceipt, DropReceipt
<1>3. HandlesAreOwned'
  BY DEF FacadeInvariant, HandlesAreOwned, Forget, Complete, CloneReceipt, DropReceipt
<1>4. QED
  BY <1>1, <1>2, <1>3, OutsideKeeps

-------------------------------------------------------------------------------
(* The facade.                                                                 *)

(* What the application does by itself.                                        *)
LEMMA ApplicationKeeps == ASSUME FacadeInvariant, Application PROVE FacadeInvariant'
<1>1. CASE \E k \in Kinds : Define(k) \/ Retire(k) \/ Record(k)
  BY <1>1, DefineKeeps, RetireKeeps, RecordKeeps
<1>2. CASE Forget \/ Complete \/ CloneReceipt \/ DropReceipt
  BY <1>2, ReceiptsKeep
<1>3. CASE DropOwner
  BY <1>3, DropOwnerKeeps
<1>4. QED
  BY <1>1, <1>2, <1>3 DEF Application

(* The calls of a session.                                                     *)
LEMMA SessionCallsKeep == ASSUME FacadeInvariant, SessionCalls PROVE FacadeInvariant'
BY CreateSessionKeeps, SessionSubmitKeeps, SessionExecuteKeeps, ImportBgraKeeps,
   ImportYcbcrKeeps, ReleaseImportedKeeps, ReadbackKeeps DEF SessionCalls

(* A receipt that is waited for changes nothing.                               *)
LEMMA WaitKeeps == ASSUME FacadeInvariant, NEW b, WaitReceipt(b) PROVE FacadeInvariant'
BY FacadeUnchanged DEF WaitReceipt

(* The releases that reach the driver of either backend.                       *)
LEMMA FacadeReleasesKeep ==
    ASSUME FacadeInvariant,
           \/ CreateResources \/ ReleaseTexture \/ ReleaseBuffer \/ ReleaseBindGroup
           \/ ReleaseShaderModule \/ ReleaseComputePipeline \/ ReleaseProgrammableRenderPipeline
    PROVE  FacadeInvariant'
BY FacadeUnchanged, CreateResourcesKeeps, ReleaseTextureKeeps, ReleaseBufferKeeps,
   ReleaseBindGroupKeeps, ReleaseShaderKeeps, ReleaseComputeKeeps, ReleaseRenderKeeps
   DEF Dispatch, Elsewhere, CreateResources, ReleaseTexture, ReleaseBuffer, ReleaseBindGroup,
       ReleaseShaderModule, ReleaseComputePipeline, ReleaseProgrammableRenderPipeline

(* Mapping, submission and readback, with objects of one device or of two.     *)
LEMMA FacadeImagesKeep ==
    ASSUME FacadeInvariant, NEW same \in BOOLEAN, NEW mip \in 0..1,
           MapPresentationImage(same) \/ Submit(same) \/ ReadTextureMip(same, mip)
    PROVE  FacadeInvariant'
BY FacadeUnchanged, MapImageKeeps, SubmitIrKeeps, ReadTextureKeeps
   DEF Dispatch, Elsewhere, SameDevice, MapPresentationImage, Submit, ReadTextureMip

(* The other calls.                                                            *)
LEMMA FacadeOthersKeep ==
    ASSUME FacadeInvariant,
           \/ UnmapPresentationImage \/ ValidateShaderModule
           \/ ValidateProgrammableRenderPipeline \/ ValidateComputePipeline
           \/ ReadBuffer \/ Poll \/ Wait
    PROVE  FacadeInvariant'
BY FacadeUnchanged, UnmapImageKeeps, ValidateShaderKeeps, ValidateRenderKeeps,
   ValidateComputeKeeps, ReadBufferKeeps, WaitKeeps
   DEF Dispatch, Elsewhere, UnmapPresentationImage, ValidateShaderModule,
       ValidateProgrammableRenderPipeline, ValidateComputePipeline, ReadBuffer, Poll, Wait

(* Every step of the facade keeps the invariant.                               *)
LEMMA FacadeStep == ASSUME FacadeInvariant, [FacadeNext]_facadeVars PROVE FacadeInvariant'
<1>1. CASE FacadeCalls
  <2>1. CASE \E same \in BOOLEAN : MapPresentationImage(same) \/ Submit(same)
    <3>1. 0 \in 0..1
      OBVIOUS
    <3>2. QED
      BY <2>1, <3>1, FacadeImagesKeep
  <2>2. CASE \E same \in BOOLEAN, mip \in 0..1 : ReadTextureMip(same, mip)
    BY <2>2, FacadeImagesKeep
  <2>3. CASE \/ CreateResources \/ ReleaseTexture \/ ReleaseBuffer \/ ReleaseBindGroup
             \/ ReleaseShaderModule \/ ReleaseComputePipeline
             \/ ReleaseProgrammableRenderPipeline
    BY <2>3, FacadeReleasesKeep
  <2>4. CASE \/ UnmapPresentationImage \/ ValidateShaderModule
             \/ ValidateProgrammableRenderPipeline \/ ValidateComputePipeline
             \/ ReadBuffer \/ Poll \/ Wait
    BY <2>4, FacadeOthersKeep
  <2>5. QED
    BY <1>1, <2>1, <2>2, <2>3, <2>4 DEF FacadeCalls
<1>2. CASE Application \/ SessionCalls
  BY <1>2, ApplicationKeeps, SessionCallsKeep
<1>3. CASE UNCHANGED facadeVars
  BY <1>3, FacadeUnchanged DEF facadeVars
<1>4. QED
  BY <1>1, <1>2, <1>3 DEF FacadeNext

(* A new table and an object that does not exist yet.                          *)
LEMMA FacadeStart == ASSUME FacadeInit PROVE FacadeInvariant
<1>1. /\ table = NewTable /\ known = 0 /\ plugin = NewObject(NewMirror) /\ work = {}
      /\ recording = None /\ handle = "app" /\ receipts = 0 /\ strong = 0
  BY DEF FacadeInit, DynInit
<1>2. Vacant \in RowSet
  BY DEF Vacant, RowSet
<1>3. /\ NewTable \in TableStates /\ NewTable.revision = 1 /\ NewTable.snapshot.revision = 0
      /\ \A k \in Programs : NewTable.encoded[k] = None
  BY <1>2 DEF NewTable, TableStates, Rows
<1>4. NewObject(NewMirror) \in PluginStates /\ NewObject(NewMirror).mirror = NewMirror
  BY NewMirrorTyped, NewObjectTyped
<1>5. NewMirror.revision = 0
  BY DEF NewMirror
<1>6. FacadeTypeOK
  BY <1>1, <1>3, <1>4 DEF FacadeTypeOK
<1>7. CachesAreCurrent(table)
  BY <1>1, <1>3 DEF CachesAreCurrent, EncodedSound
<1>8. MirrorOf(plugin.mirror, table)
  BY <1>1, <1>3, <1>4, <1>5, NewMirrorTyped DEF MirrorOf
<1>9. KnownIsImported
  BY <1>1, <1>3 DEF KnownIsImported
<1>10. InFlightStaysNative /\ HandlesAreOwned
  BY <1>1 DEF InFlightStaysNative, NativeOf, HandlesAreOwned
<1>11. QED
  BY <1>6, <1>7, <1>8, <1>9, <1>10 DEF FacadeInvariant

(* For every bound on revisions and receipts: the caches of the table hold its *)
(* rows, the plugin's mirror never runs ahead of it, the facade remembers no   *)
(* revision its plugin has not imported, nothing work in flight needs is       *)
(* released under it, and every handle and receipt has one owner.              *)
THEOREM FacadeCorrect == FacadeSpec => []FacadeInvariant
<1>1. FacadeInit => FacadeInvariant
  BY FacadeStart
<1>2. FacadeInvariant /\ [FacadeNext]_facadeVars => FacadeInvariant'
  BY FacadeStep
<1>3. QED
  BY <1>1, <1>2, PTL DEF FacadeSpec

(* A mirror the facade takes for current holds exactly the rows of the         *)
(* application's table, over any history of definitions, retirements, refusals *)
(* and retries.                                                                *)
THEOREM MirrorIsTheTable == FacadeSpec => []MirrorFollowsTable
<1>1. FacadeInvariant => MirrorFollowsTable
  <2>1. SUFFICES ASSUME FacadeInvariant, known = table.revision, ~plugin.mirror.poisoned
                 PROVE  plugin.mirror.rows = table.rows
    BY DEF MirrorFollowsTable
  <2>2. plugin.mirror.revision = table.revision
    BY <2>1 DEF FacadeInvariant, KnownIsImported
  <2>3. QED
    BY <2>1, <2>2 DEF FacadeInvariant, MirrorOf
<1>2. QED
  BY <1>1, FacadeCorrect, PTL

=============================================================================
