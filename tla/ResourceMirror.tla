---------------------------- MODULE ResourceMirror ----------------------------
(* How a resource table crosses the driver ABI: the rows a table encodes, the  *)
(* snapshot it caches, the scan for retired rows and the import into the       *)
(* mirror table a plugin keeps (sgfx-core/src/ir/abi/resources.rs).  Each kind *)
(* of resource has one slot; a slot is a generation and a descriptor, and a    *)
(* descriptor is the set of identities it names.  A texture view is named with *)
(* the kind "view"; its generation is that of the texture.                     *)
EXTENDS Naturals, Sequences, FiniteSets, Absent

Textures == {"texture"}
Programs == {"shader", "compute", "render"}
Kinds == {"texture", "buffer", "shader", "group", "compute", "render"}

Vacant == [gen |-> 0, desc |-> None]

(* A table: the rows, its revision, the cached snapshot and the encoded        *)
(* program rows.  A new table has revision 1 and a snapshot of revision 0.     *)
NewTable ==
    [rows     |-> [k \in Kinds |-> Vacant],
     revision |-> 1,
     snapshot |-> [revision |-> 0, rows |-> [k \in Kinds |-> Vacant]],
     encoded  |-> [k \in Programs |-> None]]

(* A mirror: the rows imported, the encoded rows accepted so far, the table's  *)
(* revision they came from and whether an import failed half-way.              *)
NewMirror ==
    [rows     |-> [k \in Kinds |-> Vacant],
     accepted |-> [k \in Kinds |-> None],
     revision |-> 0,
     poisoned |-> FALSE]

Active(row) == row.desc # None

(* The slot an identity is kept in, and whether a set of rows resolves it.     *)
SlotOf(id) == IF id.kind = "view" THEN "texture" ELSE id.kind

Resolves(rows, id) ==
    /\ Active(rows[SlotOf(id)])
    /\ rows[SlotOf(id)].gen = id.gen

-------------------------------------------------------------------------------
(* The producer's side.                                                        *)

(* Mutant: a cached program row is kept although the slot was reactivated.     *)
MutantStaleRow(cached, row) == cached = None \/ cached.gen # row.gen

(* A cached encoding stands only for the same generation in the same state.    *)
StaleRow(cached, row) ==
    \/ cached = None
    \/ cached # None /\ (cached.gen # row.gen \/ cached.active # Active(row))

EncodeProgram(cached, row) ==
    IF StaleRow(cached, row)
    THEN [gen |-> row.gen, active |-> Active(row), row |-> row]
    ELSE cached

(* Encoding a table brings its snapshot to the current revision; program rows  *)
(* come from their cache, the other rows are encoded again.                    *)
abi_snapshot(t) ==
    IF t.snapshot.revision = t.revision
    THEN t
    ELSE LET encoded == [k \in Programs |-> EncodeProgram(t.encoded[k], t.rows[k])]
         IN  [t EXCEPT !.encoded = encoded,
                       !.snapshot = [revision |-> t.revision,
                                     rows |-> [k \in Kinds |->
                                                 IF k \in Programs
                                                 THEN encoded[k].row
                                                 ELSE t.rows[k]]]]

-------------------------------------------------------------------------------
(* The consumer's side.                                                        *)

(* Snapshots never step back: a row of an older generation is refused.         *)
ScanFails(m, s) == \E k \in Kinds : s.rows[k].gen < m.rows[k].gen

scan_retired(m, s, k) == Active(m.rows[k]) /\ s.rows[k].gen # m.rows[k].gen

abi_retired_resources(m, s) == {k \in {"texture", "buffer"} : scan_retired(m, s, k)}

abi_retired_programs(m, s) == {k \in Programs : scan_retired(m, s, k)}

(* A row decodes when every identity it must resolve resolves in the rows      *)
(* imported so far: a pipeline its shader, a group the texture of a view.  A   *)
(* group's buffers and whole textures are only identities.                     *)
Decodes(rows, k, row) ==
    Active(row) =>
        \A id \in row.desc :
            (k \in {"compute", "render"} \/ id.kind = "view") => Resolves(rows, id)

(* What the mirror does with one row: keep what it has, refuse the snapshot,   *)
(* or decode the row and replace its slot.                                     *)
RowVerdict(m, k, row) ==
    LET old == m.rows[k]
        cached == m.accepted[k]
    IN  CASE row.gen < old.gen -> "refuse"
          [] row.gen = old.gen /\ cached # None /\ cached.gen = row.gen
                /\ cached = row -> "keep"
          [] row.gen = old.gen /\ cached # None /\ cached.gen = row.gen
                /\ cached # row /\ Active(old) -> "refuse"
          [] row.gen = old.gen /\ (cached = None \/ cached.gen # row.gen)
                /\ Active(old) -> IF old = row THEN "accept" ELSE "refuse"
          [] OTHER -> IF Decodes(m.rows, k, row) THEN "replace" ELSE "refuse"

(* A row that is accepted is cached as it was encoded; nothing is imported     *)
(* after a refusal.                                                            *)
ApplyRow(m, k, row, v) ==
    [m EXCEPT !.accepted = IF v \in {"accept", "replace"} THEN [@ EXCEPT ![k] = row] ELSE @,
              !.rows = IF v = "replace" THEN [@ EXCEPT ![k] = row] ELSE @]

sync_slots(st, k, row) ==
    LET v == IF st.ok THEN RowVerdict(st.m, k, row) ELSE "refuse"
    IN  [ok |-> v # "refuse", m |-> ApplyRow(st.m, k, row, v)]

(* A pipeline row that was kept may not outlive the shader it names.           *)
PipelinesHaveShaders(m) ==
    \A k \in {"compute", "render"} :
        Active(m.rows[k]) => \A id \in m.rows[k].desc : Resolves(m.rows, id)

ImportOrder == <<"texture", "buffer", "shader", "group", "compute", "render">>

(* The categories of a snapshot are imported in order, each into what those    *)
(* before it left.                                                             *)
ImportRows(m, s) ==
    LET after[n \in 0..6] ==
            IF n = 0
            THEN [ok |-> TRUE, m |-> m]
            ELSE sync_slots(after[n - 1], ImportOrder[n], s.rows[ImportOrder[n]])
    IN  after[6]

(* Import a snapshot.  A failure leaves the prefix applied and the mirror      *)
(* poisoned: its owner must discard it.                                        *)
sync_abi_snapshot(m, s) ==
    LET st == ImportRows(m, s)
    IN  IF st.ok /\ PipelinesHaveShaders(st.m)
        THEN [st.m EXCEPT !.revision = s.revision]
        ELSE [st.m EXCEPT !.poisoned = TRUE]

=============================================================================
