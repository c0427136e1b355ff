---------------------------- MODULE DynamicDriver -----------------------------
(* The facade's side of the driver ABI (sgfx/src/dynamic.rs and                *)
(* dynamic/driver.rs) over one plugin object: low-level resources with a       *)
(* queue, or a session of mapped targets.  The application owns the resource   *)
(* table; every call turns an identity of that table into a slot, brings the   *)
(* plugin's mirror up to date and hands over the slot.                         *)
EXTENDS DriverPlugin

CONSTANTS MaxRevision,   \* bound on the revisions of the table
          MaxReceipts    \* bound on the receipts of one submission

VARIABLES
    table,      \* the application's resource table
    known,      \* the revision the facade last synchronized, 0 without an object
    flavour,    \* what the object is: "resources" or "session"
    plugin,     \* the plugin object
    work,       \* identities used by accepted work that has not completed
    recording,   \* the recording the application holds, or None
    abiEnabled,    \* whether new recordings are written in the ABI
    handle,     \* who owns the handle to import
    receipts,   \* receipts the application owns
    strong      \* references the plugin counts for the submission

dynVars == <<table, known, flavour, plugin, work, recording, abiEnabled, handle,
             receipts, strong>>

DynInit(f) ==
    /\ table = NewTable
    /\ known = 0
    /\ flavour = f
    /\ plugin = NewObject(NewMirror)
    /\ work = {}
    /\ recording = None
    /\ abiEnabled = FALSE
    /\ handle = "app"
    /\ receipts = 0
    /\ strong = 0

(* What the table's users keep.                                                *)
Row(k) == table.rows[k]
Live(k) == Active(Row(k))
IdOf(k) == [kind |-> k, gen |-> Row(k).gen]
Exists == known # 0
Idle == work = {}

-------------------------------------------------------------------------------
(* The application's table.  A vacant slot is reused in its generation; a      *)
(* release starts the next one.  A shader outlives its pipelines.              *)

abi_changed(rows) == [table EXCEPT !.rows = rows, !.revision = @ + 1]

Descriptors(k) ==
    CASE k = "group" -> {{[kind |-> "texture", gen |-> Row("texture").gen]},
                         {[kind |-> "view", gen |-> Row("texture").gen]},
                         {[kind |-> "buffer", gen |-> Row("buffer").gen]}}
      [] k \in {"compute", "render"} -> {{IdOf("shader")}}
      [] OTHER -> {{}}

Define(k) ==
    /\ table.revision < MaxRevision
    /\ ~Live(k)
    /\ \E d \in Descriptors(k) :
          /\ \A id \in d : Live(SlotOf(id))
          /\ table' = abi_changed([table.rows EXCEPT ![k].desc = d])
    /\ UNCHANGED <<known, flavour, plugin, work, recording, abiEnabled, handle, receipts,
                   strong>>

(* A texture is unmapped before its identity is retired (an obligation of the  *)
(* callers of release_texture).                                                *)
Unmapped == Row("texture").gen \notin plugin.mapped \cup plugin.imported

Retire(k) ==
    /\ table.revision < MaxRevision
    /\ Live(k)
    /\ k = "shader" => ~(Live("compute") \/ Live("render"))
    /\ k = "texture" => Unmapped
    /\ table' = abi_changed([table.rows EXCEPT ![k] = [gen |-> @.gen + 1, desc |-> None]])
    /\ UNCHANGED <<known, flavour, plugin, work, recording, abiEnabled, handle, receipts,
                   strong>>

(* A recording names identities that are live while it is made.                *)
Record(k) ==
    /\ recording = None
    /\ Live(k)
    /\ k # "shader"
    /\ recording' = [abi |-> abiEnabled, uses |-> {IdOf(k)}]
    /\ UNCHANGED <<table, known, flavour, plugin, work, abiEnabled, handle, receipts,
                   strong>>

Forget ==
    /\ recording # None
    /\ recording' = None
    /\ UNCHANGED <<table, known, flavour, plugin, work, abiEnabled, handle, receipts,
                   strong>>

(* External: the GPU finishes the accepted work.                               *)
Complete ==
    /\ work # {}
    /\ work' = {}
    /\ UNCHANGED <<table, known, flavour, plugin, recording, abiEnabled, handle, receipts,
                   strong>>

-------------------------------------------------------------------------------
(* Synchronization.                                                            *)

Remembered(status, revision) == IF status = "ok" THEN revision ELSE known

(* The mirror is brought up to date only when the table has changed.           *)
sync ==
    IF table.revision = known
    THEN {[status |-> "ok", p |-> plugin, table |-> table, known |-> known]}
    ELSE LET t == abi_snapshot(table)
         IN  {[status |-> r.status, p |-> r.p, table |-> t,
               known |-> Remembered(r.status, t.revision)]
              : r \in sync_resources(plugin, t.snapshot, Idle)}

(* One call: synchronize, make the call on the mirror that is left, and go on  *)
(* with its status.                                                            *)
AfterSync(Call(_), Then(_)) ==
    \E s \in sync :
        /\ table' = s.table
        /\ known' = s.known
        /\ \E r \in (IF s.status = "ok" THEN Call(s.p) ELSE {Result(s.status, s.p)}) :
              /\ plugin' = r.p
              /\ Then(r.status)

(* A call that changes nothing but the plugin and what is known of it.         *)
Rest(status) == UNCHANGED <<flavour, work, recording, abiEnabled, handle, receipts, strong>>

-------------------------------------------------------------------------------
(* Creation and destruction.                                                   *)

CreateWith(results) ==
    \E r \in results :
        IF r.status = "ok"
        THEN /\ plugin' = r.p
             /\ known' = table.revision
             /\ abiEnabled' = TRUE
        ELSE UNCHANGED <<plugin, known, abiEnabled>>

create_ir_resources ==
    /\ ~Exists
    /\ flavour = "resources"
    /\ table' = abi_snapshot(table)
    /\ CreateWith(create_resources(table'.snapshot))
    /\ UNCHANGED <<flavour, work, recording, handle, receipts, strong>>

(* The session's targets are its textures at that moment, if it has any.  The  *)
(* handles of its images are taken one by one; a failure drops the session.    *)
create_mapped_target_session ==
    /\ ~Exists
    /\ flavour = "session"
    /\ \E target \in BOOLEAN :
          /\ target => Live("texture")
          /\ table' = abi_snapshot(table)
          /\ CreateWith(create_session(table'.snapshot, target)
                            \cup Refuse("refused_object", plugin))
    /\ UNCHANGED <<flavour, work, recording, handle, receipts, strong>>

(* Dropping the owner drops the plugin's object, which waits for its work.     *)
DropOwner ==
    /\ Exists
    /\ Idle
    /\ known' = 0
    /\ plugin' = IF flavour = "session" THEN drop_session(plugin) ELSE drop_resources(plugin)
    /\ handle' = IF handle = "plugin" THEN "closed" ELSE handle
    /\ UNCHANGED <<table, flavour, work, recording, abiEnabled, receipts, strong>>

-------------------------------------------------------------------------------
(* The low-level calls (dynamic/driver.rs).                                    *)

Low(k) == Exists /\ flavour = "resources" /\ Live(k)

dyn_release_buffer ==
    /\ Low("buffer")
    /\ AfterSync(LAMBDA p : release_buffer(p, Idle), Rest)

dyn_release_texture ==
    /\ Low("texture")
    /\ AfterSync(LAMBDA p : release_texture(p, Idle), Rest)

dyn_release_bind_group ==
    /\ Low("group")
    /\ AfterSync(LAMBDA p : release_bind_group(p), Rest)

(* A library without the release table refuses after the synchronization.     *)
ProgramRelease(p, results) == results \cup Refuse("unsupported", p)

(* Programs are released once the accepted work has completed (an obligation   *)
(* of the callers), and by slot and generation.                                *)
dyn_release_shader_module ==
    /\ Low("shader") /\ Idle
    /\ AfterSync(LAMBDA p : ProgramRelease(p, release_shader_module(p, Row("shader").gen)), Rest)

dyn_release_compute_pipeline ==
    /\ Low("compute") /\ Idle
    /\ AfterSync(LAMBDA p : ProgramRelease(p, release_compute_pipeline(p, Row("compute").gen)), Rest)

dyn_release_programmable_render_pipeline ==
    /\ Low("render") /\ Idle
    /\ AfterSync(LAMBDA p : ProgramRelease(p,
                    release_programmable_render_pipeline(p, Row("render").gen)), Rest)

dyn_map_image ==
    /\ Low("texture")
    /\ AfterSync(LAMBDA p : map_image(p, TRUE), Rest)

(* Unmapping a texture that work used waits for that work.                     *)
WaitsForTexture(status) ==
    work' = IF status = "ok" /\ \E id \in work : SlotOf(id) = "texture" THEN {} ELSE work

dyn_unmap_image ==
    /\ Low("texture")
    /\ AfterSync(LAMBDA p : unmap_image(p), LAMBDA status : WaitsForTexture(status))
    /\ UNCHANGED <<flavour, recording, abiEnabled, handle, receipts, strong>>

dyn_validate_shader_module ==
    Low("shader") /\ AfterSync(LAMBDA p : validate(p, "shader"), Rest)

dyn_validate_programmable_render_pipeline ==
    Low("render") /\ AfterSync(LAMBDA p : validate(p, "render"), Rest)

dyn_validate_compute_pipeline ==
    Low("compute") /\ AfterSync(LAMBDA p : validate(p, "compute"), Rest)

(* A range outside the buffer is refused before anything is synchronized.      *)
dyn_read_buffer ==
    /\ Low("buffer")
    /\ \/ AfterSync(LAMBDA p : read_buffer(p), Rest)
       \/ UNCHANGED dynVars

dyn_read_texture ==
    /\ Low("texture")
    /\ \/ AfterSync(LAMBDA p : read_texture(p), Rest)
       \/ UNCHANGED dynVars

(* Work that was accepted, wholly or in part, has a receipt; a refused         *)
(* submission has none.                                                        *)
decode_submission(status, uses, rows) ==
    IF status \in {"accepted", "partial"}
    THEN /\ work' = work \cup Reached(rows, uses)
         /\ receipts' = 1
         /\ strong' = 1
    ELSE UNCHANGED <<work, receipts, strong>>

submit_ir_async ==
    /\ Exists /\ flavour = "resources"
    /\ recording # None
    /\ receipts = 0
    /\ LET uses == recording.uses
       IN  AfterSync(LAMBDA p : IF ~recording.abi
                                THEN Refuse("recording_mode", p)
                                ELSE submit(p, uses),
                     LAMBDA status : decode_submission(status, uses, plugin'.mirror.rows))
    /\ UNCHANGED <<flavour, recording, abiEnabled, handle>>

-------------------------------------------------------------------------------
(* The session's calls (dynamic.rs).                                           *)

Session == Exists /\ flavour = "session"

(* The recording mode is checked before the table is synchronized.             *)
batchCall(Call(_), Then(_)) ==
    IF recording.abi
    THEN AfterSync(Call, Then)
    ELSE Then("recording_mode") /\ UNCHANGED <<table, known, plugin>>

session_submit ==
    /\ Session
    /\ recording # None
    /\ receipts = 0
    /\ LET uses == recording.uses
       IN  batchCall(LAMBDA p : submit(p, uses),
                 LAMBDA status : decode_submission(status, uses, plugin'.mirror.rows))
    /\ UNCHANGED <<flavour, recording, abiEnabled, handle>>

(* The synchronous executor waits for everything that was accepted.            *)
session_execute ==
    /\ Session
    /\ recording # None
    /\ LET uses == recording.uses
       IN  batchCall(LAMBDA p : execute(p, uses),
                 LAMBDA status : work' = IF status \in {"ok", "lost"} THEN {} ELSE work)
    /\ UNCHANGED <<flavour, recording, abiEnabled, handle, receipts, strong>>

(* The handle is forgotten only after the synchronization: a failure there     *)
(* drops it.  From there on it belongs to the plugin, which closes it when the *)
(* import fails.                                                               *)
import_shared_bgra_texture ==
    /\ Session
    /\ Live("texture")
    /\ handle = "app"
    /\ AfterSync(LAMBDA p : {[r EXCEPT !.status = IF @ = "ok" THEN "imported" ELSE @]
                             : r \in import_bgra(p)},
                 LAMBDA status :
                    handle' = CASE status = "imported" -> "plugin"
                                [] status # "imported" /\ known' # table'.revision -> "closed"
                                [] OTHER -> IF TakesHandle(plugin) THEN "closed" ELSE "transit")
    /\ UNCHANGED <<flavour, work, recording, abiEnabled, receipts, strong>>

(* The same with an optional table: without it the call is refused and the     *)
(* handle, which the call was given, is closed.                                *)
import_ycbcr_texture ==
    /\ Session
    /\ Live("texture")
    /\ handle = "app"
    /\ handle' = "closed"
    /\ UNCHANGED <<table, known, flavour, plugin, work, recording, abiEnabled, receipts, strong>>

(* Neither of the following synchronizes: they take the mirror as it is.       *)
release_imported_texture ==
    /\ Session
    /\ Live("texture")
    /\ \E r \in release_import(plugin) :
          /\ plugin' = r.p
          /\ WaitsForTexture(r.status)
          /\ handle' = IF r.status = "ok" /\ handle = "plugin" THEN "closed" ELSE handle
    /\ UNCHANGED <<table, known, flavour, recording, abiEnabled, receipts, strong>>

(* The pixels of a target are read through its shared image.                   *)
readback_bgra ==
    /\ Session
    /\ Live("texture")
    /\ \E r \in image(plugin) \cup readback(plugin) : plugin' = r.p
    /\ UNCHANGED <<table, known>>
    /\ Rest("ok")

-------------------------------------------------------------------------------
(* Receipts.                                                                   *)

(* Every clone of a receipt takes a reference in the plugin.                   *)
CloneReceipt ==
    /\ receipts \in 1..(MaxReceipts - 1)
    /\ receipts' = receipts + 1
    /\ strong' = strong + 1
    /\ UNCHANGED <<table, known, flavour, plugin, work, recording, abiEnabled, handle>>

DropReceipt ==
    /\ receipts > 0
    /\ receipts' = receipts - 1
    /\ strong' = strong - 1
    /\ UNCHANGED <<table, known, flavour, plugin, work, recording, abiEnabled, handle>>

(* A bounded wait reports pending or complete and changes nothing; the caller  *)
(* of an unbounded one goes on when the work has completed.                    *)
WaitReceipt(bounded) ==
    /\ receipts > 0
    /\ bounded \/ Idle
    /\ UNCHANGED dynVars

=============================================================================
