----------------------------- MODULE DriverFacade -----------------------------
(* The execution facade API frontends use (sgfx/src/driver.rs): devices,       *)
(* resources, queues and receipts, each an enumeration over the backends that  *)
(* are compiled in.  A call on the dynamic backend is the call of the dynamic  *)
(* driver; a call on WGPU leaves this process' driver objects alone.           *)
EXTENDS DynamicDriver

VARIABLE backend    \* the backend of the device: "dynamic" or "wgpu"

facadeVars == <<dynVars, backend>>

(* The calls WGPU answers by itself.                                           *)
Elsewhere == UNCHANGED dynVars

Dispatch(Call) ==
    /\ UNCHANGED backend
    /\ \/ backend = "dynamic" /\ Call
       \/ backend = "wgpu" /\ Elsewhere

(* Two objects of different devices never reach a backend together.            *)
SameDevice(same, Call) == IF same THEN Call ELSE UNCHANGED dynVars

CreateResources == Dispatch(create_ir_resources)

ReleaseTexture == Dispatch(dyn_release_texture)
ReleaseBuffer == Dispatch(dyn_release_buffer)
ReleaseBindGroup == Dispatch(dyn_release_bind_group)
ReleaseShaderModule == Dispatch(dyn_release_shader_module)
ReleaseComputePipeline == Dispatch(dyn_release_compute_pipeline)
ReleaseProgrammableRenderPipeline == Dispatch(dyn_release_programmable_render_pipeline)

MapPresentationImage(same) == Dispatch(SameDevice(same, dyn_map_image))

(* The result of unmapping is not reported to the caller.                      *)
UnmapPresentationImage == Dispatch(dyn_unmap_image)

ValidateShaderModule == Dispatch(dyn_validate_shader_module)
ValidateProgrammableRenderPipeline == Dispatch(dyn_validate_programmable_render_pipeline)
ValidateComputePipeline == Dispatch(dyn_validate_compute_pipeline)

ReadBuffer == Dispatch(dyn_read_buffer)

Submit(same) == Dispatch(SameDevice(same, submit_ir_async))

(* The dynamic backends read only the first mip level.                         *)
ReadTextureMip(same, mip) ==
    Dispatch(SameDevice(same, IF mip = 0 THEN dyn_read_texture ELSE UNCHANGED dynVars))

Poll == Dispatch(WaitReceipt(TRUE))

(* An unbounded wait.                                                          *)
Wait == Dispatch(WaitReceipt(FALSE))

-------------------------------------------------------------------------------
(* The parts of a run.                                                         *)

Application ==
    /\ UNCHANGED backend
    /\ \/ \E k \in Kinds : Define(k) \/ Retire(k) \/ Record(k)
       \/ Forget
       \/ Complete
       \/ DropOwner
       \/ CloneReceipt
       \/ DropReceipt

SessionCalls ==
    /\ UNCHANGED backend
    /\ \/ create_mapped_target_session
       \/ session_submit
       \/ session_execute
       \/ import_shared_bgra_texture
       \/ import_ycbcr_texture
       \/ release_imported_texture
       \/ readback_bgra

FacadeCalls ==
    \/ CreateResources
    \/ ReleaseTexture \/ ReleaseBuffer \/ ReleaseBindGroup
    \/ ReleaseShaderModule \/ ReleaseComputePipeline \/ ReleaseProgrammableRenderPipeline
    \/ \E same \in BOOLEAN : MapPresentationImage(same) \/ Submit(same)
    \/ \E same \in BOOLEAN, mip \in 0..1 : ReadTextureMip(same, mip)
    \/ UnmapPresentationImage
    \/ ValidateShaderModule \/ ValidateProgrammableRenderPipeline \/ ValidateComputePipeline
    \/ ReadBuffer
    \/ Poll \/ Wait

FacadeInit ==
    /\ \E f \in {"resources", "session"} : DynInit(f)
    /\ backend \in {"dynamic", "wgpu"}

FacadeNext == Application \/ SessionCalls \/ FacadeCalls

FacadeSpec == FacadeInit /\ [][FacadeNext]_facadeVars

-------------------------------------------------------------------------------
(* What the parts promise.                                                     *)

(* A mirror the facade takes for current holds exactly the rows of the table:  *)
(* no retired identity resolves in the plugin and no new one is missing, over  *)
(* any history of definitions, retirements, refusals and retries.              *)
MirrorFollowsTable ==
    (known = table.revision /\ ~plugin.mirror.poisoned) => plugin.mirror.rows = table.rows

(* Nothing accepted work uses is released under it: every native object the    *)
(* work in flight needs still exists.                                          *)
InFlightStaysNative == NativeOf(plugin, work) \subseteq plugin.native

(* Every handle and every receipt has one owner: a handle given away is owned  *)
(* or closed, and the plugin counts the receipts the application holds.        *)
HandlesAreOwned == handle # "transit" /\ strong = receipts

(* A bind group may name what has been retired: a snapshot of a table is       *)
(* imported all the same.                                                      *)
HistoricalGroupsImport == ~plugin.mirror.poisoned

(* What the variables hold.                                                    *)
Identities == [kind : Kinds \cup {"view"}, gen : Nat]
RowSet == [gen : Nat, desc : (SUBSET Identities) \cup {None}]
Rows == [Kinds -> RowSet]
TableStates ==
    [rows : Rows, revision : Nat \ {0},
     snapshot : [revision : Nat, rows : Rows],
     encoded : [Programs -> [gen : Nat, active : BOOLEAN, row : RowSet] \cup {None}]]
MirrorStates ==
    [rows : Rows, accepted : [Kinds -> RowSet \cup {None}], revision : Nat, poisoned : BOOLEAN]
PluginStates ==
    [mirror : MirrorStates, native : SUBSET [kind : Kinds, gen : Nat],
     mapped : SUBSET Nat, imported : SUBSET Nat, failed : BOOLEAN]

FacadeTypeOK ==
    /\ table \in TableStates
    /\ known \in Nat
    /\ plugin \in PluginStates
    /\ work \subseteq Identities
    /\ recording = None \/ recording.uses \subseteq Identities

(* An encoded program row is of a generation the slot has reached, and is the  *)
(* slot's row when generation and state agree.                                 *)
EncodedSound(rows, cached, k) ==
    cached # None =>
        /\ cached.active = Active(cached.row)
        /\ cached.gen <= rows[k].gen
        /\ cached.gen = rows[k].gen /\ cached.active => cached.row = rows[k]
        /\ cached.gen = rows[k].gen /\ ~Active(rows[k]) => cached.row = rows[k]

(* The table's caches: the snapshot of the current revision is the table.      *)
CachesAreCurrent(t) ==
    /\ t.snapshot.revision <= t.revision
    /\ t.snapshot.revision = t.revision => t.snapshot.rows = t.rows
    /\ \A k \in Programs : EncodedSound(t.rows, t.encoded[k], k)

(* A mirror: rows accepted are the rows held, and one that came as far as the  *)
(* table without a failure is the table.                                       *)
AcceptedIsHeld(m) == \A k \in Kinds : m.accepted[k] # None => m.accepted[k] = m.rows[k]
MirrorOf(m, t) ==
    /\ m.revision <= t.revision
    /\ m.revision = t.revision /\ ~m.poisoned => m.rows = t.rows
    /\ AcceptedIsHeld(m)

(* The facade never remembers a revision its plugin has not imported, and      *)
(* without a plugin object nothing is in flight.                               *)
KnownIsImported ==
    /\ known = 0 => work = {}
    /\ known <= table.revision
    /\ known = table.revision => plugin.mirror.poisoned \/ plugin.mirror.revision = known

(* The invariant of the objects an application shares with a plugin: caches,   *)
(* mirror and revisions, native objects in use, handles and receipts.          *)
FacadeInvariant ==
    /\ FacadeTypeOK
    /\ CachesAreCurrent(table)
    /\ MirrorOf(plugin.mirror, table)
    /\ KnownIsImported
    /\ InFlightStaysNative
    /\ HandlesAreOwned

=============================================================================
