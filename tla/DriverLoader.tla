----------------------------- MODULE DriverLoader -----------------------------
(* Selecting and loading an installed driver: manifests and libraries on disk, *)
(* the process-wide table of loaded libraries (sgfx-backend-loader), opening a *)
(* device through a driver (sgfx/src/dynamic.rs, scarlet.rs, lib.rs), and the  *)
(* adapters and devices of the execution facade (driver.rs).  A call opens the *)
(* GPU several times and closes it in between; drivers may be installed,       *)
(* replaced or removed and the GPU exchanged between any two of its steps.     *)
EXTENDS Naturals, Sequences, FiniteSets, Absent

CONSTANTS Files,        \* manifest files
          Libraries,    \* absolute library paths
          DriverNames,        \* driver names
          Gpus,         \* GPU backend identifiers
          Compiled,     \* backends compiled into the facade
          MaxChanges,   \* bound on changes outside the process
          MaxAdapters   \* bound on the adapters of an instance

VARIABLES
    manifests,   \* the text of each manifest file, or None
    disk,        \* the library at each path
    gpu,         \* the GPU at the device path, or None
    loaded,      \* the pinned library of each path, or None
    call,        \* the call in progress, or None
    adapters,    \* the adapters of the facade's instance
    devices,     \* the devices that were opened
    changes      \* changes made outside the process

loaderVars == <<manifests, disk, gpu, loaded, call, adapters, devices, changes>>

-------------------------------------------------------------------------------
(* Data.                                                                       *)

Manifests == [name : DriverNames, gpu : Gpus, library : Libraries, valid : BOOLEAN]

(* What a library at a path can be: its identity, whether its entry points     *)
(* negotiate, and which optional tables it exports.                            *)
Images == [name : DriverNames, gpu : Gpus, sound : BOOLEAN, driver : BOOLEAN]

(* A GPU: its identifier, whether it is ready for queues and memory, and the   *)
(* features of its host.                                                       *)
Features == {"rendering", "programmable", "compute", "arrays", "depth"}
Devices == {[id |-> g, ready |-> r, features |-> f] :
                g \in Gpus, r \in BOOLEAN, f \in {{"rendering"}, Features}}

Preferences == {"auto", "wgpu", "metal", "scarlet-virgl", "scarlet-adreno", "other"}

(* Each capability with the alternatives of flags that grant it; without its   *)
(* flags nothing is advertised, whatever the driver is called.                 *)
Grants ==
    [graphics      |-> {{"rendering"}},
     programmable  |-> {{"rendering", "programmable"}},
     compute       |-> {{"rendering", "programmable", "compute"}},
     storage       |-> {{"rendering", "programmable"}},
     typed_views   |-> {{"arrays", "depth"}},
     depth32       |-> {{"depth"}}]

dynamic_capabilities(flags) ==
    {c \in DOMAIN Grants : \E needs \in Grants[c] : needs \subseteq flags}

(* The flags the plugin's open reports for a GPU.                              *)
OpenFlags(features) == features

-------------------------------------------------------------------------------
(* Discovery and loading.                                                      *)

(* Manifests that do not parse are skipped; exactly one may match.             *)
Matching(id, wanted) ==
    {f \in Files : /\ manifests[f] # None
                   /\ manifests[f].valid
                   /\ manifests[f].gpu = id
                   /\ wanted # None => manifests[f].name = wanted}

discover(id, wanted) ==
    IF \E f \in Files : Matching(id, wanted) = {f}
    THEN manifests[CHOOSE f \in Files : Matching(id, wanted) = {f}]
    ELSE None

(* A library negotiates its own table and every optional table it exports, and *)
(* must be the driver its manifest says.                                       *)
load_uncached(m) ==
    LET image == disk[m.library]
    IN  IF image.sound /\ image.name = m.name /\ image.gpu = m.gpu THEN image ELSE None

(* Mutant: a library that is already loaded is taken as it is.                 *)
MutantReuse(image, m) == TRUE

(* A loaded library serves a manifest that says the same of it.                *)
Reuse(image, m) == image.name = m.name /\ image.gpu = m.gpu

(* A path is loaded once for the life of the process.                          *)
load(m) ==
    IF loaded[m.library] # None
    THEN IF Reuse(loaded[m.library], m) THEN loaded[m.library] ELSE None
    ELSE load_uncached(m)

supports(g) == g # None /\ g.ready

supports_gpu(g, id) == g # None /\ g.id = id /\ g.ready

-------------------------------------------------------------------------------
(* Opening a device: the steps of Device::open_with_backend.                   *)

NewCall(op, wanted, adapter) ==
    [op |-> op, wanted |-> wanted, adapter |-> adapter,
     first |-> IF gpu = None THEN None ELSE gpu.id,
     stage |-> "reopen", manifest |-> None, image |-> None]

FailCall == call' = None /\ UNCHANGED <<loaded, adapters, devices>>

(* Open and query the GPU, and find its driver.                                *)
Reopen ==
    /\ call # None /\ call.stage = "reopen"
    /\ IF supports(gpu) /\ discover(gpu.id, call.wanted) # None
       THEN /\ call' = [call EXCEPT !.stage = "load",
                                    !.manifest = discover(gpu.id, call.wanted)]
            /\ UNCHANGED <<loaded, adapters, devices>>
       ELSE FailCall
    /\ UNCHANGED <<manifests, disk, gpu, changes>>

(* Load the library under the loader's lock.                                   *)
Load ==
    /\ call # None /\ call.stage = "load"
    /\ LET image == load(call.manifest)
       IN  IF image # None
           THEN /\ loaded' = [loaded EXCEPT ![call.manifest.library] = image]
                /\ call' = [call EXCEPT !.stage = "open", !.image = image]
                /\ UNCHANGED <<adapters, devices>>
           ELSE FailCall
    /\ UNCHANGED <<manifests, disk, gpu, changes>>

(* The plugin's own check that the GPU it connects to is one it drives.        *)
plugin_open(image, g) == g # None /\ g.id = image.gpu /\ g.ready

(* The facade takes only drivers with the low-level table.                     *)
Finish(image, g) ==
    CASE call.op = "discover" ->
            /\ IF image.driver
               THEN adapters' = Append(adapters,
                        [kind |-> "dynamic", gpu |-> call.first, name |-> image.name,
                         capabilities |-> dynamic_capabilities(OpenFlags(g.features))])
               ELSE UNCHANGED adapters
            /\ UNCHANGED devices
      [] call.op = "create" ->
            /\ devices' = IF image.driver /\ image.name = call.adapter.name
                          THEN devices \cup {[image |-> image, gpu |-> g.id,
                                              wanted |-> call.adapter.name]}
                          ELSE devices
            /\ UNCHANGED adapters
      [] call.op = "open" ->
            /\ devices' = devices \cup {[image |-> image, gpu |-> g.id,
                                         wanted |-> call.wanted]}
            /\ UNCHANGED adapters

Open ==
    /\ call # None /\ call.stage = "open"
    /\ IF plugin_open(call.image, gpu)
       THEN Finish(call.image, gpu) /\ call' = None /\ UNCHANGED loaded
       ELSE FailCall
    /\ UNCHANGED <<manifests, disk, gpu, changes>>

-------------------------------------------------------------------------------
(* The facade.                                                                 *)

(* The name a preference asks a dynamic driver for; "none" asks for none.      *)
dynamic_selection(p) ==
    CASE p = "auto" -> None
      [] p \in {"wgpu", "metal"} -> "none"
      [] OTHER -> p

(* Adapters WGPU finds; the devices they give need no driver of this process.  *)
WgpuAdapter == [kind |-> "wgpu", gpu |-> None, name |-> "wgpu",
                capabilities |-> {"graphics", "programmable", "typed_views"}]

discover_wgpu_adapters(p) ==
    IF "wgpu" \in Compiled /\ p \in {"auto", "wgpu"} THEN <<WgpuAdapter>> ELSE <<>>

(* Instance::with_preference: WGPU first, then the dynamic drivers of the GPU. *)
WithPreference(p) ==
    /\ call = None
    /\ Len(adapters) < MaxAdapters
    /\ adapters' = discover_wgpu_adapters(p)
    /\ call' = IF "dynamic" \in Compiled /\ dynamic_selection(p) # "none" /\ gpu # None
               THEN NewCall("discover", dynamic_selection(p), None)
               ELSE None
    /\ UNCHANGED <<manifests, disk, gpu, loaded, devices, changes>>

(* A device is created for the GPU the adapter was found for.                  *)
create_dynamic_device(a) ==
    /\ a.kind = "dynamic"
    /\ call' = IF gpu # None /\ gpu.id = a.gpu
               THEN NewCall("create", a.name, a)
               ELSE None
    /\ UNCHANGED <<manifests, disk, gpu, loaded, adapters, devices, changes>>

create_wgpu_device(a) ==
    /\ a.kind = "wgpu"
    /\ UNCHANGED loaderVars

CreateDevice ==
    /\ call = None
    /\ \E i \in DOMAIN adapters :
          create_dynamic_device(adapters[i]) \/ create_wgpu_device(adapters[i])

-------------------------------------------------------------------------------
(* The direct device API (scarlet.rs).                                         *)

(* A backend that was not compiled in is never substituted by another.         *)
require_backend(p) ==
    CASE p = "wgpu" -> "wgpu" \in Compiled
      [] p = "metal" -> FALSE
      [] OTHER -> "dynamic" \in Compiled

resolve_backend(p) == IF p = "auto" THEN Compiled # {} ELSE require_backend(p)

open_auto == IF supports(gpu) THEN NewCall("open", None, None) ELSE None

(* A preference known by name is checked against its GPU; any other name is    *)
(* only looked for among the manifests.                                        *)
open_virgl == IF supports_gpu(gpu, "virtio-gpu")
              THEN NewCall("open", "scarlet-virgl", None) ELSE None
open_adreno == IF supports_gpu(gpu, "qcom-adreno")
               THEN NewCall("open", "scarlet-adreno", None) ELSE None

open_device(p) ==
    /\ call = None
    /\ gpu # None
    /\ resolve_backend(p)
    /\ call' = CASE p = "auto" -> open_auto
                 [] p = "scarlet-virgl" -> open_virgl
                 [] p = "scarlet-adreno" -> open_adreno
                 [] p \in {"wgpu", "metal"} -> None
                 [] OTHER -> NewCall("open", p, None)
    /\ UNCHANGED <<manifests, disk, gpu, loaded, adapters, devices, changes>>

DropDevice ==
    \E d \in devices :
        /\ devices' = devices \ {d}
        /\ UNCHANGED <<manifests, disk, gpu, loaded, call, adapters, changes>>

-------------------------------------------------------------------------------
(* What happens outside the process.                                           *)

Change == changes < MaxChanges /\ changes' = changes + 1

InstallManifest ==
    /\ Change
    /\ \E f \in Files, m \in Manifests \cup {None} :
          manifests' = [manifests EXCEPT ![f] = m]
    /\ UNCHANGED <<disk, gpu, loaded, call, adapters, devices>>

ReplaceLibrary ==
    /\ Change
    /\ \E l \in Libraries, image \in Images : disk' = [disk EXCEPT ![l] = image]
    /\ UNCHANGED <<manifests, gpu, loaded, call, adapters, devices>>

ExchangeGpu ==
    /\ Change
    /\ \E g \in Devices \cup {None} : gpu' = g
    /\ UNCHANGED <<manifests, disk, loaded, call, adapters, devices>>

LoaderInit ==
    /\ manifests = [f \in Files |-> None]
    /\ disk \in [Libraries -> {i \in Images : i.sound /\ i.driver}]
    /\ gpu \in {g \in Devices : g.ready}
    /\ loaded = [l \in Libraries |-> None]
    /\ call = None
    /\ adapters = <<>>
    /\ devices = {}
    /\ changes = 0

LoaderNext ==
    \/ Reopen \/ Load \/ Open
    \/ \E p \in Preferences : WithPreference(p) \/ open_device(p)
    \/ CreateDevice
    \/ DropDevice
    \/ InstallManifest \/ ReplaceLibrary \/ ExchangeGpu

LoaderSpec == LoaderInit /\ [][LoaderNext]_loaderVars

-------------------------------------------------------------------------------
(* Whatever is installed, replaced or exchanged while a device is opened, the  *)
(* device is driven by a driver of its GPU, and by the one that was asked for, *)
(* by name or through an adapter.                                              *)
SelectedDriverOpens ==
    \A d \in devices : /\ d.image.gpu = d.gpu
                       /\ d.wanted # None => d.image.name = d.wanted

(* A call goes on with what it found: a manifest of the name it asks for, and  *)
(* a library that says the same, whatever changed since.                       *)
CallKeepsSelection ==
    call # None =>
        /\ call.op \in {"discover", "create", "open"}
        /\ call.stage \in {"reopen", "load", "open"}
        /\ call.stage # "reopen" /\ call.wanted # None => call.manifest.name = call.wanted
        /\ call.stage = "open" => call.image.name = call.manifest.name

(* The invariant of selection and loading.                                     *)
LoaderInvariant == CallKeepsSelection /\ SelectedDriverOpens

=============================================================================
