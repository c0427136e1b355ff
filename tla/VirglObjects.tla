----------------------------- MODULE VirglObjects ----------------------------
(* Renderer objects of the VirGL backend.                                   *)
(*                                                                          *)
(* The guest names each object it needs (sampler views, surfaces, samplers, *)
(* pipeline state, shaders), creates it in the packet that first binds it   *)
(* and remembers that in a flag beside the handle.  A tracked submission    *)
(* encodes against flags that run ahead of the renderer: its packets are    *)
(* accepted together or not at all, and a refusal rewinds the flags.  A     *)
(* presentation image lends its surface to the texture slot it is mapped    *)
(* to; both keep a flag for it.  Releasing anything waits for the work      *)
(* accepted before it.  Contents, formats and extents are left out.         *)
EXTENDS VirglPass

CONSTANTS
  Screens, Colors, Depths,   \* texture slots: PRESENT, colour, DEPTH32
  StorageBuffers,            \* storage buffer slots
  Samplers, Fixed, Programs, \* sampler, fixed and programmable pipeline slots
  Images, Imports,           \* presentation images, imported textures
  PassSets,                  \* sets of passes; an execution submits those of one
  Own,                       \* content of a slot the backend allocated itself
  MaxIncarnations, MaxQueued

Textures == Screens \cup Colors \cup Depths
Copy(t) == <<"copy", t>>
Copies == {Copy(t) : t \in Depths}
Pipelines == Fixed \cup Programs
Lazy == Copies \cup StorageBuffers \cup Samplers \cup Pipelines

VARIABLES
  passes,     \* the passes this execution submits
  slot,       \* [Textures -> None, Own, or the image or import mapped there]
  gen,        \* [Textures \cup Lazy -> Nat]: incarnation, the handles allocated for it
  present,    \* filled slots of Lazy
  known,      \* objects whose initialized flag is set
  borrowed,   \* mapped slots whose own surface flag is set
  mapping,    \* [Images -> None or [texture, registered]]
  gone,       \* released images and imports
  imported,   \* [Imports -> None or its texture slot]
  composed,   \* composition_initialized of the queue
  queue,      \* packets of accepted streams the renderer has not run
  host,
  submission_failed, cleanup_failed,
  closed      \* cleanup_complete: the resource cache was retired

objectVars == <<passes, slot, gen, present, known, borrowed, mapping, gone, imported, composed,
                queue, host, submission_failed, cleanup_failed, closed>>

-----------------------------------------------------------------------------
(* Handles.                                                                 *)

\* The resource of a presentation image or of an import: it has one life.
Lender(o) == <<o, IF o \in Images THEN 0 ELSE 1>>
TextureResource(s, g, t) == IF s[t] = Own THEN <<t, g[t]>> ELSE Lender(s[t])
View(s, g, t)    == Object("view", t, g[t], TextureResource(s, g, t))
Surface(s, g, t) == IF s[t] = Own THEN Object("surface", t, g[t], <<t, g[t]>>)
                    ELSE Object("surface", s[t], 0, Lender(s[t]))
ImageSurface(i)  == Object("surface", i, 0, Lender(i))
ComposedSurface(i) == Object("composed", i, 0, Lender(i))
ImportView(x)    == Object("composition view", x, 0, Lender(x))
LazyObject(kind, g, o) == Object(kind, o, g[o], <<o, g[o]>>)
StateObject(g, p) == LazyObject("state", g, p)
Global(name)      == Object("global", <<"global", name>>, 0, None)
Globals == {Global("vertex"), Global("solid"), Global("texture")}
Composer == Global("composer")

Usable == ~submission_failed /\ ~cleanup_failed /\ ~closed

-----------------------------------------------------------------------------
(* Materialization: what a submission allocates before it encodes.          *)

DrawTextures(d) == {d.textures[i] : i \in DOMAIN d.textures}
PassTextures(p) ==
  ({p.target, p.color, p.depth} \ {None}) \cup UNION {DrawTextures(p.draws[i]) : i \in DOMAIN p.draws}
\* A read-only depth attachment that a draw samples is sampled from a copy.
SampledDepth(p) == IF p.readonly /\ \E i \in DOMAIN p.draws : p.depth \in DrawTextures(p.draws[i])
                   THEN {p.depth} ELSE {}
PassLazy(p) ==
  {Copy(t) : t \in SampledDepth(p)} \cup
  UNION {({p.draws[i].pipeline, p.draws[i].sampler, p.draws[i].storage} \ {None}) : i \in DOMAIN p.draws}

Registered == {i \in Images : mapping[i] # None}
Registering == {i \in Registered : ~mapping[i].registered}

\* register_mapped_images, then ir_texture, ir_buffer, ir_sampler and the rest.
Materialized(p) ==
  LET mappedTo(t) == {i \in Registering : mapping[i].texture = t}
      fresh == {t \in PassTextures(p) : slot[t] = None /\ mappedTo(t) = {}}
      lazy == PassLazy(p) \ present
  IN  [slot |-> [t \in Textures |-> IF mappedTo(t) # {} THEN CHOOSE i \in mappedTo(t) : TRUE
                                    ELSE IF t \in fresh THEN Own ELSE slot[t]],
       gen |-> [o \in Textures \cup Lazy |->
                  IF o \in lazy \cup fresh \/ (o \in Textures /\ mappedTo(o) # {})
                  THEN gen[o] + 1 ELSE gen[o]],
       present |-> present \cup lazy,
       \* The slot copies the flag of the surface it borrows.
       borrowed |-> borrowed \cup {t \in Textures : \E i \in mappedTo(t) : ImageSurface(i) \in known},
       mapping |-> [i \in Images |-> IF i \in Registering THEN [mapping[i] EXCEPT !.registered = TRUE]
                                     ELSE mapping[i]]]

-----------------------------------------------------------------------------
(* submit_ir_target: one chunk against the flags k and b.                   *)

TextureView(m, p, t) ==
  IF t \in SampledDepth(p) THEN LazyObject("view", m.gen, Copy(t)) ELSE View(m.slot, m.gen, t)

Resolved(m, p, d) ==
  LET stages == LazyObject("stages", m.gen, d.pipeline)
      sampler == IF d.sampler = None THEN None ELSE LazyObject("sampler", m.gen, d.sampler)
      textures == [i \in DOMAIN d.textures |-> <<TextureView(m, p, d.textures[i]), sampler>>]
      storage == IF d.storage = None THEN <<>>
                 ELSE <<<<LazyObject("view", m.gen, d.storage), None>>>>
      programmable == d.pipeline \in Programs
  IN  [kind |-> IF programmable THEN "programmable" ELSE "fixed",
       vertex |-> IF programmable THEN stages ELSE Global("vertex"),
       fragment |-> IF programmable THEN stages
                    ELSE Global(IF d.textures = <<>> THEN "solid" ELSE "texture"),
       blend |-> StateObject(m.gen, d.pipeline), raster |-> StateObject(m.gen, d.pipeline),
       constants |-> d.constants, views |-> storage \o textures, storage |-> d.storage]

\* The surfaces of the attachments, and whether the guest believes they exist.
\* A screen is rendered through its image's flag, any other attachment
\* through its slot's.
Attachment(m, t) == IF t = None THEN None ELSE Surface(m.slot, m.gen, t)
SurfaceKnown(m, t, k, b) ==
  IF m.slot[t] = Own \/ t \in Screens THEN Surface(m.slot, m.gen, t) \in k ELSE t \in b

ChunkObjects(m, p, ds, k, b) ==
  LET attached == {p.target, p.color, p.depth} \ {None}
      state == {ds[i].blend : i \in DOMAIN ds}
      stages == {ds[i].vertex : i \in {j \in DOMAIN ds : Programmable(ds[j])}}
      storage == {ds[i].views[1][1] : i \in {j \in DOMAIN ds : ds[j].storage # None}}
      copies == {LazyObject("view", m.gen, Copy(t)) : t \in SampledDepth(p)}
      views == UNION {{ds[i].views[j][1] : j \in DOMAIN ds[i].views} : i \in DOMAIN ds} \ storage
      \* Every sampled texture gets its own view, the copy's besides.
      sampled == {View(m.slot, m.gen, t) : t \in SampledDepth(p)}
      samplers == UNION {{ds[i].views[j][2] : j \in DOMAIN ds[i].views} : i \in DOMAIN ds} \ {None}
  IN  [surfaces |-> {Attachment(m, t) : t \in {u \in attached : ~SurfaceKnown(m, u, k, b)}},
       slots |-> {t \in attached \ Screens : m.slot[t] # Own},
       stages |-> stages \ k, storage |-> storage \ k,
       objects |-> (Globals \cup state \cup views \cup copies \cup sampled \cup samplers) \ k]

\* The packets of a chunk and the flags after they were submitted.  Shaders
\* have packets of their own, before the pass.
Chunk(m, p, ds, k, b) ==
  LET o == ChunkObjects(m, p, ds, k, b)
      pass == [at \in {"target", "color", "depth"} |-> Attachment(m, p[at])]
  IN  [packets |-> (IF o.stages = {} THEN <<>> ELSE <<<<Create(o.stages)>>>>) \o
                   <<<<Create(o.surfaces \cup o.storage \cup o.objects)>> \o
                     EncodeDraws(ds, pass, Global("vertex"))>>,
       known |-> k \cup o.surfaces \cup o.stages \cup o.storage \cup o.objects,
       borrowed |-> b \cup o.slots,
       \* A chunk that fails after its shaders were submitted.
       partial |-> k \cup o.stages, setup |-> IF o.stages = {} THEN <<>> ELSE <<<<Create(o.stages)>>>>]

\* The chunks of a pass, in order; flags[i] are those before chunk i.
Plan(m, p) ==
  LET chunks == PassChunks([i \in DOMAIN p.draws |-> Resolved(m, p, p.draws[i])])
      Add(acc, ds) == Append(acc, Chunk(m, p, ds, acc[Len(acc)].known, acc[Len(acc)].borrowed))
  IN  FoldLeft(Add, <<[packets |-> <<>>, known |-> known, borrowed |-> m.borrowed,
                       partial |-> known, setup |-> <<>>]>>, chunks)

PlanPackets(plan, n) == FlattenSeq([i \in 1..n |-> plan[i].packets])

Submittable(p) ==
  /\ Usable
  /\ p.target \in Screens => \E i \in Registered : mapping[i].texture = p.target
  /\ p.target \notin Screens => slot[p.target] \in {None, Own}
  /\ \A o \in PassTextures(p) \cup PassLazy(p) : gen[o] < MaxIncarnations
  /\ \A i \in Registering : gen[mapping[i].texture] < MaxIncarnations

Keep(m) ==
  /\ slot' = m.slot /\ gen' = m.gen /\ present' = m.present /\ mapping' = m.mapping

\* The flags a tracked submission saves before it encodes.
Snapshot == [known |-> known, borrowed |-> borrowed]

(* Mutant: restore rewinds every flag but those of the depth copies. *)
MutantRestored(k) == Snapshot.known \cup {h \in k : h[2] \in Copies}
\* restore: the flags as they were when the submission began.
Restored(k) == Snapshot.known

\* submit_ir_tracked: the stream is accepted, refused, or accepted by a call
\* that still fails.
SubmitTracked(p, outcome) ==
  /\ Submittable(p)
  /\ \E m \in {Materialized(p)} : \E plan \in {Plan(m, p)} :
     LET end == plan[Len(plan)]
         packets == PlanPackets(plan, Len(plan))
     IN  /\ Keep(m)
         /\ IF outcome = "refused"
            THEN /\ known' = Restored(end.known) /\ borrowed' = Snapshot.borrowed
                 /\ UNCHANGED <<queue, submission_failed>>
            ELSE /\ Len(queue) + Len(packets) <= MaxQueued
                 /\ queue' = queue \o packets
                 /\ known' = end.known /\ borrowed' = end.borrowed
                 /\ submission_failed' = (outcome = "failed")
  /\ UNCHANGED <<passes, closed, gone, imported, composed, host, cleanup_failed>>

Drained == Execute(host, queue)

\* submit_ir: the packets run at once; chunk n fails and the others before it
\* stay.  n is past the last chunk when none fails.
SubmitSynchronous(p, n) ==
  /\ Submittable(p)
  /\ \E m \in {Materialized(p)} : \E plan \in {Plan(m, p)} :
     LET failed == n < Len(plan)
     IN  /\ n \in 1..Len(plan)
         /\ failed => \A d \in {p.draws[i] : i \in DOMAIN p.draws} : d.storage = None
         /\ Keep(m)
         /\ host' = Execute(Drained, PlanPackets(plan, n) \o
                                     (IF failed THEN plan[n + 1].setup ELSE <<>>))
         /\ known' = IF failed THEN plan[n + 1].partial ELSE plan[n].known
         /\ borrowed' = plan[n].borrowed
  /\ queue' = <<>>
  /\ UNCHANGED <<passes, closed, gone, imported, composed, submission_failed, cleanup_failed>>

\* The worker's next packet.
RunPacket ==
  /\ queue # <<>>
  /\ host' = Execute(host, <<Head(queue)>>)
  /\ queue' = Tail(queue)
  /\ UNCHANGED <<passes, closed, slot, gen, present, known, borrowed, mapping, gone, imported, composed,
                 submission_failed, cleanup_failed>>

-----------------------------------------------------------------------------
(* Images and imported textures.                                            *)

MapImage(i, t) ==
  /\ Usable /\ i \notin gone /\ mapping[i] = None
  /\ \A j \in Registered : mapping[j].texture # t
  /\ mapping' = [mapping EXCEPT ![i] = [texture |-> t, registered |-> FALSE]]
  /\ UNCHANGED <<passes, closed, slot, gen, present, known, borrowed, gone, imported, composed, queue, host,
                 submission_failed, cleanup_failed>>

ResourceUnbind == Unbind(ResourcePoints)
EveryUnbind == <<ResourceUnbind, Unbind(ObjectPoints)>>

(* Mutant: the IR view of a mapping is left to the image's owner. *)
MutantMappedRetirement(t) == <<>>
\* mapped_texture_retirement_commands
MappedRetirement(t) ==
  IF View(slot, gen, t) \in known THEN <<<<ResourceUnbind, Destroy({View(slot, gen, t)})>>>> ELSE <<>>

\* The slot's surface flag returns to the owner of the surface.
Returned(t, surface) ==
  (known \ {View(slot, gen, t), surface}) \cup (IF t \in borrowed THEN {surface} ELSE {})

Waited(packets) == IF packets = <<>> THEN host' = host /\ queue' = queue
                   ELSE host' = Execute(Drained, packets) /\ queue' = <<>>

UnmapImage(i) ==
  /\ Usable /\ mapping[i] # None
  /\ LET t == mapping[i].texture
     IN  IF mapping[i].registered
         THEN /\ Waited(MappedRetirement(t))
              /\ known' = Returned(t, ImageSurface(i))
              /\ borrowed' = borrowed \ {t}
              /\ slot' = [slot EXCEPT ![t] = None]
         ELSE UNCHANGED <<host, queue, known, borrowed, slot>>
  /\ mapping' = [mapping EXCEPT ![i] = None]
  /\ UNCHANGED <<passes, closed, gen, present, gone, imported, composed, submission_failed, cleanup_failed>>

\* import_shared_bgra_texture: the import and its mapping.
ImportTexture(x, t) ==
  /\ Usable /\ x \notin gone /\ imported[x] = None
  /\ slot[t] = None /\ gen[t] < MaxIncarnations
  /\ slot' = [slot EXCEPT ![t] = x]
  /\ gen' = [gen EXCEPT ![t] = @ + 1]
  /\ imported' = [imported EXCEPT ![x] = t]
  /\ UNCHANGED <<passes, closed, present, known, borrowed, mapping, gone, composed, queue, host,
                 submission_failed, cleanup_failed>>

\* retire_texture_inner of an object set: destroyed, then the image detached.
Retirement(objects, resource) ==
  (IF objects = {} THEN <<>>
   ELSE <<<<ResourceUnbind, Destroy(objects)>>>>)
  \o <<<<Detach(resource)>>>>

\* A retirement that fails gives the context up.
Abandon ==
  /\ submission_failed' = TRUE /\ cleanup_failed' = TRUE
  /\ UNCHANGED <<passes, closed, slot, gen, present, known, borrowed, mapping, gone, imported, composed,
                 queue, host>>

ReleaseImport(x) ==
  /\ Usable /\ imported[x] # None
  /\ LET t == imported[x]
         surface == ImageSurface(x)
         k == Returned(t, surface)
         own == {ImportView(x), surface} \cap k
     IN  /\ host' = Execute(Drained, MappedRetirement(t) \o Retirement(own, Lender(x)))
         /\ known' = k \ own
         /\ borrowed' = borrowed \ {t}
         /\ slot' = [slot EXCEPT ![t] = None]
  /\ queue' = <<>>
  /\ imported' = [imported EXCEPT ![x] = None]
  /\ gone' = gone \cup {x}
  /\ UNCHANGED <<passes, closed, gen, present, mapping, composed, submission_failed, cleanup_failed>>

\* retire_owned_image: of an image no mapping holds.
ReleaseImage(i) ==
  /\ ~cleanup_failed /\ i \notin gone /\ mapping[i] = None
  /\ LET own == {ImageSurface(i), ComposedSurface(i)} \cap known
     IN  /\ host' = Execute(Drained, <<EveryUnbind \o <<Destroy(own)>>, <<Detach(Lender(i))>>>>)
         /\ known' = known \ own
  /\ queue' = <<>>
  /\ gone' = gone \cup {i}
  /\ UNCHANGED <<passes, closed, slot, gen, present, borrowed, mapping, imported, composed,
                 submission_failed, cleanup_failed>>

\* submit_composition: the legacy path, with objects of its own.
Compose(i, x) ==
  /\ ~cleanup_failed /\ i \notin gone /\ imported[x] # None
  /\ LET new == ({ComposedSurface(i), ImportView(x)} \ known) \cup
                (IF composed THEN {} ELSE {Composer})
     IN  /\ host' = Execute(Drained, <<<<Create(new),
               Bind("target", ComposedSurface(i)), Bind("color", None), Bind("depth", None),
               Bind("vertex", Composer), Bind("fragment", Composer), Bind("blend", Composer),
               Bind("raster", Composer), Bind("sampler0", Composer), Bind("view0", ImportView(x)),
               Draw([at \in {"target", "view0"} |->
                       IF at = "target" THEN ComposedSurface(i) ELSE ImportView(x)], {})>>>>)
         /\ known' = known \cup (new \ {Composer})
  /\ queue' = <<>>
  /\ composed' = TRUE
  /\ UNCHANGED <<passes, closed, slot, gen, present, borrowed, mapping, gone, imported,
                 submission_failed, cleanup_failed>>

-----------------------------------------------------------------------------
(* Slots: release_texture, release_buffer and the pipelines.                *)

SlotRetirement(t) ==
  LET own == {View(slot, gen, t), Surface(slot, gen, t)} \cap known
      copy == {LazyObject("view", gen, Copy(t))} \cap known
  IN  (IF slot[t] = Own THEN Retirement(own, <<t, gen[t]>>) ELSE <<>>) \o
      (IF t \in Depths THEN IF Copy(t) \in present THEN Retirement(copy, <<Copy(t), gen[Copy(t)]>>)
                            ELSE <<>> ELSE <<>>)

ReleaseTexture(t) ==
  /\ Usable /\ slot[t] \in {None, Own}
  /\ Waited(SlotRetirement(t))
  /\ known' = {h \in known : h[2] \notin {t} \cup {Copy(t)}}
  /\ slot' = [slot EXCEPT ![t] = None]
  /\ present' = present \ {Copy(t)}
  /\ UNCHANGED <<passes, closed, gen, borrowed, mapping, gone, imported, composed, submission_failed,
                 cleanup_failed>>

BufferRetirement(b) ==
  <<<<ResourceUnbind, Destroy({LazyObject("view", gen, b)} \cap known)>>, <<Detach(<<b, gen[b]>>)>>>>

ReleaseBuffer(b) ==
  /\ Usable /\ b \in present
  /\ host' = Execute(Drained, BufferRetirement(b))
  /\ known' = known \ {LazyObject("view", gen, b)}
  /\ queue' = <<>>
  /\ present' = present \ {b}
  /\ UNCHANGED <<passes, closed, slot, gen, borrowed, mapping, gone, imported, composed, submission_failed,
                 cleanup_failed>>

\* retire_native_objects
RetireObjects(objects) ==
  /\ host' = Execute(Drained, <<EveryUnbind \o <<Destroy(objects)>>>>)
  /\ queue' = <<>>

ReleaseProgram(p) ==
  /\ Usable /\ p \in present
  /\ LET own == {LazyObject("stages", gen, p), StateObject(gen, p)} \cap known
     IN  RetireObjects(own) /\ known' = known \ own
  /\ present' = present \ {p}
  /\ UNCHANGED <<passes, closed, slot, gen, borrowed, mapping, gone, imported, composed, submission_failed,
                 cleanup_failed>>

\* IrResources::cleanup: every slot, then what the slots share.  The images'
\* surfaces and the composition objects belong to others.
Cleanup ==
  /\ Usable
  /\ \A i \in Images : mapping[i] = None
  /\ \A x \in Imports : imported[x] = None
  /\ LET slots == FoldFunction(LAMBDA ps, acc : ps \o acc, <<>>,
                              [t \in Textures |-> SlotRetirement(t)])
         buffers == FoldFunction(LAMBDA ps, acc : ps \o acc, <<>>,
                              [b \in StorageBuffers \cap present |-> BufferRetirement(b)])
         shared == {h \in known : h[1] \in {"global", "sampler", "state", "stages"}}
     IN  host' = Execute(Drained, slots \o buffers \o <<EveryUnbind \o <<Destroy(shared)>>>>)
  /\ queue' = <<>>
  /\ known' = {h \in known : h[2] \in Images \cup Imports}
  /\ slot' = [t \in Textures |-> None] /\ present' = {}
  /\ closed' = TRUE
  /\ UNCHANGED <<passes, gen, borrowed, mapping, gone, imported, composed,
                 submission_failed, cleanup_failed>>

\* Any wait or command of a release may fail.
ReleaseFails == Usable /\ Abandon

-----------------------------------------------------------------------------
InitObjects ==
  /\ passes \in PassSets
  /\ slot = [t \in Textures |-> None] /\ gen = [o \in Textures \cup Lazy |-> 0]
  /\ present = {} /\ known = {} /\ borrowed = {}
  /\ mapping = [i \in Images |-> None] /\ gone = {}
  /\ imported = [x \in Imports |-> None] /\ composed = FALSE
  /\ queue = <<>> /\ host = NoHost
  /\ submission_failed = FALSE /\ cleanup_failed = FALSE /\ closed = FALSE

NextObjects ==
  \/ \E p \in passes, o \in {"accepted", "refused", "failed"} : SubmitTracked(p, o)
  \/ \E p \in passes, n \in 1..4 : SubmitSynchronous(p, n)
  \/ RunPacket
  \/ \E i \in Images, t \in Screens : MapImage(i, t)
  \/ \E i \in Images : UnmapImage(i) \/ ReleaseImage(i)
  \/ \E x \in Imports : ReleaseImport(x) \/ \E t \in Colors : ImportTexture(x, t)
  \/ \E i \in Images, x \in Imports : Compose(i, x)
  \/ \E t \in Colors \cup Depths : ReleaseTexture(t)
  \/ \E b \in StorageBuffers : ReleaseBuffer(b)
  \/ \E p \in Programs : ReleaseProgram(p)
  \/ Cleanup
  \/ ReleaseFails

ObjectsSpec == InitObjects /\ [][NextObjects]_objectVars

-----------------------------------------------------------------------------
(* Properties.                                                              *)

(* Every object a packet binds or destroys exists in the renderer when the  *)
(* packet runs, none is created over a living one and none is destroyed     *)
(* while bound: the flags of submit_ir_target follow the packets that were  *)
(* accepted, whichever submissions were refused and whatever was released,  *)
(* unmapped and mapped again between them (virgl.rs, snapshot, restore and  *)
(* the retirements).  Of the surface an image lends to its slots it says    *)
(* that it exists when it is used, not that it is created once.             *)
ObjectsAreLive == host.faults \cap {"missing", "duplicate", "dangling"} = {}

(* The surface of a presentation image returns with its flag to the image,  *)
(* so that the next mapping of the image does not create it again (lib.rs,  *)
(* "Borrowed surfaces are returned to their image owners").                 *)
ImagesHaveOneSurface == "second surface" \notin host.faults



(* No object of the renderer refers to a texture, buffer or import that is  *)
(* detached (virgl.rs, retire_texture_inner, unmap_ir_texture).             *)
ReleasedIsUnreferenced == "retained resource" \notin host.faults

(* The same of presentation images, whose surface a texture slot borrowed   *)
(* (lib.rs, Drop for MappedTargetSession).                                  *)
ImagesAreUnreferenced == "retained image" \notin host.faults
=============================================================================
