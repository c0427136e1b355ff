------------------------------ MODULE VirglPass ------------------------------
(* submit_ir_target of the VirGL backend: how a pass is cut into chunks and *)
(* how the draws of a chunk become commands.  State that a draw shares with *)
(* the draw before it is not emitted again; what was emitted is remembered  *)
(* for the fixed path and, apart, for the programmable one.  Geometry,      *)
(* viewports, scissors and vertex buffers are left out.                     *)
(*                                                                          *)
(* A draw here is resolved: [kind, vertex, fragment, blend, raster,         *)
(* constants, views], views a sequence of <<view, sampler>> by slot.        *)
EXTENDS Absent, Naturals, Sequences, FiniteSets, SequencesExt

-----------------------------------------------------------------------------
(* The VirGL renderer as the encoder relies on it: objects named by guest   *)
(* handles, and the points of the context they are bound to.  It runs the   *)
(* commands of a packet in order.  What the guest must never make it meet   *)
(* is recorded in faults.                                                   *)

\* An object: its kind, the slot or image that owns the handle, the
\* incarnation of that slot, and the resource it refers to.
Object(kind, owner, n, of) == <<kind, owner, n, of>>
ResourceOf(h) == h[4]

ViewPoints    == <<"view0", "view1">>
SamplerPoints == <<"sampler0", "sampler1">>
ResourcePoints == {"target", "color", "depth", "view0", "view1"}
ObjectPoints == {"vertex", "fragment", "blend", "raster", "sampler0", "sampler1"}
Points == ResourcePoints \cup ObjectPoints \cup {"constants"}

Create(hs)  == [op |-> "create", hs |-> hs]
Destroy(hs) == [op |-> "destroy", hs |-> hs]
Detach(r)   == [op |-> "detach", of |-> r]
Bind(at, h) == [op |-> "bind", at |-> at, h |-> h]
Constants(c) == [op |-> "constants", c |-> c]
Unbind(at)  == [op |-> "unbind", at |-> at]
Draw(sees, trusted) == [op |-> "draw", sees |-> sees, trusted |-> trusted]

NoHost == [live |-> {}, bound |-> [p \in Points |-> None], faults |-> {}]

\* SET_SAMPLER_VIEWS unbinds every view after the end of the update.
Bound(b, at, h) ==
  [p \in Points |-> IF p = at THEN h
                    ELSE IF at = "view0" /\ p = "view1" THEN None ELSE b[p]]

Fault(h, when, fault) == [h EXCEPT !.faults = IF when THEN @ \cup {fault} ELSE @]

\* The surface a presentation image lends to the slots it is mapped to.
LentSurface(h) == h[1] = "surface" /\ ResourceOf(h)[2] = 0

Step(h, c) ==
  CASE c.op = "create" ->
         LET twice == c.hs \cap h.live
             lent == {o \in twice : LentSurface(o)}
         IN  Fault(Fault([h EXCEPT !.live = @ \cup c.hs], twice # lent, "duplicate"),
                   lent # {}, "second surface")
    [] c.op = "destroy" ->
         Fault(Fault([h EXCEPT !.live = @ \ c.hs], ~(c.hs \subseteq h.live), "missing"),
               \E p \in Points \ {"constants"} : h.bound[p] \in c.hs, "dangling")
    [] c.op = "detach" ->
         Fault(h, \E o \in h.live : ResourceOf(o) = c.of,
               IF c.of[2] = 0 THEN "retained image" ELSE "retained resource")
    [] c.op = "bind" ->
         Fault([h EXCEPT !.bound = Bound(@, c.at, c.h)],
               c.h # None /\ c.h \notin h.live, "missing")
    [] c.op = "constants" -> [h EXCEPT !.bound["constants"] = c.c]
    [] c.op = "unbind" -> [h EXCEPT !.bound = [p \in Points |-> IF p \in c.at THEN None ELSE @[p]]]
    [] c.op = "draw" ->
         LET missed == {p \in DOMAIN c.sees : h.bound[p] # c.sees[p]}
         IN  Fault(Fault(h, ~(missed \subseteq c.trusted), "stale"),
                   missed \cap c.trusted # {}, "unrestored")

\* A packet runs after the one before it is done.
Run(h, packet) == CHOOSE end \in {FoldLeft(Step, start, packet) : start \in {h}} : TRUE

Execute(h, packets) == FoldLeft(Run, h, packets)

-----------------------------------------------------------------------------
(* The pass.                                                                *)

CONSTANT MaxDraws        \* MAX_IR_DRAWS_PER_SUBMISSION

Programmable(d) == d.kind = "programmable"

\* finish_pass: a programmable draw joins any chunk that has room, a fixed
\* draw only a chunk that begins with a fixed one.
PassChunks(draws) ==
  LET Flush(c, d) == /\ c # <<>>
                     /\ \/ Len(c) >= MaxDraws
                        \/ ~Programmable(d) /\ Programmable(c[1])
      Add(acc, d) == IF Flush(acc.open, d) THEN [done |-> Append(acc.done, acc.open), open |-> <<d>>]
                     ELSE [acc EXCEPT !.open = Append(@, d)]
      end == FoldLeft(Add, [done |-> <<>>, open |-> <<>>], draws)
  IN  Append(end.done, end.open)

-----------------------------------------------------------------------------
(* ProgrammableBindings, and the cache of the fixed path.                   *)

NoBindings == [pipeline |-> None, raster |-> None, constants |-> None, textures |-> <<None, None>>]
NoCache(vertex) ==
  [cmds |-> <<>>, blend |-> None, fragment |-> None, view |-> None, sampler |-> None,
   uniforms |-> None, vertex |-> vertex, programmable |-> FALSE, bindings |-> NoBindings,
   trusted |-> {}]

Emit(a, when, cmds) == IF when THEN [a EXCEPT !.cmds = @ \o cmds] ELSE a

\* Bindings above the slot are forgotten: the update unbound their views.
Rebound(textures, slot) == [i \in 1..2 |-> IF i > slot THEN None ELSE textures[i]]

\* push_programmable_texture_binding
TextureBinding(a, slot, view, sampler) ==
  LET was == a.bindings.textures[slot]
      newView == IF was = None THEN TRUE ELSE was[1] # view
      newSampler == IF was = None THEN TRUE ELSE was[2] # sampler
      kept == IF newView THEN Rebound(a.bindings.textures, slot) ELSE a.bindings.textures
      b == Emit(Emit(a, newView, <<Bind(ViewPoints[slot], view)>>),
                newSampler, <<Bind(SamplerPoints[slot], sampler)>>)
  IN  [b EXCEPT !.bindings.textures = [kept EXCEPT ![slot] = <<view, sampler>>]]

\* What the draw must find bound.
Sees(d, pass) ==
  LET fixed == [p \in {"vertex", "fragment", "blend", "raster", "constants"} |-> d[p]]
      views == [p \in {ViewPoints[i] : i \in DOMAIN d.views} |->
                   d.views[CHOOSE i \in DOMAIN d.views : ViewPoints[i] = p][1]]
      samplers == [p \in {SamplerPoints[i] : i \in {j \in DOMAIN d.views : d.views[j][2] # None}} |->
                   d.views[CHOOSE i \in DOMAIN d.views : SamplerPoints[i] = p][2]]
  IN  fixed @@ views @@ samplers @@ pass

\* push_programmable_draw
ProgrammableDraw(a, d, pass) ==
  LET key == <<d.vertex, d.fragment, d.blend>>
      newKey == a.bindings.pipeline # key
      b == Emit([a EXCEPT !.bindings.pipeline = key,
                          !.bindings.constants = IF newKey THEN None ELSE @],
                newKey, <<Bind("vertex", d.vertex), Bind("fragment", d.fragment),
                          Bind("blend", d.blend)>>)
      c == Emit(b, b.bindings.raster # d.raster, <<Bind("raster", d.raster)>>)
      e == Emit(c, c.bindings.constants # d.constants, <<Constants(d.constants)>>)
      f == [e EXCEPT !.bindings.raster = d.raster, !.bindings.constants = d.constants]
      g == FoldLeft(LAMBDA x, i : TextureBinding(x, i, d.views[i][1], d.views[i][2]), f,
                    [i \in DOMAIN d.views |-> i])
  IN  Emit(g, TRUE, <<Draw(Sees(d, pass), {})>>)

\* After a programmable draw the fixed path forgets what the draw replaced,
\* but for the view and the sampler, which it trusts to be bound still.
Replaced(a) ==
  [a EXCEPT !.programmable = TRUE, !.blend = None, !.fragment = None, !.uniforms = None,
            !.trusted = {"view0", "sampler0"}]

FixedDraw(a, d, pass) ==
  LET When(test, cmds) == IF test THEN cmds ELSE <<>>
      newShader == a.fragment # d.fragment
      uniforms == IF newShader THEN None ELSE a.uniforms
      textured == d.views # <<>>
      view == IF textured THEN d.views[1][1] ELSE a.view
      sampler == IF textured THEN d.views[1][2] ELSE a.sampler
      trusted == a.trusted \ ((IF a.view # view THEN {"view0"} ELSE {}) \cup
                               (IF a.sampler # sampler THEN {"sampler0"} ELSE {}))
  IN  [a EXCEPT
        !.programmable = FALSE, !.bindings = IF a.programmable THEN NoBindings ELSE @,
        !.blend = d.blend, !.fragment = d.fragment, !.uniforms = d.constants,
        !.view = view, !.sampler = sampler, !.trusted = trusted,
        !.cmds = @ \o When(a.programmable, <<Bind("vertex", a.vertex)>>)
                   \o When(a.blend # d.blend, <<Bind("blend", d.blend)>>)
                   \o <<Bind("raster", d.raster)>>
                   \o When(newShader, <<Bind("fragment", d.fragment)>>)
                   \o When(uniforms # d.constants, <<Constants(d.constants)>>)
                   \o When(a.view # view, <<Bind("view0", view)>>)
                   \o When(a.sampler # sampler, <<Bind("sampler0", sampler)>>)
                   \o <<Draw(Sees(d, pass), trusted)>>]

\* The draws of a chunk after push_ir_bind_pass_state.
EncodeDraws(draws, pass, vertex) ==
  LET One(a, d) == IF Programmable(d) THEN Replaced(ProgrammableDraw(a, d, pass))
                   ELSE FixedDraw(a, d, pass)
      start == <<Bind("vertex", vertex)>> \o
               [i \in 1..3 |-> LET p == <<"target", "color", "depth">>[i] IN Bind(p, pass[p])]
  IN  start \o FoldLeft(One, NoCache(vertex), draws).cmds
=============================================================================
