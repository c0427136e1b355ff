----------------------------- MODULE DriverPlugin -----------------------------
(* The VirGL plugin behind the driver ABI: the handlers of its two tables, the *)
(* high-level session (lib.rs) and the low-level resources and queues          *)
(* (driver.rs), and the native caches they release (ir_execute.rs and the      *)
(* session of the VirGL crate).  Every handler is an operator from the state   *)
(* of one plugin object to the set of its possible results; a result is a      *)
(* status and the state left behind.                                           *)
EXTENDS ResourceMirror

(* A plugin object: its mirror, the identities with native objects, the        *)
(* textures mapped to a shared image, the textures imported from a handle, and *)
(* whether a native failure has made the caches unusable.                      *)
NewObject(m) ==
    [mirror |-> m, native |-> {}, mapped |-> {}, imported |-> {}, failed |-> FALSE]

Result(status, p) == [status |-> status, p |-> p]
Refuse(status, p) == {Result(status, p)}

(* run_retirement: the native call succeeds, or its failure makes the caches   *)
(* unusable for good.                                                          *)
run_retirement(p, done) ==
    {Result("ok", done), Result("lost", [p EXCEPT !.failed = TRUE])}

-------------------------------------------------------------------------------
(* The native caches (IrResources).                                            *)

(* A mapped texture is refused; an imported one reaches the backend, which     *)
(* refuses it there, and that counts as a failed retirement.                   *)
ir_release_texture(p, gen) ==
    CASE p.failed -> Refuse("lost", p)
      [] ~p.failed /\ gen \in p.mapped -> Refuse("invalid", p)
      [] ~p.failed /\ gen \notin p.mapped /\ gen \in p.imported ->
            Refuse("invalid", [p EXCEPT !.failed = TRUE])
      [] OTHER -> run_retirement(p, [p EXCEPT !.native = @ \ {[kind |-> "texture", gen |-> gen]}])

ir_release_buffer(p, gen) ==
    IF p.failed
    THEN Refuse("lost", p)
    ELSE run_retirement(p, [p EXCEPT !.native = @ \ {[kind |-> "buffer", gen |-> gen]}])

ir_release_render(p, gen) ==
    IF p.failed
    THEN Refuse("lost", p)
    ELSE run_retirement(p, [p EXCEPT !.native = @ \ {[kind |-> "render", gen |-> gen]}])

(* Shader modules and compute pipelines have no native object of their own.    *)
ir_release_compute(p) == Refuse(IF p.failed THEN "lost" ELSE "ok", p)
ir_release_shader(p) == Refuse(IF p.failed THEN "lost" ELSE "ok", p)

ir_release(p, k) ==
    LET gen == p.mirror.rows[k].gen
    IN  CASE k = "texture" -> ir_release_texture(p, gen)
          [] k = "buffer" -> ir_release_buffer(p, gen)
          [] k = "render" -> ir_release_render(p, gen)
          [] k = "compute" -> ir_release_compute(p)
          [] k = "shader" -> ir_release_shader(p)

-------------------------------------------------------------------------------
(* Metadata synchronization, the same in both tables.                          *)

ReleaseNext(results, k, gone) ==
    UNION {IF r.status = "ok" /\ k \in gone THEN ir_release(r.p, k) ELSE {r} : r \in results}

(* Release the retired rows in order; the first refusal ends the call with     *)
(* the prefix released and the mirror untouched, so that it is tried again.    *)
ReleaseRetired(p, gone) ==
    LET textures == ReleaseNext({Result("ok", p)}, "texture", gone)
        buffers == ReleaseNext(textures, "buffer", gone)
        renders == ReleaseNext(buffers, "render", gone)
        computes == ReleaseNext(renders, "compute", gone)
    IN  ReleaseNext(computes, "shader", gone)

Import(p, s) ==
    LET m == sync_abi_snapshot(p.mirror, s)
    IN  Result(IF m.poisoned THEN "invalid" ELSE "ok", [p EXCEPT !.mirror = m])

(* Mutant: retired rows are released under accepted work.                      *)
MutantMustWait(gone, idle) == FALSE

MustWait(gone, idle) == gone # {} /\ ~idle

sync_resources(p, s, idle) ==
    LET gone == abi_retired_resources(p.mirror, s) \cup abi_retired_programs(p.mirror, s)
    IN  CASE p.mirror.poisoned -> Refuse("lost", p)
          [] ~p.mirror.poisoned /\ s.revision < p.mirror.revision -> Refuse("invalid", p)
          [] ~p.mirror.poisoned /\ s.revision = p.mirror.revision -> Refuse("ok", p)
          [] ~p.mirror.poisoned /\ s.revision > p.mirror.revision ->
                IF ScanFails(p.mirror, s)
                THEN Refuse("invalid", p)
                ELSE IF MustWait(gone, idle)
                     THEN Refuse("busy", p)
                     ELSE {IF r.status = "ok" THEN Import(r.p, s) ELSE r
                           : r \in ReleaseRetired(p, gone)}

-------------------------------------------------------------------------------
(* The low-level table (driver.rs).                                            *)

create_resources(s) ==
    LET p == NewObject(sync_abi_snapshot(NewMirror, s))
    IN  Refuse(IF p.mirror.poisoned THEN "invalid" ELSE "ok", p)

(* A handler that takes a slot: refused by a poisoned mirror or a vacant slot. *)
OnSlot(p, k, results) ==
    CASE p.mirror.poisoned -> Refuse("lost", p)
      [] ~p.mirror.poisoned /\ ~Active(p.mirror.rows[k]) -> Refuse("invalid", p)
      [] OTHER -> results

WhenIdle(p, idle, results) == IF idle THEN results ELSE Refuse("busy", p)

release_buffer(p, idle) == OnSlot(p, "buffer", WhenIdle(p, idle, ir_release(p, "buffer")))

release_texture(p, idle) == OnSlot(p, "texture", WhenIdle(p, idle, ir_release(p, "texture")))

release_bind_group(p) == OnSlot(p, "group", Refuse("ok", p))

(* A program is named by slot and generation.                                  *)
OnProgram(p, k, gen, results) ==
    OnSlot(p, k, IF p.mirror.rows[k].gen # gen THEN Refuse("invalid", p) ELSE results)

release_shader_module(p, gen) == OnProgram(p, "shader", gen, ir_release(p, "shader"))
release_compute_pipeline(p, gen) == OnProgram(p, "compute", gen, ir_release(p, "compute"))
release_programmable_render_pipeline(p, gen) ==
    OnProgram(p, "render", gen, ir_release(p, "render"))

(* Validation compiles what the slot holds and changes nothing.                *)
validate(p, k) ==
    OnSlot(p, k, {Result("ok", p), Result("unsupported", p), Result("invalid", p)})

read_buffer(p) == OnSlot(p, "buffer", {Result("ok", p), Result("lost", p)})

read_texture(p) == OnSlot(p, "texture", {Result("ok", p), Result("lost", p)})

(* A texture takes one image and an image one texture; the texture's format,   *)
(* usage and extent may also refuse it.                                        *)
map_image(p, sameContext) ==
    LET gen == p.mirror.rows["texture"].gen
    IN  OnSlot(p, "texture",
            IF ~sameContext \/ p.mapped # {}
            THEN Refuse("invalid", p)
            ELSE {Result("ok", [p EXCEPT !.mapped = @ \cup {gen}]), Result("invalid", p)})

unmap_image(p) ==
    LET gen == p.mirror.rows["texture"].gen
    IN  OnSlot(p, "texture",
            CASE p.failed -> Refuse("lost", p)
              [] ~p.failed /\ gen \notin p.mapped -> Refuse("invalid", p)
              [] OTHER -> run_retirement(p, [p EXCEPT !.mapped = @ \ {gen}]))

(* What work on some identities reaches: a group brings what it names.         *)
Reached(rows, uses) ==
    uses \cup UNION {rows[id.kind].desc : id \in {u \in uses : u.kind = "group"
                                                               /\ Active(rows["group"])}}

HasNative(p, id) ==
    /\ SlotOf(id) \in {"texture", "buffer", "render"}
    /\ SlotOf(id) = "texture" => id.gen \notin p.mapped \cup p.imported

NativeOf(p, ids) == {[kind |-> SlotOf(id), gen |-> id.gen] : id \in {i \in ids : HasNative(p, i)}}

(* Every identity of the batch, and every one its groups name, is checked when *)
(* it is used.                                                                 *)
Names(rows, uses) ==
    /\ \A id \in uses : Resolves(rows, id)
    /\ \A id \in Reached(rows, uses) : Resolves(rows, id)

(* A submission that is accepted creates the native objects it needs.  A       *)
(* failure after a prefix was accepted leaves them and stops the caches.       *)
submit(p, uses) ==
    LET made == [p EXCEPT !.native = @ \cup NativeOf(p, Reached(p.mirror.rows, uses))]
    IN  CASE p.mirror.poisoned -> Refuse("lost", p)
          [] ~p.mirror.poisoned /\ ~Names(p.mirror.rows, uses) -> Refuse("invalid", p)
          [] ~p.mirror.poisoned /\ Names(p.mirror.rows, uses) ->
                IF p.failed
                THEN Refuse("lost", p)
                ELSE {Result("accepted", made), Result("busy", p), Result("invalid", p),
                      Result("partial", [made EXCEPT !.failed = TRUE])}

(* Dropping an object waits for its work and retires everything it owns.       *)
drop_resources(p) == [p EXCEPT !.native = {}, !.mapped = {}, !.imported = {}]

-------------------------------------------------------------------------------
(* The session table (lib.rs).                                                 *)

(* A session maps an image to each target before it exists; a failure on the   *)
(* way retires what was made.                                                  *)
create_session(s, target) ==
    LET p == NewObject(sync_abi_snapshot(NewMirror, s))
    IN  CASE p.mirror.poisoned -> Refuse("invalid", p)
          [] ~p.mirror.poisoned /\ target /\ ~Active(p.mirror.rows["texture"]) ->
                Refuse("invalid", p)
          [] OTHER ->
                {Result("ok", IF target
                              THEN [p EXCEPT !.mapped = {p.mirror.rows["texture"].gen}]
                              ELSE p),
                 Result("invalid", p)}

(* Dropping a session also returns its imports and its images' owners.         *)
drop_session(p) == drop_resources(p)

(* Importing takes the raw handle before anything is checked, so that whatever *)
(* fails afterwards closes it.                                                 *)
TakesHandle(p) == TRUE

import_bgra(p) ==
    LET gen == p.mirror.rows["texture"].gen
    IN  CASE ~Active(p.mirror.rows["texture"]) -> Refuse("invalid", p)
          [] Active(p.mirror.rows["texture"]) /\ p.failed -> Refuse("lost", p)
          [] OTHER ->
                IF gen \in p.imported \cup p.mapped
                   \/ [kind |-> "texture", gen |-> gen] \in p.native
                THEN Refuse("invalid", p)
                ELSE {Result("ok", [p EXCEPT !.imported = @ \cup {gen}]),
                      Result("invalid", p),
                      Result("lost", [p EXCEPT !.failed = TRUE])}

release_import(p) ==
    LET gen == p.mirror.rows["texture"].gen
    IN  CASE ~Active(p.mirror.rows["texture"]) -> Refuse("invalid", p)
          [] Active(p.mirror.rows["texture"]) /\ p.failed -> Refuse("lost", p)
          [] Active(p.mirror.rows["texture"]) /\ ~p.failed /\ gen \notin p.imported ->
                Refuse("invalid", p)
          [] OTHER -> run_retirement(p, [p EXCEPT !.imported = @ \ {gen}])

(* The shared image of a target and its pixels.                                *)
image(p) ==
    LET live == Active(p.mirror.rows["texture"])
                    /\ p.mirror.rows["texture"].gen \in p.mapped
    IN  Refuse(IF live THEN "ok" ELSE "invalid", p)

readback(p) ==
    LET live == Active(p.mirror.rows["texture"])
                    /\ p.mirror.rows["texture"].gen \in p.mapped
    IN  IF live THEN {Result("ok", p), Result("lost", p)} ELSE Refuse("invalid", p)

(* The synchronous execution waits for the work it submits.                    *)
execute(p, uses) ==
    LET made == [p EXCEPT !.native = @ \cup NativeOf(p, Reached(p.mirror.rows, uses))]
    IN  CASE p.mirror.poisoned -> Refuse("lost", p)
          [] ~p.mirror.poisoned /\ ~Names(p.mirror.rows, uses) -> Refuse("invalid", p)
          [] OTHER ->
                IF p.failed
                THEN Refuse("lost", p)
                ELSE {Result("ok", made), Result("invalid", p),
                      Result("lost", [made EXCEPT !.failed = TRUE])}

=============================================================================
