------------------------------- MODULE MCVirgl -------------------------------
(* The submission path of the VirGL backend: the packets a tracked stream is *)
(* cut into, the renderer's objects it creates and binds, and the queue and  *)
(* worker its chunks go through.  A behaviour is about one of them.          *)
EXTENDS SubmitMode, VirglObjects, NativeScheduler

-----------------------------------------------------------------------------
(* One presentation image, one import, a colour and a depth slot, a storage  *)
(* buffer, a fixed and a programmable pipeline.                              *)
CONSTANTS s1, t1, d1, sb, sm, f1, p1, p2, i1, x1

DrawOf(pipeline, textures, sampler, storage, constants) ==
  [pipeline |-> pipeline, textures |-> textures, sampler |-> sampler, storage |-> storage,
   constants |-> constants]
PassOf(target, color, depth, readonly, draws) ==
  [target |-> target, color |-> color, depth |-> depth, readonly |-> readonly, draws |-> draws]

\* A screen drawn by both paths, the programmable first; of two textures
\* only the one in the first slot changes.
Mixed == PassOf(s1, None, None, FALSE,
           <<DrawOf(p1, <<t1>>, sm, sb, "a"), DrawOf(p2, <<d1, t1>>, sm, None, "b"),
             DrawOf(f1, <<t1>>, sm, None, "a"), DrawOf(f1, <<t1>>, sm, None, "a")>>)
\* A slot rendered to before it is sampled.
Offscreen == PassOf(t1, None, d1, FALSE, <<DrawOf(f1, <<>>, None, None, "a")>>)
\* The attached depth sampled from its copy.
ReadDepth == PassOf(s1, None, d1, TRUE,
           <<DrawOf(p1, <<d1>>, sm, sb, "a"), DrawOf(p1, <<t1>>, sm, sb, "a")>>)
\* Fixed, programmable, fixed in one chunk.
Sandwich == PassOf(s1, None, None, FALSE,
           <<DrawOf(f1, <<t1>>, sm, None, "a"), DrawOf(p2, <<d1>>, sm, None, "b"),
             DrawOf(f1, <<t1>>, sm, None, "a")>>)
MCPassSets == {{Mixed}, {Offscreen, ReadDepth}, {Sandwich}}

-----------------------------------------------------------------------------
(* Three streams, two of which stage in the same arena and fill the          *)
(* submission budget, and one that exceeds the byte budget and is admitted   *)
(* alone.                                                                    *)
CONSTANTS q1, q2, q3, a1, c1

MCChunkArenas == q1 :> <<a1>> @@ q2 :> <<a1>> @@ q3 :> <<NoArena>>
MCBytes == q1 :> 1 @@ q2 :> 1 @@ q3 :> 4

-----------------------------------------------------------------------------

VARIABLE subject
virglVars == <<submitVars, objectVars, nativeVars, subject>>

VirglInit ==
  /\ SubmitInit /\ InitObjects /\ NativeInit
  /\ subject \in {"packets", "objects", "queue"}
  /\ subject # "objects" => passes = CHOOSE p \in PassSets : TRUE

VirglNext ==
  /\ UNCHANGED subject
  /\ \/ subject = "packets" /\ SubmitNext /\ UNCHANGED <<objectVars, nativeVars>>
     \/ subject = "objects" /\ NextObjects /\ UNCHANGED <<submitVars, nativeVars>>
     \/ subject = "queue" /\ NativeNext /\ UNCHANGED <<submitVars, objectVars>>

VirglSpec == VirglInit /\ [][VirglNext]_virglVars
=============================================================================
