------------------------------ MODULE SubmitMode ------------------------------
(***************************************************************************)
(* SubmitMode::Tracked: one stream of the VirGL backend from its first     *)
(* packet to the outcome the application gets                              *)
(* (crates/sgfx-backend-scarlet-virgl/src/completion.rs; its callers in    *)
(* virgl.rs).                                                              *)
(*                                                                         *)
(* The encoder prepares room for a packet, takes the arena range the       *)
(* packet's commands will name, and appends the packet; packets without    *)
(* uploads are appended directly.  flush hands the chunks to the           *)
(* scheduler, and finish turns what happened into Accepted, Busy or        *)
(* Rejected.  Streams follow one another and share the ring of arenas.     *)
(***************************************************************************)
EXTENDS Integers, Sequences, FiniteSets

CONSTANTS
    MaxTrackedBytes,   \* MAX_STREAM_BYTES
    UploadArenaCount, \* UPLOAD_ARENA_COUNT
    MaxCommandSize,   \* Queue::max_command_size: no packet is larger
    GpuLimits,        \* the limits check_async_support may return (external)
    GpuMaxCommand     \* GPU_MAX_OPAQUE_COMMAND_SIZE, the size of an arena

ASSUME SubmitModeAssumption ==
    /\ MaxTrackedBytes \in Nat \ {0}
    /\ UploadArenaCount \in Nat \ {0}
    /\ MaxCommandSize \in Nat \ {0}
    /\ GpuMaxCommand \in Nat /\ GpuMaxCommand >= MaxCommandSize
    /\ GpuLimits \subseteq Nat
    /\ \A n \in GpuLimits : n >= MaxCommandSize

-----------------------------------------------------------------------------
(***************************************************************************)
(* Packet-boundary batching of a stream into native chunks                 *)
(* (crates/sgfx-core/src/backend/support/packets.rs).                      *)
(*                                                                         *)
(* A stream's packets are collected in chunks of at most `limit' bytes; a  *)
(* chunk that has no room for the next packet is closed.  Every chunk      *)
(* stages its uploads in one arena of a ring, at increasing offsets.  The  *)
(* bytes of a chunk are abstracted to their number and the packets they    *)
(* hold; a packet is its size and the arena ranges its commands name.      *)
(* Operators give what a call leaves behind; their Fits conditions are the *)
(* calls that do not return Error::TooLarge.                               *)
(***************************************************************************)

NoRange == -1   \* Chunk::arena is None

EmptyChunk == [size |-> 0, packets |-> << >>, arena |-> NoRange]

NewPackets(n) ==
    [chunks |-> << >>, current |-> EmptyChunk,
     uploadOffset |-> 0, bytes |-> 0, limit |-> n]

FinishChunk(p) ==
    [p EXCEPT !.chunks = Append(@, p.current),
              !.current = EmptyChunk,
              !.uploadOffset = 0]

(* prepare: make room for a packet of n bytes.                             *)
PrepareFits(p, n) == n <= p.limit

MustRotate(p, n) == p.current.size + n > p.limit

Prepare(p, n) == IF MustRotate(p, n) THEN FinishChunk(p) ELSE p

(* upload_range: the next n bytes of the open chunk's arena.               *)
UploadFits(p, n) == p.uploadOffset + n <= p.limit

CurrentArena(p) == Len(p.chunks) % UploadArenaCount

(* Mutant: every upload starts at the front of the arena.                  *)
MutantUploadRange(p, n) == [p EXCEPT !.current.arena = CurrentArena(p)]

UploadRange(p, n) ==
    [p EXCEPT !.current.arena = CurrentArena(p), !.uploadOffset = @ + n]

(* append and append_owned, which differ only in who keeps the allocation. *)
AppendFits(p, n) == p.bytes + n <= MaxTrackedBytes /\ PrepareFits(p, n)

AppendPacket(p, packet) ==
    [Prepare(p, packet.size) EXCEPT
        !.current.size = @ + packet.size,
        !.current.packets = Append(@, packet),
        !.bytes = @ + packet.size]

(* finish: a stream has at least one chunk, so it has a completion.        *)
Finish(p) ==
    IF p.current.size > 0 \/ p.chunks = << >>
    THEN FinishChunk(p).chunks
    ELSE p.chunks

-----------------------------------------------------------------------------
VARIABLES
    stage,      \* where the call stands
    packets,    \* the staging of the stream under way
    packet,     \* the packet being encoded
    tooLarge,   \* SubmitMode::Tracked::too_large
    busy,       \* SubmitMode::Tracked::busy
    receipt,    \* SubmitMode::Tracked::receipt is Some
    arenas,     \* SubmitMode::Tracked::arenas
    ring,       \* IrResources::upload_arenas
    failedCall, \* the call's result is an error
    outcome,    \* what finish returned for the stream before
    encoded,    \* packets in the order they were encoded (history)
    admitted,   \* the chunks the scheduler took of this stream (history)
    answer,     \* what the scheduler said of this stream (history)
    device      \* the limit the device named for this stream (history)

modeVars == <<packets, packet, tooLarge, busy, receipt, arenas, failedCall>>
submitVars == <<modeVars, stage, ring, outcome, encoded, admitted, answer, device>>

NoPacket == [size |-> 0, payload |-> 0, uploads |-> {}]

AllArenas == [i \in 1..UploadArenaCount |-> i - 1]

RotateLeft(s) == Tail(s) \o <<Head(s)>>

SmallerOf(a, b) == IF a <= b THEN a ELSE b

-----------------------------------------------------------------------------
(* tracked and set_limit: packets are staged up to the device's limit.     *)
Tracked(n) ==
    /\ stage = "idle"
    /\ stage' = "encode"
    /\ packets' = NewPackets(SmallerOf(n, GpuMaxCommand))
    /\ packet' = NoPacket
    /\ tooLarge' = FALSE /\ busy' = FALSE /\ receipt' = FALSE
    /\ arenas' = << >>
    /\ failedCall' = FALSE
    /\ outcome' = "none"
    /\ encoded' = << >> /\ admitted' = << >> /\ answer' = "none"
    /\ device' = n
    /\ UNCHANGED ring

(* The stream ends in an error before it was flushed.                      *)
AbandonStream ==
    /\ stage' = "finish"
    /\ failedCall' = TRUE
    /\ UNCHANGED <<packets, packet, busy, receipt, arenas, ring, outcome,
                   encoded, admitted, answer, device>>

(* An allocation, a check of the encoder or a reservation fails.           *)
EncodingFails ==
    /\ stage \in {"encode", "prepared", "uploaded"}
    /\ AbandonStream
    /\ UNCHANGED tooLarge

(* The packet passes a bound of Packets (packet_error).                    *)
PacketTooLarge ==
    /\ tooLarge' = TRUE
    /\ AbandonStream

(* prepare_ir_upload_arena: the first upload of a stream takes the ring,   *)
(* which the next stream starts one arena further.                         *)
PrepareUploadArena ==
    /\ stage = "encode"
    /\ arenas = << >>
    /\ arenas' = ring
    /\ ring' = RotateLeft(ring)
    /\ UNCHANGED <<stage, packets, packet, tooLarge, busy, receipt, failedCall,
                   outcome, encoded, admitted, answer, device>>

(* prepare_packet for a packet that uploads `payload' of its bytes.        *)
PreparePacket(size, payload) ==
    /\ stage = "encode"
    /\ payload > 0 => arenas # << >>
    /\ IF PrepareFits(packets, size)
       THEN /\ packets' = Prepare(packets, size)
            /\ packet' = [size |-> size, payload |-> payload, uploads |-> {}]
            /\ stage' = "prepared"
            /\ UNCHANGED <<tooLarge, busy, receipt, arenas, ring, failedCall,
                           outcome, encoded, admitted, answer, device>>
       ELSE PacketTooLarge

(* upload_range: the commands will name this arena and offset.             *)
TakeUploadRange ==
    /\ stage = "prepared"
    /\ packet.payload > 0
    /\ IF UploadFits(packets, packet.payload)
       THEN /\ packet' = [packet EXCEPT !.uploads =
                  {[arena |-> arenas[CurrentArena(packets) + 1],
                    first |-> packets.uploadOffset,
                    last |-> packets.uploadOffset + packet.payload - 1]}]
            /\ packets' = UploadRange(packets, packet.payload)
            /\ stage' = "uploaded"
            /\ UNCHANGED <<tooLarge, busy, receipt, arenas, ring, failedCall,
                           outcome, encoded, admitted, answer, device>>
       ELSE PacketTooLarge

(* submit, submit_owned.                                                   *)
Submit(p) ==
    IF AppendFits(packets, p.size)
    THEN /\ packets' = AppendPacket(packets, p)
         /\ encoded' = Append(encoded, p)
         /\ packet' = NoPacket
         /\ stage' = "encode"
         /\ UNCHANGED <<tooLarge, busy, receipt, arenas, ring, failedCall,
                        outcome, admitted, answer, device>>
    ELSE PacketTooLarge

SubmitPrepared ==
    /\ stage = (IF packet.payload > 0 THEN "uploaded" ELSE "prepared")
    /\ Submit(packet)

(* Texture writes and copies are appended without preparation.             *)
SubmitDirect(size) ==
    /\ stage = "encode"
    /\ Submit([NoPacket EXCEPT !.size = size])

-----------------------------------------------------------------------------
(* flush and finish.                                                       *)

(* A chunk is sent with the arena its uploads were placed in.              *)
Flushed(chunks) ==
    [i \in 1..Len(chunks) |->
        [chunks[i] EXCEPT !.arena = IF @ = NoRange THEN @ ELSE arenas[@ + 1]]]

(* The sizes NativeScheduler::enqueue adds up.                             *)
StreamBytes(chunks) ==
    LET sum[i \in 0..Len(chunks)] ==
          IF i = 0 THEN 0 ELSE sum[i - 1] + chunks[i].size
    IN  sum[Len(chunks)]

RefuseBusy == busy' = TRUE

(* flush replaces the packets by Packets::new(0) and offers the chunks:    *)
(* the scheduler admits all of them, or is Busy, out of memory or failed.  *)
Flush ==
    /\ stage = "encode"
    /\ packets' = NewPackets(0)
    /\ stage' = "finish"
    /\ LET chunks == Flushed(Finish(packets))
       IN  IF StreamBytes(chunks) > MaxTrackedBytes
           THEN /\ answer' = "too large"
                /\ tooLarge' = TRUE /\ failedCall' = TRUE
                /\ UNCHANGED <<busy, receipt, admitted>>
           ELSE \/ /\ answer' = "admitted"
                   /\ receipt' = TRUE /\ admitted' = chunks
                   /\ UNCHANGED <<busy, tooLarge, failedCall>>
                \/ /\ answer' = "busy"
                   /\ RefuseBusy /\ failedCall' = TRUE
                   /\ UNCHANGED <<receipt, tooLarge, admitted>>
                \/ /\ answer' = "failed"
                   /\ failedCall' = TRUE
                   /\ UNCHANGED <<busy, receipt, tooLarge, admitted>>
    /\ UNCHANGED <<packet, arenas, ring, outcome, encoded, device>>

(* finish.                                                                 *)
Outcome ==
    CASE receipt /\ ~failedCall -> "Accepted"
      [] receipt /\ failedCall -> "Failed"
      [] ~receipt /\ busy -> "Busy"
      [] ~receipt /\ ~busy /\ tooLarge -> "SubmissionTooLarge"
      [] OTHER -> "Rejected"

FinishMode ==
    /\ stage = "finish"
    /\ outcome' = Outcome
    /\ stage' = "idle"
    /\ UNCHANGED <<modeVars, ring, encoded, admitted, answer, device>>

-----------------------------------------------------------------------------
SubmitInit ==
    /\ stage = "idle"
    /\ packets = NewPackets(GpuMaxCommand)
    /\ packet = NoPacket
    /\ tooLarge = FALSE /\ busy = FALSE /\ receipt = FALSE
    /\ arenas = << >>
    /\ ring = AllArenas
    /\ failedCall = FALSE
    /\ outcome = "none"
    /\ encoded = << >> /\ admitted = << >> /\ answer = "none"
    /\ device = GpuMaxCommand

SubmitNext ==
    \/ \E n \in GpuLimits : Tracked(n)
    \/ EncodingFails
    \/ PrepareUploadArena
    \/ \E size \in 1..MaxCommandSize :
          \/ \E payload \in 0..(size - 1) : PreparePacket(size, payload)
          \/ SubmitDirect(size)
    \/ TakeUploadRange
    \/ SubmitPrepared
    \/ Flush
    \/ FinishMode

SubmitSpec == SubmitInit /\ [][SubmitNext]_submitVars

-----------------------------------------------------------------------------
(* Properties.                                                             *)

(* The packets of a sequence of chunks, in order.                          *)
PacketsOf(chunks) ==
    LET flat[i \in 0..Len(chunks)] ==
          IF i = 0 THEN << >> ELSE flat[i - 1] \o chunks[i].packets
    IN  flat[Len(chunks)]

(* What the scheduler takes is the stream the encoder wrote: every packet, *)
(* once, in order, in chunks no larger than the device takes, at least one *)
(* chunk (there is a checkpoint for an empty stream too).                  *)
AdmittedIsEncoded ==
    receipt =>
        /\ Len(admitted) > 0
        /\ PacketsOf(admitted) = encoded
        /\ \A i \in 1..Len(admitted) : admitted[i].size <= device

Overlap(u, v) == u.first <= v.last /\ v.first <= u.last

(* A packet's commands write and copy within the arena that is sent with   *)
(* the packet's chunk, inside its capacity, and no two packets of a chunk  *)
(* stage in the same bytes: preparing a packet chooses the chunk before    *)
(* the arena and the offset are chosen.                                    *)
UploadsStayInTheirArena ==
    \A i \in 1..Len(admitted) :
        LET inChunk == admitted[i].packets IN
        \A j \in 1..Len(inChunk) : \A u \in inChunk[j].uploads :
            /\ u.arena = admitted[i].arena
            /\ u.last < GpuMaxCommand
            /\ \A k \in 1..Len(inChunk) :
                  k # j => \A v \in inChunk[k].uploads : ~Overlap(u, v)

(* SubmissionTooLarge means the stream is: its packets, with the one       *)
(* refused, pass MAX_STREAM_BYTES.  No arena runs out of room and no chunk *)
(* of packets each within max_command_size is refused.                     *)
TooLargeMeansStreamBudget ==
    tooLarge =>
        \E size \in 1..MaxCommandSize :
            StreamBytes(encoded) + size > MaxTrackedBytes

(* finish tells the application what the scheduler decided: Accepted for   *)
(* a stream it admitted and only then, Busy, which invites a retry, when   *)
(* the scheduler had no room and never for a stream that cannot fit.       *)
OutcomeIsTruthful ==
    stage = "idle" /\ outcome # "none" =>
        /\ outcome = "Accepted" <=> answer = "admitted"
        /\ outcome = "Busy" <=> answer = "busy"
        /\ outcome = "SubmissionTooLarge" <=> tooLarge
        /\ outcome # "Failed"

(* Packets::new asserts that its limit is positive.                        *)
LimitIsPositive == packets.limit > 0

(* The invariant of a tracked submission, from the encoder's packets to    *)
(* the outcome the application sees (SubmitMode, Packets, submit_batch).   *)
SubmitInvariant ==
    AdmittedIsEncoded /\ UploadsStayInTheirArena /\ TooLargeMeansStreamBudget /\ OutcomeIsTruthful

=============================================================================
