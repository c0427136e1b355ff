----------------------------- MODULE Swapchain -------------------------------
(* Window-system integration: surfaces, swapchains, acquisition,            *)
(* presentation.                                                            *)
(*                                                                          *)
(* Application threads and the queue thread reach a swapchain through calls *)
(* that the device worker runs one at a time; between two calls of one      *)
(* operation anything may happen.  The compositor is another process: it    *)
(* keeps the buffers committed to it, displays the last and releases those  *)
(* before it by events.  Two window systems share the code: SWS (one event  *)
(* queue per surface, shared by its swapchains) and Wayland (one queue and  *)
(* one frame callback per swapchain).  Pixels, formats and the checks of    *)
(* creation parameters are left out; a size is a member of Sizes.           *)
EXTENDS Naturals, Sequences, FiniteSets, SequencesExt, Absent

CONSTANTS
  Surfaces, Chains,       \* handles; a handle is used once, as next_id gives it
  Count,                  \* images of a swapchain
  Sizes,
  SystemOf,               \* [Surfaces -> {"sws", "wayland"}]
  MaxSerial, MaxPackets   \* bounds

ASSUME SwapchainAssumption ==
  /\ Count \in 2..8
  /\ SystemOf \in [Surfaces -> {"sws", "wayland"}]

Indices == 1..Count
Buffer(c, i) == <<c, i>>
Sws(s) == SystemOf[s] = "sws"

VARIABLES
  surface,    \* [Surfaces -> SurfaceWindow with the compositor's side of it, or None]
  chain,      \* [Chains -> Swapchain with its Window, or None]
  usedChains, \* handles that were handed out
  creating,   \* vkCreateSwapchainKHR between its checks and the worker
  acquiring,  \* vkAcquireNextImageKHR of the application thread
  owned,      \* images the application may draw to
  presents,   \* presentation packets on the queue
  presenting  \* the packet the queue thread executes

swapVars == <<surface, chain, usedChains, creating, acquiring, owned, presents, presenting>>

-----------------------------------------------------------------------------
(* Window: the part of a swapchain that talks to the compositor.            *)

NewSurface(size) ==
  [lost |-> FALSE, serial |-> 0, pending |-> <<>>, retired |-> {}, listed |-> TRUE,
   \* compositor
   size |-> size, events |-> <<>>, held |-> <<>>, imported |-> {}, owes |-> {}]

NewWindow(c, s, size) ==
  [chain |-> c, surface |-> s, extent |-> size, lost |-> FALSE, frame |-> FALSE,
   queued |-> [i \in Indices |-> None]]

Outcome(sf, w, err) == [sf |-> sf, w |-> w, err |-> err]

\* sws_gpu_destroy: the compositor drops its import of the buffer.
GpuDestroy(sf, buffer) == [sf EXCEPT !.imported = @ \ {buffer}]

\* A release or an error of a buffer whose swapchain is gone.
ReleaseRetired(sf, event) ==
  LET entries == {r \in sf.retired : r.buffer = event.buffer /\ r.serial = event.serial}
  IN  IF entries = {} THEN [sf EXCEPT !.pending = Append(@, event)]
      ELSE [GpuDestroy(sf, event.buffer) EXCEPT !.retired = @ \ entries]

\* The loop over sws_gpu_poll: it stops at a loss.
PollAll(sf) ==
  LET Losses == {n \in DOMAIN sf.events : sf.events[n].kind = "lost"}
      Polled(n) == FoldLeft(ReleaseRetired, [sf EXCEPT !.events = SubSeq(@, n + 1, Len(@))],
                            SubSeq(sf.events, 1, n))
      First == CHOOSE n \in Losses : \A m \in Losses : n <= m
  IN  IF Losses = {} THEN Polled(Len(sf.events))
      ELSE [Polled(First - 1) EXCEPT !.events = SubSeq(@, 2, Len(@)), !.lost = TRUE]

\* What dispatch does with one event of its own generation.
Receive(w, event) ==
  LET i == event.buffer[2]
  IN  CASE w.queued[i] # event.serial -> w
        [] event.kind = "release"     -> [w EXCEPT !.queued[i] = None]
        [] OTHER                      -> [w EXCEPT !.lost = TRUE]

\* SurfaceWindow::events for one generation; a failing receiver leaves the rest.
Events(sf, w) ==
  LET Step(acc, event) ==
        IF event.buffer[1] # w.chain \/ acc.w.lost
        THEN [acc EXCEPT !.sf.pending = Append(@, event)]
        ELSE [acc EXCEPT !.w = Receive(acc.w, event)]
      Reported(o) == IF o.w.lost THEN [o EXCEPT !.err = "SURFACE_LOST"] ELSE o
      After(polled) ==
        IF polled.lost THEN Outcome(polled, w, "SURFACE_LOST")
        ELSE Reported(FoldLeft(Step, Outcome([polled EXCEPT !.pending = <<>>], w, None), polled.pending))
  IN  After(PollAll(sf))

DispatchSws(sf, w) ==
  LET Fitting(o) == IF o.err = None /\ o.sf.size # w.extent THEN [o EXCEPT !.err = "OUT_OF_DATE"] ELSE o
  IN  IF sf.lost \/ w.lost THEN Outcome(sf, w, "SURFACE_LOST") ELSE Fitting(Events(sf, w))

\* sgfx_wayland_dispatch: the listeners of this context's queue.
DispatchWayland(sf, w) ==
  LET Mine(e) == e.buffer[1] = w.chain
      Listener(v, e) == CASE e.kind = "release" -> [v EXCEPT !.queued[e.buffer[2]] = None]
                          [] e.kind = "frame"   -> [v EXCEPT !.frame = FALSE]
                          [] OTHER              -> [v EXCEPT !.lost = TRUE]
      rest == [sf EXCEPT !.events = SelectSeq(@, LAMBDA e : ~Mine(e))]
      Reported(heard) == Outcome(rest, heard, IF heard.lost THEN "SURFACE_LOST" ELSE None)
  IN  IF w.lost THEN Outcome(sf, w, "SURFACE_LOST")
      ELSE Reported(FoldLeft(Listener, w, SelectSeq(sf.events, Mine)))

DispatchEvents(sf, w) == IF Sws(w.surface) THEN DispatchSws(sf, w) ELSE DispatchWayland(sf, w)

Available(w, i) == ~w.lost /\ w.queued[i] = None

\* sws_gpu_commit and wl_surface_commit: the compositor has the buffer now.
Commit(sf, w, i) ==
  [sf EXCEPT !.serial = @ + 1,
             !.held = Append(@, [buffer |-> Buffer(w.chain, i), serial |-> sf.serial + 1]),
             !.owes = IF Sws(w.surface) THEN @ ELSE @ \cup {w.chain}]

PresentSws(sf, w, i) ==
  LET After(o) ==
        IF o.err # None THEN o
        ELSE IF ~Available(o.w, i) THEN [o EXCEPT !.err = "INVALID"]
        ELSE Outcome(Commit(o.sf, o.w, i), [o.w EXCEPT !.queued[i] = o.sf.serial + 1], None)
  IN  After(DispatchSws(sf, w))

PresentWayland(sf, w, i) ==
  LET After(o) ==
        IF o.err # None THEN o
        ELSE IF o.w.frame THEN [o EXCEPT !.err = "NOT_READY"]
        ELSE IF o.w.queued[i] # None THEN [o EXCEPT !.err = "SURFACE_LOST"]
        ELSE Outcome(Commit(o.sf, o.w, i), [o.w EXCEPT !.queued[i] = o.sf.serial + 1, !.frame = TRUE], None)
  IN  After(DispatchWayland(sf, w))

WindowPresent(sf, w, i) == IF Sws(w.surface) THEN PresentSws(sf, w, i) ELSE PresentWayland(sf, w, i)

\* Drop for Window: SWS keeps what is displayed until its release is seen.
(* Mutant: every buffer is destroyed with its swapchain.                    *)
MutantDropSws(sf, w) ==
  LET o == DispatchSws(sf, w)
  IN  [o.sf EXCEPT !.imported = {b \in @ : b[1] # w.chain}]
DropSws(sf, w) ==
  LET Busy(v) == {i \in Indices : v.queued[i] # None}
      Retire(o) ==
        [o.sf EXCEPT !.imported = {b \in @ : b[1] # w.chain \/ b[2] \in Busy(o.w)},
                     !.retired  = @ \cup {[buffer |-> Buffer(w.chain, i), serial |-> o.w.queued[i],
                                           lost |-> o.w.lost] : i \in Busy(o.w)}]
  IN  Retire(DispatchSws(sf, w))
\* sgfx_wayland_destroy.
DropWayland(sf, w) ==
  LET Other(e) == e.buffer[1] # w.chain
  IN  [sf EXCEPT !.imported = {b \in @ : b[1] # w.chain},
                 !.events = SelectSeq(@, Other), !.owes = @ \ {w.chain}]
\* Drop for SurfaceWindow, when its handle and its last window are gone.
\* A creation under way holds the window too.
Windows(chains, s) == {c \in Chains : chains[c] # None /\ chains[c].w.surface = s}
Creating(s) == IF creating # None /\ creating.surface = s THEN {creating.chain} ELSE {}
DropSurface(sf, windows) ==
  IF sf.listed \/ windows # {} THEN sf
  ELSE [sf EXCEPT !.imported = @ \ {r.buffer : r \in sf.retired}, !.retired = {}]
DropWindow(sf, w) ==
  IF Sws(w.surface) THEN DropSws(sf, w) ELSE DropWayland(sf, w)

-----------------------------------------------------------------------------
(* Surfaces.                                                                *)

\* insert_platform_surface, from any of the three create_surface functions.
CreateSurface(s, size) ==
  /\ surface[s] = None
  /\ surface' = [surface EXCEPT ![s] = NewSurface(size)]
  /\ UNCHANGED <<chain, usedChains, creating, acquiring, owned, presents, presenting>>

\* vkDestroySurfaceKHR: windows of live swapchains keep theirs.
DestroySurface(s) ==
  /\ surface[s] # None /\ surface[s].listed
  /\ surface' = [surface EXCEPT ![s] = DropSurface([@ EXCEPT !.listed = FALSE], Windows(chain, s) \cup Creating(s))]
  /\ UNCHANGED <<chain, usedChains, creating, acquiring, owned, presents, presenting>>

-----------------------------------------------------------------------------
(* Creation and destruction of swapchains.                                  *)

\* The checks on the calling thread: the surface, and for SWS its extents.
BeginCreate(c, s, size, old) ==
  /\ creating = None /\ c \notin usedChains
  /\ surface[s] # None /\ surface[s].listed
  /\ usedChains' = usedChains \cup {c}
  /\ surface' = [surface EXCEPT ![s] = IF Sws(s) /\ ~@.lost THEN PollAll(@) ELSE @]
  /\ creating' = IF Sws(s) /\ (surface'[s].lost \/ surface[s].size # size) THEN None
                 ELSE [chain |-> c, surface |-> s, extent |-> size, old |-> old]
  /\ UNCHANGED <<chain, acquiring, owned, presents, presenting>>

NewSwapchain(w) ==
  [w |-> w, acquired |-> [i \in Indices |-> FALSE], pendingPresent |-> [i \in Indices |-> FALSE],
   presentError |-> None, next |-> 1]

OldFits(old, s) == old = None \/ (chain[old] # None /\ chain[old].w.surface = s)

\* The worker's part.  With `fails`, one of its images cannot be defined,
\* allocated, mapped or registered: what was made is taken back.
CreateSwapchain(fails) ==
  /\ creating # None
  /\ creating' = None
  /\ LET s  == creating.surface
         w  == NewWindow(creating.chain, s, creating.extent)
         polls == OldFits(creating.old, s) /\ ~surface[s].lost
     IN  \E sf \in {IF Sws(s) /\ polls THEN PollAll(surface[s]) ELSE surface[s]} :
         \E ok \in {polls /\ (Sws(s) => sf.size = creating.extent /\ ~sf.lost)} :
         /\ surface' = [surface EXCEPT ![s] =
              IF ~ok \/ fails
              THEN DropSurface(IF ok THEN DropWindow(sf, w) ELSE sf, Windows(chain, s))
              ELSE [sf EXCEPT !.imported = @ \cup {Buffer(w.chain, i) : i \in Indices}]]
         /\ chain' = IF ok /\ ~fails THEN [chain EXCEPT ![w.chain] = NewSwapchain(w)] ELSE chain
  /\ UNCHANGED <<usedChains, acquiring, owned, presents, presenting>>

\* vkDestroySwapchainKHR: the images are released after the GPU is done with
\* them, then the window is dropped.
DestroySwapchain(c) ==
  /\ chain[c] # None
  /\ acquiring # None => acquiring.chain # c
  /\ chain' = [chain EXCEPT ![c] = None]
  /\ LET s == chain[c].w.surface
         dropped == DropWindow(surface[s], chain[c].w)
     IN  surface' = [surface EXCEPT ![s] = DropSurface(dropped, (Windows(chain, s) \ {c}) \cup Creating(s))]
  /\ owned' = {x \in owned : x[1] # c}
  /\ UNCHANGED <<usedChains, creating, acquiring, presents, presenting>>

-----------------------------------------------------------------------------
(* vkAcquireNextImageKHR.                                                   *)

BeginAcquire(c) ==
  /\ acquiring = None /\ c \in usedChains
  /\ acquiring' = [chain |-> c, index |-> None]
  /\ UNCHANGED <<surface, chain, usedChains, creating, owned, presents, presenting>>

\* Round robin from next_image.
Candidate(k, w) ==
  LET order == [n \in Indices |-> ((k.next + n - 2) % Count) + 1]
      free  == SelectSeq(order, LAMBDA i : ~k.acquired[i] /\ Available(w, i))
  IN  IF free = <<>> THEN None ELSE Head(free)

\* One call to the worker; NOT_READY with time left leads to another.
TryAcquire ==
  /\ acquiring # None /\ acquiring.index = None
  /\ LET c == acquiring.chain
         k == chain[c]
     IN  IF k = None \/ (k # None /\ k.presentError # None)
         THEN /\ acquiring' = None
              /\ UNCHANGED <<surface, chain>>
         ELSE \E o \in {DispatchEvents(surface[k.w.surface], k.w)} : \E i \in {Candidate(k, o.w)} :
              /\ surface' = [surface EXCEPT ![k.w.surface] = o.sf]
              /\ IF o.err # None
                 THEN acquiring' = None /\ chain' = [chain EXCEPT ![c].w = o.w]
                 ELSE IF i = None
                 THEN acquiring' \in {acquiring, None} /\ chain' = [chain EXCEPT ![c].w = o.w]
                 ELSE /\ acquiring' = [acquiring EXCEPT !.index = i]
                      /\ chain' = [chain EXCEPT ![c] = [@ EXCEPT !.w = o.w, !.acquired[i] = TRUE,
                                                                 !.next = (i % Count) + 1]]
  /\ UNCHANGED <<usedChains, creating, owned, presents, presenting>>

\* signal_acquire_sync, and the image goes back when it is refused.
EndAcquire(signaled) ==
  /\ acquiring # None /\ acquiring.index # None
  /\ LET c == acquiring.chain
         i == acquiring.index
     IN  /\ owned' = IF signaled /\ chain[c] # None THEN owned \cup {Buffer(c, i)} ELSE owned
         /\ chain' = IF ~signaled /\ chain[c] # None THEN [chain EXCEPT ![c].acquired[i] = FALSE] ELSE chain
  /\ acquiring' = None
  /\ UNCHANGED <<surface, usedChains, creating, presents, presenting>>

-----------------------------------------------------------------------------
(* vkQueuePresentKHR and the queue thread.                                  *)

\* One image of each of several swapchains; accepted without looking at them.
QueuePresent(packet) ==
  /\ Len(presents) < MaxPackets
  /\ IsInjective([n \in DOMAIN packet |-> packet[n][1]])
  /\ presents' = Append(presents, packet)
  /\ owned' = owned \ ToSet(packet)
  /\ UNCHANGED <<surface, chain, usedChains, creating, acquiring, presenting>>

\* The first worker call of execute_presentation: all swapchains are dispatched
\* and checked, in order, then all images marked.
CheckedStep(acc, x) ==
  LET k == acc.chain[x[1]]
      Dispatched(o) ==
        [acc EXCEPT !.surface[k.w.surface] = o.sf, !.chain[x[1]].w = o.w,
                    !.err = IF o.err # None THEN o.err
                            ELSE IF ~k.acquired[x[2]] \/ k.pendingPresent[x[2]] THEN "INVALID" ELSE None]
  IN  CASE acc.err # None -> acc
        [] acc.err = None /\ k = None -> [acc EXCEPT !.err = "OUT_OF_DATE"]
        [] acc.err = None /\ k # None /\ k.presentError # None -> [acc EXCEPT !.err = k.presentError]
        [] OTHER -> Dispatched(DispatchEvents(acc.surface[k.w.surface], k.w))

Marked(chains, packet) ==
  [c \in Chains |-> IF chains[c] = None THEN None
                    ELSE [chains[c] EXCEPT !.pendingPresent =
                            [i \in Indices |-> @[i] \/ Buffer(c, i) \in ToSet(packet)]]]

\* `refused`: a semaphore or the loss of the device ended the packet before.
StartPresentation(refused) ==
  /\ presenting = None /\ presents # <<>>
  /\ presents' = Tail(presents)
  /\ LET packet == Head(presents)
     IN  IF refused
         THEN /\ presenting' = [packet |-> packet, at |-> 1, err |-> "DEVICE_LOST"]
              /\ UNCHANGED <<surface, chain>>
         ELSE \E checked \in {FoldLeft(CheckedStep, [surface |-> surface, chain |-> chain, err |-> None], packet)} :
              /\ presenting' = [packet |-> packet, at |-> 1, err |-> checked.err]
              /\ surface' = checked.surface
              /\ chain' = IF checked.err = None THEN Marked(checked.chain, packet) ELSE checked.chain
  /\ UNCHANGED <<usedChains, creating, acquiring, owned>>

\* present_one, one call to the worker; NOT_READY leads to another.
PresentOne ==
  /\ presenting # None /\ presenting.err = None
  /\ LET x == presenting.packet[presenting.at]
         k == chain[x[1]]
         on == IF presenting.at = Len(presenting.packet) THEN None ELSE [presenting EXCEPT !.at = @ + 1]
     IN  IF k = None
         THEN presenting' = [presenting EXCEPT !.err = "OUT_OF_DATE"] /\ UNCHANGED <<surface, chain>>
         ELSE IF ~k.acquired[x[2]]
         THEN presenting' = [presenting EXCEPT !.err = "INVALID"] /\ UNCHANGED <<surface, chain>>
         ELSE \E o \in {WindowPresent(surface[k.w.surface], k.w, x[2])} :
              /\ surface[k.w.surface].serial < MaxSerial
              /\ surface' = [surface EXCEPT ![k.w.surface] = o.sf]
              /\ CASE o.err = None ->
                        /\ presenting' = on
                        /\ chain' = [chain EXCEPT ![x[1]] = [@ EXCEPT !.w = o.w, !.acquired[x[2]] = FALSE,
                                                                      !.pendingPresent[x[2]] = FALSE]]
                   [] o.err = "NOT_READY" ->
                        presenting' = presenting /\ chain' = [chain EXCEPT ![x[1]].w = o.w]
                   [] OTHER ->
                        presenting' = [presenting EXCEPT !.err = o.err] /\ chain' = [chain EXCEPT ![x[1]].w = o.w]
  /\ UNCHANGED <<usedChains, creating, acquiring, owned, presents>>

(* Mutant: only the swapchain that failed learns of the failure.            *)
MutantFailed(chains, p) ==
  [c \in Chains |-> IF chains[c] # None /\ c = p.packet[p.at][1]
                    THEN [chains[c] EXCEPT !.presentError = p.err] ELSE chains[c]]
Failed(chains, p) ==
  [c \in Chains |-> IF chains[c] # None /\ \E n \in DOMAIN p.packet : p.packet[n][1] = c
                    THEN [chains[c] EXCEPT !.presentError = p.err] ELSE chains[c]]

FailPresentation ==
  /\ presenting # None /\ presenting.err # None
  /\ chain' = Failed(chain, presenting)
  /\ presenting' = None
  /\ UNCHANGED <<surface, usedChains, creating, acquiring, owned, presents>>

-----------------------------------------------------------------------------
(* The compositor (external).                                               *)

Notify(s, sf) ==
  /\ surface' = [surface EXCEPT ![s] = sf]
  /\ UNCHANGED <<chain, usedChains, creating, acquiring, owned, presents, presenting>>

ReleaseBuffer(s) ==
  /\ surface[s] # None /\ Len(surface[s].held) > 1
  /\ LET h == Head(surface[s].held)
         event == [kind |-> "release", buffer |-> h.buffer, serial |-> h.serial]
         Deliver(sf) == IF Sws(s) \/ h.buffer \in sf.imported
                        THEN [sf EXCEPT !.events = Append(@, event)] ELSE sf
     IN  Notify(s, Deliver([surface[s] EXCEPT !.held = Tail(@)]))

BufferError(s) ==
  /\ Sws(s)
  /\ surface[s] # None /\ surface[s].held # <<>>
  /\ LET h == Last(surface[s].held)
     IN  Notify(s, [surface[s] EXCEPT !.held = Front(@),
                      !.events = Append(@, [kind |-> "error", buffer |-> h.buffer, serial |-> h.serial])])

LoseSurface(s) ==
  /\ surface[s] # None /\ ~surface[s].lost
  /\ \E c \in Chains :
       /\ chain[c] # None /\ chain[c].w.surface = s /\ ~chain[c].w.lost
       /\ \A n \in DOMAIN surface[s].events : surface[s].events[n].kind # "lost"
       /\ Notify(s, [surface[s] EXCEPT !.events = Append(@, [kind |-> "lost", buffer |-> Buffer(c, 1), serial |-> 0])])

Resize(s, size) ==
  /\ surface[s] # None /\ surface[s].size # size
  /\ Notify(s, [surface[s] EXCEPT !.size = size])

FrameDone(s) ==
  \E c \in Chains :
    /\ surface[s] # None /\ c \in surface[s].owes
    /\ Notify(s, [surface[s] EXCEPT !.owes = @ \ {c},
                    !.events = Append(@, [kind |-> "frame", buffer |-> Buffer(c, 1), serial |-> 0])])

-----------------------------------------------------------------------------
SwapInit ==
  /\ surface = [s \in Surfaces |-> None]
  /\ chain = [c \in Chains |-> None]
  /\ usedChains = {} /\ creating = None /\ acquiring = None
  /\ owned = {} /\ presents = <<>> /\ presenting = None

\* What an application may ask to present: what it owns, or by mistake an
\* image of a swapchain that it does not own.
Rightly == {<<x>> : x \in owned} \cup {<<x, y>> : x, y \in owned}
Wrongly == {<<x>> : x \in {y \in Chains \X Indices : chain[y[1]] # None /\ ~chain[y[1]].acquired[y[2]]}}

\* Calls of the application, and what the driver then does for it.
Calls ==
  \/ \E s \in Surfaces, z \in Sizes : CreateSurface(s, z)
  \/ \E s \in Surfaces : DestroySurface(s)
  \/ \E c \in Chains, s \in Surfaces, z \in Sizes, old \in usedChains \cup {None} : BeginCreate(c, s, z, old)
  \/ \E c \in Chains : DestroySwapchain(c) \/ BeginAcquire(c)
  \/ \E p \in Rightly : QueuePresent(p)

Worker ==
  CreateSwapchain(FALSE) \/ TryAcquire \/ EndAcquire(TRUE)
QueueThread == StartPresentation(FALSE) \/ PresentOne \/ FailPresentation
Compositor == \E s \in Surfaces : ReleaseBuffer(s) \/ FrameDone(s)

Misfortune ==
  \/ CreateSwapchain(TRUE) \/ EndAcquire(FALSE) \/ StartPresentation(TRUE)
  \/ \E p \in Wrongly : QueuePresent(p)
  \/ \E s \in Surfaces : BufferError(s) \/ LoseSurface(s) \/ \E z \in Sizes : Resize(s, z)

SwapNext == Calls \/ Worker \/ QueueThread \/ Compositor \/ Misfortune

-----------------------------------------------------------------------------
(* Properties.                                                              *)

Held(s) == {surface[s].held[n].buffer : n \in DOMAIN surface[s].held}

\* An image that is handed out (acquire_next_image) or waits for its turn in
\* queue_present is not one the compositor still reads.
AcquiredIsReleased ==
  \A c \in Chains : chain[c] # None =>
    \A i \in Indices : chain[c].acquired[i] => Buffer(c, i) \notin Held(chain[c].w.surface)

\* While its surface lives, a buffer the compositor displays is not destroyed:
\* Drop for Window keeps it until release_retired sees its event.
DisplayedStaysImported ==
  \A s \in Surfaces : Sws(s) /\ surface[s] # None =>
      \/ Held(s) \subseteq surface[s].imported
      \/ ~surface[s].listed /\ Windows(chain, s) \cup Creating(s) = {}

\* execute_presentation marks every image of a packet and then presents one
\* after the other: an image stays marked only while the queue thread is about
\* to present it, or when the swapchain reports the failure from then on.
PresentationAccounted ==
  \A c \in Chains : chain[c] # None =>
    \A i \in Indices : chain[c].pendingPresent[i] =>
      \/ chain[c].presentError # None
      \/ presenting # None /\ \E n \in presenting.at..Len(presenting.packet) : presenting.packet[n] = Buffer(c, i)

\* The next swapchain of the surface destroys a retired buffer after its
\* release: no release of a retired buffer was already taken from the
\* compositor, unless the swapchain or the surface was lost.
RetiredIsAwaited ==
  \A s \in Surfaces : surface[s] # None /\ ~surface[s].lost =>
    \A r \in surface[s].retired :
      \/ r.lost
      \/ \E n \in DOMAIN surface[s].held : surface[s].held[n] = [buffer |-> r.buffer, serial |-> r.serial]
      \/ \E n \in DOMAIN surface[s].events : surface[s].events[n].buffer = r.buffer

\* The invariant of the buffers between application, queue thread and
\* compositor: each is released before it is reused or destroyed, and a mark
\* of queue_present is resolved or reported.
SwapchainInvariant == AcquiredIsReleased /\ PresentationAccounted /\ RetiredIsAwaited

=============================================================================
