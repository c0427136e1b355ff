---------------------------- MODULE MCVulkanDevice ----------------------------
(* The threads of a Vulkan device: queue, fences and semaphores, or the      *)
(* worker's ownership of native resources, with two handles over a table of  *)
(* two buffers, so that creation is refused, and a size that exceeds the     *)
(* byte budget of the cache on its own.  A behaviour is about one of them.   *)
EXTENDS VulkanQueue, RuntimeCache

-----------------------------------------------------------------------------
(* The requests of a small application: submissions that signal and wait   *)
(* for a binary semaphore, promise or wait for timeline values, carry a    *)
(* fence or consist of two packets, and presentations.                     *)
CONSTANTS f1, s1, t1

Packet(waits, signals, values) ==
    [waits |-> waits, signals |-> signals, values |-> values]

Request(kind, packets, f) ==
    [kind |-> kind, packets |-> packets, fence |-> f, first |-> 0]

BinaryRequests ==
    {Request("submit", <<Packet(<< >>, {s1}, {})>>, f1),
     Request("submit", <<Packet(<<s1>>, {}, {})>>, NoFence),
     Request("submit", <<Packet(<< >>, {s1}, {}), Packet(<<s1>>, {}, {})>>, f1),
     Request("present", <<Packet(<<s1>>, {}, {})>>, NoFence),
     Request("present", <<Packet(<< >>, {}, {})>>, NoFence)}

TimelineRequests ==
    {Request("submit", <<Packet(<< >>, {}, {<<t1, 1>>})>>, f1),
     Request("submit", <<Packet(<< <<t1, 1>> >>, {s1}, {<<t1, 2>>})>>, NoFence),
     Request("submit", <<Packet(<< >>, {}, {<<t1, 1>>}),
                         Packet(<<s1>>, {}, {<<t1, 2>>})>>, f1)}

AllRequests == BinaryRequests \cup TimelineRequests

-----------------------------------------------------------------------------

CONSTANTS h1, h2, m1, i1

VARIABLE subject
deviceVars == <<queueVars, runtimeVars, subject>>

DeviceNext ==
  /\ UNCHANGED subject
  /\ \/ subject = "queue" /\ QueueNext /\ UNCHANGED runtimeVars
     \/ subject = "worker" /\ RuntimeNext /\ UNCHANGED queueVars

DeviceInit == QueueInit /\ RuntimeInit /\ subject \in {"queue", "worker"}

\* The steps that are fair are disabled where the others' behaviour starts.
DeviceSpec ==
  /\ DeviceInit /\ [][DeviceNext]_deviceVars
  /\ QueueFairness /\ RuntimeFairness

=============================================================================
