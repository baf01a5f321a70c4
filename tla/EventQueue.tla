----------------------------- MODULE EventQueue -----------------------------
(***************************************************************************)
(* The thread-safe event queue of queue/queue.c: a singly linked list with *)
(* its length, guarded by modify_mutex, and read_mutex used as a binary    *)
(* semaphore that is locked while there is nothing to read.  read_mutex is *)
(* locked by one thread and unlocked by another, and is unlocked while     *)
(* already free; the default (non-checking) pthread mutex of the Linux C   *)
(* libraries then simply becomes, or stays, free, which is what is         *)
(* modelled.                                                               *)
(*                                                                         *)
(* A list node is identified with its address, taken from Items; it stands *)
(* for the node with its type, data and sz, which the queue never reads.   *)
(* Every access to items and numitems is modelled as a step of its own, so *)
(* that the mutexes are what keeps them consistent.                        *)
(***************************************************************************)
EXTENDS Integers, Sequences, SequencesExt

CONSTANTS
  Producers,  (* threads that call queue_add_item and get_queue_size        *)
  Consumers,  (* threads that call the other three operations               *)
  Items,      (* addresses calloc may return: bounds the nodes alive        *)
  NULL,       (* the null pointer; also "no thread" for modify_mutex        *)
  Garbage     (* what get_queue_size may leave in its result when it falls  *)
              (* off its end without a return: bounds the arbitrary int     *)

Threads == Producers \cup Consumers

ASSUME QueueAssumption ==
  /\ Producers \cap Consumers = {}
  /\ NULL \notin Items \cup Threads
  /\ Garbage \subseteq Int

VARIABLES
  g_queue,       (* the global queue pointer is set                         *)
  items,         (* the list from queue->items on: the newest node first    *)
  numitems,      (* queue->numitems                                         *)
  modify_mutex,  (* the thread that holds it, or NULL                       *)
  read_mutex,    (* "locked" or "free": its owner is of no consequence      *)
  heap,          (* the nodes that are allocated                            *)
  pc,            (* pc[t]: the statement t executes next; "idle" outside    *)
                 (* calls, "have" outside calls with a node to give back    *)
  qi,            (* qi[t]: t's node pointer, the result of queue_get_item   *)
  ret            (* ret[t]: t's last integer result                         *)

vars == <<g_queue, items, numitems, modify_mutex, read_mutex, heap, pc, qi, ret>>

Init ==
  /\ g_queue = FALSE
  /\ items = <<>>
  /\ numitems = 0
  /\ modify_mutex = NULL
  /\ read_mutex = "locked"
  /\ heap = {}
  /\ pc = [t \in Threads |-> "idle"]
  /\ qi = [t \in Threads |-> NULL]
  /\ ret = [t \in Threads |-> 0]

Step(t, from, to) == pc[t] = from /\ pc' = [pc EXCEPT ![t] = to]

Lock(t) == modify_mutex = NULL /\ modify_mutex' = t
Unlock(t) == modify_mutex' = NULL

-----------------------------------------------------------------------------
(* queue_init and queue_deinit.  Both are called by a main thread while no *)
(* other thread is inside a call: queue_deinit destroys mutexes that such  *)
(* a thread would still be using.                                          *)

Quiescent == \A t \in Threads : pc[t] \in {"idle", "have"}

\* A failed calloc leaves g_queue unset; a second queue_init does nothing.
queue_init ==
  /\ Quiescent
  /\ ~g_queue
  /\ g_queue' = TRUE
  /\ items' = <<>>
  /\ numitems' = 0
  /\ modify_mutex' = NULL
  /\ read_mutex' = "locked"
  /\ UNCHANGED <<heap, pc, qi, ret>>

\* Frees the QUEUE only: the nodes still listed stay allocated, unreachable.
queue_deinit ==
  /\ Quiescent
  /\ g_queue
  /\ g_queue' = FALSE
  /\ items' = <<>>
  /\ numitems' = 0
  /\ read_mutex' = "locked"
  /\ UNCHANGED <<modify_mutex, heap, pc, qi, ret>>

-----------------------------------------------------------------------------
(* queue_add_item, by thread t.                                            *)

\* -1 without a queue; 0 and nothing added when calloc fails.
AddRefused(t) ==
  /\ pc[t] = "idle"
  /\ ret' = [ret EXCEPT ![t] = IF g_queue THEN 0 ELSE -1]
  /\ UNCHANGED <<g_queue, items, numitems, modify_mutex, read_mutex, heap, pc, qi>>

AddAlloc(t) ==
  /\ g_queue
  /\ Step(t, "idle", "add_lock")
  /\ \E i \in Items \ heap : qi' = [qi EXCEPT ![t] = i] /\ heap' = heap \cup {i}
  /\ UNCHANGED <<g_queue, items, numitems, modify_mutex, read_mutex, ret>>

\* Mutant of AddLock: modify_mutex is not taken.
AddLockNone(t) ==
  /\ Step(t, "add_lock", "add_link")
  /\ UNCHANGED <<g_queue, items, numitems, modify_mutex, read_mutex, heap, qi, ret>>

AddLock(t) ==
  /\ Step(t, "add_lock", "add_link")
  /\ Lock(t)
  /\ UNCHANGED <<g_queue, items, numitems, read_mutex, heap, qi, ret>>

AddLink(t) ==
  /\ Step(t, "add_link", "add_count")
  /\ items' = <<qi[t]>> \o items
  /\ UNCHANGED <<g_queue, numitems, modify_mutex, read_mutex, heap, qi, ret>>

AddCount(t) ==
  /\ Step(t, "add_count", "add_unlock")
  /\ numitems' = numitems + 1
  /\ UNCHANGED <<g_queue, items, modify_mutex, read_mutex, heap, qi, ret>>

AddUnlock(t) ==
  /\ Step(t, "add_unlock", "add_wake")
  /\ Unlock(t)
  /\ UNCHANGED <<g_queue, items, numitems, read_mutex, heap, qi, ret>>

AddWake(t) ==
  /\ Step(t, "add_wake", "idle")
  /\ read_mutex' = "free"
  /\ ret' = [ret EXCEPT ![t] = 0]
  /\ UNCHANGED <<g_queue, items, numitems, modify_mutex, heap, qi>>

-----------------------------------------------------------------------------
(* queue_get_item and queue_del_item, by thread t.                         *)

GetCall(t) ==
  /\ g_queue
  /\ Step(t, "idle", "get_read")
  /\ UNCHANGED <<g_queue, items, numitems, modify_mutex, read_mutex, heap, qi, ret>>

GetRefused(t) ==
  /\ ~g_queue
  /\ pc[t] = "idle"
  /\ qi' = [qi EXCEPT ![t] = NULL]
  /\ UNCHANGED <<g_queue, items, numitems, modify_mutex, read_mutex, heap, pc, ret>>

GetLockRead(t) ==
  /\ Step(t, "get_read", "get_lock")
  /\ read_mutex = "free"
  /\ read_mutex' = "locked"
  /\ UNCHANGED <<g_queue, items, numitems, modify_mutex, heap, qi, ret>>

GetLock(t) ==
  /\ Step(t, "get_lock", "get_unlink")
  /\ Lock(t)
  /\ UNCHANGED <<g_queue, items, numitems, read_mutex, heap, qi, ret>>

\* Nothing there after all: read_mutex was free without an item to read.
GetEmpty(t) ==
  /\ Step(t, "get_unlink", "none_unlock")
  /\ items = <<>>
  /\ qi' = [qi EXCEPT ![t] = NULL]
  /\ UNCHANGED <<g_queue, items, numitems, modify_mutex, read_mutex, heap, ret>>

\* Mutant of CutLast: a list of one node is never emptied.
CutLastKeepsOne == IF Len(items) = 1 THEN items ELSE Front(items)

\* Cut the last node off; a list of one has no predecessor to cut it from,
\* and is emptied only on the word of numitems.
CutLast == IF numitems = 1 THEN <<>>
           ELSE IF Len(items) = 1 THEN items ELSE Front(items)

\* Mutant of GetUnlink: the newest node is taken, not the oldest.
GetUnlinkNewest(t) ==
  /\ Step(t, "get_unlink", "get_count")
  /\ items # <<>>
  /\ qi' = [qi EXCEPT ![t] = Head(items)]
  /\ items' = Tail(items)
  /\ UNCHANGED <<g_queue, numitems, modify_mutex, read_mutex, heap, ret>>

GetUnlink(t) ==
  /\ Step(t, "get_unlink", "get_count")
  /\ items # <<>>
  /\ qi' = [qi EXCEPT ![t] = Last(items)]
  /\ items' = CutLast
  /\ UNCHANGED <<g_queue, numitems, modify_mutex, read_mutex, heap, ret>>

GetCount(t) ==
  /\ Step(t, "get_count", "get_wake")
  /\ numitems' = numitems - 1
  /\ UNCHANGED <<g_queue, items, modify_mutex, read_mutex, heap, qi, ret>>

\* Mutant of GetWake: off by one in the length that lets a reader in.
GetWakeOffByOne(t) ==
  /\ Step(t, "get_wake", "get_unlock")
  /\ read_mutex' = IF numitems > 1 THEN "free" ELSE read_mutex
  /\ UNCHANGED <<g_queue, items, numitems, modify_mutex, heap, qi, ret>>

\* Let the next reader in if there is something left to read.
GetWake(t) ==
  /\ Step(t, "get_wake", "get_unlock")
  /\ read_mutex' = IF numitems > 0 THEN "free" ELSE read_mutex
  /\ UNCHANGED <<g_queue, items, numitems, modify_mutex, heap, qi, ret>>

GetUnlock(t) ==
  /\ Step(t, "get_unlock", "have") \/ Step(t, "none_unlock", "idle")
  /\ Unlock(t)
  /\ UNCHANGED <<g_queue, items, numitems, read_mutex, heap, qi, ret>>

\* Without a queue the node is not freed.
queue_del_item(t) ==
  /\ Step(t, "have", "idle")
  /\ heap' = IF g_queue THEN heap \ {qi[t]} ELSE heap
  /\ UNCHANGED <<g_queue, items, numitems, modify_mutex, read_mutex, qi, ret>>

-----------------------------------------------------------------------------
(* get_queue_size, by thread t.                                            *)

SizeCall(t) ==
  /\ g_queue
  /\ Step(t, "idle", "size_lock")
  /\ UNCHANGED <<g_queue, items, numitems, modify_mutex, read_mutex, heap, qi, ret>>

\* No return statement is reached: the result is undefined.
SizeUndefined(t) ==
  /\ ~g_queue
  /\ pc[t] = "idle"
  /\ \E g \in Garbage : ret' = [ret EXCEPT ![t] = g]
  /\ UNCHANGED <<g_queue, items, numitems, modify_mutex, read_mutex, heap, pc, qi>>

\* Mutant of SizeLock: modify_mutex is not taken, yet unlocked afterwards.
SizeLockNone(t) ==
  /\ Step(t, "size_lock", "size_read")
  /\ UNCHANGED <<g_queue, items, numitems, modify_mutex, read_mutex, heap, qi, ret>>

SizeLock(t) ==
  /\ Step(t, "size_lock", "size_read")
  /\ Lock(t)
  /\ UNCHANGED <<g_queue, items, numitems, read_mutex, heap, qi, ret>>

SizeRead(t) ==
  /\ Step(t, "size_read", "size_unlock")
  /\ ret' = [ret EXCEPT ![t] = numitems]
  /\ UNCHANGED <<g_queue, items, numitems, modify_mutex, read_mutex, heap, qi>>

SizeUnlock(t) ==
  /\ Step(t, "size_unlock", "idle")
  /\ Unlock(t)
  /\ UNCHANGED <<g_queue, items, numitems, read_mutex, heap, qi, ret>>

-----------------------------------------------------------------------------
\* The calls a thread may make, and the statements inside them.
AddCalls(t) == AddRefused(t) \/ AddAlloc(t)
GetCalls(t) == GetCall(t) \/ GetRefused(t)
SizeCalls(t) == SizeCall(t) \/ SizeUndefined(t)

Inside(t) ==
  \/ AddLock(t) \/ AddLink(t) \/ AddCount(t) \/ AddUnlock(t) \/ AddWake(t)
  \/ GetLockRead(t) \/ GetLock(t) \/ GetEmpty(t) \/ GetUnlink(t)
  \/ GetCount(t) \/ GetWake(t) \/ GetUnlock(t)
  \/ SizeLock(t) \/ SizeRead(t) \/ SizeUnlock(t)

Next ==
  \/ queue_init
  \/ queue_deinit
  \/ \E t \in Threads : Inside(t) \/ SizeCalls(t)
  \/ \E p \in Producers : AddCalls(p)
  \/ \E c \in Consumers : GetCalls(c) \/ queue_del_item(c)

Spec == Init /\ [][Next]_vars

-----------------------------------------------------------------------------
(* Properties.                                                             *)

AddPcs == {"add_lock", "add_link", "add_count", "add_unlock", "add_wake"}
GetPcs == {"get_read", "get_lock", "get_unlink", "none_unlock", "get_count",
           "get_wake", "get_unlock"}
SizePcs == {"size_lock", "size_read", "size_unlock"}

\* Type correctness of the queue, its mutexes and each thread's locals.
TypeOK ==
  /\ g_queue \in BOOLEAN
  /\ items \in Seq(Items)
  /\ numitems \in Nat
  /\ modify_mutex \in Threads \cup {NULL}
  /\ read_mutex \in {"locked", "free"}
  /\ heap \in SUBSET Items
  /\ pc \in [Threads -> {"idle", "have"} \cup AddPcs \cup GetPcs \cup SizePcs]
  /\ qi \in [Threads -> Items \cup {NULL}]
  /\ ret \in [Threads -> Int]

\* numitems, on which Get_Queue_Item decides whether to empty the list and
\* whether to let another reader in, is the length of the list whenever no
\* thread is between the lock and the unlock of modify_mutex.
CountMatchesList == modify_mutex = NULL => numitems = Len(items)

\* The statements between which a thread is still going to free read_mutex, or
\* is going to find out that the list has become empty.
Waking == {"add_count", "add_unlock", "add_wake",
           "get_lock", "get_unlink", "get_count", "get_wake"}

\* No wake-up is lost: while an item is in the list, read_mutex is free or
\* some thread is on its way to free it, so that a reader blocked at
\* queue.c:52 is let in; the unlock of an adder (queue.c:45) and that of a
\* getter (queue.c:74) may overtake each other in any way.
NoLostWakeup ==
  items # <<>> => read_mutex = "free" \/ \E t \in Threads : pc[t] \in Waking

\* The nodes thread t alone is using: not listed yet, or not listed any more.
Owns(t) == IF pc[t] \in {"add_lock", "add_link", "get_count", "get_wake",
                         "get_unlock", "have"}
           THEN {qi[t]} ELSE {}

\* Every node reachable from the list or from a thread is allocated, and is
\* reachable from one place only: none is handed out twice, freed while it is
\* listed, or freed twice.
SingleOwner ==
  /\ IsInjective(items)
  /\ \A k \in DOMAIN items : items[k] \in heap
  /\ \A t \in Threads :
       /\ Owns(t) \subseteq heap
       /\ \A k \in DOMAIN items : items[k] \notin Owns(t)
       /\ \A u \in Threads \ {t} : Owns(t) \cap Owns(u) = {}

-----------------------------------------------------------------------------
(* The inductive invariant: how the mutex, the list, its length and the    *)
(* statements the threads stand at hang together.                          *)

\* Between lock and unlock of modify_mutex.
Section == {"add_link", "add_count", "add_unlock", "get_unlink", "none_unlock",
            "get_count", "get_wake", "get_unlock", "size_read", "size_unlock"}

HolderInv == \A t \in Threads : modify_mutex = t <=> pc[t] \in Section

\* numitems lags behind the list between the two statements that change them.
CountInv ==
  /\ \A t \in Threads : pc[t] = "add_count" => numitems = Len(items) - 1
  /\ \A t \in Threads : pc[t] = "get_count" => numitems = Len(items) + 1
  /\ (\A t \in Threads : pc[t] \notin {"add_count", "get_count"})
       => numitems = Len(items)

ClosedInv == ~g_queue => Quiescent /\ items = <<>>

\* The list, its length, modify_mutex, read_mutex and the nodes stay
\* consistent through every interleaving of the statements of the five
\* operations (queue.c:24-100): the invariant from which all others follow.
QueueInv == /\ TypeOK
            /\ HolderInv
            /\ CountInv
            /\ ClosedInv
            /\ NoLostWakeup
            /\ SingleOwner

-----------------------------------------------------------------------------
(* The queue implements the FIFO queue it promises.  A put takes effect    *)
(* when its node is linked, a get when its node is cut off or the list is  *)
(* seen empty, a size when numitems is read.                               *)

Phase(l) == CASE l \in {"add_lock", "add_link"}                -> "put"
              [] l \in {"add_count", "add_unlock", "add_wake"} -> "stored"
              [] l \in {"get_read", "get_lock", "get_unlink"}  -> "get"
              [] l \in {"size_lock", "size_read"}              -> "size"
              [] l \in {"get_count", "get_wake", "get_unlock",
                        "none_unlock", "size_unlock"}          -> "answered"
              [] OTHER                                         -> "idle"

Fifo == INSTANCE FifoQueue
          WITH open <- g_queue, queue <- Reverse(items),
               phase <- [t \in Threads |-> Phase(pc[t])],
               val <- qi, num <- ret

\* Items leave in the order they entered, each once; a get answers NULL only
\* at an instant when the queue is empty; a size is the length at an instant
\* within its call.
ImplementsFifo == Fifo!Spec
=============================================================================
