------------------------------ MODULE FifoQueue ------------------------------
(***************************************************************************)
(* What the thread-safe event queue promises its callers: a linearizable   *)
(* FIFO queue.  Every call takes effect at one instant between its         *)
(* invocation and its return, and items leave in the order they entered.   *)
(*                                                                         *)
(* The promise is weaker than that of a textbook blocking queue in three   *)
(* ways, all of them visible to a caller: a put may be dropped silently    *)
(* (its result is 0 all the same), a get may answer NULL, although only    *)
(* when the queue is empty at that instant, and every call on a queue that *)
(* is not open is answered without effect.                                 *)
(***************************************************************************)
EXTENDS Integers, Sequences

CONSTANTS Threads, Items, NULL

VARIABLES
  open,     (* the queue exists                                             *)
  queue,    (* the items, oldest first                                      *)
  phase,    (* phase[t]: where thread t is in its call                      *)
  val,      (* val[t]: item put by, or answered to, thread t's last call    *)
  num       (* num[t]: integer answered to thread t's last call             *)

vars == <<open, queue, phase, val, num>>

Init ==
  /\ open = FALSE
  /\ queue = <<>>
  /\ phase = [t \in Threads |-> "idle"]
  /\ val = [t \in Threads |-> NULL]
  /\ num = [t \in Threads |-> 0]

Move(t, from, to) == phase[t] = from /\ phase' = [phase EXCEPT ![t] = to]

Open ==
  /\ ~open
  /\ open' = TRUE
  /\ UNCHANGED <<queue, phase, val, num>>

\* Closing forgets the items; no thread may be inside a call.
Close ==
  /\ open
  /\ \A t \in Threads : phase[t] = "idle"
  /\ open' = FALSE
  /\ queue' = <<>>
  /\ UNCHANGED <<phase, val, num>>

PutCall(t, i) ==
  /\ open
  /\ Move(t, "idle", "put")
  /\ val' = [val EXCEPT ![t] = i]
  /\ UNCHANGED <<open, queue, num>>

Put(t) ==
  /\ Move(t, "put", "stored")
  /\ queue' = Append(queue, val[t])
  /\ UNCHANGED <<open, val, num>>

PutReturn(t) ==
  /\ Move(t, "stored", "idle")
  /\ num' = [num EXCEPT ![t] = 0]
  /\ UNCHANGED <<open, queue, val>>

\* The put is dropped for want of memory; the caller is told 0.
PutDropped(t) ==
  /\ open
  /\ phase[t] = "idle"
  /\ num' = [num EXCEPT ![t] = 0]
  /\ UNCHANGED <<open, queue, phase, val>>

GetCall(t) ==
  /\ open
  /\ Move(t, "idle", "get")
  /\ UNCHANGED <<open, queue, val, num>>

\* The oldest item, or NULL if there is none at this instant.
Get(t) ==
  /\ Move(t, "get", "answered")
  /\ IF queue = <<>>
     THEN val' = [val EXCEPT ![t] = NULL] /\ queue' = queue
     ELSE val' = [val EXCEPT ![t] = Head(queue)] /\ queue' = Tail(queue)
  /\ UNCHANGED <<open, num>>

SizeCall(t) ==
  /\ open
  /\ Move(t, "idle", "size")
  /\ UNCHANGED <<open, queue, val, num>>

Size(t) ==
  /\ Move(t, "size", "answered")
  /\ num' = [num EXCEPT ![t] = Len(queue)]
  /\ UNCHANGED <<open, queue, val>>

Return(t) ==
  /\ Move(t, "answered", "idle")
  /\ UNCHANGED <<open, queue, val, num>>

\* A call on a queue that is not open: some integer or NULL, and no effect.
NotOpen(t) ==
  /\ ~open
  /\ phase[t] = "idle"
  /\ \/ num' = [num EXCEPT ![t] = num'[t]] /\ num'[t] \in Int /\ val' = val
     \/ val' = [val EXCEPT ![t] = NULL] /\ num' = num
  /\ UNCHANGED <<open, queue, phase>>

Next ==
  \/ Open
  \/ Close
  \/ \E t \in Threads :
       \/ \E i \in Items : PutCall(t, i)
       \/ Put(t) \/ PutReturn(t) \/ PutDropped(t)
       \/ GetCall(t) \/ Get(t)
       \/ SizeCall(t) \/ Size(t)
       \/ Return(t) \/ NotOpen(t)

Spec == Init /\ [][Next]_vars
=============================================================================
