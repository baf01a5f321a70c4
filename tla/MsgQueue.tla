------------------------------ MODULE MsgQueue ------------------------------
(***************************************************************************)
(* The message queue of msg/msg_queue.c (ws1850/msg_queue.c is the same    *)
(* but for its output): a System V queue that all processes reach under    *)
(* one key.  With MAGIC_NUMBER, ftok sets the sign bit of the key, which   *)
(* msg_queue_create_msg_queue then replaces by 12306: there is one queue   *)
(* at a time.  It belongs to the system and outlives the processes, each   *)
(* of which keeps the number the queue had when it asked for it.           *)
(*                                                                         *)
(* The operators are the library's functions, called by process p.  Each   *)
(* is one system call, hence one step.                                     *)
(***************************************************************************)
EXTENDS Integers, Sequences

CONSTANTS
  Processes,
  Texts,       (* the texts of messages                                     *)
  Capacity,    (* how many messages the system keeps in the queue           *)
  MaxQueues    (* bound on the queues created, one after the other          *)

ASSUME MsgQueueAssumption ==
  Capacity \in Nat \ {0} /\ MaxQueues \in Nat \ {0}

VARIABLES
  made,          (* queues created so far; the newest has this number       *)
  exists,        (* the newest queue has not been removed                   *)
  queue,         (* the messages in it: text, type, the number of the queue *)
                 (* (of) and the number of the message in it (num)          *)
  sent,          (* history: how many messages the newest queue was sent    *)
  taken,         (* history: the messages received, in order, of any queue   *)
  msg_queue_id,  (* msg_queue_id[p]: the queue p uses, 0 at first, or -1    *)
  ret,           (* ret[p]: the integer p's last call has returned          *)
  tmp            (* tmp[p]: the message p has received last                 *)

msgVars == <<made, exists, queue, sent, taken, msg_queue_id, ret, tmp>>

\* What msg_queue_recv makes of a msgrcv that fails.
NoMessage == [text |-> "", type |-> 0, of |-> 0, num |-> 0]

MsgInit ==
  /\ made = 0
  /\ exists = FALSE
  /\ queue = <<>>
  /\ sent = 0
  /\ taken = <<>>
  /\ msg_queue_id = [p \in Processes |-> 0]
  /\ ret = [p \in Processes |-> 0]
  /\ tmp = [p \in Processes |-> NoMessage]

\* The number p has kept is that of the queue there is.
Valid(p) == exists /\ msg_queue_id[p] = made

Created(p, id, r) ==
  /\ msg_queue_id' = [msg_queue_id EXCEPT ![p] = id]
  /\ ret' = [ret EXCEPT ![p] = r]
  /\ UNCHANGED <<taken, tmp>>

\* The existing queue, a new one, or -1 when the system refuses.
msg_queue_create_msg_queue(p) ==
  \/ exists /\ Created(p, made, 0) /\ UNCHANGED <<made, exists, queue, sent>>
  \/ /\ ~exists /\ made < MaxQueues
     /\ Created(p, made + 1, 0)
     /\ made' = made + 1 /\ exists' = TRUE /\ queue' = <<>> /\ sent' = 0
  \/ Created(p, -1, -1) /\ UNCHANGED <<made, exists, queue, sent>>

\* The system keeps the message of a msgsnd, or its sender is told -1.
Sent(p, kept, m) ==
  /\ queue' = IF kept THEN Append(queue, m) ELSE queue
  /\ sent' = IF kept THEN sent + 1 ELSE sent
  /\ ret' = [ret EXCEPT ![p] = IF kept THEN 0 ELSE -1]
  /\ UNCHANGED <<made, exists, taken, msg_queue_id, tmp>>

Message(text, type) == [text |-> text, type |-> type, of |-> made, num |-> sent + 1]

\* Mutant of msg_queue_send: without IPC_NOWAIT a full queue is waited for.
SendWaits(p, text, type) ==
  /\ Valid(p) => Len(queue) < Capacity
  /\ Sent(p, Valid(p), Message(text, type))

\* IPC_NOWAIT: the message is dropped when the queue is full or gone.
msg_queue_send(p, text, type) ==
  Sent(p, Valid(p) /\ Len(queue) < Capacity, Message(text, type))

\* The messages of a type, the first of them, and the queue without one.
OfType(type) == {k \in DOMAIN queue : queue[k].type = type}

\* Mutant of First: the last message of the type.
LastOne(type) == CHOOSE k \in OfType(type) : \A j \in OfType(type) : k >= j

First(type) == CHOOSE k \in OfType(type) : \A j \in OfType(type) : k <= j

Without(k) == SubSeq(queue, 1, k - 1) \o SubSeq(queue, k + 1, Len(queue))

\* Waits for a message of the type; returns the empty text when the queue is
\* removed meanwhile, or was never there.
msg_queue_recv(p, type) ==
  /\ \/ /\ Valid(p) /\ OfType(type) # {}
        /\ queue' = Without(First(type))
        /\ taken' = Append(taken, queue[First(type)])
        /\ tmp' = [tmp EXCEPT ![p] = queue[First(type)]]
     \/ /\ ~Valid(p)
        /\ tmp' = [tmp EXCEPT ![p] = NoMessage]
        /\ UNCHANGED <<queue, taken>>
  /\ UNCHANGED <<made, exists, sent, msg_queue_id, ret>>

\* Mutant of msg_queue_del: the queue is asked for once more, by its key.
DelAnew(p) ==
  /\ exists' = FALSE /\ queue' = <<>>
  /\ UNCHANGED <<made, sent, taken, msg_queue_id, ret, tmp>>

\* A queue that is gone is not removed again; nothing is returned.
msg_queue_del(p) ==
  /\ exists' = (exists /\ ~Valid(p))
  /\ queue' = IF Valid(p) THEN <<>> ELSE queue
  /\ UNCHANGED <<made, sent, taken, msg_queue_id, ret, tmp>>
=============================================================================
