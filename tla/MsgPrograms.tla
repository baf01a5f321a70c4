---------------------------- MODULE MsgPrograms ----------------------------
(***************************************************************************)
(* The programs around the message queue: any number of processes running  *)
(* msg/test_send.c (and ws1850/msg_send.c, which does the same), and any   *)
(* number running msg/test_recv.c.  A process may be killed at any point   *)
(* and be started again; the queue stays.  All programs use type 1, under  *)
(* the names MSG_UARTD_TO_IOT and MSG_TO_TURING.                           *)
(***************************************************************************)
EXTENDS MsgQueue, FiniteSets

CONSTANTS
  Senders, Receivers,
  MaxSent             (* no sender is started when a queue has had so many *)

ASSUME ProgramsAssumption ==
  /\ Senders \cap Receivers = {}
  /\ Senders \cup Receivers \subseteq Processes /\ IsFiniteSet(Senders)
  /\ "quit" \in Texts
  /\ MaxSent \in Nat

VARIABLES
  at    (* at[p]: the statement p executes next, "off" when it is not there *)

progVars == <<msgVars, at>>

MSG_UARTD_TO_IOT == 1

ProgInit == MsgInit /\ at = [p \in Processes |-> "off"]

Goto(p, from, to) == at[p] = from /\ at' = [at EXCEPT ![p] = to]

\* The globals of a process are as they were when the last one ended.
Start(p) ==
  /\ Goto(p, "off", "create")
  /\ p \in Senders => sent < MaxSent
  /\ UNCHANGED msgVars

\* A process ends, with its globals, or is killed at any point before.
Kill(p) ==
  /\ at[p] # "off"
  /\ at' = [at EXCEPT ![p] = "off"]
  /\ msg_queue_id' = [msg_queue_id EXCEPT ![p] = 0]
  /\ ret' = [ret EXCEPT ![p] = 0]
  /\ tmp' = [tmp EXCEPT ![p] = NoMessage]
  /\ UNCHANGED <<made, exists, queue, sent, taken>>

-----------------------------------------------------------------------------
(* main of test_send.c.                                                    *)

\* Whether there is a queue is not asked.
SCreate(p) ==
  Goto(p, "create", "send") /\ msg_queue_create_msg_queue(p)

SSend(p) ==
  /\ Goto(p, "send", "end")
  /\ \E text \in Texts : msg_queue_send(p, text, MSG_UARTD_TO_IOT)

Send(p) == SCreate(p) \/ SSend(p)

-----------------------------------------------------------------------------
(* main of test_recv.c.                                                    *)

RCreate(p) ==
  Goto(p, "create", "recv") /\ msg_queue_create_msg_queue(p)

\* Mutant of RRecv: waits for the messages of the other direction.
RRecvOther(p) ==
  Goto(p, "recv", "test") /\ msg_queue_recv(p, 2)

RRecv(p) ==
  Goto(p, "recv", "test") /\ msg_queue_recv(p, MSG_UARTD_TO_IOT)

\* Mutant of Quits: the result of strcmp is taken the wrong way round.
QuitsInverted(p) == tmp[p].text # "quit"

Quits(p) == tmp[p].text = "quit"

\* Without memory for the copy there is nothing to compare; the next message is
\* awaited.
RTest(p) ==
  /\ \/ Quits(p) /\ Goto(p, "test", "del") /\ UNCHANGED tmp
     \/ Goto(p, "test", "recv") /\ tmp' = [tmp EXCEPT ![p] = NoMessage]
  /\ UNCHANGED <<made, exists, queue, sent, taken, msg_queue_id, ret>>

RDel(p) ==
  Goto(p, "del", "end") /\ msg_queue_del(p)

Receive(p) == RCreate(p) \/ RRecv(p) \/ RTest(p) \/ RDel(p)

-----------------------------------------------------------------------------
Programs ==
  \/ \E p \in Senders \cup Receivers : Start(p) \/ Kill(p)
  \/ \E p \in Senders : Send(p)
  \/ \E p \in Receivers : Receive(p)

\* A process that is there and can go on does so.
Spec == /\ ProgInit /\ [][Programs]_progVars
        /\ \A p \in Senders : WF_progVars(Send(p))
        /\ \A p \in Receivers : WF_progVars(Receive(p))

-----------------------------------------------------------------------------
(* Properties.                                                             *)

Messages == [text : Texts, type : 1..2, of : 1..MaxQueues, num : Nat \ {0}]

\* The statements of the two programs.
Statements == {"off", "create", "send", "recv", "test", "del", "end"}

\* The values of the variables, also beside the daemon of UartBridge, which has
\* one statement more.
DataOK ==
  /\ made \in 0..MaxQueues /\ exists \in BOOLEAN
  /\ queue \in Seq(Messages) /\ Len(queue) <= Capacity
  /\ sent \in Nat
  /\ taken \in Seq(Messages)
  /\ msg_queue_id \in [Processes -> -1..MaxQueues]
  /\ ret \in [Processes -> Int]
  /\ tmp \in [Processes -> Messages \cup {NoMessage}]
  /\ at \in [Processes -> Statements \cup {"parse"}]

NumsIn(q) == {q[k].num : k \in DOMAIN q}

\* A receiver about to remove the queue (test_recv.c:27) it has read "quit" from
\* has nothing before that "quit" left in it, even when other receivers share
\* the queue.  A queue made since is not the one it removes.
QuitLeavesOnlyLater ==
  \A p \in Receivers :
    at[p] = "del" /\ Valid(p) =>
      /\ tmp[p].of = made
      /\ \A k \in DOMAIN queue : queue[k].num > tmp[p].num

Mails == [text : Texts, type : {MSG_UARTD_TO_IOT}, of : 1..MaxQueues,
          num : 1..(MaxSent + Cardinality(Senders))]

Demands == {m \in Mails : m.text = "quit"}

Demanded ==
  exists /\ \E k \in DOMAIN taken : taken[k] \in Demands /\ taken[k].of = made

Box == INSTANCE Mailbox WITH
         box <- queue, delivered <- taken, demanded <- Demanded

\* To the processes, killed and restarted as they are, one queue after the other
\* is a mailbox: each message a sender was told 0 for waits until one receiver
\* has taken it, in the order in which they were accepted, whichever receivers
\* there are; and only the receiver of a "quit" from that very queue takes away
\* what is still in it.
ImplementsMailbox == Box!Spec

\* Sending never waits, be the queue full, or gone (msg_queue.c:64): a process
\* that sends gets past it even if no receiver ever comes.
SendReturns == \A p \in Senders : at[p] = "send" ~> at[p] # "send"

\* While a receiver stays attached to the queue every message in it is taken.
Attached(p) == at[p] \in {"recv", "test"} /\ Valid(p)
InQueue(n) == exists /\ n \in NumsIn(queue)

AttendedIsTaken ==
  \A p \in Receivers, n \in 1..MaxSent :
    Attached(p) /\ InQueue(n) ~> ~Attached(p) \/ ~InQueue(n)

\* msg_queue.c:15 says of msg_queue_create_msg_queue that a result greater than
\* 0 is success and one less than 0 is failure.
CreateTellsSuccess ==
  \A p \in Receivers : at[p] = "recv" /\ Valid(p) => ret[p] > 0
-----------------------------------------------------------------------------
(* The inductive invariant: what is in the queue, what was in it, and what *)
(* the receivers have of it.                                               *)

\* The queue holds messages of its own, in the order in which they were sent,
\* and later ones than those that were taken from it.
MailInv ==
  /\ exists => made > 0
  /\ ~exists => queue = <<>>
  /\ \A k \in DOMAIN queue :
       queue[k] \in Mails /\ queue[k].of = made /\ queue[k].num <= sent
  /\ \A j, k \in DOMAIN queue : j < k => queue[j].num < queue[k].num
  /\ \A k \in DOMAIN taken :
       /\ taken[k] \in Mails /\ taken[k].of <= made
       /\ taken[k].of = made =>
            /\ taken[k].num <= sent
            /\ \A j \in DOMAIN queue : taken[k].num < queue[j].num

\* What a receiver works on it has taken from the queue it uses.
ReadInv ==
  \A p \in Receivers :
    /\ at[p] \in {"test", "del", "end"} =>
         \/ tmp[p] = NoMessage
         \/ tmp[p].of = msg_queue_id[p] /\ \E k \in DOMAIN taken : taken[k] = tmp[p]
    /\ at[p] = "del" => tmp[p].text = "quit"

Active == {p \in Senders : at[p] \in {"create", "send"}}

\* The bound on the numbers of messages counts the senders still to send.
SentInv == sent + Cardinality(Active) <= MaxSent + Cardinality(Senders)

\* The queue never holds more than the system keeps, only what was sent to it, in
\* order and not yet taken; a receiver works only on what it took from the queue
\* it uses, and is about to remove it only after a "quit" (msg_queue.c:52-79,
\* test_recv.c:12-27).
MailboxInv == DataOK /\ MailInv /\ ReadInv /\ SentInv
=============================================================================
