-------------------------- MODULE MsgProgramsProofs --------------------------
(***************************************************************************)
(* The invariants of the programs around the message queue, and that the   *)
(* queue is a mailbox to them, for any number of programs and queues.      *)
(***************************************************************************)
EXTENDS MsgPrograms, SequenceTheorems, FiniteSetTheorems, TLAPS

-----------------------------------------------------------------------------
(* The operations on the queue.                                            *)

\* All messages are of the one type, so that the first of the type is the head
\* of the queue and the rest is its tail.
LEMMA FirstFacts ==
  ASSUME DataOK, MailInv, queue # <<>>
  PROVE  /\ OfType(MSG_UARTD_TO_IOT) # {} /\ First(MSG_UARTD_TO_IOT) = 1
         /\ 1 \in DOMAIN queue /\ queue[1] = Head(queue)
         /\ Without(1) = Tail(queue)
<1>1. /\ queue \in Seq(Messages) /\ Len(queue) \in Nat \ {0}
      /\ DOMAIN queue = 1..Len(queue)
  BY EmptySeq, LenProperties DEF DataOK
<1>2. OfType(MSG_UARTD_TO_IOT) = DOMAIN queue
  BY DEF OfType, MailInv, Mails, MSG_UARTD_TO_IOT
<1>3. First(MSG_UARTD_TO_IOT) = 1
  BY <1>1, <1>2 DEF First
<1>4. Without(1) = Tail(queue)
  <2>1. SubSeq(queue, 1, 1 - 1) = <<>>
    BY SubSeqEmpty
  <2>2. Tail(queue) = SubSeq(queue, 1 + 1, Len(queue)) /\ Tail(queue) \in Seq(Messages)
    BY <1>1, TailIsSubSeq, HeadTailProperties, EmptySeq
  <2> QED
    BY <2>1, <2>2, ConcatEmptySeq DEF Without
<1> QED
  BY <1>1, <1>2, <1>3, <1>4

\* An empty queue has no message of the type.
LEMMA NoneOfType ==
  ASSUME queue = <<>>
  PROVE  OfType(MSG_UARTD_TO_IOT) = {}
BY DEF OfType

\* What the queue holds once its head is taken.
LEMMA TailFacts ==
  ASSUME DataOK, queue # <<>>
  PROVE  /\ Head(queue) \in Messages /\ Head(queue) = queue[1] /\ 1 \in DOMAIN queue
         /\ Tail(queue) \in Seq(Messages) /\ Len(Tail(queue)) < Len(queue)
         /\ \A k \in DOMAIN Tail(queue) :
              /\ k \in Nat /\ k > 0 /\ k + 1 \in DOMAIN queue
              /\ Tail(queue)[k] = queue[k + 1]
<1>1. queue \in Seq(Messages) /\ Len(queue) \in Nat \ {0} /\ DOMAIN queue = 1..Len(queue)
  BY EmptySeq, LenProperties DEF DataOK
<1>2. /\ Head(queue) \in Messages /\ Tail(queue) \in Seq(Messages)
      /\ Len(Tail(queue)) = Len(queue) - 1
      /\ \A k \in 1..Len(Tail(queue)) : Tail(queue)[k] = queue[k + 1]
  BY <1>1, HeadTailProperties
<1>3. DOMAIN Tail(queue) = 1..Len(Tail(queue))
  BY <1>2, LenProperties
<1>4. Head(queue) = queue[1]
  BY <1>1
<1> QED
  BY <1>1, <1>2, <1>3, <1>4

-----------------------------------------------------------------------------
(* Each program's operations are one of five things to the queue.          *)

\* Nothing: a program is started or killed, or asks for a queue that exists.
Idle == UNCHANGED <<made, exists, queue, sent, taken>>

\* A new queue.
Make == /\ ~exists /\ made < MaxQueues
        /\ made' = made + 1 /\ exists' = TRUE /\ queue' = <<>> /\ sent' = 0
        /\ taken' = taken

\* A message is put in.
Mail(text) == [text |-> text, type |-> MSG_UARTD_TO_IOT, of |-> made, num |-> sent + 1]

Put == /\ exists /\ Len(queue) < Capacity
       /\ \E text \in Texts : queue' = Append(queue, Mail(text))
       /\ \E p \in Senders : at[p] = "send" /\ at' = [at EXCEPT ![p] = "end"]
       /\ sent' = sent + 1
       /\ UNCHANGED <<made, exists, taken>>

\* The first message is taken out.
Take == /\ exists /\ queue # <<>>
        /\ queue' = Tail(queue) /\ taken' = Append(taken, Head(queue))
        /\ UNCHANGED <<made, exists, sent>>

\* The queue is removed, by a receiver that has read "quit".
Drop == /\ \E p \in Receivers : at[p] = "del" /\ Valid(p)
        /\ exists' = FALSE /\ queue' = <<>>
        /\ UNCHANGED <<made, sent, taken>>

Kind == Idle \/ Make \/ Put \/ Take \/ Drop

\* msg_queue_create_msg_queue leaves the queue there is alone or makes a new one.
LEMMA CreateKinds ==
  ASSUME NEW p \in Processes, msg_queue_create_msg_queue(p)
  PROVE  Idle \/ Make
BY DEF msg_queue_create_msg_queue, Created, Idle, Make

\* A receive that finds a message is Take, any other one Idle.
LEMMA RecvKinds ==
  ASSUME DataOK, MailInv, NEW p \in Processes, msg_queue_recv(p, MSG_UARTD_TO_IOT)
  PROVE  \/ /\ Take /\ Valid(p) /\ tmp' = [tmp EXCEPT ![p] = Head(queue)]
         \/ /\ Idle /\ ~Valid(p) /\ tmp' = [tmp EXCEPT ![p] = NoMessage]
<1>1. CASE Valid(p) /\ OfType(MSG_UARTD_TO_IOT) # {}
  <2>1. queue # <<>>
    BY <1>1, NoneOfType
  <2> QED
    BY <1>1, <2>1, FirstFacts DEF msg_queue_recv, Take, Valid
<1>2. CASE ~Valid(p)
  BY <1>2 DEF msg_queue_recv, Idle
<1> QED
  BY <1>1, <1>2 DEF msg_queue_recv

\* The five kinds of step are all there are.
LEMMA StepKinds ==
  ASSUME DataOK, MailInv, [Programs]_progVars
  PROVE  Kind
<1>1. ASSUME NEW p, Start(p) \/ Kill(p) \/ RTest(p) PROVE Idle
  BY <1>1 DEF Start, Kill, RTest, Idle, msgVars
<1>2. ASSUME NEW p \in Processes, SCreate(p) \/ RCreate(p) PROVE Idle \/ Make
  BY <1>2, CreateKinds DEF SCreate, RCreate
<1>3. ASSUME NEW p \in Senders, SSend(p) PROVE Idle \/ Put
  BY <1>3 DEF SSend, msg_queue_send, Sent, Message, Idle, Put, Mail, Valid, Goto
<1>4. ASSUME NEW p \in Receivers, RRecv(p) PROVE Idle \/ Take
  BY <1>4, RecvKinds, ProgramsAssumption DEF RRecv
<1>5. ASSUME NEW p \in Receivers, RDel(p) PROVE Idle \/ Drop
  BY <1>5 DEF RDel, msg_queue_del, Idle, Drop, Goto, Valid, DataOK
<1>6. CASE UNCHANGED progVars
  BY <1>6 DEF progVars, msgVars, Idle, Kind
<1> QED
  BY <1>1, <1>2, <1>3, <1>4, <1>5, <1>6, ProgramsAssumption
     DEF Programs, Send, Receive, Kind

-----------------------------------------------------------------------------
(* The bound on the messages that are numbered.                            *)

\* Counting the senders makes sense.
LEMMA ActiveFacts ==
  /\ IsFiniteSet(Active) /\ Cardinality(Active) \in Nat
  /\ Cardinality(Senders) \in Nat /\ Cardinality(Active) <= Cardinality(Senders)
<1>1. Active \subseteq Senders /\ IsFiniteSet(Senders)
  BY ProgramsAssumption DEF Active
<1> QED
  BY <1>1, FS_Subset, FS_CardinalityType

\* The bound is kept when no sender is started and none sends.
LEMMA SentKept ==
  ASSUME DataOK, SentInv, Active' \subseteq Active, sent' = sent \/ sent' = 0
  PROVE  SentInv'
<1>1. /\ IsFiniteSet(Active) /\ Cardinality(Active) \in Nat
      /\ Cardinality(Senders) \in Nat /\ MaxSent \in Nat /\ sent \in Nat
      /\ sent + Cardinality(Active) <= MaxSent + Cardinality(Senders)
  BY ActiveFacts, ProgramsAssumption DEF DataOK, SentInv
<1>2. Cardinality(Active') \in Nat /\ Cardinality(Active') <= Cardinality(Active)
  BY <1>1, FS_Subset, FS_CardinalityType
<1> QED
  BY <1>1, <1>2 DEF SentInv

\* Starting a sender needs sent < MaxSent, and each sends once at most.
LEMMA SentStep ==
  ASSUME DataOK, MailInv, SentInv, [Programs]_progVars
  PROVE  SentInv'
<1>0. /\ IsFiniteSet(Active) /\ Cardinality(Active) \in Nat
      /\ Cardinality(Senders) \in Nat /\ MaxSent \in Nat /\ sent \in Nat
      /\ sent + Cardinality(Active) <= MaxSent + Cardinality(Senders)
  BY ActiveFacts, ProgramsAssumption DEF DataOK, SentInv
<1>2. ASSUME NEW p, Start(p) PROVE SentInv'
  <2>1. CASE p \in Senders
    <3>1. sent < MaxSent /\ sent' = sent
      BY <1>2, <2>1 DEF Start, msgVars
    <3>2. Active' \subseteq Senders
      BY DEF Active
    <3>3. Cardinality(Active') \in Nat /\ Cardinality(Active') <= Cardinality(Senders)
      BY <3>2, ProgramsAssumption, FS_Subset, FS_CardinalityType
    <3> QED
      BY <1>0, <3>1, <3>3 DEF SentInv
  <2>2. CASE p \notin Senders
    <3>1. Active' = Active /\ sent' = sent
      BY <1>2, <2>2 DEF Start, Goto, Active, DataOK, msgVars
    <3> QED
      BY <3>1, SentKept
  <2> QED
    BY <2>1, <2>2
<1>3. ASSUME NEW p \in Senders, SSend(p) PROVE SentInv'
  <2>1. p \in Active /\ Active' = Active \ {p}
    BY <1>3, ProgramsAssumption DEF SSend, Goto, Active, DataOK
  <2>2. Cardinality(Active') = Cardinality(Active) - 1
    BY <1>0, <2>1, FS_RemoveElement
  <2>3. sent' = sent \/ sent' = sent + 1
    BY <1>3 DEF SSend, msg_queue_send, Sent
  <2> QED
    BY <1>0, <2>2, <2>3 DEF SentInv
<1>4. ASSUME NEW p \in Processes, SCreate(p) \/ RCreate(p) PROVE SentInv'
  <2>1. at[p] = "create" /\ (at' = [at EXCEPT ![p] = "send"] \/ at' = [at EXCEPT ![p] = "recv"])
    BY <1>4 DEF SCreate, RCreate, Goto
  <2>2. Active' \subseteq Active
    BY <2>1, ProgramsAssumption DEF Active, DataOK
  <2>3. sent' = sent \/ sent' = 0
    BY <1>4, CreateKinds DEF SCreate, RCreate, Idle, Make
  <2> QED
    BY <2>2, <2>3, SentKept
<1>5. ASSUME NEW p \in Processes, Kill(p) \/ RRecv(p) \/ RTest(p) \/ RDel(p) PROVE SentInv'
  <2>1. \E to \in {"off", "test", "del", "recv", "end"} : at' = [at EXCEPT ![p] = to]
    BY <1>5 DEF Kill, RRecv, RTest, RDel, Goto
  <2>2. Active' \subseteq Active
    BY <2>1, ProgramsAssumption DEF Active, DataOK
  <2>3. sent' = sent
    BY <1>5 DEF Kill, RRecv, RTest, RDel, msg_queue_recv, msg_queue_del, msgVars
  <2> QED
    BY <2>2, <2>3, SentKept
<1>6. CASE UNCHANGED progVars
  BY <1>6, SentKept DEF progVars, msgVars, Active
<1> QED
  BY <1>2, <1>3, <1>4, <1>5, <1>6, ProgramsAssumption DEF Programs, Send, Receive

\* A message that is put in has a number within the bound.
LEMMA PutNumber ==
  ASSUME DataOK, MailInv, SentInv, Put
  PROVE  \A text \in Texts : Mail(text) \in Messages /\ Mail(text) \in Mails
<1>1. PICK p \in Senders : at[p] = "send"
  BY DEF Put
<1>2. Cardinality(Active) # 0
  <2>1. Active # {}
    BY <1>1 DEF Active
  <2> QED
    BY <2>1, ActiveFacts, FS_EmptySet
<1>3. sent + 1 <= MaxSent + Cardinality(Senders) /\ sent \in Nat
  BY <1>2, ActiveFacts, ProgramsAssumption DEF SentInv, DataOK
<1>4. made > 0
  BY DEF MailInv, Put
<1>5. made \in 1..MaxQueues
  BY <1>4, MsgQueueAssumption DEF DataOK
<1>6. sent + 1 \in 1..(MaxSent + Cardinality(Senders)) /\ sent + 1 \in Nat \ {0}
  BY <1>3, ActiveFacts, ProgramsAssumption
<1> QED
  BY <1>5, <1>6 DEF Mail, Messages, Mails, MSG_UARTD_TO_IOT

-----------------------------------------------------------------------------
(* What is in the queue and what was in it.                                *)

\* The facts about the end of the two sequences that the steps below need.
LEMMA AppendFacts ==
  ASSUME NEW S, NEW q \in Seq(S), NEW e
  PROVE  /\ DOMAIN Append(q, e) = 1..Len(q) + 1 /\ DOMAIN q = 1..Len(q) /\ Len(q) \in Nat
         /\ \A k \in DOMAIN Append(q, e) : \/ k \in DOMAIN q /\ Append(q, e)[k] = q[k]
                                           \/ k = Len(q) + 1 /\ Append(q, e)[k] = e
         /\ \A k \in DOMAIN q : k \in DOMAIN Append(q, e) /\ Append(q, e)[k] = q[k]
         /\ Len(q) + 1 \in DOMAIN Append(q, e) /\ Append(q, e)[Len(q) + 1] = e
<1>1. q \in Seq(S \cup {e}) /\ e \in S \cup {e}
  <2>1. \A k \in 1..Len(q) : q[k] \in S \cup {e}
    BY ElementOfSeq
  <2> QED
    BY <2>1
<1>2. /\ Append(q, e) \in Seq(S \cup {e}) /\ Len(Append(q, e)) = Len(q) + 1
      /\ \A k \in 1..Len(q) : Append(q, e)[k] = q[k]
      /\ Append(q, e)[Len(q) + 1] = e
  BY <1>1, AppendProperties
<1>3. DOMAIN q = 1..Len(q) /\ Len(q) \in Nat
  BY LenProperties
<1>4. DOMAIN Append(q, e) = 1..Len(q) + 1
  BY <1>2, LenProperties
<1> QED
  BY <1>2, <1>3, <1>4

\* Each kind of step keeps the order of the numbers.
LEMMA MailStep ==
  ASSUME DataOK, MailInv, SentInv, Kind
  PROVE  MailInv'
<1>1. CASE Idle
  BY <1>1 DEF Idle, MailInv, DataOK
<1>2. CASE Make
  <2>1. DOMAIN queue' = {}
    BY <1>2 DEF Make
  <2>2. made' > 0 /\ exists'
    BY <1>2 DEF Make, DataOK
  <2>3. \A k \in DOMAIN taken : taken[k] \in Mails /\ taken[k].of < made'
    BY <1>2 DEF Make, MailInv, DataOK, Mails
  <2>4. taken' = taken /\ queue' = <<>> /\ made' \in Nat
    BY <1>2 DEF Make, DataOK
  <2>5. \A k \in DOMAIN taken' :
          taken'[k] \in Mails /\ taken'[k].of <= made' /\ taken'[k].of # made'
    BY <2>3, <2>4 DEF Mails
  <2> QED
    BY <2>1, <2>2, <2>4, <2>5 DEF MailInv
<1>3. CASE Put
  <2>1. PICK text \in Texts : queue' = Append(queue, Mail(text))
    BY <1>3 DEF Put
  <2>2. Mail(text) \in Mails /\ Mail(text).of = made /\ Mail(text).num = sent + 1
    BY <1>3, PutNumber DEF Mail
  <2>3. /\ exists' = exists /\ made' = made /\ taken' = taken /\ sent' = sent + 1
        /\ sent \in Nat /\ queue \in Seq(Messages) /\ exists
    BY <1>3 DEF Put, DataOK
  <2> DEFINE m == Mail(text)
  <2> HIDE DEF m
  <2>4. \A k \in DOMAIN queue' : \/ k \in DOMAIN queue /\ queue'[k] = queue[k]
                                 \/ k = Len(queue) + 1 /\ queue'[k] = m
    BY <2>1, <2>3, AppendFacts DEF m
  <2>5. DOMAIN queue = 1..Len(queue) /\ Len(queue) \in Nat
    BY <2>3, LenProperties
  <2>6. \A k \in DOMAIN queue : queue[k] \in Mails /\ queue[k].of = made /\ queue[k].num <= sent
    BY DEF MailInv
  <2>7. \A k \in DOMAIN queue' :
          queue'[k] \in Mails /\ queue'[k].of = made' /\ queue'[k].num <= sent'
    BY <2>2, <2>3, <2>4, <2>6 DEF m, Mails
  <2>8. \A j, k \in DOMAIN queue' : j < k => queue'[j].num < queue'[k].num
    <3> TAKE j, k \in DOMAIN queue'
    <3> HAVE j < k
    <3>1. j \in DOMAIN queue /\ queue'[j] = queue[j]
      BY <2>4, <2>5
    <3>2. CASE k \in DOMAIN queue /\ queue'[k] = queue[k]
      BY <3>1, <3>2 DEF MailInv
    <3>3. CASE queue'[k] = m
      <4>1. queue[j].num <= sent /\ queue[j].num \in Nat /\ queue'[k].num = sent + 1
        BY <2>2, <2>6, <3>1, <3>3 DEF m, Mails
      <4> QED
        BY <2>3, <3>1, <4>1
    <3> QED
      BY <2>4, <3>2, <3>3
  <2>9. \A k \in DOMAIN taken' :
         /\ taken'[k] \in Mails /\ taken'[k].of <= made'
         /\ taken'[k].of = made' =>
              /\ taken'[k].num <= sent'
              /\ \A j \in DOMAIN queue' : taken'[k].num < queue'[j].num
    <3> SUFFICES ASSUME NEW k \in DOMAIN taken
                 PROVE  /\ taken[k] \in Mails /\ taken[k].of <= made
                        /\ taken[k].of = made =>
                             /\ taken[k].num <= sent + 1
                             /\ \A j \in DOMAIN queue' : taken[k].num < queue'[j].num
      BY <2>3
    <3>1. /\ taken[k] \in Mails /\ taken[k].of <= made
          /\ taken[k].of = made => /\ taken[k].num <= sent
                                   /\ \A j \in DOMAIN queue : taken[k].num < queue[j].num
      BY DEF MailInv
    <3>2. taken[k].num \in Nat /\ m.num = sent + 1
      BY <2>2, <3>1 DEF Mails, m
    <3> QED
      BY <2>3, <2>4, <3>1, <3>2
  <2> QED
    BY <1>3, <2>3, <2>7, <2>8, <2>9 DEF MailInv
<1>4. CASE Take
  <2>1. /\ exists /\ exists' = exists /\ made' = made /\ sent' = sent /\ sent \in Nat
        /\ queue' = Tail(queue) /\ taken' = Append(taken, Head(queue))
        /\ queue # <<>> /\ taken \in Seq(Messages)
    BY <1>4 DEF Take, DataOK
  <2>2. /\ Head(queue) = queue[1] /\ 1 \in DOMAIN queue
        /\ \A k \in DOMAIN queue' : /\ k \in Nat /\ k > 0 /\ k + 1 \in DOMAIN queue
                                    /\ queue'[k] = queue[k + 1]
    BY <2>1, TailFacts
  <2>3. \A k \in DOMAIN queue : queue[k] \in Mails /\ queue[k].of = made /\ queue[k].num <= sent
    BY DEF MailInv
  <2>4. \A k \in DOMAIN queue' :
          queue'[k] \in Mails /\ queue'[k].of = made' /\ queue'[k].num <= sent'
    BY <2>1, <2>2, <2>3
  <2>5. \A j, k \in DOMAIN queue' : j < k => queue'[j].num < queue'[k].num
    <3> TAKE j, k \in DOMAIN queue'
    <3> HAVE j < k
    <3>1. /\ j + 1 \in DOMAIN queue /\ queue'[j] = queue[j + 1]
          /\ k + 1 \in DOMAIN queue /\ queue'[k] = queue[k + 1] /\ j + 1 < k + 1
      BY <2>2
    <3> QED
      BY <3>1 DEF MailInv
  <2>6. \A k \in DOMAIN taken' : \/ k \in DOMAIN taken /\ taken'[k] = taken[k]
                                 \/ taken'[k] = queue[1]
    BY <2>1, <2>2, AppendFacts
  <2>7. \A j \in DOMAIN queue' : queue[1].num < queue'[j].num
    BY <2>2 DEF MailInv
  <2>8. \A k \in DOMAIN taken :
         /\ taken[k] \in Mails /\ taken[k].of <= made
         /\ taken[k].of = made => /\ taken[k].num <= sent
                                  /\ \A j \in DOMAIN queue' : taken[k].num < queue'[j].num
    BY <2>2 DEF MailInv
  <2>9. queue[1] \in Mails /\ queue[1].of <= made /\ queue[1].num <= sent
    BY <2>2, <2>3 DEF DataOK
  <2>10. \A k \in DOMAIN taken' :
         /\ taken'[k] \in Mails /\ taken'[k].of <= made'
         /\ taken'[k].of = made' =>
              /\ taken'[k].num <= sent'
              /\ \A j \in DOMAIN queue' : taken'[k].num < queue'[j].num
    BY <2>1, <2>6, <2>7, <2>8, <2>9
  <2> QED
    BY <2>1, <2>4, <2>5, <2>10 DEF MailInv
<1>5. CASE Drop
  <2>1. /\ exists' = FALSE /\ queue' = <<>> /\ DOMAIN queue' = {}
        /\ made' = made /\ taken' = taken /\ sent' = sent
    BY <1>5 DEF Drop
  <2> QED
    BY <2>1 DEF MailInv
<1> QED
  BY <1>1, <1>2, <1>3, <1>4, <1>5 DEF Kind

-----------------------------------------------------------------------------
(* What the receivers work on.                                             *)

\* What was taken stays in taken.
LEMMA TakenKept ==
  ASSUME DataOK, MailInv, Kind, NEW k \in DOMAIN taken
  PROVE  k \in DOMAIN taken' /\ taken'[k] = taken[k]
<1>1. taken' = taken \/ taken' = Append(taken, Head(queue))
  BY DEF Kind, Idle, Make, Put, Take, Drop
<1>2. taken \in Seq(Messages)
  BY DEF DataOK
<1> QED
  BY <1>1, <1>2, AppendFacts

\* A receiver's variables change only by its own steps.
LEMMA OthersKept ==
  ASSUME DataOK, NEW p, NEW q \in Processes, p # q,
         \/ Start(p) \/ Kill(p) \/ Send(p) \/ Receive(p)
  PROVE  at'[q] = at[q] /\ tmp'[q] = tmp[q] /\ msg_queue_id'[q] = msg_queue_id[q]
<1>0. /\ at \in [Processes -> Statements \cup {"parse"}]
      /\ tmp \in [Processes -> Messages \cup {NoMessage}]
      /\ msg_queue_id \in [Processes -> -1..MaxQueues]
  BY DEF DataOK
<1>1. CASE Start(p)
  BY <1>0, <1>1 DEF Start, Goto, msgVars
<1>2. CASE Kill(p) \/ RTest(p)
  BY <1>0, <1>2 DEF Kill, RTest, Goto
<1>3. CASE SCreate(p) \/ RCreate(p)
  <2>1. \E id : msg_queue_id' = [msg_queue_id EXCEPT ![p] = id] /\ tmp' = tmp
    BY <1>3 DEF SCreate, RCreate, msg_queue_create_msg_queue, Created
  <2>2. \E to : at' = [at EXCEPT ![p] = to]
    BY <1>3 DEF SCreate, RCreate, Goto
  <2> QED
    BY <1>0, <2>1, <2>2
<1>4. CASE SSend(p) \/ RDel(p)
  BY <1>0, <1>4 DEF SSend, RDel, msg_queue_send, Sent, msg_queue_del, Goto
<1>5. CASE RRecv(p)
  <2>1. \E m : tmp' = [tmp EXCEPT ![p] = m]
    BY <1>5 DEF RRecv, msg_queue_recv
  <2> QED
    BY <1>0, <1>5, <2>1 DEF RRecv, msg_queue_recv, Goto
<1> QED
  BY <1>1, <1>2, <1>3, <1>4, <1>5 DEF Send, Receive

\* A receiver tests, and deletes after, what it has taken from its queue.
LEMMA ReadStep ==
  ASSUME DataOK, MailInv, ReadInv, [Programs]_progVars
  PROVE  ReadInv'
<1> SUFFICES ASSUME NEW q \in Receivers
             PROVE /\ at'[q] \in {"test", "del", "end"} =>
                        \/ tmp'[q] = NoMessage
                        \/ /\ tmp'[q].of = msg_queue_id'[q]
                           /\ \E k \in DOMAIN taken' : taken'[k] = tmp'[q]
                   /\ at'[q] = "del" => tmp'[q].text = "quit"
  BY DEF ReadInv
<1> DEFINE Goal == /\ at'[q] \in {"test", "del", "end"} =>
                        \/ tmp'[q] = NoMessage
                        \/ /\ tmp'[q].of = msg_queue_id'[q]
                           /\ \E k \in DOMAIN taken' : taken'[k] = tmp'[q]
                   /\ at'[q] = "del" => tmp'[q].text = "quit"
<1>0. q \in Processes /\ q \notin Senders
  BY ProgramsAssumption
<1> Kind
  BY StepKinds
<1>1. /\ at[q] \in {"test", "del", "end"} =>
           \/ tmp[q] = NoMessage
           \/ tmp[q].of = msg_queue_id[q] /\ \E k \in DOMAIN taken : taken[k] = tmp[q]
      /\ at[q] = "del" => tmp[q].text = "quit"
  BY DEF ReadInv
<1>2. ASSUME at'[q] = at[q] \/ at'[q] = "off", tmp'[q] = tmp[q], msg_queue_id'[q] = msg_queue_id[q]
      PROVE Goal
  BY <1>1, <1>2, TakenKept
<1>3. CASE UNCHANGED progVars
  BY <1>2, <1>3 DEF progVars, msgVars
<1>4. ASSUME NEW p, p # q, Start(p) \/ Kill(p) \/ Send(p) \/ Receive(p) PROVE Goal
  BY <1>0, <1>2, <1>4, OthersKept
<1>5. CASE Kill(q)
  BY <1>0, <1>5 DEF Kill, DataOK
<1>6. CASE Start(q)
  BY <1>0, <1>6 DEF Start, Goto, DataOK
<1>7. CASE RCreate(q)
  BY <1>0, <1>7 DEF RCreate, Goto, DataOK
<1>8. CASE RRecv(q)
  <2>1. at'[q] = "test"
    BY <1>0, <1>8 DEF RRecv, Goto, DataOK
  <2>2. msg_queue_id' = msg_queue_id
    BY <1>8 DEF RRecv, msg_queue_recv
  <2>3. CASE tmp' = [tmp EXCEPT ![q] = NoMessage]
    BY <1>0, <2>1, <2>3 DEF DataOK
  <2>4. CASE Take /\ Valid(q) /\ tmp' = [tmp EXCEPT ![q] = Head(queue)]
    <3>1. tmp'[q] = Head(queue)
      BY <1>0, <2>4 DEF DataOK
    <3>2. Head(queue).of = made /\ msg_queue_id[q] = made
      BY <2>4, TailFacts DEF MailInv, Take, Valid
    <3>3. \E k \in DOMAIN taken' : taken'[k] = Head(queue)
      <4>1. taken \in Seq(Messages) /\ taken' = Append(taken, Head(queue))
        BY <2>4 DEF Take, DataOK
      <4>2. Len(taken) + 1 \in DOMAIN taken' /\ taken'[Len(taken) + 1] = Head(queue)
        BY <4>1, AppendFacts
      <4> QED
        BY <4>2
    <3> QED
      BY <2>1, <2>2, <3>1, <3>2, <3>3
  <2> QED
    BY <1>0, <1>8, <2>3, <2>4, RecvKinds DEF RRecv
<1>9. CASE RTest(q)
  <2>1. CASE Quits(q) /\ Goto(q, "test", "del") /\ UNCHANGED tmp
    <3>1. /\ at[q] = "test" /\ at'[q] = "del" /\ tmp' = tmp /\ tmp[q].text = "quit"
          /\ msg_queue_id' = msg_queue_id
      BY <1>0, <1>9, <2>1 DEF RTest, Goto, Quits, DataOK
    <3> QED
      BY <1>1, <3>1, TakenKept
  <2>2. CASE Goto(q, "test", "recv")
    BY <1>0, <2>2 DEF Goto, DataOK
  <2> QED
    BY <1>9, <2>1, <2>2 DEF RTest
<1>10. CASE RDel(q)
  <2>1. /\ at[q] = "del" /\ at'[q] = "end" /\ tmp' = tmp
        /\ msg_queue_id' = msg_queue_id
    BY <1>0, <1>10 DEF RDel, msg_queue_del, Goto, DataOK
  <2> QED
    BY <1>1, <2>1, TakenKept
<1> QED
  BY <1>0, <1>3, <1>4, <1>5, <1>6, <1>7, <1>8, <1>9, <1>10 DEF Programs, Receive

-----------------------------------------------------------------------------
(* Types.                                                                  *)

\* The queue and its histories.
LEMMA QueueTypes ==
  ASSUME DataOK, MailInv, SentInv, Kind
  PROVE  /\ made' \in 0..MaxQueues /\ exists' \in BOOLEAN
         /\ queue' \in Seq(Messages) /\ Len(queue') <= Capacity
         /\ sent' \in Nat
         /\ taken' \in Seq(Messages)
<1>0. /\ made \in 0..MaxQueues /\ exists \in BOOLEAN
      /\ queue \in Seq(Messages) /\ Len(queue) <= Capacity /\ Len(queue) \in Nat
      /\ sent \in Nat /\ taken \in Seq(Messages)
      /\ <<>> \in Seq(Messages) /\ Len(<<>>) = 0
  BY EmptySeq, LenProperties DEF DataOK
<1>1. CASE Idle
  BY <1>0, <1>1 DEF Idle
<1>2. CASE Make
  BY <1>0, <1>2, MsgQueueAssumption DEF Make
<1>3. CASE Put
  <2>1. PICK text \in Texts : queue' = Append(queue, Mail(text))
    BY <1>3 DEF Put
  <2>2. Mail(text) \in Messages
    BY <1>3, PutNumber
  <2>3. queue' \in Seq(Messages) /\ Len(queue') = Len(queue) + 1
    BY <1>0, <2>1, <2>2, AppendProperties
  <2>4. Len(queue') <= Capacity
    BY <1>0, <1>3, <2>3, MsgQueueAssumption DEF Put
  <2> QED
    BY <1>0, <1>3, <2>3, <2>4 DEF Put
<1>4. CASE Take
  <2>1. Head(queue) \in Messages /\ Tail(queue) \in Seq(Messages) /\ Len(Tail(queue)) < Len(queue)
    BY <1>4, TailFacts DEF Take
  <2>2. Len(Tail(queue)) \in Nat
    BY <2>1, LenProperties
  <2>3. taken' \in Seq(Messages)
    BY <1>0, <1>4, <2>1, AppendProperties DEF Take
  <2>4. Len(queue') <= Capacity
    BY <1>0, <1>4, <2>1, <2>2, MsgQueueAssumption DEF Take
  <2> QED
    BY <1>0, <1>4, <2>1, <2>3, <2>4 DEF Take
<1>5. CASE Drop
  <2>1. queue' = <<>> /\ exists' = FALSE /\ made' = made /\ sent' = sent /\ taken' = taken
    BY <1>5 DEF Drop
  <2>2. queue' \in Seq(Messages) /\ Len(queue') = 0 /\ 0 <= Capacity
    BY <1>0, <2>1, MsgQueueAssumption
  <2> QED
    BY <1>0, <2>1, <2>2
<1> QED
  BY <1>1, <1>2, <1>3, <1>4, <1>5 DEF Kind

\* What each process keeps.
LEMMA ProcessTypes ==
  ASSUME DataOK, MailInv, [Programs]_progVars,
         NEW S, Statements \subseteq S,
         at \in [Processes -> S]
  PROVE  /\ msg_queue_id' \in [Processes -> -1..MaxQueues]
         /\ ret' \in [Processes -> Int]
         /\ tmp' \in [Processes -> Messages \cup {NoMessage}]
         /\ at' \in [Processes -> S]
<1>0. /\ msg_queue_id \in [Processes -> -1..MaxQueues] /\ made \in 0..MaxQueues
      /\ ret \in [Processes -> Int]
      /\ tmp \in [Processes -> Messages \cup {NoMessage}]
      /\ at \in [Processes -> S]
      /\ MaxQueues \in Nat /\ {"off", "create", "send", "recv", "test", "del", "end"} \subseteq S
  BY MsgQueueAssumption DEF DataOK, Statements
<1>1. ASSUME NEW p, Start(p)
      PROVE  UNCHANGED <<msg_queue_id, ret, tmp>> /\ at' = [at EXCEPT ![p] = "create"]
  BY <1>1 DEF Start, Goto, msgVars
<1>2. ASSUME NEW p, Kill(p)
      PROVE  /\ msg_queue_id' = [msg_queue_id EXCEPT ![p] = 0]
             /\ ret' = [ret EXCEPT ![p] = 0] /\ tmp' = [tmp EXCEPT ![p] = NoMessage]
             /\ at' = [at EXCEPT ![p] = "off"]
  BY <1>2 DEF Kill
<1>12. ASSUME NEW p, RTest(p)
       PROVE  /\ UNCHANGED <<msg_queue_id, ret>>
              /\ tmp' = tmp \/ tmp' = [tmp EXCEPT ![p] = NoMessage]
              /\ \E to \in {"del", "recv"} : at' = [at EXCEPT ![p] = to]
  BY <1>12 DEF RTest, Goto
<1>3. ASSUME NEW p, SCreate(p) \/ RCreate(p)
      PROVE  /\ \E to \in {"send", "recv"} : at' = [at EXCEPT ![p] = to]
             /\ tmp' = tmp
             /\ \E id \in -1..MaxQueues : msg_queue_id' = [msg_queue_id EXCEPT ![p] = id]
             /\ \E r \in Int : ret' = [ret EXCEPT ![p] = r]
  <2>1. msg_queue_create_msg_queue(p) /\ \E to \in {"send", "recv"} : at' = [at EXCEPT ![p] = to]
    BY <1>3 DEF SCreate, RCreate, Goto
  <2>2. \E id \in -1..MaxQueues, r \in Int : Created(p, id, r)
    <3>1. made \in -1..MaxQueues /\ -1 \in -1..MaxQueues
          /\ (made < MaxQueues => made + 1 \in -1..MaxQueues)
      BY <1>0
    <3> QED
      BY <2>1, <3>1 DEF msg_queue_create_msg_queue
  <2> QED
    BY <2>1, <2>2 DEF Created
<1>4. ASSUME NEW p, SSend(p) \/ RDel(p)
      PROVE  /\ at' = [at EXCEPT ![p] = "end"] /\ UNCHANGED <<msg_queue_id, tmp>>
             /\ ret' = ret \/ \E r \in Int : ret' = [ret EXCEPT ![p] = r]
  BY <1>4 DEF SSend, RDel, msg_queue_send, Sent, msg_queue_del, Goto
<1>5. ASSUME NEW p \in Receivers, RRecv(p)
      PROVE  /\ at' = [at EXCEPT ![p] = "test"] /\ UNCHANGED <<msg_queue_id, ret>>
             /\ \E m \in Messages \cup {NoMessage} : tmp' = [tmp EXCEPT ![p] = m]
  <2>1. CASE tmp' = [tmp EXCEPT ![p] = NoMessage]
    BY <1>5, <2>1 DEF RRecv, msg_queue_recv, Goto
  <2>2. CASE Take /\ tmp' = [tmp EXCEPT ![p] = Head(queue)]
    BY <1>5, <2>2, TailFacts DEF RRecv, msg_queue_recv, Goto, Take
  <2> QED
    BY <1>5, <2>1, <2>2, RecvKinds, ProgramsAssumption DEF RRecv
<1>6. CASE UNCHANGED progVars
  BY <1>0, <1>6 DEF progVars, msgVars
<1>7. CASE \E p : Start(p)
  BY <1>0, <1>1, <1>7
<1>8. CASE \E p : Kill(p)
  <2>1. 0 \in -1..MaxQueues
    BY <1>0
  <2> QED
    BY <1>0, <1>2, <1>8, <2>1
<1>13. CASE \E p : RTest(p)
  BY <1>0, <1>12, <1>13
<1>9. CASE \E p : SCreate(p) \/ RCreate(p)
  BY <1>0, <1>3, <1>9
<1>10. CASE \E p : SSend(p) \/ RDel(p)
  BY <1>0, <1>4, <1>10
<1>11. CASE \E p \in Receivers : RRecv(p)
  BY <1>0, <1>5, <1>11
<1> QED
  BY <1>6, <1>7, <1>8, <1>9, <1>10, <1>11, <1>13 DEF Programs, Send, Receive

-----------------------------------------------------------------------------
(* The theorems.                                                           *)

\* The programs begin with no queue.
LEMMA MailboxInit == ProgInit => MailboxInv
<1> SUFFICES ASSUME ProgInit PROVE MailboxInv
  OBVIOUS
<1>1. <<>> \in Seq(Messages) /\ Len(<<>>) = 0 /\ DOMAIN <<>> = {}
  BY EmptySeq
<1>2. 0 \in -1..MaxQueues /\ 0 \in 0..MaxQueues /\ 0 <= Capacity
  BY MsgQueueAssumption
<1>3. DataOK
  <2>1. ret \in [Processes -> Int] /\ msg_queue_id \in [Processes -> -1..MaxQueues]
    BY <1>2 DEF ProgInit, MsgInit
  <2>2. tmp \in [Processes -> Messages \cup {NoMessage}]
    BY DEF ProgInit, MsgInit
  <2>3. at \in [Processes -> Statements \cup {"parse"}]
    BY DEF ProgInit, Statements
  <2> QED
    BY <1>1, <1>2, <2>1, <2>2, <2>3 DEF ProgInit, MsgInit, DataOK
<1>4. MailInv
  BY <1>1 DEF ProgInit, MsgInit, MailInv
<1>5. ReadInv
  BY ProgramsAssumption DEF ProgInit, ReadInv
<1>6. SentInv
  <2>1. Active = {} /\ sent = 0
    BY ProgramsAssumption DEF ProgInit, MsgInit, Active
  <2> QED
    BY <2>1, FS_EmptySet, ActiveFacts, ProgramsAssumption DEF SentInv
<1> QED
  BY <1>3, <1>4, <1>5, <1>6 DEF MailboxInv

\* The invariant is inductive.
LEMMA MailboxStep == MailboxInv /\ [Programs]_progVars => MailboxInv'
<1> SUFFICES ASSUME MailboxInv, [Programs]_progVars PROVE MailboxInv'
  OBVIOUS
<1>1. DataOK /\ MailInv /\ ReadInv /\ SentInv
  BY DEF MailboxInv
<1>2. Kind
  BY <1>1, StepKinds
<1>3. /\ msg_queue_id' \in [Processes -> -1..MaxQueues]
      /\ ret' \in [Processes -> Int]
      /\ tmp' \in [Processes -> Messages \cup {NoMessage}]
      /\ at' \in [Processes -> Statements \cup {"parse"}]
  <2>1. at \in [Processes -> Statements \cup {"parse"}]
    BY <1>1 DEF DataOK
  <2>2. Statements \subseteq Statements \cup {"parse"}
    OBVIOUS
  <2> QED
    BY <1>1, <2>1, <2>2, ProcessTypes
<1>4. DataOK'
  BY <1>1, <1>2, <1>3, QueueTypes DEF DataOK, Messages
<1>5. MailInv' /\ ReadInv' /\ SentInv'
  BY <1>1, <1>2, MailStep, ReadStep, SentStep
<1> QED
  BY <1>4, <1>5 DEF MailboxInv

\* The messages in the queue, and those taken from it, are numbered in the order
\* in which they were sent; what a receiver works on it has taken.
THEOREM MailboxInvariant == Spec => []MailboxInv
BY MailboxInit, MailboxStep, PTL DEF Spec

\* What a receiver that removes the queue has read is older than what is left.
LEMMA QuitFollows == MailInv /\ ReadInv => QuitLeavesOnlyLater
<1> SUFFICES ASSUME MailInv, ReadInv, NEW p \in Receivers, at[p] = "del", Valid(p)
             PROVE  /\ tmp[p].of = made
                    /\ \A k \in DOMAIN queue : queue[k].num > tmp[p].num
  BY DEF QuitLeavesOnlyLater
<1>1. tmp[p].text = "quit" /\ tmp[p] # NoMessage
  <2>1. tmp[p].text = "quit"
    BY DEF ReadInv
  <2>2. NoMessage.text # "quit"
    BY DEF NoMessage
  <2> QED
    BY <2>1, <2>2
<1>2. PICK j \in DOMAIN taken : taken[j] = tmp[p]
  BY <1>1 DEF ReadInv
<1>3. tmp[p].of = made
  BY <1>1 DEF ReadInv, Valid
<1>4. ASSUME NEW k \in DOMAIN queue PROVE queue[k].num > tmp[p].num
  <2>1. taken[j].num < queue[k].num
    BY <1>2, <1>3 DEF MailInv
  <2>2. taken[j].num \in Nat /\ queue[k].num \in Nat
    BY DEF MailInv, Mails
  <2> QED
    BY <1>2, <2>1, <2>2
<1> QED
  BY <1>3, <1>4

\* A receiver that is about to remove the queue it has read "quit" from leaves
\* nothing in it that was sent before (test_recv.c:27), whoever shares the queue.
THEOREM QuitIsLast == Spec => []QuitLeavesOnlyLater
<1>1. MailboxInv => QuitLeavesOnlyLater
  BY QuitFollows DEF MailboxInv
<1> QED
  BY <1>1, MailboxInvariant, PTL

-----------------------------------------------------------------------------
(* The queue is a mailbox.                                                 *)

\* No message that is put in was there before: it has the highest number.
LEMMA PutNew ==
  ASSUME DataOK, MailInv, NEW text \in Texts
  PROVE  Mail(text) \notin Box!Known
<1> SUFFICES ASSUME Mail(text) \in Box!Known PROVE FALSE
  OBVIOUS
<1>1. Mail(text).of = made /\ Mail(text).num = sent + 1 /\ sent \in Nat
  BY DEF Mail, DataOK
<1>2. ASSUME NEW k \in DOMAIN queue, queue[k] = Mail(text) PROVE FALSE
  <2>1. queue[k].num <= sent
    BY DEF MailInv
  <2> QED
    BY <1>1, <1>2, <2>1
<1>3. ASSUME NEW k \in DOMAIN taken, taken[k] = Mail(text) PROVE FALSE
  <2>1. taken[k].num <= sent
    BY <1>1, <1>3 DEF MailInv
  <2> QED
    BY <1>1, <1>3, <2>1
<1> QED
  BY <1>2, <1>3 DEF Box!Known

\* A receiver about to remove the queue has taken a demand from it.
LEMMA DropDemanded ==
  ASSUME MailInv, ReadInv, Drop
  PROVE  Demanded
<1>1. MailInv /\ ReadInv
  OBVIOUS
<1>2. PICK p \in Receivers : at[p] = "del" /\ Valid(p)
  BY DEF Drop
<1>3. tmp[p].text = "quit"
  BY <1>1, <1>2 DEF ReadInv
<1>4. tmp[p] # NoMessage
  <2>1. NoMessage.text # "quit"
    BY DEF NoMessage
  <2> QED
    BY <1>3, <2>1
<1>5. PICK k \in DOMAIN taken : taken[k] = tmp[p]
  BY <1>1, <1>2, <1>4 DEF ReadInv
<1>6. taken[k].of = made /\ exists
  BY <1>1, <1>2, <1>4, <1>5 DEF ReadInv, Valid
<1>7. taken[k] \in Demands
  BY <1>1, <1>3, <1>5 DEF MailInv, Demands
<1> QED
  BY <1>6, <1>7 DEF Demanded

\* Every step of one of the five kinds is a step of the mailbox or none.
LEMMA MailboxRefined ==
  ASSUME DataOK, MailInv, ReadInv, SentInv, Kind
  PROVE  [Box!Next]_<<queue, taken, Demanded>>
<1>0. DataOK /\ MailInv /\ ReadInv /\ SentInv
  OBVIOUS
<1>1. CASE Idle
  <2>1. Demanded' = Demanded
    BY <1>1 DEF Idle, Demanded
  <2> QED
    BY <1>1, <2>1 DEF Idle
<1>2. CASE Make
  <2>1. queue = <<>> /\ queue' = <<>> /\ taken' = taken
    BY <1>0, <1>2 DEF Make, MailInv
  <2>2. Demanded = FALSE
    BY <1>2 DEF Make, Demanded
  <2>3. \A k \in DOMAIN taken' : taken'[k].of # made'
    <3>1. \A k \in DOMAIN taken : taken[k].of <= made /\ taken[k].of \in Nat
      BY <1>0 DEF MailInv, Mails
    <3> QED
      BY <1>0, <1>2, <2>1, <3>1 DEF Make, DataOK
  <2>4. Demanded' = FALSE
    BY <2>3 DEF Demanded
  <2> QED
    BY <2>1, <2>2, <2>4
<1>3. CASE Put
  <2>1. PICK text \in Texts : queue' = Append(queue, Mail(text))
    BY <1>3 DEF Put
  <2>2. Mail(text) \in Mails /\ Mail(text) \notin Box!Known
    BY <1>0, <1>3, PutNumber, PutNew
  <2>3. Demanded' = Demanded /\ taken' = taken /\ Len(queue) < Capacity
    BY <1>3 DEF Put, Demanded
  <2>4. Box!Accept(Mail(text))
    BY <2>1, <2>2, <2>3 DEF Box!Accept
  <2> QED
    BY <2>2, <2>4 DEF Box!Next
<1>4. CASE Take
  <2>1. /\ queue # <<>> /\ queue' = Tail(queue) /\ taken' = Append(taken, Head(queue))
        /\ exists /\ exists' = exists /\ made' = made /\ taken \in Seq(Messages)
    BY <1>0, <1>4 DEF Take, DataOK
  <2>2. Head(queue).of = made
    BY <1>0, <2>1, TailFacts DEF MailInv
  <2>3. \E k \in DOMAIN taken' : taken'[k] = Head(queue)
    <3>1. Len(taken) + 1 \in DOMAIN taken' /\ taken'[Len(taken) + 1] = Head(queue)
      BY <2>1, AppendFacts
    <3> QED
      BY <3>1
  <2>4. \A k \in DOMAIN taken' :
          (k \in DOMAIN taken /\ taken'[k] = taken[k]) \/ taken'[k] = Head(queue)
    BY <2>1, AppendFacts
  <2>5. \A k \in DOMAIN taken : k \in DOMAIN taken' /\ taken'[k] = taken[k]
    BY <2>1, AppendFacts
  <2>6. Demanded' <=> Demanded \/ Head(queue) \in Demands
    <3>1. CASE Head(queue) \in Demands
      BY <2>1, <2>2, <2>3, <3>1 DEF Demanded, Demands, Mails
    <3>2. CASE Head(queue) \notin Demands
      BY <2>1, <2>4, <2>5, <3>2 DEF Demanded, Demands, Mails
    <3> QED
      BY <3>1, <3>2
  <2>7. Demanded' = (Demanded \/ Head(queue) \in Demands)
    BY <2>6 DEF Demanded
  <2>8. Box!Deliver
    BY <2>1, <2>7 DEF Box!Deliver
  <2> QED
    BY <2>8 DEF Box!Next
<1>5. CASE Drop
  <2>1. Demanded = TRUE
    BY <1>5, DropDemanded DEF Demanded
  <2>2. Demanded' = FALSE /\ queue' = <<>> /\ taken' = taken
    BY <1>5 DEF Drop, Demanded
  <2> QED
    BY <2>1, <2>2 DEF Box!Clear, Box!Next
<1> QED
  BY <1>1, <1>2, <1>3, <1>4, <1>5 DEF Kind

\* The programs implement the mailbox, one queue after the other: what a sender
\* was told 0 for waits for one receiver, in order, whoever is killed, and only
\* the receiver of a "quit" from that queue clears it.
THEOREM QueueIsMailbox == Spec => ImplementsMailbox
<1>1. ProgInit => Box!Init
  BY DEF ProgInit, MsgInit, Box!Init, Demanded
<1>2. MailboxInv /\ [Programs]_progVars => [Box!Next]_<<queue, taken, Demanded>>
  BY MailboxRefined, StepKinds DEF MailboxInv
<1> QED
  BY <1>1, <1>2, MailboxInvariant, PTL DEF Spec, ImplementsMailbox, Box!Spec
=============================================================================
