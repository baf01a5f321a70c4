--------------------------- MODULE UartBridgeProofs ---------------------------
(***************************************************************************)
(* The daemon between the message queue and the serial port: what it       *)
(* writes, and where, for any number of programs beside it.                *)
(***************************************************************************)
EXTENDS UartBridge, MsgProgramsProofs

\* The steps of the daemon itself.
Own == \/ BStart \/ TOpenFails \/ TOpen \/ TSetOpt \/ TAssign
       \/ BCreate \/ BRecv \/ BParse \/ BKill

\* Those of the programs beside it.
Beside == Programs /\ UNCHANGED <<tty, ttyS0Fd, cmd, written>>

-----------------------------------------------------------------------------
(* The queue.                                                              *)

\* To the queue the daemon's steps are of the kinds of the programs' steps.
LEMMA BridgeKinds ==
  ASSUME DataOK, MailInv, [BridgeNext]_bridgeVars
  PROVE  Kind
<1>1. CASE BStart \/ TOpenFails \/ BKill \/ BParse
  BY <1>1 DEF BStart, Start, TOpenFails, BKill, Kill, BParse, msgVars, Idle, Kind
<1>2. CASE TOpen \/ TSetOpt \/ TAssign
  BY <1>2 DEF TOpen, TSetOpt, TAssign, TTo, progVars, msgVars, Idle, Kind
<1>3. CASE BCreate
  BY <1>3, CreateKinds, BridgeAssumption DEF BCreate, Kind
<1>4. CASE BRecv
  BY <1>4, RecvKinds, BridgeAssumption DEF BRecv, Kind
<1>5. CASE Beside
  BY <1>5, StepKinds DEF Beside
<1>6. CASE UNCHANGED bridgeVars
  BY <1>6 DEF bridgeVars, progVars, msgVars, Idle, Kind
<1> QED
  BY <1>1, <1>2, <1>3, <1>4, <1>5, <1>6 DEF BridgeNext, Beside

\* The daemon's steps change what is the daemon's.
LEMMA OwnChanges ==
  ASSUME DataOK, MailInv, Own
  PROVE  /\ \/ at' = at
            \/ \E to \in {"off", "create", "recv", "parse"} : at' = [at EXCEPT ![bridge] = to]
         /\ \/ msg_queue_id' = msg_queue_id
            \/ \E id \in -1..MaxQueues : msg_queue_id' = [msg_queue_id EXCEPT ![bridge] = id]
         /\ ret' = ret \/ \E r \in Int : ret' = [ret EXCEPT ![bridge] = r]
         /\ \/ tmp' = tmp
            \/ \E m \in Messages \cup {NoMessage} : tmp' = [tmp EXCEPT ![bridge] = m]
<1>0. 0 \in -1..MaxQueues /\ -1 \in -1..MaxQueues /\ made \in -1..MaxQueues
      /\ (made < MaxQueues => made + 1 \in -1..MaxQueues)
  BY MsgQueueAssumption DEF DataOK
<1>1. CASE BStart
  BY <1>1 DEF BStart, Start, Goto, msgVars
<1>2. CASE TOpenFails \/ BKill
  BY <1>0, <1>2 DEF TOpenFails, BKill, Kill
<1>3. CASE TOpen \/ TSetOpt \/ TAssign
  BY <1>3 DEF TOpen, TSetOpt, TAssign, TTo, progVars, msgVars
<1>4. CASE BCreate
  <2>1. \E id \in -1..MaxQueues, r \in Int : Created(bridge, id, r)
    BY <1>0, <1>4 DEF BCreate, msg_queue_create_msg_queue
  <2> QED
    BY <1>4, <2>1 DEF BCreate, Created, Goto
<1>5. CASE BRecv
  <2>1. \E m \in Messages \cup {NoMessage} : tmp' = [tmp EXCEPT ![bridge] = m]
    BY <1>5, RecvKinds, TailFacts, BridgeAssumption DEF BRecv, Take
  <2> QED
    BY <1>5, <2>1 DEF BRecv, msg_queue_recv, Goto
<1>6. CASE BParse
  BY <1>6 DEF BParse, msgVars, Goto
<1> QED
  BY <1>1, <1>2, <1>3, <1>4, <1>5, <1>6 DEF Own

\* The daemon is none of the programs.
LEMMA BesideKeeps ==
  ASSUME DataOK, Beside
  PROVE  /\ at'[bridge] = at[bridge] /\ tmp'[bridge] = tmp[bridge]
         /\ msg_queue_id'[bridge] = msg_queue_id[bridge]
         /\ UNCHANGED <<tty, ttyS0Fd, cmd, written>>
BY OthersKept, BridgeAssumption DEF Beside, Programs

\* The queue and its numbers are as they are without the daemon.
LEMMA BridgeQueue ==
  ASSUME DataOK, MailInv, SentInv, [BridgeNext]_bridgeVars
  PROVE  DataOK' /\ MailInv' /\ SentInv'
<1> DEFINE S == Statements \cup {"parse"}
<1>1. Kind
  BY BridgeKinds
<1>2. Own \/ Beside \/ UNCHANGED bridgeVars
  BY DEF BridgeNext, Own, Beside
<1>3. /\ at \in [Processes -> S]
      /\ {"off", "create", "recv", "parse"} \subseteq S
      /\ msg_queue_id \in [Processes -> -1..MaxQueues]
      /\ ret \in [Processes -> Int]
      /\ tmp \in [Processes -> Messages \cup {NoMessage}]
  BY DEF DataOK, Statements
<1>4. /\ msg_queue_id' \in [Processes -> -1..MaxQueues]
      /\ ret' \in [Processes -> Int]
      /\ tmp' \in [Processes -> Messages \cup {NoMessage}]
      /\ at' \in [Processes -> S]
  <2>1. CASE Own
    <3>1. at' \in [Processes -> S]
      BY <1>3, <2>1, OwnChanges
    <3>2. msg_queue_id' \in [Processes -> -1..MaxQueues]
      BY <1>3, <2>1, OwnChanges
    <3>3. ret' \in [Processes -> Int]
      BY <1>3, <2>1, OwnChanges
    <3>4. tmp' \in [Processes -> Messages \cup {NoMessage}]
      BY <1>3, <2>1, OwnChanges
    <3> QED
      BY <3>1, <3>2, <3>3, <3>4
  <2>2. CASE Beside
    <3>1. Statements \subseteq S /\ [Programs]_progVars
      BY <2>2 DEF Beside
    <3> HIDE DEF S
    <3> QED
      BY <1>3, <3>1, ProcessTypes DEF Statements
  <2>3. CASE UNCHANGED bridgeVars
    BY <1>3, <2>3 DEF bridgeVars, progVars, msgVars
  <2> QED
    BY <1>2, <2>1, <2>2, <2>3
<1>5. DataOK'
  BY <1>1, <1>4, QueueTypes DEF DataOK, Messages
<1>6. MailInv'
  BY <1>1, MailStep
<1>7. SentInv'
  <2>1. CASE Own
    <3>1. \A p \in Senders : p \in Processes /\ p # bridge
      BY ProgramsAssumption, BridgeAssumption
    <3>2. \A p \in Senders : at'[p] = at[p]
      BY <1>3, <2>1, <3>1, OwnChanges
    <3>3. Active' \subseteq Active
      BY <3>2 DEF Active
    <3>4. sent' = sent \/ sent' = 0
      <4>1. ~Put
        BY <2>1, <3>1, <3>2 DEF Put, DataOK
      <4> QED
        BY <1>1, <4>1 DEF Kind, Idle, Make, Take, Drop
    <3> QED
      BY <3>3, <3>4, SentKept
  <2>2. CASE Beside
    BY <2>2, SentStep DEF Beside
  <2>3. CASE UNCHANGED bridgeVars
    BY <2>3, SentKept DEF bridgeVars, progVars, msgVars, Active
  <2> QED
    BY <1>2, <2>1, <2>2, <2>3
<1> QED
  BY <1>5, <1>6, <1>7

\* What the receivers beside the daemon have read they have taken, as without it.
LEMMA BridgeRead ==
  ASSUME DataOK, MailInv, ReadInv, [BridgeNext]_bridgeVars
  PROVE  ReadInv'
<1>1. Kind
  BY BridgeKinds
<1>2. Own \/ Beside \/ UNCHANGED bridgeVars
  BY DEF BridgeNext, Own, Beside
<1>3. ASSUME Own \/ UNCHANGED bridgeVars, NEW p \in Receivers
      PROVE  at'[p] = at[p] /\ tmp'[p] = tmp[p] /\ msg_queue_id'[p] = msg_queue_id[p]
  <2>1. p \in Processes /\ p # bridge
    BY ProgramsAssumption, BridgeAssumption
  <2>2. /\ at \in [Processes -> Statements \cup {"parse"}]
        /\ msg_queue_id \in [Processes -> -1..MaxQueues]
        /\ tmp \in [Processes -> Messages \cup {NoMessage}]
    BY DEF DataOK
  <2>3. CASE Own
    <3>1. at'[p] = at[p]
      BY <2>1, <2>2, <2>3, OwnChanges
    <3>2. tmp'[p] = tmp[p]
      BY <2>1, <2>2, <2>3, OwnChanges
    <3>3. msg_queue_id'[p] = msg_queue_id[p]
      BY <2>1, <2>2, <2>3, OwnChanges
    <3> QED
      BY <3>1, <3>2, <3>3
  <2>4. CASE UNCHANGED bridgeVars
    BY <2>4 DEF bridgeVars, progVars, msgVars
  <2> QED
    BY <1>3, <2>3, <2>4
<1>4. CASE Own \/ UNCHANGED bridgeVars
  BY <1>1, <1>3, <1>4, TakenKept DEF ReadInv
<1>5. CASE Beside
  BY <1>5, ReadStep DEF Beside
<1> QED
  BY <1>2, <1>4, <1>5

-----------------------------------------------------------------------------
(* The port.                                                               *)

\* What a write adds to written.
Answer == Entry(cmd')

\* msg_parse writes one byte more, or nothing when the write fails.
LEMMA EntryTypes ==
  ASSUME DataOK, BridgeTypes, BParse
  PROVE  /\ cmd' \in 0..255 /\ Answer \in Entries
         /\ written' = written \/ written' = Append(written, Answer)
<1>1. cmd' \in 0..255
  <2>1. cmd' = Command(tmp[bridge].text) \/ cmd' = cmd
    BY DEF BParse
  <2>3. cmd \in 0..255
    BY DEF BridgeTypes
  <2>2. \A t \in DOMAIN Commands : Commands[t] \in 0..255
    BY BridgeAssumption
  <2> QED
    BY <2>1, <2>2, <2>3 DEF Command
<1>2. tmp[bridge] \in Messages \cup {NoMessage}
  BY BridgeAssumption DEF DataOK
<1>3. (tty \in {"assign", "read"}) \in BOOLEAN
  OBVIOUS
<1>4. Answer \in Entries
  BY <1>1, <1>2, <1>3, Zenon DEF Answer, Entry, Entries, BridgeTypes
<1> QED
  BY <1>1, <1>4 DEF BParse, Answer

\* What is in written after a step of msg_parse.
LEMMA ParseWrites ==
  ASSUME DataOK, BridgeTypes, BParse
  PROVE  Writes' \subseteq Writes \cup {Answer}
<1>1. written \in Seq(Entries) /\ (written' = written \/ written' = Append(written, Answer))
  BY EntryTypes DEF BridgeTypes
<1>2. CASE written' = written
  BY <1>2 DEF Writes
<1>3. CASE written' = Append(written, Answer)
  <2>1. \A k \in DOMAIN written' : written'[k] \in Writes \cup {Answer}
    BY <1>1, <1>3, AppendFacts DEF Writes
  <2> QED
    BY <2>1 DEF Writes
<1> QED
  BY <1>1, <1>2, <1>3

\* The two threads' variables keep their types.
LEMMA BridgeTypesStep ==
  ASSUME DataOK, BridgeTypes, [BridgeNext]_bridgeVars
  PROVE  BridgeTypes'
<1>0. Entries' = Entries
  BY DEF Entries, Messages
<1>1. CASE BStart
  <2>1. written' = <<>> /\ <<>> \in Seq(Entries)
    BY <1>1, EmptySeq DEF BStart
  <2> QED
    BY <1>0, <1>1, <2>1 DEF BStart, BridgeTypes
<1>2. CASE TOpenFails \/ BKill \/ BCreate \/ BRecv
  <2>1. tty' \in {tty, "off"} /\ UNCHANGED <<ttyS0Fd, cmd, written>>
    BY <1>2 DEF TOpenFails, BKill, BCreate, BRecv
  <2> QED
    BY <1>0, <2>1 DEF BridgeTypes
<1>3. CASE TOpen \/ TSetOpt \/ TAssign
  BY <1>0, <1>3 DEF TOpen, TSetOpt, TAssign, TTo, BridgeTypes
<1>4. CASE BParse
  <2>1. written' \in Seq(Entries)
    BY <1>4, EntryTypes, AppendProperties DEF BridgeTypes
  <2>2. tty' = tty /\ ttyS0Fd' = ttyS0Fd
    BY <1>4 DEF BParse
  <2> QED
    BY <1>0, <1>4, <2>1, <2>2, EntryTypes DEF BridgeTypes
<1>5. CASE Beside \/ UNCHANGED bridgeVars
  BY <1>0, <1>5 DEF Beside, bridgeVars, BridgeTypes
<1> QED
  BY <1>1, <1>2, <1>3, <1>4, <1>5 DEF BridgeNext, Beside

\* The port's descriptor is kept only when set_opt has been through with it.
LEMMA PortStep ==
  ASSUME DataOK, BridgeTypes, PortInv, [BridgeNext]_bridgeVars
  PROVE  PortInv'
<1>0. /\ bridge \in Processes /\ at \in [Processes -> Statements \cup {"parse"}]
      /\ tty = "off" <=> at[bridge] = "off"
      /\ ttyS0Fd = Port => tty \in {"read", "off"}
      /\ \A w \in Writes : w.fd = Port => w.set
  BY BridgeAssumption DEF DataOK, PortInv, PortSetUpFirst
<1>1. CASE BStart
  <2>1. Writes' = {}
    BY <1>1 DEF BStart, Writes
  <2>2. at'[bridge] = "create" /\ tty' = "open" /\ ttyS0Fd' = 0
    BY <1>0, <1>1 DEF BStart, Start, Goto, msgVars
  <2> QED
    BY <2>1, <2>2 DEF PortInv, PortSetUpFirst, Port
<1>2. CASE TOpenFails \/ BKill
  <2>1. at'[bridge] = "off" /\ tty' = "off" /\ written' = written
    BY <1>0, <1>2 DEF TOpenFails, BKill, Kill
  <2> QED
    BY <1>0, <2>1 DEF PortInv, PortSetUpFirst, Writes
<1>3. CASE TOpen \/ TSetOpt \/ TAssign
  BY <1>0, <1>3 DEF TOpen, TSetOpt, TAssign, TTo, progVars, PortInv, PortSetUpFirst,
                    Writes
<1>4. CASE BCreate \/ BRecv
  BY <1>0, <1>4 DEF BCreate, BRecv, Goto, PortInv, PortSetUpFirst, Writes
<1>5. CASE BParse
  <2>1. at[bridge] = "parse" /\ at'[bridge] = "recv" /\ tty' = tty /\ ttyS0Fd' = ttyS0Fd
    BY <1>0, <1>5 DEF BParse, Goto
  <2>2. Answer.fd = Port => Answer.set
    <3>1. Answer.fd = ttyS0Fd /\ Answer.set = (tty \in {"assign", "read"})
      BY DEF Answer, Entry
    <3>2. ttyS0Fd = Port => tty = "read"
      BY <1>0, <2>1
    <3> QED
      BY <3>1, <3>2
  <2>3. \A w \in Writes' : w.fd = Port => w.set
    BY <1>0, <1>5, <2>2, ParseWrites
  <2> QED
    BY <1>0, <2>1, <2>3 DEF PortInv, PortSetUpFirst
<1>6. CASE Beside
  BY <1>0, <1>6, BesideKeeps DEF PortInv, PortSetUpFirst, Writes
<1>7. CASE UNCHANGED bridgeVars
  BY <1>0, <1>7 DEF bridgeVars, progVars, PortInv, PortSetUpFirst, Writes
<1> QED
  BY <1>1, <1>2, <1>3, <1>4, <1>5, <1>6, <1>7 DEF BridgeNext, Beside

-----------------------------------------------------------------------------
(* What is answered.                                                       *)

\* "" stands before all messages.
LEMMA NoMessageNum == NoMessage.num = 0
BY DEF NoMessage

\* While the daemon keeps the number of its queue, what it answers stays known,
\* and a queue that is gone stays gone.
LEMMA AnswersKept ==
  ASSUME DataOK, MailInv, Kind, msg_queue_id[bridge] <= made,
         msg_queue_id'[bridge] = msg_queue_id[bridge]
  PROVE  /\ \A m : Answers(m) =>
              \/ m = NoMessage
              \/ m.of = msg_queue_id'[bridge] /\ \E k \in DOMAIN taken' : taken'[k] = m
         /\ ~Valid(bridge) => ~Valid(bridge)'
<1>1. \A k \in DOMAIN taken : k \in DOMAIN taken' /\ taken'[k] = taken[k]
  BY TakenKept
<1>2. /\ made \in Nat /\ msg_queue_id[bridge] \in Int
      /\ made' = made \/ (~exists /\ made' = made + 1)
      /\ exists' => exists \/ made' = made + 1
  BY BridgeAssumption DEF DataOK, Kind, Idle, Make, Put, Take, Drop
<1>3. ~Valid(bridge) => ~Valid(bridge)'
  BY <1>2 DEF Valid
<1> QED
  BY <1>1, <1>3 DEF Answers

\* The daemon uses no queue that is still to be made.
LEMMA NumberStep ==
  ASSUME DataOK, MailInv, msg_queue_id[bridge] <= made, [BridgeNext]_bridgeVars
  PROVE  msg_queue_id'[bridge] <= made'
<1>1. /\ bridge \in Processes /\ msg_queue_id \in [Processes -> -1..MaxQueues]
      /\ made \in Nat /\ (made' = made \/ made' = made + 1)
  <2>1. made' = made \/ made' = made + 1
    BY BridgeKinds DEF Kind, Idle, Make, Put, Take, Drop
  <2> QED
    BY <2>1, BridgeAssumption DEF DataOK
<1>2. ASSUME msg_queue_id'[bridge] = msg_queue_id[bridge] PROVE msg_queue_id'[bridge] <= made'
  BY <1>1, <1>2
<1>3. CASE TOpenFails \/ BKill
  <2>1. msg_queue_id'[bridge] = 0
    BY <1>1, <1>3 DEF TOpenFails, BKill, Kill
  <2> QED
    BY <1>1, <2>1
<1>4. CASE BCreate
  <2>1. \/ msg_queue_id' = [msg_queue_id EXCEPT ![bridge] = made] /\ made' = made
        \/ msg_queue_id' = [msg_queue_id EXCEPT ![bridge] = made + 1] /\ made' = made + 1
        \/ msg_queue_id' = [msg_queue_id EXCEPT ![bridge] = -1] /\ made' = made
    BY <1>4 DEF BCreate, msg_queue_create_msg_queue, Created
  <2>2. \/ msg_queue_id'[bridge] = made /\ made' = made
        \/ msg_queue_id'[bridge] = made + 1 /\ made' = made + 1
        \/ msg_queue_id'[bridge] = -1 /\ made' = made
    BY <1>1, <2>1
  <2> QED
    BY <1>1, <2>2
<1>5. CASE BStart \/ BRecv \/ BParse \/ TOpen \/ TSetOpt \/ TAssign \/ UNCHANGED bridgeVars
  BY <1>2, <1>5 DEF BStart, Start, BRecv, msg_queue_recv, BParse, TOpen, TSetOpt, TAssign, TTo,
                    bridgeVars, progVars, msgVars
<1>6. CASE Beside
  BY <1>2, <1>6, BesideKeeps
<1> QED
  BY <1>3, <1>4, <1>5, <1>6 DEF BridgeNext, Beside

\* The daemon answers the messages of the queue it asked for in their order, and
\* "" only when that queue is gone.
LEMMA AnswerStep ==
  ASSUME DataOK, MailInv, BridgeTypes, AnswerInv, [BridgeNext]_bridgeVars
  PROVE  AnswerInv'
<1> DEFINE KnownNow(m) ==
             \/ m = NoMessage
             \/ m.of = msg_queue_id'[bridge] /\ \E k \in DOMAIN taken' : taken'[k] = m
<1>0. /\ bridge \in Processes /\ at \in [Processes -> Statements \cup {"parse"}]
      /\ msg_queue_id \in [Processes -> -1..MaxQueues] /\ made \in Nat
      /\ tmp \in [Processes -> Messages \cup {NoMessage}]
      /\ Kind
  BY BridgeAssumption, BridgeKinds DEF DataOK
<1>1. SUFFICES ASSUME at'[bridge] # "off"
               PROVE  /\ at'[bridge] \in {"create", "recv", "parse"}
                      /\ at'[bridge] = "create" => written' = <<>>
                      /\ \A w \in Writes' : KnownNow(w.for)
                      /\ (\E w \in Writes' : w.for = NoMessage) => ~Valid(bridge)'
                      /\ at'[bridge] = "parse" =>
                           /\ KnownNow(tmp'[bridge])
                           /\ tmp'[bridge] = NoMessage => ~Valid(bridge)'
                           /\ tmp'[bridge] # NoMessage =>
                                \A w \in Writes' : w.for.num < tmp'[bridge].num
  <2>1. msg_queue_id'[bridge] <= made'
    BY NumberStep DEF AnswerInv
  <2> QED
    BY <2>1, Zenon DEF AnswerInv, Answers
<1>2. ASSUME at[bridge] # "off", msg_queue_id'[bridge] = msg_queue_id[bridge]
      PROVE  /\ at[bridge] \in {"create", "recv", "parse"}
             /\ at[bridge] = "create" => written = <<>>
             /\ \A w \in Writes : KnownNow(w.for)
             /\ (\E w \in Writes : w.for = NoMessage) => ~Valid(bridge)'
             /\ at[bridge] = "parse" =>
                  /\ KnownNow(tmp[bridge])
                  /\ tmp[bridge] = NoMessage => ~Valid(bridge)'
                  /\ tmp[bridge] # NoMessage =>
                       \A w \in Writes : w.for.num < tmp[bridge].num
  <2>1. msg_queue_id[bridge] <= made
    BY <1>2 DEF AnswerInv
  <2>2. /\ \A m : Answers(m) => KnownNow(m)
        /\ ~Valid(bridge) => ~Valid(bridge)'
    BY <1>0, <1>2, <2>1, AnswersKept
  <2> HIDE DEF KnownNow
  <2> QED
    BY <1>2, <2>2, Zenon DEF AnswerInv
<1>3. CASE at'[bridge] = at[bridge] /\ msg_queue_id'[bridge] = msg_queue_id[bridge]
           /\ tmp'[bridge] = tmp[bridge] /\ written' = written
  <2>1. Writes' = Writes
    BY <1>3 DEF Writes
  <2> HIDE DEF KnownNow
  <2> QED
    BY <1>1, <1>2, <1>3, <2>1
<1>4. CASE TOpenFails \/ BKill
  BY <1>0, <1>1, <1>4 DEF TOpenFails, BKill, Kill
<1>5. CASE TOpen \/ TSetOpt \/ TAssign
  BY <1>3, <1>5 DEF TOpen, TSetOpt, TAssign, TTo, progVars, msgVars
<1>6. CASE Beside
  BY <1>3, <1>6, BesideKeeps
<1>7. CASE UNCHANGED bridgeVars
  BY <1>3, <1>7 DEF bridgeVars, progVars, msgVars
<1>8. CASE BStart
  <2>1. Writes' = {} /\ written' = <<>>
    BY <1>8 DEF BStart, Writes
  <2>2. at'[bridge] = "create"
    BY <1>0, <1>8 DEF BStart, Start, Goto
  <2> QED
    BY <1>0, <2>1, <2>2
<1>9. CASE BCreate
  <2>1. /\ at[bridge] = "create" /\ at'[bridge] = "recv"
        /\ written' = written /\ msg_queue_create_msg_queue(bridge)
    BY <1>0, <1>9 DEF BCreate, Goto
  <2>2. written = <<>>
    BY <2>1 DEF AnswerInv
  <2>3. Writes' = {}
    BY <2>1, <2>2 DEF Writes
  <2> QED
    BY <2>1, <2>3
<1>10. CASE BRecv
  <2>1. /\ at[bridge] = "recv" /\ at'[bridge] = "parse" /\ msg_queue_id' = msg_queue_id
        /\ written' = written /\ msg_queue_recv(bridge, MSG_UARTD_TO_IOT)
    BY <1>0, <1>10 DEF BRecv, Goto, msg_queue_recv
  <2>2. Writes' = Writes
    BY <2>1 DEF Writes
  <2>3. /\ \A w \in Writes : KnownNow(w.for)
        /\ (\E w \in Writes : w.for = NoMessage) => ~Valid(bridge)'
    BY <1>2, <2>1
  <2>4. CASE ~Valid(bridge) /\ Idle /\ tmp' = [tmp EXCEPT ![bridge] = NoMessage]
    <3>1. tmp'[bridge] = NoMessage
      BY <1>0, <2>4
    <3>2. ~Valid(bridge)'
      BY <2>1, <2>4 DEF Idle, Valid
    <3> HIDE DEF KnownNow
    <3>3. KnownNow(tmp'[bridge])
      BY <3>1 DEF KnownNow
    <3> QED
      BY <2>1, <2>2, <2>3, <3>1, <3>2, <3>3
  <2>5. CASE Take /\ Valid(bridge) /\ tmp' = [tmp EXCEPT ![bridge] = Head(queue)]
    <3>1. tmp'[bridge] = Head(queue)
      BY <1>0, <2>5
    <3>2. Head(queue).of = made /\ msg_queue_id[bridge] = made /\ Head(queue).num \in Nat \ {0}
          /\ Head(queue) = queue[1] /\ 1 \in DOMAIN queue
      BY <2>5, TailFacts DEF MailInv, Take, Valid, Messages
    <3>3. Head(queue) # NoMessage
      BY <3>2, NoMessageNum
    <3>4. \E k \in DOMAIN taken' : taken'[k] = Head(queue)
      <4>1. taken \in Seq(Messages) /\ taken' = Append(taken, Head(queue))
        BY <2>5 DEF Take, DataOK
      <4>2. Len(taken) + 1 \in DOMAIN taken' /\ taken'[Len(taken) + 1] = Head(queue)
        BY <4>1, AppendFacts
      <4> QED
        BY <4>2
    <3>5. KnownNow(Head(queue))
      BY <2>1, <3>2, <3>4
    <3>6. ASSUME NEW w \in Writes PROVE w.for.num < Head(queue).num
      <4>1. Answers(w.for)
        BY <2>1 DEF AnswerInv
      <4>2. CASE w.for = NoMessage
        BY <3>2, <4>2, NoMessageNum
      <4>3. CASE w.for.of = made /\ \E k \in DOMAIN taken : taken[k] = w.for
        BY <3>2, <4>3 DEF MailInv
      <4> QED
        BY <3>2, <4>1, <4>2, <4>3 DEF Answers
    <3> HIDE DEF KnownNow
    <3> QED
      BY <2>1, <2>2, <2>3, <3>1, <3>3, <3>5, <3>6
  <2> QED
    BY <1>0, <2>1, <2>4, <2>5, RecvKinds
<1>11. CASE BParse
  <2>1. /\ at[bridge] = "parse" /\ at'[bridge] = "recv" /\ msg_queue_id' = msg_queue_id
    BY <1>0, <1>11 DEF BParse, Goto, msgVars
  <2>2. Writes' \subseteq Writes \cup {Answer} /\ Answer.for = tmp[bridge]
    BY <1>11, ParseWrites DEF Answer, Entry
  <2> HIDE DEF KnownNow
  <2> QED
    BY <1>2, <2>1, <2>2
<1> QED
  BY <1>4, <1>5, <1>6, <1>7, <1>8, <1>9, <1>10, <1>11 DEF BridgeNext, Beside

\* A command is written after those for earlier messages of the same queue.
LEMMA CommandsStep ==
  ASSUME DataOK, BridgeTypes, AnswerInv, CommandsInOrder, [BridgeNext]_bridgeVars
  PROVE  CommandsInOrder'
<1>0. CASE written' = written
  BY <1>0 DEF CommandsInOrder
<1>1. CASE BStart
  <2>1. DOMAIN written' = {}
    BY <1>1 DEF BStart
  <2> QED
    BY <2>1 DEF CommandsInOrder
<1>2. CASE BParse /\ written' = Append(written, Answer)
  <2>1. at[bridge] = "parse"
    BY <1>2 DEF BParse, Goto
  <2>2. tmp[bridge] # NoMessage => \A w \in Writes : w.for.num < tmp[bridge].num
    BY <2>1 DEF AnswerInv
  <2>3. Answer.for = tmp[bridge]
    BY DEF Answer, Entry
  <2>4. /\ \A k \in DOMAIN written' : \/ k \in DOMAIN written /\ written'[k] = written[k]
                                      \/ k = Len(written) + 1 /\ written'[k] = Answer
        /\ DOMAIN written = 1..Len(written) /\ Len(written) \in Nat
    BY <1>2, AppendFacts DEF BridgeTypes
  <2> SUFFICES ASSUME NEW j \in DOMAIN written', NEW k \in DOMAIN written', j < k,
                      written'[j].for.of = written'[k].for.of, written'[k].for.num > 0
               PROVE  written'[j].for.num < written'[k].for.num
    BY DEF CommandsInOrder
  <2>5. j \in DOMAIN written /\ written'[j] = written[j]
    BY <2>4
  <2>6. CASE k \in DOMAIN written /\ written'[k] = written[k]
    BY <2>5, <2>6 DEF CommandsInOrder
  <2>7. CASE written'[k] = Answer
    <3>1. tmp[bridge] # NoMessage
      BY <2>3, <2>7, NoMessageNum
    <3>2. written[j] \in Writes
      BY <2>5 DEF Writes
    <3> QED
      BY <2>2, <2>3, <2>5, <2>7, <3>1, <3>2
  <2> QED
    BY <2>4, <2>6, <2>7
<1>3. CASE BParse
  BY <1>0, <1>2, <1>3, EntryTypes
<1>4. CASE TOpenFails \/ BKill \/ BCreate \/ BRecv
  BY <1>0, <1>4 DEF TOpenFails, BKill, BCreate, BRecv
<1>5. CASE TOpen \/ TSetOpt \/ TAssign
  BY <1>0, <1>5 DEF TOpen, TSetOpt, TAssign, TTo
<1>6. CASE Beside \/ UNCHANGED bridgeVars
  BY <1>0, <1>6 DEF Beside, bridgeVars
<1> QED
  BY <1>1, <1>3, <1>4, <1>5, <1>6 DEF BridgeNext, Beside

-----------------------------------------------------------------------------
(* The theorems.                                                           *)

\* The daemon begins with nothing open and nothing written.
LEMMA BridgeStart == BridgeInit => BridgeInv
<1> SUFFICES ASSUME BridgeInit PROVE BridgeInv
  OBVIOUS
<1>1. DataOK /\ MailInv /\ ReadInv /\ SentInv
  BY MailboxInit DEF BridgeInit, MailboxInv
<1>2. written = <<>> /\ <<>> \in Seq(Entries) /\ DOMAIN written = {} /\ Writes = {}
  BY EmptySeq DEF BridgeInit, Writes
<1>3. BridgeTypes
  BY <1>2 DEF BridgeInit, BridgeTypes
<1>4. at[bridge] = "off" /\ tty = "off" /\ ttyS0Fd = 0
  BY BridgeAssumption DEF BridgeInit, ProgInit
<1>5. PortInv
  BY <1>2, <1>4 DEF PortInv, PortSetUpFirst, Port
<1>6. AnswerInv /\ CommandsInOrder
  <2>1. msg_queue_id[bridge] <= made
    BY BridgeAssumption DEF BridgeInit, ProgInit, MsgInit
  <2> QED
    BY <1>2, <1>4, <2>1 DEF AnswerInv, CommandsInOrder
<1> QED
  BY <1>1, <1>3, <1>5, <1>6 DEF BridgeInv

\* Every step of the daemon and of the programs beside it keeps the invariant.
LEMMA BridgeStep == BridgeInv /\ [BridgeNext]_bridgeVars => BridgeInv'
BY BridgeQueue, BridgeRead, BridgeTypesStep, PortStep, AnswerStep, CommandsStep DEF BridgeInv

\* The port and what is answered, beside any number of programs.
THEOREM BridgeInvariant == BridgeSpec => []BridgeInv
BY BridgeStart, BridgeStep, PTL DEF BridgeSpec

\* Nothing is sent to the port before set_opt has been through with it, although
\* the two threads share ttyS0Fd without waiting for each other.
THEOREM PortIsSetUp == BridgeSpec => []PortSetUpFirst
<1>1. BridgeInv => PortSetUpFirst
  BY DEF BridgeInv, PortInv
<1> QED
  BY <1>1, BridgeInvariant, PTL

\* A byte no message asked for is written only when the queue was refused or
\* removed.
THEOREM SilentWhileEmpty == BridgeSpec => []UnaskedOnlyWithoutQueue
<1>1. BridgeInv => UnaskedOnlyWithoutQueue
  BY DEF BridgeInv, AnswerInv, UnaskedOnlyWithoutQueue
<1> QED
  BY <1>1, BridgeInvariant, PTL

\* The commands leave in the order of the messages, each message once.
THEOREM CommandsFollowMessages == BridgeSpec => []CommandsInOrder
<1>1. BridgeInv => CommandsInOrder
  BY DEF BridgeInv
<1> QED
  BY <1>1, BridgeInvariant, PTL

-----------------------------------------------------------------------------
(* The queue with the daemon at one end of it.                             *)

\* The daemon, which removes no queue, takes nothing from the promise of the
\* receivers beside it: "quit" leaves only what was sent after it.
THEOREM QuitIsLastBeside == BridgeSpec => []QuitLeavesOnlyLater
<1>1. BridgeInv => QuitLeavesOnlyLater
  BY QuitFollows DEF BridgeInv
<1> QED
  BY <1>1, BridgeInvariant, PTL

\* With the daemon the queue is a mailbox as well, though the daemon shares it with
\* receivers, is killed and restarted, and ends when the port cannot be opened.
THEOREM DaemonKeepsMailbox == BridgeSpec => ImplementsMailbox
<1>1. BridgeInit => Box!Init
  BY DEF BridgeInit, ProgInit, MsgInit, Box!Init, Demanded
<1>2. BridgeInv /\ [BridgeNext]_bridgeVars => [Box!Next]_<<queue, taken, Demanded>>
  BY BridgeKinds, MailboxRefined DEF BridgeInv
<1> QED
  BY <1>1, <1>2, BridgeInvariant, PTL DEF BridgeSpec, ImplementsMailbox, Box!Spec
=============================================================================
