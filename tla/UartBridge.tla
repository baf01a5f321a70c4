----------------------------- MODULE UartBridge -----------------------------
(***************************************************************************)
(* The daemon of ws1850/test.c and ws1850/tty.c beside the programs of     *)
(* MsgPrograms: one thread turns messages into one-byte commands for a     *)
(* serial port, which the other thread opens, and reads.  What is read is  *)
(* only printed and is left out.  Port and mutex: the descriptor is        *)
(* non-blocking and each access takes the mutex around one system call, so *)
(* an access is one step.                                                  *)
(***************************************************************************)
EXTENDS MsgPrograms

CONSTANTS
  bridge,       (* the daemon's process                                     *)
  Commands,     (* Commands[text]: the command byte of a text it knows      *)
  MaxWritten    (* bound on the bytes the daemon writes                     *)

ASSUME BridgeAssumption ==
  /\ bridge \in Processes \ (Senders \cup Receivers)
  /\ DOMAIN Commands \subseteq Texts
  /\ \A t \in DOMAIN Commands : Commands[t] \in 1..255
  /\ MaxWritten \in Nat

VARIABLES
  tty,      (* the statement of tty_read_thread: "off", "open", "set_opt",  *)
            (* "assign", or "read" in its loop                              *)
  ttyS0Fd,  (* the global descriptor: 0, standard input, until it is set    *)
  cmd,      (* the global command byte                                      *)
  written   (* history: the bytes the daemon has written, each with the     *)
            (* descriptor, whether the port was set up then, and the        *)
            (* message it answers                                           *)

bridgeVars == <<progVars, tty, ttyS0Fd, cmd, written>>

\* Any descriptor but 0: tty_init ends the process when open returns that.
Port == 3

BridgeInit ==
  /\ ProgInit
  /\ tty = "off"
  /\ ttyS0Fd = 0
  /\ cmd = 0
  /\ written = <<>>

\* main starts both threads.
BStart ==
  /\ Start(bridge)
  /\ tty' = "open"
  /\ ttyS0Fd' = 0 /\ cmd' = 0 /\ written' = <<>>

-----------------------------------------------------------------------------
(* ttys0_init, in tty_read_thread.                                         *)

\* exit(-1) takes the whole process with it.
TOpenFails ==
  /\ tty = "open"
  /\ tty' = "off"
  /\ Kill(bridge)
  /\ UNCHANGED <<ttyS0Fd, cmd, written>>

TTo(from, to) == tty = from /\ tty' = to /\ UNCHANGED <<progVars, cmd, written>>

\* Mutant of TOpen: open_port sets ttyS0Fd itself.
TOpenAssigns == TTo("open", "set_opt") /\ ttyS0Fd' = Port

TOpen == TTo("open", "set_opt") /\ UNCHANGED ttyS0Fd

\* Whether set_opt succeeds is not asked.
TSetOpt == TTo("set_opt", "assign") /\ UNCHANGED ttyS0Fd

TAssign == TTo("assign", "read") /\ ttyS0Fd' = Port

-----------------------------------------------------------------------------
(* parse_msg_queue_data.                                                   *)

BCreate ==
  /\ Goto(bridge, "create", "recv")
  /\ msg_queue_create_msg_queue(bridge)
  /\ UNCHANGED <<tty, ttyS0Fd, cmd, written>>

\* Mutant of BRecv: IPC_NOWAIT, an empty queue is not waited for.
BRecvNoWait ==
  /\ Goto(bridge, "recv", "parse")
  /\ \/ msg_queue_recv(bridge, MSG_UARTD_TO_IOT)
     \/ /\ OfType(MSG_UARTD_TO_IOT) = {}
        /\ tmp' = [tmp EXCEPT ![bridge] = NoMessage]
        /\ UNCHANGED <<made, exists, queue, sent, taken, msg_queue_id, ret>>
  /\ UNCHANGED <<tty, ttyS0Fd, cmd, written>>

BRecv ==
  /\ Goto(bridge, "recv", "parse")
  /\ msg_queue_recv(bridge, MSG_UARTD_TO_IOT)
  /\ UNCHANGED <<tty, ttyS0Fd, cmd, written>>

\* msg_parse keeps the old byte when it does not know the text, as it does not
\* know "", and writes it all the same; a failed write goes unnoticed.
Command(text) == IF text \in DOMAIN Commands THEN Commands[text] ELSE cmd

Entry(byte) == [fd |-> ttyS0Fd, set |-> tty \in {"assign", "read"},
                byte |-> byte, for |-> tmp[bridge]]

\* Without memory for the copy of the message there is nothing to parse.
BParse ==
  /\ Len(written) < MaxWritten
  /\ Goto(bridge, "parse", "recv")
  /\ \/ /\ cmd' = Command(tmp[bridge].text)
        /\ \/ written' = Append(written, Entry(cmd'))
           \/ written' = written
     \/ UNCHANGED <<cmd, written>>
  /\ UNCHANGED <<msgVars, tty, ttyS0Fd>>

BKill ==
  /\ Kill(bridge)
  /\ tty' = "off"
  /\ UNCHANGED <<ttyS0Fd, cmd, written>>

-----------------------------------------------------------------------------
BridgeNext ==
  \/ BStart \/ TOpenFails \/ TOpen \/ TSetOpt \/ TAssign
  \/ BCreate \/ BRecv \/ BParse \/ BKill
  \/ Programs /\ UNCHANGED <<tty, ttyS0Fd, cmd, written>>

BridgeSpec == BridgeInit /\ [][BridgeNext]_bridgeVars

-----------------------------------------------------------------------------
(* Properties.                                                             *)

Writes == {written[k] : k \in DOMAIN written}

\* The two threads share ttyS0Fd without waiting for each other: what is written
\* before ttys0_init returns goes to standard input, but nothing is sent to
\* the port before set_opt has been through with it.
PortSetUpFirst == \A w \in Writes : w.fd = Port => w.set

\* A byte that no message asked for is written only once the queue the daemon
\* has asked for was refused or removed; until then it is silent while the
\* queue is empty.
UnaskedOnlyWithoutQueue ==
  (\E w \in Writes : w.for = NoMessage) /\ at[bridge] # "off" => ~Valid(bridge)

\* The commands leave for the port in the order the messages were sent, each
\* message once, even when a test_recv takes some of them away.
CommandsInOrder ==
  \A j, k \in DOMAIN written :
    j < k /\ written[j].for.of = written[k].for.of /\ written[k].for.num > 0
      => written[j].for.num < written[k].for.num
-----------------------------------------------------------------------------
(* The inductive invariant, beside those of the queue.                     *)

Entries == [fd : {0, Port}, set : BOOLEAN, byte : 0..255, for : Messages \cup {NoMessage}]

BridgeTypes ==
  /\ tty \in {"off", "open", "set_opt", "assign", "read"}
  /\ ttyS0Fd \in {0, Port} /\ cmd \in 0..255
  /\ written \in Seq(Entries)

\* The threads are there together, and only the end of ttys0_init sets the port.
PortInv ==
  /\ tty = "off" <=> at[bridge] = "off"
  /\ ttyS0Fd = Port => tty \in {"read", "off"}
  /\ PortSetUpFirst

\* What the daemon answers is "", or was in the queue it has asked for.
Answers(m) ==
  m = NoMessage \/ (m.of = msg_queue_id[bridge] /\ \E k \in DOMAIN taken : taken[k] = m)

AnswerInv ==
  /\ msg_queue_id[bridge] <= made
  /\ at[bridge] # "off" =>
       /\ at[bridge] \in {"create", "recv", "parse"}
       /\ at[bridge] = "create" => written = <<>>
       /\ \A w \in Writes : Answers(w.for)
       /\ (\E w \in Writes : w.for = NoMessage) => ~Valid(bridge)
       /\ at[bridge] = "parse" =>
            /\ Answers(tmp[bridge])
            /\ tmp[bridge] = NoMessage => ~Valid(bridge)
            /\ tmp[bridge] # NoMessage => \A w \in Writes : w.for.num < tmp[bridge].num

BridgeInv ==
  /\ DataOK /\ MailInv /\ ReadInv /\ SentInv
  /\ BridgeTypes /\ PortInv /\ AnswerInv /\ CommandsInOrder
=============================================================================
