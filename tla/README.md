# A TLA+ model of utils_for_c

`utils_for_c` is a collection of small C utilities and of the programs that try
them out: a thread-safe event queue, a wrapper of System V message queues, a
serial line, a local socket, three loggers, and clients of two speech services.
They share no code except where one directory copies another's, so the project
is a set of models, one per utility, composed where the programs compose them:
the demo of the queue with the queue, the programs around the message queue with
the message queue, the serial line daemon with those programs, the synthesis
clients with the wav header.

Everything is translated from the sources; paths below are relative to `src/src/`.
`PROJECT.json` maps every definition to its lines and lists the hazards the
properties are aimed at.

## Inventory

| Part | State it keeps | Operations and actors | What is hard | What makes it correct |
|---|---|---|---|---|
| event queue, `queue/queue.c` | global pointer, list of nodes, `numitems`, `modify_mutex`, and `read_mutex` used as a semaphore | init, add, get, size, del, deinit, from any thread | two mutexes, one of which is unlocked by other threads than locked it; the count decides about the list; `calloc` fails | FIFO and linearizable, count and list agree, no wake-up lost, no node shared or freed twice |
| its demo, `queue/test.c` | a second mutex, a condition variable, a global `item` | `decrement`, `increment`, `main` | a blocking call under a mutex; signal before wait; a check outside the mutex | never blocks holding the mutex, every node is freed |
| message queue, `msg/msg_queue.c` (copied in `ws1850/`) | the kernel's queue; per process `msg_queue_id` | create, send, recv, del | outlives its processes; full; removed while others wait | accepted messages are delivered once |
| its programs, `msg/test_send.c`, `msg/test_recv.c`, `ws1850/msg_send.c` | local buffers | senders; receivers that remove the queue on "quit" | several receivers, kill and restart | "quit" loses nothing sent before it |
| serial line daemon, `ws1850/test.c`, `ws1850/tty.c` | `ttyS0Fd`, `cmd` | one thread turns messages into command bytes, one opens and reads the port | threads start together; a stale command byte | commands in order, none unasked for |
| serial line, `tty/` | as above | the same library and a test that reads and discards | - | - |
| local socket, `socket/` | the socket file, backlog, connections | `send_to_server`; servers, each serving one connection at a time for at most 100 ms | crash and restart, a second server, slow clients, descriptors lost | a message told as sent is handled, once |
| synthesis client, `turing_tts_daemon/tts.c`, `request_and_response.c` | `options->tts_url`, the directory, files | per line: ask for a URL, download it, save it | every call may fail; the URL outlives its line | the right audio in the file of its line, under the right header |
| its older form, `turing_tts_daemon/main.c` | the URL | the same for each argument | calls `save_file` without its third argument | never another text's audio |
| upload client, `turing/send_and_recv.c` | `g_token`, `token.txt`, the connection | `main` sends pieces, a thread receives replies | a race on `g_token`; a crash while the file is rewritten; joining | token whole and kept, pieces numbered, both threads end |
| loggers, `log/log.c`, `log/pretty_log.c`, `ws1850/slog.c` | levels, stream, mutex; `localtime`'s one `struct tm` | log calls from threads and from signal handlers; initialisers | macros without the mutex; the file replaced beside calls; stamps outside the mutex | lines whole, in order, with their own time; every call returns |
| wav header, `turing_tts_daemon/wav.c` | none | fills in a header, adjusts it | widths, rates | the header describes the file |
| `baidu_tts/`, build files, data | - | a script with two curls | - | not modelled |

## Modules

* `FifoQueue` - the abstract queue: what the five operations promise. A put may
  be dropped, a get may answer NULL only when the queue is empty at that instant.
* `EventQueue` - `queue.c`, each access to shared state a step of its own; `pc[t]`
  is the statement thread `t` stands at. Nodes are identified with the addresses
  `calloc` returns, so that a freed node may come back. It is shown to implement
  `FifoQueue`: the list reversed is the queue, linking, cutting off and
  reading `numitems` are the instants at which put, get and size take effect.
* `QueueDemo` - EXTENDS `EventQueue`: the loops of the two threads around the
  calls, `at[t]` being the statement of the loop. Every step inside a call is
  a step of `EventQueue`.
* `MsgQueue` - the message queue as a library of operators: `made` and `exists`
  tell which queue there is, `msg_queue_id[p]` which one process `p` uses.
* `Mailbox` - the abstract specification of what those operators give to the
  processes: a bounded box, delivered in order and once, cleared only when that
  was demanded.
* `MsgPrograms` - EXTENDS `MsgQueue`: senders and receivers as processes that
  are started and killed at any point. It implements `Mailbox`: `queue` is the box,
  the history `taken` what was delivered.
* `UartBridge` - EXTENDS `MsgPrograms`: the daemon as one more process, with its
  two threads and the port.
* `MsgSocket` - the calls of `send_to_server` as processes, servers with each
  system call as a step, and the connections between them: `path` tells whose the
  socket file is, `peer[n]` which server call n reached, `link[n]` is the server's
  end and `data[n]` the message in it.
* `Wav` - the header of a wav file as a function of the audio's parameters.
* `Tts` - EXTENDS `Wav`: the synthesis client. The network, the service and the
  file system are the failures of each call and the set of replies; `trouble`
  remembers that something was not as wanted. `mode` "args" is `main.c`, whose loop
  is around the same calls.
* `TuringUpload` - the upload client: main, the receiving thread, the service,
  several runs that share `token.txt`.
* `LogCalls` - what the three loggers have in common: the stamp in two reads of
  the shared `struct tm`, the level, the mutex, the pieces of a line, and the signal
  handler, during which the thread it interrupts stands still (`on`). `swapped` remembers
  who stands between two pieces of a line while the stream was changed.
* `LogC`, `PrettyLog`, `Slog` - EXTEND `LogCalls`, one for each logger: the order of
  these steps, the streams, and the initialisers. In `LogC` each piece of a line reads
  `Log.fp` anew, as the four statements at `log.c:118-123` do.
* `Loggers` - EXTENDS the three; a program links one of them, `lib`.

The modules ending in `Proofs` hold the theorems, one for each of `EventQueue`,
`QueueDemo`, `MsgPrograms`, `UartBridge`, `MsgSocket`, `Tts`, `TuringUpload` and `Loggers`.
The inductive invariant stands at the end of the component's own module.

The modules `MC...` give the constants their values for TLC. Operators called
mutants stand before the definition they vary; they are not used by any
specification.

## What the runs check

| Run | Instance | What it shows |
|---|---|---|
| `event_queue` | 1 producer, 2 consumers, 2 nodes, symmetry | `CountMatchesList`, `NoLostWakeup`, `SingleOwner`, the inductive invariant `QueueInv`, which contains `TypeOK`, and `ImplementsFifo`, the refinement |
| `queue_demo` | limit 2 instead of 10, 4 nodes | `decrement` never blocks with the mutex, reads live nodes only, misses no signal; the list stays within the limit plus one; every node is freed |
| `tts` | 3 lines with a name, one without, 6 descriptors, `tts.c` and `main.c` | texts are asked for in order, the headers of the files describe them, another line's audio only if the own line was not answered (never with `main.c`), descriptors lost are bounded, and without trouble every line is saved |
| `tts_audio`, `tts_output` | 2 lines | the two findings below |
| `msg_programs` | 1 sender, 2 receivers, capacity 2, 3 messages, 2 queues | the inductive invariant `MailboxInv`; `ImplementsMailbox`: accepted messages wait until they are taken, once and in order, and only a "quit" from that queue removes it; "quit" loses nothing earlier; sending never waits, be the queue full or gone; an attended message is taken |
| `msg_programs_create` | 1 sender, 1 receiver | the finding below |
| `uart_bridge` | daemon, 1 sender, 1 receiver, 3 writes | the port is written only when set up; bytes nobody asked for only after the queue is gone; commands in order |
| `msg_socket` | 2 calls, 2 servers, backlog 1, 1 and 2 descriptors | handled once; sent is handled unless the server was killed or gave up; a restart works, also beside a server that is there; the backlog is served |
| `turing_upload` | up to 2 full pieces and a short one, 2 runs | the token is torn only after an early reply; kept except for a final reply without one or an end within `save_token`; pieces numbered without a gap, exactly the short one marked, all sent before the join; the process ends once the service has hung up, or has read everything and answered finally |
| `loggers` | 2 threads, a handler, 2 calls, each of the three; 4 calls of `file_log_init` and `file_log_deinit` in `log.c`, 2 of `log_init` in `slog.c` | a line is torn only where its stream was changed between two pieces, in `log.c`'s file and on `slog`'s screen; screen and file in the same order; a stamp of another call only when it crossed it; a crash has one of four causes; every call returns |
| `loggers_quiet` | the same | the finding below |

Bounds, and why they suffice:

* Queue: the interesting interleavings need two threads on one side and one on the
  other. Two getters and an adder are run, as the getters' side has the two mutexes;
  two adders would add only the competition for `modify_mutex`, in which an adder
  and a getter stand already, and the theorems cover any number of threads and
  nodes. Lists of length 0, 1 and 2 are the cases `Get_Queue_Item` tells apart.
* Demo: 4 nodes are the longest list (`MaxQueued` + 1) and the node in use.
* Message queue: capacity 2 makes a full queue and an order within it; two queues
  make a stale number; `MaxSent`, one more than the capacity, fills the queue and has one
  message dropped; it stops the starting of senders, not a send.
* Socket: the second call finds the backlog of one full, or the descriptors of the
  server that has one gone; the other server has one for each call, so that a slow
  client before another is no excuse there. Two servers are what one can do to another.
* Tts: three named lines let one line use what an earlier one has left; 6 descriptors
  run out on the last line.
* Loggers: two calls, whoever makes them, are what a mixture of two lines needs.
  `MaxInits` counts (de)initialisations: in `log.c` opening once and closing twice is three, and
  replacing a stream under a line two; four let them be combined. `slog.c` needs two `log_init`s to
  replace a file, `pretty_log.c` is initialised once. One level is printed or not.
* Upload: two full pieces make an index grow; a second run reads what the first left.

`CHECK_DEADLOCK FALSE` stands where the system really stops: the demo when
`increment` is done and `decrement` waits, the clients when they end, the
programs when no process may be started any more.

### Fairness

* `QueueDemo`: weak fairness of main and of each thread; strong fairness of the
  two acquisitions of `mutex` by `decrement`, justified by the sleeps: each loop
  sleeps outside the mutex in every round, long against the time it holds it.
* `MsgPrograms`: weak fairness of each sender and each receiver that is there; processes need
  not be started, and may be killed at any time.
* `MsgSocket`: weak fairness of each server while it is up: its waits are bounded
  by 500 and 100 ms. Clients may stop anywhere.
* `TuringUpload`: weak fairness of the two threads, not of the service, and not of a `send` on
  an open connection (`SendOpen`): the socket is blocking, and the service may read no more.
* `Loggers`: weak fairness of the steps within a call and within slog's `log_init`: the
  scheduler runs every thread, and nobody holds the mutex while it waits. Calls need
  not be made. No strong fairness: a bounded number of calls cannot starve anybody.
* `EventQueue`, `Tts` and `UartBridge` state safety only and assume none.

### Disagreements between the code and its comments

* `tts_audio`: after a failed request a line's file may hold the audio of an
  earlier line (`tts.c:323`, against the format described at `tts.c:243`).
* `tts_output`: with `-o` and a missing directory the files land elsewhere
  (`tts.c:388`, against `tts.c:257`).
* `msg_programs_create`: success is answered 0, the comment promises a number
  above 0 (`msg_queue.c:33` against `msg_queue.c:15`).
* `loggers_quiet`: `log.c` with quiet set hands `strftime` a null pointer for the
  file's line (`log.c:117`), against `log.h:44`, which promises the record.

Seen while reading, without a run: `pretty_log.h` declares `pretty_log_init(argc, argv)`,
as `log/test.c` calls it, while `pretty_log.c:56` defines it for two strings, so the
two do not compile together (the model has the definition); `pretty_log.c:51` says
that 'n' switches a level off, line 89 tests for 'h'; the `_nt` macros of
`pretty_log.h`, said to leave out the time, pass "" and print the bytes eleven behind
it (`pretty_log.c:96`), `Garbage` in the model; those of `slog.h` lack arguments and do
not compile; `main.c:120` calls an undeclared `save_file` with two arguments (`NoType`).

## What is proved

Every invariant that a run checks, and the two refinements, are theorems that TLAPS has
checked, for all values of the constants that satisfy the assumptions of their modules;
bounds such as `MaxSent`, `MaxRuns` and `MaxCalls` are among them.
For each component `X` the module `XProofs` shows that an invariant, found by
strengthening the properties until each step keeps it and first checked with TLC,
holds initially and is kept by every action; the properties are conjuncts of it, or follow.

| Theorems | For any | Inductive invariant | Why the properties are not enough |
|---|---|---|---|
| `QueueInvariant`, `TypeCorrect`, `CountCorrect`, `WakeupsKept`, `OneOwner` | threads, nodes, values left in memory | `QueueInv` | below |
| `QueueIsFifo` | the same | `QueueInv` | below |
| `DemoInvariant`, `NeverStuck`, `ItemAllocated`, `SignalKept`, `ListStaysBounded`, `DemoUsesQueue`, `DemoQueueIsFifo` | limit, nodes | `DemoInv`: `QueueInv`, who has the demo's mutex (`MutexInv`), which call a thread is in (`CallInv`), what a size it was told still means (`KnownInv`), what a get may find (`GotInv`) | `decrement` may only call get because the size it was told is still true under the mutex, and `increment`'s, read outside it, is an upper bound |
| `MailboxInvariant`, `QuitIsLast`, `QueueIsMailbox` | senders (finitely many), receivers, capacity, number of queues | `MailboxInv`: the numbers of the messages ascend through `taken` and `queue` (`MailInv`), what a receiver holds it has taken (`ReadInv`), the bound counts senders on their way (`SentInv`) | two receivers share a queue that a third may have removed and made again |
| `BridgeInvariant`, `PortIsSetUp`, `SilentWhileEmpty`, `CommandsFollowMessages`, `QuitIsLastBeside`, `DaemonKeepsMailbox` | the same, beside the daemon | `BridgeInv`: `MailInv`, `ReadInv` and `SentInv`, which it shares with the programs, where `ttyS0Fd` may be set (`PortInv`), whose byte `cmd` is (`AnswerInv`) | the order of the commands is that of the messages taken |
| `SocketInvariant`, `SocketTypes`, `NoneHandledTwice`, `SentKept`, `EmptyExplained`, `RestartsSucceed` | calls, servers, backlog, descriptors | `SocketInv`: what a call was told and its connection (`CallInv`), backlogs and accepted connections have one server (`ServerInv`), whose the file is between bind and accept (`PathInv`) | a connection is handled once because it stands in one backlog once; a restart works because nobody else starts |
| `TtsInvariant`, `TtsTypes`, `SentOnceInOrder`, `OtherAudioExplained`, `LeakIsBounded`, `NothingIsMissing`, `HeadersDescribe` | file of texts, descriptors, formats, suffixes, output directories, width of an unsigned int | `TtsInv`: the line in hand against `next` and `feof` (`PlaceInv`), all that was asked is behind (`AskInv`), descriptors by statement (`FdInv`), whose URL it is (`UrlInv`), what a file may hold (`FileInv`), what is done without trouble (`DoneInv`) | the URL of an earlier line is used only if the service was not heard about this one; the bound on the descriptors needs one in hand for the socket to come |
| `UploadInvariant`, `TokenIsWhole`, `TokenIsKept`, `ShortIsMarked` | tokens, pieces, runs | `UploadInv`: where both threads stand and what reply the receiver has (`ThreadsInv`), which replies count as early (`EarlyInv`), the index against the pieces sent and left (`PiecesInv`) | a torn token may stay in `g_token` only while it is copied; which piece is the last depends on what is left of the file |
| `LogInvariant`, `LogTypes`, `LinesStayWhole`, `FileFollowsScreen`, `StampIsOwn`, `CrashesAreThese` | threads, handler calls, levels, initialisations, each of the three loggers | `LogInv`: one number for each call (`IdsInv`), who is inside the mutex (`LockInv`), the clock (`ClockInv`), the reading between conversion and stamp (`TimeInv`), the streams, and who has had one changed under it (`StreamInv`), what a thread within its line has printed last (`WholeInv`), which lines are on the screen before they are in the file (`OrderInv`) | a line stays whole because the piece before was printed by the holder of the mutex, and only handlers have printed since, unless the stream is another one (`swapped`) |

The argument for the event queue: that cutting the last node off keeps the list right
depends on `numitems` (line 68), so ownership needs the exact count; the count is
exact except between two statements of a thread that holds `modify_mutex`
(`CountInv`), which needs that the holder is the one thread between lock and unlock
(`HolderInv`); a wake-up is safe because the getter that leaves `read_mutex` locked
has seen the count be 0; and without a queue nobody may be inside (`ClosedInv`).
`QueueIsFifo` follows step by step: with `QueueInv` each statement is one step
of `FifoQueue` at its instant, or a stutter, the list reversed being the queue.
`QueueIsMailbox` does the same for the programs and `Mailbox`: send, receive and the
removal are its steps, all else stutters, a kill included.

The compositions inherit this. `DemoUsesQueue` shows that every behaviour of the demo is
one of `EventQueue`, so that its queue is FIFO too (`DemoQueueIsFifo`). Every step of
the daemon is to the message queue one of the five kinds the programs' steps are of, so
that beside it the queue remains a mailbox (`DaemonKeepsMailbox`) and "quit" the
last word (`QuitIsLastBeside`). No run repeats these on the composed modules.

Shape of the proofs: one lemma for each conjunct of the invariant, one step for
each action in it, after the lemmas about the operators they keep needing (linking
and cutting a list, appending to a sequence, adding to a finite set, what fgets and
feof do, the fields of a header).

Assumptions on the constants, each named in the module that declares them:

* `QueueAssumption`: producers are not consumers, `NULL` is no thread and no node.
* `DemoAssumption`: one producer and one consumer, as `queue/test.c` starts.
* `MsgQueueAssumption`, `ProgramsAssumption`: a queue holds at least one message; senders
  and receivers are different processes, finitely many senders (processes are).
* `BridgeAssumption`: the daemon is none of those processes, and its commands are bytes but 0.
* `SocketAssumption`: a backlog of at least one, at least one descriptor for each
  server; `NULL` and "dead" name no process.
* `TtsAssumption`: the file begins with a line with a name, the formats are those of `-f`,
  three descriptors at least. `LengthAssumption`: an unsigned int holds the length of
  what is saved with the header, as `save_file` counts it in an int
  (`request_and_response.c:337`). `WordAssumption`: it holds the rates.
* `UploadAssumption`: a token is none of the marks for none, a default or a torn one.
* `LogAssumption`: the handler is no thread, `NULL` none of them and no stream; levels are 1 up
  to their number.

Only model-checked:

* The liveness properties `EveryNodeFreed`, `SendReturns`, `AttendedIsTaken`,
  `BacklogServed`, `EndsWhenAnswered` and `CallsReturn`: fairness and ENABLED are out of the prover's reach.
* The four findings, whose counterexamples TLC gives.

## Abstractions and assumptions

* `read_mutex` is a default pthread mutex, unlocked by other threads than its
  owner and while free. POSIX leaves that undefined; the model has what the
  Linux libraries do: it becomes, or stays, free.
* `queue_init` and `queue_deinit` run while no thread is inside a call, as in
  the demo. Nothing in `queue.c` enforces it.
* Memory order is that of the mutexes; accesses outside them are single steps.
* Texts, names, tokens and URLs are atomic values; their lengths, and buffers
  too small for them, are not modelled. All tokens have one length.
* `ftok` gives all programs the same key, as they use the same path and number.
* An access to the port is one step, since the port is opened with `O_NDELAY`.
* The loggers' C library is only its `struct tm` and its streams: the locks inside
  `printf` and `localtime`, which a handler may find taken, are left out. A read of
  the date and one of the time are the two reads of `strftime`. `log_init` of `log.c`
  is called while nobody logs, `pretty_log_init` before the first call.
* Of a wav header the model keeps the fields that depend on the audio; all products
  stay below 2^31, as in the only caller. `Word`, 2^32 in the code, is 100000 in the
  runs, above every value that occurs.
* A message of the socket fits one write and one read; the length printed is left out.
* The disk is never full; a write to a file that was opened succeeds.
* An HTTP reply is what the clients tell apart: status, whether a length is
  given, how much of it arrives, and what is in it.

## Not modelled, and the plan

Done first, because most depends on it: the event queue, its refinement and its
proofs; then the demo, the clients with failures, and the programs that talk to
each other; then the loggers, the wav header, `main.c`, several servers, and the mailbox;
then the inductive invariants of all components and the theorems above. What is left:

1. Action properties that the invariants now make provable: `token.txt` is emptied only
   where it is written next, a removed queue's number is never used for another one.
2. That some statement can always go on where the code must not stop, stated as a
   disjunction of the guards, as ENABLED is out of the prover's reach.

Not modelled:

* `tty/`: the copy in `ws1850/`, which differs in the name of the device, is modelled.
* The reading side of the serial daemon, which prints what it reads: one more thread of
  `UartBridge` that changes no state another part uses. A read of 256 bytes is
  terminated behind the buffer (`ws1850/test.c:97`); that would need the bytes.
* `console_log` and `clog`, macros without state; the shell script, the build files, the data.

## Running it

    tlc -workers 2 -config EventQueue.cfg MCEventQueue
    tlapm EventQueueProofs.tla

`tlapm` takes half a minute to a minute for each of the proof modules, two
and a half for `LoggersProofs`.
`PROJECT.json` names the module and the configuration of every run.
