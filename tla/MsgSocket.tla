----------------------------- MODULE MsgSocket ------------------------------
(***************************************************************************)
(* The local socket of socket/socket_server.c and socket/socket_client.c:  *)
(* each call of send_to_server makes a connection, writes one msg_t and    *)
(* closes; the server takes one connection at a time and gives it 100 ms   *)
(* to show something to read.  A message fits into one write and one read. *)
(* A server may be killed and started again, also while another one is     *)
(* there, and a client may be killed; a client that writes to a closed     *)
(* connection is killed by SIGPIPE.                                        *)
(*                                                                         *)
(* The 500 ms that socket_accept waits before it returns -2 do not show:   *)
(* main calls it again at once.                                            *)
(***************************************************************************)
EXTENDS Integers, Sequences, FiniteSets, SequencesExt

CONSTANTS
  Calls,     (* the calls of send_to_server, by whichever process           *)
  Servers,   (* the processes that run the server                           *)
  Backlog,   (* connections the system keeps for a server: listen(4)        *)
  MaxFds,    (* MaxFds[s]: connections server s may have open               *)
  NULL

ASSUME SocketAssumption ==
  Backlog \in Nat \ {0} /\ MaxFds \in [Servers -> Nat \ {0}]
  /\ NULL \notin Calls \cup Servers /\ "dead" \notin Servers

VARIABLES
  path,        (* SOCKET_FILE: NULL when there is none, the server that     *)
               (* made it, or "dead" when that server is gone               *)
  server,      (* server[s]: the statement s executes next, or "off"        *)
  iSocket,     (* what creat_socket_server has returned to s: "listening",  *)
               (* or -1 or 1 as "invalid"                                   *)
  backlog,     (* the connections s has not accepted yet, oldest first      *)
  iConnect,    (* the connection s has accepted last, or NULL               *)
  client,      (* client[n]: the statement call n executes next             *)
  told,        (* told[n]: what call n has returned                         *)
  link,        (* link[n]: the server's end of n's connection               *)
  peer,        (* peer[n]: the server n's connection is with, or NULL       *)
  data,        (* data[n]: the message of call n is in the connection       *)
  handled,     (* history: for each message main has looked at, the call    *)
               (* and whether there was anything in it                      *)
  slow, hit,   (* history: the calls a server has given up waiting for, and *)
               (* those it was connected with when it was killed            *)
  trouble      (* history: since s was started a system call has failed for *)
               (* it, or another server was started or being started        *)

clientVars == <<client, told>>
serverVars == <<server, iSocket, iConnect>>
history == <<handled, slow, hit, trouble>>
vars == <<path, backlog, link, peer, data, clientVars, serverVars, history>>

Init ==
  /\ path = NULL /\ backlog = [s \in Servers |-> <<>>]
  /\ server = [s \in Servers |-> "off"]
  /\ iSocket = [s \in Servers |-> "invalid"] /\ iConnect = [s \in Servers |-> NULL]
  /\ client = [n \in Calls |-> "idle"] /\ told = [n \in Calls |-> "nothing"]
  /\ link = [n \in Calls |-> "none"] /\ peer = [n \in Calls |-> NULL]
  /\ data = [n \in Calls |-> FALSE]
  /\ handled = <<>> /\ slow = {} /\ hit = {}
  /\ trouble = [s \in Servers |-> FALSE]

-----------------------------------------------------------------------------
(* send_to_server, call n.                                                 *)

CTo(n, from, to) == client[n] = from /\ client' = [client EXCEPT ![n] = to]

CSocket(n) ==
  /\ \/ CTo(n, "idle", "connect") /\ told' = told
     \/ CTo(n, "idle", "done") /\ told' = [told EXCEPT ![n] = "failed"]
  /\ UNCHANGED <<path, backlog, link, peer, data, serverVars, history>>

\* Mutant of Connects: no backlog is given to listen.
ConnectsAlways == path \in Servers /\ iSocket[path] = "listening"

Connects ==
  path \in Servers /\ iSocket[path] = "listening" /\ Len(backlog[path]) < Backlog

\* The socket does not wait for room in the backlog; a failure is only logged.
CConnect(n) ==
  /\ CTo(n, "connect", "write")
  /\ IF Connects
     THEN /\ backlog' = [backlog EXCEPT ![path] = Append(@, n)]
          /\ link' = [link EXCEPT ![n] = "queued"]
          /\ peer' = [peer EXCEPT ![n] = path]
     ELSE UNCHANGED <<backlog, link, peer>>
  /\ UNCHANGED <<path, data, told, serverVars, history>>

\* Into a connection, without one, or into one that was closed.
CWrite(n) ==
  /\ \/ /\ link[n] \in {"queued", "accepted", "open"}
        /\ CTo(n, "write", "close")
        /\ data' = [data EXCEPT ![n] = TRUE]
        /\ told' = [told EXCEPT ![n] = "sent"]
     \/ /\ link[n] = "none"
        /\ CTo(n, "write", "close")
        /\ told' = [told EXCEPT ![n] = "failed"] /\ data' = data
     \/ /\ link[n] = "closed"
        /\ CTo(n, "write", "killed")
        /\ UNCHANGED <<data, told>>
  /\ UNCHANGED <<path, backlog, link, peer, serverVars, history>>

CClose(n) ==
  /\ CTo(n, "close", "done")
  /\ UNCHANGED <<path, backlog, link, peer, data, told, serverVars, history>>

CKill(n) ==
  /\ client[n] \in {"connect", "write", "close"}
  /\ client' = [client EXCEPT ![n] = "killed"]
  /\ UNCHANGED <<path, backlog, link, peer, data, told, serverVars, history>>

Closed(n) == client[n] \in {"done", "killed"}

-----------------------------------------------------------------------------
(* creat_socket_server.                                                    *)

STo(s, from, to) == server[s] = from /\ server' = [server EXCEPT ![s] = to]

Starting(s) == server[s] \in {"socket", "bind", "listen"}

Fails(s, failure) == trouble' = [trouble EXCEPT ![s] = @ \/ failure]

\* The servers that are there are disturbed by s, and s by those being started.
Disturb(s) ==
  trouble' = [t \in Servers |-> IF t = s THEN \E u \in Servers \ {s} : Starting(u)
                               ELSE trouble[t] \/ server[t] # "off"]

\* Mutant of SUnlink: the file of an earlier server is left there.
SUnlinkNot(s) ==
  /\ STo(s, "off", "socket")
  /\ Disturb(s)
  /\ UNCHANGED <<path, backlog, link, peer, data, clientVars, iSocket, iConnect,
                 handled, slow, hit>>

\* Whoever's file it is.
SUnlink(s) ==
  /\ STo(s, "off", "socket")
  /\ path' = NULL /\ Disturb(s)
  /\ UNCHANGED <<backlog, link, peer, data, clientVars, iSocket, iConnect, handled,
                 slow, hit>>

SSocket(s) ==
  /\ \/ STo(s, "socket", "bind") /\ trouble' = trouble
     \/ STo(s, "socket", "accept") /\ Fails(s, TRUE)
  /\ UNCHANGED <<path, backlog, link, peer, data, clientVars, iSocket, iConnect,
                 handled, slow, hit>>

\* Fails when there is a file already; then that file is removed.
SBind(s) ==
  /\ \/ /\ STo(s, "bind", "listen")
        /\ path = NULL /\ path' = s /\ trouble' = trouble
     \/ /\ STo(s, "bind", "accept")
        /\ path' = NULL
        /\ Fails(s, path = NULL)
  /\ UNCHANGED <<backlog, link, peer, data, clientVars, iSocket, iConnect, handled,
                 slow, hit>>

\* A failure is answered 1, which main takes for a socket as well; it removes
\* the file that is there then.
SListen(s) ==
  /\ STo(s, "listen", "accept")
  /\ \/ iSocket' = [iSocket EXCEPT ![s] = "listening"] /\ UNCHANGED <<path, trouble>>
     \/ path' = NULL /\ Fails(s, TRUE) /\ iSocket' = iSocket
  /\ UNCHANGED <<backlog, link, peer, data, clientVars, iConnect, handled, slow, hit>>

-----------------------------------------------------------------------------
(* The loop of main: socket_accept and socket_recv_nowait.                 *)

\* The connections s has a descriptor for.
Open(s) == {n \in Calls : peer[n] = s /\ link[n] \in {"accepted", "open"}}

\* Without a socket, a connection or a descriptor nothing happens, again and
\* again.
SAccept(s) ==
  /\ STo(s, "accept", "recv")
  /\ iSocket[s] = "listening" /\ backlog[s] # <<>> /\ Cardinality(Open(s)) < MaxFds[s]
  /\ iConnect' = [iConnect EXCEPT ![s] = Head(backlog[s])]
  /\ backlog' = [backlog EXCEPT ![s] = Tail(@)]
  /\ link' = [link EXCEPT ![Head(backlog[s])] = "accepted"]
  /\ UNCHANGED <<path, peer, data, clientVars, iSocket, history>>

\* Mutant of Readable: the result of select is not looked at.
ReadableAlways(n) == TRUE

Readable(n) == data[n] \/ Closed(n)

\* main looks at the message of n, or at nothing.
Handle(n) ==
  /\ handled' = Append(handled, [call |-> n, some |-> data[n]])
  /\ data' = [data EXCEPT ![n] = FALSE]

\* Mutant of SRead: closed before it is read.
SReadClosed(s) ==
  /\ STo(s, "recv", "accept")
  /\ Readable(iConnect[s])
  /\ handled' = handled
  /\ data' = [data EXCEPT ![iConnect[s]] = FALSE]
  /\ link' = [link EXCEPT ![iConnect[s]] = "closed"]
  /\ UNCHANGED <<path, backlog, peer, clientVars, iSocket, iConnect, slow, hit,
                 trouble>>

\* Mutant of SRead: reads on until the end of the stream.
SReadAgain(s) ==
  LET n == iConnect[s] IN
  /\ STo(s, "recv", IF Closed(n) /\ ~data[n] THEN "accept" ELSE "recv")
  /\ Readable(n)
  /\ Handle(n)
  /\ UNCHANGED <<path, backlog, link, peer, clientVars, iSocket, iConnect, slow,
                 hit, trouble>>

\* Nothing read is handled as a message too (and printed with the length of an
\* earlier one, which is left out).
SRead(s) ==
  /\ STo(s, "recv", "accept")
  /\ Readable(iConnect[s])
  /\ Handle(iConnect[s])
  /\ link' = [link EXCEPT ![iConnect[s]] = "closed"]
  /\ UNCHANGED <<path, backlog, peer, clientVars, iSocket, iConnect, slow, hit,
                 trouble>>

\* Mutant of STimeout: waits in read instead of select.
STimeoutNever(s) == FALSE

\* 100 ms without anything to read: the connection is forgotten, not closed.
STimeout(s) ==
  /\ STo(s, "recv", "accept")
  /\ ~Readable(iConnect[s])
  /\ link' = [link EXCEPT ![iConnect[s]] = "open"]
  /\ slow' = slow \cup {iConnect[s]}
  /\ UNCHANGED <<path, backlog, peer, data, clientVars, iSocket, iConnect, handled,
                 hit, trouble>>

\* The system closes what the server had; the file stays.
SKill(s) ==
  /\ server[s] # "off" /\ server' = [server EXCEPT ![s] = "off"]
  /\ path' = IF path = s THEN "dead" ELSE path
  /\ LET cut == {n \in Calls : /\ peer[n] = s
                               /\ link[n] \in {"queued", "accepted", "open"}}
     IN /\ link' = [n \in Calls |-> IF n \in cut THEN "closed" ELSE link[n]]
        /\ data' = [n \in Calls |-> data[n] /\ n \notin cut]
        /\ hit' = hit \cup cut
  /\ iSocket' = [iSocket EXCEPT ![s] = "invalid"]
  /\ iConnect' = [iConnect EXCEPT ![s] = NULL]
  /\ backlog' = [backlog EXCEPT ![s] = <<>>]
  /\ UNCHANGED <<peer, clientVars, handled, slow, trouble>>

-----------------------------------------------------------------------------
Client(n) == CSocket(n) \/ CConnect(n) \/ CWrite(n) \/ CClose(n)
Server(s) ==
  \/ SUnlink(s) \/ SSocket(s) \/ SBind(s) \/ SListen(s)
  \/ SAccept(s) \/ SRead(s) \/ STimeout(s)

Next ==
  \/ \E s \in Servers : Server(s) \/ SKill(s)
  \/ \E n \in Calls : Client(n) \/ CKill(n)

\* A server that is there goes on: its select returns after 100 ms.
Spec == /\ Init /\ [][Next]_vars
        /\ \A s \in Servers : WF_vars(server[s] # "off" /\ Server(s))

-----------------------------------------------------------------------------
(* Properties.                                                             *)

\* Type correctness of both ends.
TypeOK ==
  /\ path \in Servers \cup {NULL, "dead"}
  /\ server \in [Servers -> {"off", "socket", "bind", "listen", "accept", "recv"}]
  /\ iSocket \in [Servers -> {"listening", "invalid"}]
  /\ backlog \in [Servers -> Seq(Calls)]
  /\ \A s \in Servers : Len(backlog[s]) <= Backlog
  /\ iConnect \in [Servers -> Calls \cup {NULL}]
  /\ client \in [Calls -> {"idle", "connect", "write", "close", "done", "killed"}]
  /\ told \in [Calls -> {"nothing", "sent", "failed"}]
  /\ link \in [Calls -> {"none", "queued", "accepted", "open", "closed"}]
  /\ peer \in [Calls -> Servers \cup {NULL}]
  /\ data \in [Calls -> BOOLEAN]
  /\ handled \in Seq([call : Calls, some : BOOLEAN])
  /\ slow \subseteq Calls /\ hit \subseteq Calls /\ trouble \in [Servers -> BOOLEAN]
  /\ \A s \in Servers : Cardinality(Open(s)) <= MaxFds[s]

Handled == {handled[k].call : k \in DOMAIN handled}

\* No connection is handled twice, whatever is killed and restarted and however
\* many servers there are.
HandledOnce ==
  \A j, k \in DOMAIN handled : j # k => handled[j].call # handled[k].call

\* A message whose sender was told it is sent is handled or still on its way,
\* unless its server has been killed or has given up waiting for it; a server
\* that another one has taken the file from serves what had reached it.
SentIsHandled ==
  \A n \in Calls : told[n] = "sent" =>
    \/ [call |-> n, some |-> TRUE] \in {handled[k] : k \in DOMAIN handled}
    \/ data[n] /\ link[n] \in {"queued", "accepted"}
    \/ n \in slow \cup hit

\* Nothing is taken for a message (socket_server.c:109-117) only where the
\* sender was killed before it could write.
EmptyOnlyFromKilled ==
  \A k \in DOMAIN handled : ~handled[k].some =>
    client[handled[k].call] = "killed" /\ told[handled[k].call] = "nothing"

\* A server that is started again after a crash, or beside one that is already
\* serving, is the one the clients reach: no file left by another is a reason
\* for it to end up without a socket. Only servers started at the same time
\* take the file from each other (socket_server.c:14, 29).
RestartSucceeds ==
  \A s \in Servers : server[s] \in {"accept", "recv"} /\ ~trouble[s] =>
    path = s /\ iSocket[s] = "listening"

\* While a server is there and has descriptors left, no client stays in its
\* backlog for ever, however slow the clients before it are.
BacklogServed ==
  \A n \in Calls : link[n] = "queued" ~>
    \/ link[n] # "queued"
    \/ \E s \in Servers : peer[n] = s /\ Cardinality(Open(s)) >= MaxFds[s]
-----------------------------------------------------------------------------
(* The inductive invariant: how a call, its connection and the server of   *)
(* that connection hang together.                                          *)

\* A call gets a connection once; what it is told says what became of its
\* message; a connection that was looked at is closed.
CallInv ==
  /\ \A n \in Calls :
       /\ link[n] = "none" <=> peer[n] = NULL
       /\ client[n] \in {"idle", "connect"} => link[n] = "none"
       /\ client[n] \in {"idle", "connect", "write"} => told[n] = "nothing"
       /\ client[n] \in {"close", "done"} => told[n] # "nothing"
       /\ told[n] = "failed" => link[n] = "none"
       /\ told[n] = "sent" /\ link[n] \in {"queued", "accepted"} => data[n]
       /\ link[n] = "open" => n \in slow
  /\ \A k \in DOMAIN handled : link[handled[k].call] = "closed"

\* A backlog holds connections of its own server, each once; a server reads
\* from a connection that it has accepted itself.
ServerInv ==
  /\ \A s \in Servers :
       /\ \A k \in DOMAIN backlog[s] :
            link[backlog[s][k]] = "queued" /\ peer[backlog[s][k]] = s
       /\ IsInjective(backlog[s])
       /\ IsFiniteSet(Open(s))
  /\ \A s \in Servers : server[s] = "recv" =>
       /\ iConnect[s] \in Calls
       /\ link[iConnect[s]] = "accepted" /\ peer[iConnect[s]] = s

\* Without trouble, a server that is started is alone in this, and the file is
\* its own from bind on.
PathInv ==
  \A s \in Servers : server[s] # "off" /\ ~trouble[s] =>
    /\ \A u \in Servers \ {s} : ~Starting(u)
    /\ server[s] \in {"socket", "bind"} => path = NULL
    /\ server[s] \notin {"socket", "bind"} => path = s
    /\ server[s] \in {"accept", "recv"} => iSocket[s] = "listening"

SocketInv ==
  /\ TypeOK
  /\ CallInv
  /\ ServerInv
  /\ PathInv
  /\ HandledOnce
  /\ SentIsHandled
  /\ EmptyOnlyFromKilled
=============================================================================
