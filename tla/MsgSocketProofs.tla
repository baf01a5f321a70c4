--------------------------- MODULE MsgSocketProofs ---------------------------
(***************************************************************************)
(* The invariants of the local socket, for any number of calls and servers *)
(* and any limits of the system.                                           *)
(***************************************************************************)
EXTENDS MsgSocket, SequenceTheorems, FiniteSetTheorems, TLAPS

-----------------------------------------------------------------------------
(* The file: who is reached under it.                                      *)

\* What a client does, or a server with its connections, leaves the file and
\* the servers' progress alone.
LEMMA PathKept ==
  ASSUME \/ \E n \in Calls : Client(n) \/ CKill(n)
         \/ UNCHANGED vars
  PROVE  UNCHANGED <<path, server, iSocket, trouble>>
BY DEF Client, CSocket, CConnect, CWrite, CClose, CKill, vars, serverVars, history

\* Trouble is added for one server.
LEMMA FailsFacts ==
  ASSUME trouble \in [Servers -> BOOLEAN], NEW s \in Servers,
         NEW failure \in BOOLEAN, Fails(s, failure)
  PROVE  /\ trouble' \in [Servers -> BOOLEAN]
         /\ trouble'[s] <=> trouble[s] \/ failure
         /\ \A t \in Servers \ {s} : trouble'[t] = trouble[t]
BY Zenon DEF Fails

\* A server that is started disturbs the others and is disturbed by those that
\* are being started.
LEMMA DisturbFacts ==
  ASSUME trouble \in [Servers -> BOOLEAN], NEW s \in Servers, Disturb(s)
  PROVE  /\ trouble' \in [Servers -> BOOLEAN]
         /\ trouble'[s] <=> \E u \in Servers \ {s} : Starting(u)
         /\ \A t \in Servers \ {s} : trouble'[t] <=> trouble[t] \/ server[t] # "off"
BY Zenon DEF Disturb

\* The file follows the one server that is started without trouble.
LEMMA PathStep ==
  ASSUME SocketInv, [Next]_vars
  PROVE  PathInv'
<1> USE SocketAssumption DEF SocketInv, TypeOK, PathInv, Starting, STo
<1>1. CASE (\E n \in Calls : Client(n) \/ CKill(n)) \/ UNCHANGED vars
  BY <1>1, PathKept
<1>2. ASSUME NEW s \in Servers, SUnlink(s) PROVE PathInv'
  <2>1. /\ trouble'[s] <=> \E u \in Servers \ {s} : Starting(u)
        /\ \A t \in Servers \ {s} : trouble'[t] <=> trouble[t] \/ server[t] # "off"
    BY <1>2, DisturbFacts DEF SUnlink
  <2> QED
    BY <1>2, <2>1 DEF SUnlink
<1>3. ASSUME NEW s \in Servers, SSocket(s) PROVE PathInv'
  <2>1. CASE STo(s, "socket", "bind") /\ trouble' = trouble /\ path' = path
    BY <2>1
  <2>2. CASE STo(s, "socket", "accept") /\ Fails(s, TRUE) /\ path' = path
    <3>1. trouble'[s] /\ \A t \in Servers \ {s} : trouble'[t] = trouble[t]
      BY <2>2, FailsFacts
    <3> QED
      BY <2>2, <3>1
  <2> QED
    BY <1>3, <2>1, <2>2 DEF SSocket
<1>4. ASSUME NEW s \in Servers, SBind(s) PROVE PathInv'
  <2>1. CASE STo(s, "bind", "listen") /\ path = NULL /\ path' = s /\ trouble' = trouble
    BY <1>4, <2>1 DEF SBind
  <2>2. CASE STo(s, "bind", "accept") /\ path' = NULL /\ Fails(s, path = NULL)
    <3>1. path = NULL \/ trouble[s]
      BY <2>2
    <3>2. trouble'[s] /\ \A t \in Servers \ {s} : trouble'[t] = trouble[t]
      BY <2>2, <3>1, FailsFacts
    <3> QED
      BY <2>2, <3>2
  <2> QED
    BY <1>4, <2>1, <2>2 DEF SBind
<1>5. ASSUME NEW s \in Servers, SListen(s) PROVE PathInv'
  <2>1. CASE iSocket' = [iSocket EXCEPT ![s] = "listening"] /\ UNCHANGED <<path, trouble>>
    BY <1>5, <2>1 DEF SListen
  <2>2. CASE path' = NULL /\ Fails(s, TRUE) /\ iSocket' = iSocket
    <3>1. trouble'[s] /\ \A t \in Servers \ {s} : trouble'[t] = trouble[t]
      BY <2>2, FailsFacts
    <3> QED
      BY <1>5, <2>2, <3>1 DEF SListen
  <2> QED
    BY <1>5, <2>1, <2>2 DEF SListen
<1>6. ASSUME NEW s \in Servers, SAccept(s) \/ SRead(s) \/ STimeout(s)
      PROVE  PathInv'
  BY <1>6 DEF SAccept, SRead, STimeout, history
<1>7. ASSUME NEW s \in Servers, SKill(s) PROVE PathInv'
  BY <1>7 DEF SKill
<1> QED
  BY <1>1, <1>2, <1>3, <1>4, <1>5, <1>6, <1>7 DEF Next, Server

-----------------------------------------------------------------------------
(* Types, and the descriptors a server has open.                           *)

\* All but the descriptors.
Types ==
  /\ path \in Servers \cup {NULL, "dead"}
  /\ server \in [Servers -> {"off", "socket", "bind", "listen", "accept", "recv"}]
  /\ iSocket \in [Servers -> {"listening", "invalid"}]
  /\ backlog \in [Servers -> Seq(Calls)]
  /\ iConnect \in [Servers -> Calls \cup {NULL}]
  /\ client \in [Calls -> {"idle", "connect", "write", "close", "done", "killed"}]
  /\ told \in [Calls -> {"nothing", "sent", "failed"}]
  /\ link \in [Calls -> {"none", "queued", "accepted", "open", "closed"}]
  /\ peer \in [Calls -> Servers \cup {NULL}]
  /\ data \in [Calls -> BOOLEAN]
  /\ handled \in Seq([call : Calls, some : BOOLEAN])
  /\ slow \subseteq Calls /\ hit \subseteq Calls /\ trouble \in [Servers -> BOOLEAN]

\* The head of a backlog, and what is left without it.
LEMMA BacklogFacts ==
  ASSUME Types, NEW s \in Servers, backlog[s] # <<>>
  PROVE  /\ Head(backlog[s]) \in Calls /\ Head(backlog[s]) = backlog[s][1]
         /\ 1 \in DOMAIN backlog[s]
         /\ Tail(backlog[s]) \in Seq(Calls)
         /\ Len(Tail(backlog[s])) = Len(backlog[s]) - 1
         /\ \A k \in DOMAIN Tail(backlog[s]) :
              k + 1 \in DOMAIN backlog[s] /\ Tail(backlog[s])[k] = backlog[s][k + 1]
<1>1. backlog[s] \in Seq(Calls)
  BY DEF Types
<1>2. Len(backlog[s]) \in Nat \ {0} /\ DOMAIN backlog[s] = 1..Len(backlog[s])
  BY <1>1, EmptySeq, LenProperties
<1>3. /\ Head(backlog[s]) \in Calls /\ Tail(backlog[s]) \in Seq(Calls)
      /\ Len(Tail(backlog[s])) = Len(backlog[s]) - 1
      /\ \A k \in 1..Len(Tail(backlog[s])) : Tail(backlog[s])[k] = backlog[s][k + 1]
  BY <1>1, HeadTailProperties
<1>4. DOMAIN Tail(backlog[s]) = 1..Len(Tail(backlog[s]))
  BY <1>3, LenProperties
<1>5. Head(backlog[s]) = backlog[s][1]
  BY <1>1, <1>2
<1> QED
  BY <1>2, <1>3, <1>4, <1>5

\* Every step keeps the types.
LEMMA TypesStep ==
  ASSUME SocketInv, [Next]_vars
  PROVE  Types'
<1> USE DEF Types, CTo, STo
<1>0. Types /\ ServerInv
  BY DEF SocketInv, TypeOK
<1> USE <1>0
<1>1. ASSUME NEW n \in Calls, CSocket(n) PROVE Types'
  BY <1>1 DEF CSocket, serverVars, history
<1>2. ASSUME NEW n \in Calls, CConnect(n) PROVE Types'
  <2>1. CASE Connects
    <3>1. /\ path \in Servers
          /\ backlog' = [backlog EXCEPT ![path] = Append(backlog[path], n)]
          /\ link' = [link EXCEPT ![n] = "queued"]
          /\ peer' = [peer EXCEPT ![n] = path]
      BY <1>2, <2>1 DEF CConnect, Connects
    <3>2. Append(backlog[path], n) \in Seq(Calls)
      BY <3>1, AppendProperties
    <3> QED
      BY <1>2, <3>1, <3>2 DEF CConnect, serverVars, history
  <2>2. CASE ~Connects
    BY <1>2, <2>2 DEF CConnect, serverVars, history
  <2> QED
    BY <2>1, <2>2
<1>3. ASSUME NEW n \in Calls, CWrite(n) PROVE Types'
  BY <1>3 DEF CWrite, serverVars, history
<1>4. ASSUME NEW n \in Calls, CClose(n) \/ CKill(n) PROVE Types'
  BY <1>4 DEF CClose, CKill, serverVars, history
<1>5. ASSUME NEW s \in Servers, SUnlink(s) PROVE Types'
  <2>1. trouble' \in [Servers -> BOOLEAN]
    BY <1>5, DisturbFacts DEF SUnlink
  <2> QED
    BY <1>5, <2>1 DEF SUnlink, clientVars
<1>6. ASSUME NEW s \in Servers, SSocket(s) \/ SBind(s) \/ SListen(s) PROVE Types'
  <2>1. trouble' \in [Servers -> BOOLEAN]
    <3>1. trouble' = trouble \/ \E failure \in BOOLEAN : Fails(s, failure)
      BY <1>6 DEF SSocket, SBind, SListen
    <3> QED
      BY <3>1, FailsFacts
  <2> QED
    BY <1>6, <2>1 DEF SSocket, SBind, SListen, clientVars
<1>7. ASSUME NEW s \in Servers, SAccept(s) PROVE Types'
  BY <1>7, BacklogFacts DEF SAccept, clientVars, history
<1>8. ASSUME NEW s \in Servers, SRead(s) PROVE Types'
  <2>1. iConnect[s] \in Calls
    BY <1>8 DEF SRead, ServerInv
  <2>2. handled' \in Seq([call : Calls, some : BOOLEAN])
    <3>1. [call |-> iConnect[s], some |-> data[iConnect[s]]] \in [call : Calls, some : BOOLEAN]
      BY <2>1, Zenon
    <3> QED
      BY <1>8, <3>1, AppendProperties DEF SRead, Handle
  <2> QED
    BY <1>8, <2>1, <2>2 DEF SRead, Handle, clientVars
<1>9. ASSUME NEW s \in Servers, STimeout(s) PROVE Types'
  BY <1>9 DEF STimeout, clientVars, ServerInv
<1>10. ASSUME NEW s \in Servers, SKill(s) PROVE Types'
  <2>1. data' \in [Calls -> BOOLEAN]
    BY <1>10, Zenon DEF SKill
  <2>2. backlog' \in [Servers -> Seq(Calls)]
    BY <1>10, EmptySeq DEF SKill
  <2> QED
    BY <1>10, <2>1, <2>2 DEF SKill, clientVars
<1>11. CASE UNCHANGED vars
  BY <1>11 DEF vars, clientVars, serverVars, history
<1> QED
  BY <1>1, <1>2, <1>3, <1>4, <1>5, <1>6, <1>7, <1>8, <1>9, <1>10, <1>11
     DEF Next, Client, Server

\* No server has more connections open than it has descriptors, nor more
\* waiting than the system keeps for it.
LEMMA LimitsStep ==
  ASSUME SocketInv, [Next]_vars
  PROVE  \A s \in Servers : /\ Len(backlog'[s]) <= Backlog
                            /\ IsFiniteSet(Open(s)')
                            /\ Cardinality(Open(s)') <= MaxFds[s]
<1> DEFINE Limits(s) == /\ Len(backlog'[s]) <= Backlog
                        /\ IsFiniteSet(Open(s)')
                        /\ Cardinality(Open(s)') <= MaxFds[s]
<1> SUFFICES ASSUME NEW s \in Servers PROVE Limits(s)
  OBVIOUS
<1>0. /\ Types /\ ServerInv /\ MaxFds[s] \in Nat /\ Backlog \in Nat \ {0}
      /\ Len(backlog[s]) <= Backlog /\ IsFiniteSet(Open(s))
      /\ Cardinality(Open(s)) <= MaxFds[s]
  BY SocketAssumption DEF SocketInv, TypeOK, Types, ServerInv
<1>1. ASSUME Open(s)' \subseteq Open(s)
      PROVE  IsFiniteSet(Open(s)') /\ Cardinality(Open(s)') <= MaxFds[s]
  BY <1>0, <1>1, FS_Subset, FS_CardinalityType
<1>2. ASSUME NEW n \in Calls, CConnect(n) PROVE Limits(s)
  <2>1. Open(s)' \subseteq Open(s)
    BY <1>0, <1>2 DEF CConnect, Open, Types
  <2>2. Len(backlog'[s]) <= Backlog
    <3>1. CASE Connects /\ s = path
      <4>1. backlog'[s] = Append(backlog[s], n) /\ Len(backlog[s]) < Backlog
        BY <1>0, <1>2, <3>1 DEF CConnect, Connects, Types
      <4>2. Len(backlog'[s]) = Len(backlog[s]) + 1 /\ Len(backlog[s]) \in Nat
        BY <1>0, <4>1, AppendProperties, LenProperties DEF Types
      <4> QED
        BY <1>0, <4>1, <4>2
    <3>2. CASE ~(Connects /\ s = path)
      BY <1>0, <1>2, <3>2 DEF CConnect, Types
    <3> QED
      BY <3>1, <3>2
  <2> QED
    BY <1>1, <2>1, <2>2
<1>3. ASSUME NEW t \in Servers, SAccept(t) PROVE Limits(s)
  <2> DEFINE h == Head(backlog[t])
  <2>1. /\ h \in Calls /\ link[h] = "queued" /\ peer[h] = t
        /\ link' = [link EXCEPT ![h] = "accepted"] /\ peer' = peer
        /\ backlog' = [backlog EXCEPT ![t] = Tail(backlog[t])]
    BY <1>0, <1>3, BacklogFacts DEF SAccept, ServerInv
  <2>2. CASE s = t
    <3>1. Open(s)' = Open(s) \cup {h} /\ h \notin Open(s)
      BY <1>0, <2>1, <2>2 DEF Open, Types
    <3>2. IsFiniteSet(Open(s)') /\ Cardinality(Open(s)') = Cardinality(Open(s)) + 1
      BY <1>0, <3>1, FS_AddElement
    <3>3. Cardinality(Open(s)) < MaxFds[s] /\ Cardinality(Open(s)) \in Nat
      BY <1>0, <1>3, <2>2, FS_CardinalityType DEF SAccept
    <3>4. Len(backlog'[s]) = Len(backlog[s]) - 1 /\ Len(backlog[s]) \in Nat
      BY <1>0, <1>3, <2>1, <2>2, BacklogFacts, LenProperties DEF SAccept, Types
    <3> QED
      BY <1>0, <3>2, <3>3, <3>4
  <2>3. CASE s # t
    <3>1. Open(s)' = Open(s) /\ backlog'[s] = backlog[s]
      BY <1>0, <2>1, <2>3 DEF Open, Types
    <3> QED
      BY <1>0, <3>1
  <2> QED
    BY <2>2, <2>3
<1>4. ASSUME NEW t \in Servers, SRead(t) \/ STimeout(t) PROVE Limits(s)
  <2> DEFINE n == iConnect[t]
  <2>1. n \in Calls /\ n \in Open(t) /\ peer[n] = t
    BY <1>0, <1>4 DEF SRead, STimeout, STo, Open, ServerInv
  <2>2. /\ link' = [link EXCEPT ![n] = "closed"] \/ link' = [link EXCEPT ![n] = "open"]
        /\ backlog' = backlog /\ peer' = peer
    BY <1>4 DEF SRead, STimeout
  <2> HIDE DEF n
  <2>3. Open(s)' \subseteq Open(s)
    BY <1>0, <2>1, <2>2 DEF Open, Types
  <2> QED
    BY <1>0, <1>1, <2>2, <2>3
<1>5. ASSUME NEW t \in Servers, SKill(t) PROVE Limits(s)
  <2>1. Open(s)' \subseteq Open(s)
    BY <1>0, <1>5 DEF SKill, Open, Types
  <2>2. backlog'[s] = <<>> \/ backlog'[s] = backlog[s]
    BY <1>0, <1>5 DEF SKill, Types
  <2> QED
    BY <1>0, <1>1, <2>1, <2>2, EmptySeq
<1>6. ASSUME UNCHANGED <<link, peer, backlog>> PROVE Limits(s)
  <2>1. Open(s)' = Open(s)
    BY <1>6 DEF Open
  <2> QED
    BY <1>0, <1>6, <2>1
<1>7. ASSUME NEW n \in Calls, CSocket(n) \/ CWrite(n) \/ CClose(n) \/ CKill(n)
      PROVE  UNCHANGED <<link, peer, backlog>>
  BY <1>7 DEF CSocket, CWrite, CClose, CKill
<1>8. ASSUME NEW t \in Servers, SUnlink(t) \/ SSocket(t) \/ SBind(t) \/ SListen(t)
      PROVE  UNCHANGED <<link, peer, backlog>>
  BY <1>8 DEF SUnlink, SSocket, SBind, SListen
<1>9. CASE UNCHANGED vars
  BY <1>6, <1>9 DEF vars
<1> QED
  BY <1>2, <1>3, <1>4, <1>5, <1>6, <1>7, <1>8, <1>9 DEF Next, Client, Server

-----------------------------------------------------------------------------
(* Calls, connections and servers.                                         *)

\* A connection waits for one server only, and is read by the one that has
\* accepted it.
LEMMA ServerStep ==
  ASSUME SocketInv, [Next]_vars
  PROVE  /\ \A s \in Servers :
              /\ \A k \in DOMAIN backlog'[s] :
                   link'[backlog'[s][k]] = "queued" /\ peer'[backlog'[s][k]] = s
              /\ IsInjective(backlog'[s])
         /\ \A s \in Servers : server'[s] = "recv" =>
              /\ iConnect'[s] \in Calls
              /\ link'[iConnect'[s]] = "accepted" /\ peer'[iConnect'[s]] = s
<1> DEFINE Waiting == \A s \in Servers :
              /\ \A k \in DOMAIN backlog'[s] :
                   link'[backlog'[s][k]] = "queued" /\ peer'[backlog'[s][k]] = s
              /\ IsInjective(backlog'[s])
           Reading == \A s \in Servers : server'[s] = "recv" =>
              /\ iConnect'[s] \in Calls
              /\ link'[iConnect'[s]] = "accepted" /\ peer'[iConnect'[s]] = s
           Goal == Waiting /\ Reading
<1> USE DEF IsInjective, CTo, STo
<1>0. /\ Types /\ ServerInv /\ CallInv
      /\ \A s \in Servers : backlog[s] \in Seq(Calls) /\ DOMAIN backlog[s] = 1..Len(backlog[s])
      /\ \A s \in Servers : \A k \in DOMAIN backlog[s] : backlog[s][k] \in Calls
  <2>1. Types /\ ServerInv /\ CallInv
    BY DEF SocketInv, TypeOK, Types
  <2>2. \A s \in Servers : backlog[s] \in Seq(Calls)
    BY <2>1 DEF Types
  <2> QED
    BY <2>1, <2>2, LenProperties, ElementOfSeq
<1>1. ASSUME NEW n \in Calls, CConnect(n) PROVE Goal
  <2>0. link[n] = "none" /\ UNCHANGED <<server, iConnect>>
    BY <1>0, <1>1 DEF CConnect, CallInv, serverVars
  <2>1. CASE Connects
    <3>1. /\ path \in Servers
          /\ backlog' = [backlog EXCEPT ![path] = Append(backlog[path], n)]
          /\ link' = [link EXCEPT ![n] = "queued"]
          /\ peer' = [peer EXCEPT ![n] = path]
      BY <1>1, <2>1 DEF CConnect, Connects
    <3> DEFINE b == Append(backlog[path], n)
               l == Len(backlog[path])
    <3>2. /\ DOMAIN b = 1..(l + 1) /\ l \in Nat /\ b[l + 1] = n
          /\ DOMAIN backlog[path] = 1..l
          /\ \A k \in 1..l : b[k] = backlog[path][k]
      BY <1>0, <3>1, AppendProperties, LenProperties
    <3>3. /\ backlog'[path] = b
          /\ \A s \in Servers \ {path} : backlog'[s] = backlog[s]
      BY <1>0, <3>1 DEF Types
    <3> HIDE DEF b, l
    <3>4. \A k \in DOMAIN b :
            \/ k = l + 1 /\ b[k] = n
            \/ k \in DOMAIN backlog[path] /\ b[k] = backlog[path][k]
      BY <3>2
    <3>5. \A s \in Servers : \A k \in DOMAIN backlog[s] : backlog[s][k] # n
      BY <1>0, <2>0 DEF ServerInv
    <3>6. Waiting
      BY <1>0, <3>1, <3>3, <3>4, <3>5 DEF Types, ServerInv
    <3>7. Reading
      BY <1>0, <2>0, <3>1 DEF Types, ServerInv
    <3> QED
      BY <3>6, <3>7
  <2>2. CASE ~Connects
    BY <1>0, <1>1, <2>0, <2>2 DEF CConnect, ServerInv
  <2> QED
    BY <2>1, <2>2
<1>2. ASSUME NEW t \in Servers, SAccept(t) PROVE Goal
  <2> DEFINE h == Head(backlog[t])
  <2>1. /\ h \in Calls /\ h = backlog[t][1] /\ 1 \in DOMAIN backlog[t]
        /\ link[h] = "queued" /\ peer[h] = t
        /\ \A k \in DOMAIN Tail(backlog[t]) :
             k + 1 \in DOMAIN backlog[t] /\ Tail(backlog[t])[k] = backlog[t][k + 1]
    BY <1>0, <1>2, BacklogFacts DEF SAccept, ServerInv
  <2>2. /\ link' = [link EXCEPT ![h] = "accepted"] /\ peer' = peer
        /\ server' = [server EXCEPT ![t] = "recv"]
        /\ iConnect' = [iConnect EXCEPT ![t] = h]
        /\ backlog'[t] = Tail(backlog[t])
        /\ \A s \in Servers \ {t} : backlog'[s] = backlog[s]
    BY <1>0, <1>2 DEF SAccept, Types
  <2> HIDE DEF h
  <2>3. Tail(backlog[t]) \in Seq(Calls)
    BY <1>0, <1>2, BacklogFacts DEF SAccept
  <2>4. \A k \in DOMAIN Tail(backlog[t]) : k \in Nat /\ k > 0
    BY <2>3, LenProperties
  <2>5. \A k \in DOMAIN Tail(backlog[t]) : Tail(backlog[t])[k] # h
    BY <1>0, <2>1, <2>4 DEF ServerInv
  <2>6. IsInjective(Tail(backlog[t]))
    BY <1>0, <2>1, <2>4 DEF ServerInv
  <2>7. \A s \in Servers \ {t} : \A k \in DOMAIN backlog[s] : backlog[s][k] # h
    BY <1>0, <2>1 DEF ServerInv
  <2>8. Waiting
    <3>1. ASSUME NEW s \in Servers \ {t}, NEW k \in DOMAIN backlog[s]
          PROVE  link'[backlog[s][k]] = "queued" /\ peer'[backlog[s][k]] = s
      BY <1>0, <2>1, <2>2, <2>7, <3>1 DEF Types, ServerInv
    <3>2. ASSUME NEW k \in DOMAIN Tail(backlog[t])
          PROVE  /\ link'[Tail(backlog[t])[k]] = "queued"
                 /\ peer'[Tail(backlog[t])[k]] = t
      <4>1. Tail(backlog[t])[k] \in Calls /\ Tail(backlog[t])[k] # h
        BY <1>0, <2>1, <2>5
      <4>2. link[Tail(backlog[t])[k]] = "queued" /\ peer[Tail(backlog[t])[k]] = t
        BY <1>0, <2>1 DEF ServerInv
      <4> QED
        BY <1>0, <2>2, <4>1, <4>2 DEF Types
    <3>3. ASSUME NEW s \in Servers, NEW k \in DOMAIN backlog'[s]
          PROVE  link'[backlog'[s][k]] = "queued" /\ peer'[backlog'[s][k]] = s
      <4>1. CASE s = t
        <5>1. backlog'[s] = Tail(backlog[t])
          BY <2>2, <4>1
        <5>2. k \in DOMAIN Tail(backlog[t])
          BY <5>1
        <5> QED
          BY <5>1, <5>2, <3>2, <4>1
      <4>2. CASE s # t
        <5>1. backlog'[s] = backlog[s]
          BY <2>2, <4>2
        <5> QED
          BY <5>1, <3>1, <4>2
      <4> QED
        BY <4>1, <4>2
    <3>4. \A s \in Servers : IsInjective(backlog'[s])
      <4> HIDE DEF IsInjective
      <4> QED
        BY <1>0, <2>2, <2>6 DEF ServerInv
    <3> QED
      BY <3>3, <3>4
  <2>9. Reading
    BY <1>0, <2>1, <2>2 DEF Types, ServerInv
  <2> QED
    BY <2>8, <2>9
<1>3. ASSUME NEW t \in Servers, SRead(t) \/ STimeout(t) PROVE Goal
  BY <1>0, <1>3 DEF SRead, STimeout, Types, ServerInv
<1>4. ASSUME NEW t \in Servers, SKill(t) PROVE Goal
  <2>1. \A s \in Servers : backlog'[s] = IF s = t THEN <<>> ELSE backlog[s]
    BY <1>0, <1>4 DEF SKill, Types
  <2>2. \A n \in Calls : peer[n] # t => link'[n] = link[n]
    BY <1>0, <1>4 DEF SKill, Types
  <2>3. UNCHANGED peer /\ \A s \in Servers : server'[s] = "recv" =>
          s # t /\ server[s] = "recv" /\ iConnect'[s] = iConnect[s]
    BY <1>0, <1>4 DEF SKill, Types
  <2> QED
    BY <1>0, <2>1, <2>2, <2>3 DEF Types, ServerInv
<1>5. ASSUME NEW n \in Calls, CSocket(n) \/ CWrite(n) \/ CClose(n) \/ CKill(n)
      PROVE  Goal
  BY <1>0, <1>5 DEF CSocket, CWrite, CClose, CKill, serverVars, ServerInv
<1>6. ASSUME NEW t \in Servers, SUnlink(t) \/ SSocket(t) \/ SBind(t) \/ SListen(t)
      PROVE  Goal
  <2>1. UNCHANGED <<backlog, link, peer, iConnect>>
    BY <1>6 DEF SUnlink, SSocket, SBind, SListen
  <2>2. \A s \in Servers : server'[s] = "recv" => server[s] = "recv"
    BY <1>0, <1>6 DEF SUnlink, SSocket, SBind, SListen, Types
  <2> QED
    BY <1>0, <2>1, <2>2 DEF ServerInv
<1>7. CASE UNCHANGED vars
  BY <1>0, <1>7 DEF vars, serverVars, ServerInv
<1> QED
  BY <1>1, <1>2, <1>3, <1>4, <1>5, <1>6, <1>7 DEF Next, Client, Server

\* What a server that has read leaves: one more message looked at.
LEMMA HandleFacts ==
  ASSUME SocketInv, NEW s \in Servers, SRead(s)
  PROVE  LET n == iConnect[s] IN
         /\ n \in Calls /\ link[n] = "accepted" /\ Readable(n)
         /\ link' = [link EXCEPT ![n] = "closed"]
         /\ \A m \in Calls \ {n} : data'[m] = data[m]
         /\ DOMAIN handled' = 1..(Len(handled) + 1) /\ Len(handled) \in Nat
         /\ DOMAIN handled = 1..Len(handled)
         /\ handled'[Len(handled) + 1] = [call |-> n, some |-> data[n]]
         /\ handled'[Len(handled) + 1].call = n
         /\ handled'[Len(handled) + 1].some = data[n]
         /\ \A k \in DOMAIN handled :
              handled'[k] = handled[k] /\ handled[k].call \in Calls
<1> DEFINE n == iConnect[s]
           R == [call : Calls, some : BOOLEAN]
           r == [call |-> n, some |-> data[n]]
<1>0. Types /\ ServerInv
  BY DEF SocketInv, TypeOK, Types
<1>1. n \in Calls /\ link[n] = "accepted"
  BY <1>0 DEF SRead, STo, ServerInv
<1>2. r \in R
  BY <1>0, <1>1, Zenon DEF Types
<1>3. handled \in Seq(R) /\ handled' = Append(handled, r)
  BY <1>0 DEF SRead, Handle, Types
<1>4. \A k \in DOMAIN handled : handled[k] \in R
  BY <1>3, LenProperties, ElementOfSeq
<1>5. \A k \in DOMAIN handled : handled[k].call \in Calls
  BY <1>4
<1> HIDE DEF R, r
<1>6. /\ DOMAIN handled' = 1..(Len(handled) + 1) /\ Len(handled) \in Nat
      /\ DOMAIN handled = 1..Len(handled)
      /\ handled'[Len(handled) + 1] = r
      /\ \A k \in DOMAIN handled : handled'[k] = handled[k]
  BY <1>2, <1>3, AppendProperties, LenProperties
<1>7. /\ Readable(n) /\ link' = [link EXCEPT ![n] = "closed"]
      /\ \A m \in Calls \ {n} : data'[m] = data[m]
  BY <1>0, <1>1 DEF SRead, Handle, Types
<1>8. r.call = n /\ r.some = data[n]
  BY Zenon DEF r
<1> QED
  BY <1>1, <1>5, <1>6, <1>7, <1>8 DEF r

\* Every step keeps what a call is told and its connection in agreement.
LEMMA CallStep ==
  ASSUME SocketInv, [Next]_vars
  PROVE  CallInv'
<1> USE DEF CTo, CallInv
<1>0. /\ Types /\ ServerInv /\ CallInv
      /\ \A k \in DOMAIN handled : handled[k].call \in Calls
  <2>1. Types /\ ServerInv /\ CallInv
    BY DEF SocketInv, TypeOK, Types
  <2> DEFINE R == [call : Calls, some : BOOLEAN]
  <2>2. \A k \in DOMAIN handled : handled[k] \in R
    <3>1. handled \in Seq(R)
      BY <2>1 DEF Types
    <3> HIDE DEF R
    <3> QED
      BY <3>1, LenProperties, ElementOfSeq
  <2> QED
    BY <2>1, <2>2
<1> USE DEF Types
<1>1. ASSUME NEW n \in Calls, CSocket(n) PROVE CallInv'
  BY <1>0, <1>1 DEF CSocket, history
<1>2. ASSUME NEW n \in Calls, CConnect(n) PROVE CallInv'
  <2>1. CASE Connects
    <3>1. /\ path \in Servers /\ path # NULL
          /\ link' = [link EXCEPT ![n] = "queued"]
          /\ peer' = [peer EXCEPT ![n] = path]
      BY <1>2, <2>1, SocketAssumption DEF CConnect, Connects
    <3>2. client[n] = "connect" /\ client' = [client EXCEPT ![n] = "write"]
          /\ UNCHANGED <<data, told, handled, slow>>
      BY <1>2 DEF CConnect, history
    <3> QED
      BY <1>0, <3>1, <3>2
  <2>2. CASE ~Connects
    BY <1>0, <1>2, <2>2 DEF CConnect, history
  <2> QED
    BY <2>1, <2>2
<1>3. ASSUME NEW n \in Calls, CWrite(n) PROVE CallInv'
  <2>1. UNCHANGED <<link, peer, handled, slow>>
    BY <1>3 DEF CWrite, history
  <2>2. \A m \in Calls : data[m] => data'[m]
    <3>1. CASE data' = [data EXCEPT ![n] = TRUE]
      BY <1>0, <3>1, Zenon
    <3>2. CASE data' = data
      BY <3>2
    <3> QED
      BY <1>3, <3>1, <3>2 DEF CWrite
  <2>3. told'[n] = "sent" => data'[n]
    BY <1>0, <1>3 DEF CWrite
  <2>4. \A m \in Calls \ {n} : client'[m] = client[m] /\ told'[m] = told[m]
    BY <1>0, <1>3 DEF CWrite
  <2>5. \/ link[n] # "none" /\ client'[n] = "close" /\ told'[n] = "sent"
        \/ link[n] = "none" /\ client'[n] = "close" /\ told'[n] = "failed"
        \/ client'[n] = "killed" /\ told'[n] = told[n]
    BY <1>0, <1>3 DEF CWrite
  <2> QED
    BY <1>0, <2>1, <2>2, <2>3, <2>4, <2>5
<1>4. ASSUME NEW n \in Calls, CClose(n) \/ CKill(n) PROVE CallInv'
  BY <1>0, <1>4 DEF CClose, CKill, history
<1>5. ASSUME NEW s \in Servers, SUnlink(s) \/ SSocket(s) \/ SBind(s) \/ SListen(s)
      PROVE  CallInv'
  BY <1>0, <1>5 DEF SUnlink, SSocket, SBind, SListen, clientVars
<1>6. ASSUME NEW s \in Servers, SAccept(s) PROVE CallInv'
  <2> DEFINE h == Head(backlog[s])
  <2>1. h \in Calls /\ link[h] = "queued"
    BY <1>0, <1>6, BacklogFacts DEF SAccept, ServerInv
  <2>2. /\ link' = [link EXCEPT ![h] = "accepted"]
        /\ UNCHANGED <<peer, data, client, told, handled, slow>>
    BY <1>6 DEF SAccept, clientVars, history
  <2> HIDE DEF h
  <2> QED
    BY <1>0, <2>1, <2>2
<1>7. ASSUME NEW s \in Servers, SRead(s) PROVE CallInv'
  <2> DEFINE n == iConnect[s]
  <2>1. /\ n \in Calls /\ link[n] = "accepted"
        /\ link' = [link EXCEPT ![n] = "closed"]
        /\ \A m \in Calls \ {n} : data'[m] = data[m]
        /\ UNCHANGED <<peer, client, told, slow>>
    BY <1>7, HandleFacts DEF SRead, clientVars
  <2>2. \A k \in DOMAIN handled' : link'[handled'[k].call] = "closed"
    <3> SUFFICES ASSUME NEW k \in DOMAIN handled'
                 PROVE  link'[handled'[k].call] = "closed"
      OBVIOUS
    <3>1. CASE k \in DOMAIN handled
      <4>1. handled'[k].call = handled[k].call /\ handled[k].call \in Calls
        BY <1>7, <3>1, HandleFacts
      <4> QED
        BY <1>0, <2>1, <3>1, <4>1
    <3>2. CASE k = Len(handled) + 1
      <4>1. handled'[k].call = n
        BY <1>7, <3>2, HandleFacts
      <4> QED
        BY <1>0, <2>1, <4>1
    <3>3. /\ DOMAIN handled' = 1..(Len(handled) + 1) /\ Len(handled) \in Nat
          /\ DOMAIN handled = 1..Len(handled)
      BY <1>7, HandleFacts
    <3>4. k \in DOMAIN handled \/ k = Len(handled) + 1
      BY <3>3
    <3> QED
      BY <3>1, <3>2, <3>4
  <2> HIDE DEF n
  <2> QED
    BY <1>0, <2>1, <2>2
<1>8. ASSUME NEW s \in Servers, STimeout(s) PROVE CallInv'
  <2> DEFINE n == iConnect[s]
  <2>1. /\ n \in Calls /\ link[n] = "accepted"
        /\ link' = [link EXCEPT ![n] = "open"] /\ slow' = slow \cup {n}
        /\ UNCHANGED <<peer, data, client, told, handled>>
    BY <1>0, <1>8 DEF STimeout, STo, ServerInv, clientVars
  <2> HIDE DEF n
  <2> QED
    BY <1>0, <2>1
<1>9. ASSUME NEW s \in Servers, SKill(s) PROVE CallInv'
  <2>1. UNCHANGED <<peer, client, told, handled, slow>>
    BY <1>9 DEF SKill, clientVars
  <2>2. \A n \in Calls : \/ link'[n] = link[n] /\ data'[n] = data[n]
                         \/ link[n] # "none" /\ link'[n] = "closed"
    BY <1>0, <1>9 DEF SKill
  <2> QED
    BY <1>0, <2>1, <2>2
<1>10. CASE UNCHANGED vars
  BY <1>0, <1>10 DEF vars, clientVars, history
<1> QED
  BY <1>1, <1>2, <1>3, <1>4, <1>5, <1>6, <1>7, <1>8, <1>9, <1>10
     DEF Next, Client, Server

-----------------------------------------------------------------------------
(* What becomes of the messages.                                           *)

\* What a server looks at has not been looked at before; it is empty only if
\* the sender was killed before it wrote.
LEMMA HandledStep ==
  ASSUME SocketInv, [Next]_vars
  PROVE  HandledOnce' /\ EmptyOnlyFromKilled'
<1>0. /\ Types /\ ServerInv /\ CallInv /\ HandledOnce /\ EmptyOnlyFromKilled
  BY DEF SocketInv, TypeOK, Types
<1>1. ASSUME NEW s \in Servers, SRead(s)
      PROVE  HandledOnce' /\ EmptyOnlyFromKilled'
  <2> DEFINE n == iConnect[s]
             l == Len(handled)
  <2>1. /\ n \in Calls /\ link[n] = "accepted"
        /\ DOMAIN handled' = 1..(l + 1) /\ l \in Nat /\ DOMAIN handled = 1..l
        /\ handled'[l + 1].call = n /\ handled'[l + 1].some = data[n]
        /\ \A k \in DOMAIN handled :
             handled'[k] = handled[k] /\ handled[k].call \in Calls
    BY <1>1, HandleFacts
  <2>2. \A k \in DOMAIN handled : handled[k].call # n
    BY <1>0, <2>1 DEF CallInv
  <2>3. ~data[n] => client[n] = "killed" /\ told[n] = "nothing"
    <3>1. ~data[n] => client[n] \in {"done", "killed"}
      BY <1>1, HandleFacts DEF Readable, Closed
    <3> QED
      BY <1>0, <2>1, <3>1 DEF CallInv, Types
  <2>4. client' = client /\ told' = told
    BY <1>1 DEF SRead, clientVars
  <2> HIDE DEF n, l
  <2>5. \A k \in DOMAIN handled' : k \in DOMAIN handled \/ k = l + 1
    BY <2>1
  <2>6. HandledOnce'
    BY <1>0, <2>1, <2>2, <2>5 DEF HandledOnce
  <2>7. EmptyOnlyFromKilled'
    BY <1>0, <2>1, <2>3, <2>4, <2>5 DEF EmptyOnlyFromKilled
  <2> QED
    BY <2>6, <2>7
<1>2. ASSUME handled' = handled,
             \A n \in Calls : client[n] = "killed" => client'[n] = "killed" /\ told'[n] = told[n]
      PROVE  HandledOnce' /\ EmptyOnlyFromKilled'
  <2>1. \A k \in DOMAIN handled : handled[k].call \in Calls
    <3> DEFINE R == [call : Calls, some : BOOLEAN]
    <3>1. \A k \in DOMAIN handled : handled[k] \in R
      <4>1. handled \in Seq(R)
        BY <1>0 DEF Types
      <4> HIDE DEF R
      <4> QED
        BY <4>1, LenProperties, ElementOfSeq
    <3> QED
      BY <3>1
  <2> QED
    BY <1>0, <1>2, <2>1 DEF HandledOnce, EmptyOnlyFromKilled
<1>3. ASSUME NEW m \in Calls, Client(m) \/ CKill(m)
      PROVE  /\ handled' = handled
             /\ \A n \in Calls : client[n] = "killed" =>
                  client'[n] = "killed" /\ told'[n] = told[n]
  <2>1. handled' = handled
    BY <1>3 DEF Client, CSocket, CConnect, CWrite, CClose, CKill, history
  <2>2. client[m] # "killed" /\ \E l : client' = [client EXCEPT ![m] = l]
    BY <1>3 DEF Client, CSocket, CConnect, CWrite, CClose, CKill, CTo
  <2>3. \A n \in Calls \ {m} : told'[n] = told[n]
    BY <1>0, <1>3 DEF Client, CSocket, CConnect, CWrite, CClose, CKill, Types
  <2> QED
    BY <1>0, <2>1, <2>2, <2>3 DEF Types
<1>4. ASSUME NEW s \in Servers, \/ SUnlink(s) \/ SSocket(s) \/ SBind(s) \/ SListen(s)
                                \/ SAccept(s) \/ STimeout(s) \/ SKill(s)
      PROVE  UNCHANGED <<handled, client, told>>
  BY <1>4 DEF SUnlink, SSocket, SBind, SListen, SAccept, STimeout, SKill,
              clientVars, history
<1>5. CASE UNCHANGED vars
  BY <1>2, <1>5 DEF vars, clientVars, history
<1> QED
  BY <1>1, <1>2, <1>3, <1>4, <1>5 DEF Next, Server

\* The three ways in which a message that a sender believes sent can end.
Accounted(n) ==
  \/ [call |-> n, some |-> TRUE] \in {handled[k] : k \in DOMAIN handled}
  \/ data[n] /\ link[n] \in {"queued", "accepted"}
  \/ n \in slow \cup hit

\* A message believed sent is not lost otherwise.
LEMMA SentStep ==
  ASSUME SocketInv, [Next]_vars
  PROVE  SentIsHandled'
<1>0. Types /\ ServerInv /\ CallInv
  BY DEF SocketInv, TypeOK, Types
<1> SUFFICES ASSUME NEW n \in Calls, told'[n] = "sent" PROVE Accounted(n)'
  BY DEF SentIsHandled, Accounted
<1>1. told[n] = "sent" => Accounted(n)
  BY DEF SocketInv, SentIsHandled, Accounted
<1>2. ASSUME told[n] = "sent", UNCHANGED <<handled, data[n], link[n], slow, hit>>
      PROVE  Accounted(n)'
  BY <1>1, <1>2 DEF Accounted
<1>3. ASSUME NEW m \in Calls, CSocket(m) \/ CConnect(m) \/ CClose(m) \/ CKill(m)
      PROVE  Accounted(n)'
  <2>1. told[n] = "sent"
    BY <1>0, <1>3 DEF CSocket, CConnect, CClose, CKill, Types
  <2>2. UNCHANGED <<handled, data, slow, hit>>
    BY <1>3 DEF CSocket, CConnect, CClose, CKill, history
  <2>3. link'[n] = link[n]
    <3>1. CASE CConnect(m)
      <4>1. m # n
        BY <1>0, <2>1, <3>1 DEF CConnect, CTo, CallInv
      <4> QED
        BY <1>0, <3>1, <4>1 DEF CConnect, Types
    <3>2. CASE ~CConnect(m)
      BY <1>3, <3>2 DEF CSocket, CClose, CKill
    <3> QED
      BY <3>1, <3>2
  <2> QED
    BY <1>2, <2>1, <2>2, <2>3
<1>4. ASSUME NEW m \in Calls, CWrite(m) PROVE Accounted(n)'
  <2>1. UNCHANGED <<handled, link, slow, hit>>
    BY <1>4 DEF CWrite, history
  <2>2. CASE m = n
    <3>1. link[n] \in {"queued", "accepted", "open"} /\ data' = [data EXCEPT ![n] = TRUE]
      BY <1>0, <1>4, <2>2 DEF CWrite, CTo, CallInv, Types
    <3>2. data'[n]
      BY <1>0, <3>1, Zenon DEF Types
    <3> QED
      BY <1>0, <2>1, <3>1, <3>2 DEF Accounted, CallInv
  <2>3. CASE m # n
    <3>1. told[n] = "sent" /\ data'[n] = data[n]
      BY <1>0, <1>4, <2>3 DEF CWrite, Types
    <3> QED
      BY <1>2, <2>1, <3>1
  <2> QED
    BY <2>2, <2>3
<1>5. ASSUME NEW s \in Servers, SUnlink(s) \/ SSocket(s) \/ SBind(s) \/ SListen(s)
      PROVE  Accounted(n)'
  BY <1>2, <1>5 DEF SUnlink, SSocket, SBind, SListen, clientVars
<1>6. ASSUME NEW s \in Servers, SAccept(s) PROVE Accounted(n)'
  <2>1. UNCHANGED <<handled, data, slow, hit, told>>
    BY <1>6 DEF SAccept, clientVars, history
  <2>2. link[n] \in {"queued", "accepted"} => link'[n] \in {"queued", "accepted"}
    BY <1>0, <1>6, BacklogFacts DEF SAccept, Types
  <2> QED
    BY <1>1, <2>1, <2>2 DEF Accounted
<1>7. ASSUME NEW s \in Servers, SRead(s) PROVE Accounted(n)'
  <2> DEFINE c == iConnect[s]
             l == Len(handled)
  <2>1. UNCHANGED <<slow, hit, told>>
    BY <1>7 DEF SRead, clientVars
  <2>2. /\ c \in Calls /\ link' = [link EXCEPT ![c] = "closed"] /\ link[c] = "accepted"
        /\ \A m \in Calls \ {c} : data'[m] = data[m]
        /\ DOMAIN handled' = 1..(l + 1) /\ l \in Nat /\ DOMAIN handled = 1..l
        /\ handled'[l + 1] = [call |-> c, some |-> data[c]]
        /\ \A k \in DOMAIN handled : handled'[k] = handled[k]
    BY <1>7, HandleFacts
  <2>3. CASE [call |-> n, some |-> TRUE] \in {handled[k] : k \in DOMAIN handled}
    <3>1. PICK k \in DOMAIN handled : handled[k] = [call |-> n, some |-> TRUE]
      BY <2>3
    <3>2. k \in DOMAIN handled' /\ handled'[k] = handled[k]
      BY <2>2
    <3> QED
      BY <3>1, <3>2 DEF Accounted
  <2>4. CASE data[n] /\ link[n] \in {"queued", "accepted"} /\ n = c
    <3>1. data[c] = TRUE
      BY <1>0, <2>2, <2>4 DEF Types
    <3>2. handled'[l + 1] = [call |-> n, some |-> TRUE]
      BY <2>2, <2>4, <3>1, Zenon
    <3>3. l + 1 \in DOMAIN handled'
      <4> HIDE DEF c, l
      <4> QED
        BY <2>2
    <3> QED
      BY <3>2, <3>3 DEF Accounted
  <2>5. CASE data[n] /\ link[n] \in {"queued", "accepted"} /\ n # c
    BY <1>0, <2>2, <2>5 DEF Accounted, Types
  <2>6. CASE n \in slow \cup hit
    BY <2>1, <2>6 DEF Accounted
  <2> QED
    BY <1>1, <2>1, <2>3, <2>4, <2>5, <2>6 DEF Accounted
<1>8. ASSUME NEW s \in Servers, STimeout(s) PROVE Accounted(n)'
  <2>1. UNCHANGED <<handled, data, hit, told>> /\ slow' = slow \cup {iConnect[s]}
    BY <1>8 DEF STimeout, clientVars
  <2>2. n # iConnect[s] => link'[n] = link[n]
    BY <1>0, <1>8 DEF STimeout, STo, ServerInv, Types
  <2> QED
    BY <1>1, <2>1, <2>2 DEF Accounted
<1>9. ASSUME NEW s \in Servers, SKill(s) PROVE Accounted(n)'
  <2>1. UNCHANGED <<handled, slow, told>> /\ hit \subseteq hit'
    BY <1>9 DEF SKill, clientVars
  <2>2. n \in hit' \/ (link'[n] = link[n] /\ (data[n] => data'[n]))
    BY <1>9 DEF SKill
  <2> QED
    BY <1>1, <2>1, <2>2 DEF Accounted
<1>10. CASE UNCHANGED vars
  BY <1>2, <1>10 DEF vars, clientVars, history
<1> QED
  BY <1>3, <1>4, <1>5, <1>6, <1>7, <1>8, <1>9, <1>10 DEF Next, Client, Server

\* Nothing is connected before a server has been started.
LEMMA SocketInitial == Init => SocketInv
<1> SUFFICES ASSUME Init PROVE SocketInv
  OBVIOUS
<1> USE SocketAssumption, EmptySeq DEF Init
<1>1. \A s \in Servers : /\ Open(s) = {}
                         /\ IsFiniteSet(Open(s)) /\ Cardinality(Open(s)) = 0
  <2>1. \A s \in Servers : Open(s) = {}
    BY DEF Open
  <2> QED
    BY <2>1, FS_EmptySet, Zenon
<1>2. TypeOK
  <2>1. \A s \in Servers : Len(backlog[s]) <= Backlog
    OBVIOUS
  <2>2. \A s \in Servers : Cardinality(Open(s)) <= MaxFds[s]
    BY <1>1
  <2>3. backlog \in [Servers -> Seq(Calls)] /\ handled \in Seq([call : Calls, some : BOOLEAN])
    OBVIOUS
  <2>4. data \in [Calls -> BOOLEAN] /\ trouble \in [Servers -> BOOLEAN]
    OBVIOUS
  <2> QED
    BY <2>1, <2>2, <2>3, <2>4 DEF TypeOK
<1>3. CallInv
  BY DEF CallInv
<1>4. ServerInv
  BY <1>1 DEF ServerInv, IsInjective
<1>5. PathInv /\ HandledOnce /\ SentIsHandled /\ EmptyOnlyFromKilled
  BY DEF PathInv, HandledOnce, SentIsHandled, EmptyOnlyFromKilled
<1> QED
  BY <1>2, <1>3, <1>4, <1>5 DEF SocketInv

-----------------------------------------------------------------------------
(* The theorems.                                                           *)

\* However calls and servers are interleaved, killed and started, the file, the
\* connections and the messages in them hang together.
THEOREM SocketInvariant == Spec => []SocketInv
<1>1. SocketInv /\ [Next]_vars => SocketInv'
  <2> SUFFICES ASSUME SocketInv, [Next]_vars PROVE SocketInv'
    OBVIOUS
  <2>1. TypeOK'
    BY TypesStep, LimitsStep DEF Types, TypeOK
  <2>2. ServerInv'
    BY LimitsStep, ServerStep DEF ServerInv
  <2> QED
    BY <2>1, <2>2, PathStep, CallStep, HandledStep, SentStep DEF SocketInv
<1> QED
  BY <1>1, SocketInitial, PTL DEF Spec

\* The variables keep their types; a backlog and the descriptors of a server
\* keep to the system's limits.
THEOREM SocketTypes == Spec => []TypeOK
<1>1. SocketInv => TypeOK
  BY DEF SocketInv
<1> QED
  BY <1>1, SocketInvariant, PTL

\* No connection is looked at twice (socket_server.c:104-115, 137-141).
THEOREM NoneHandledTwice == Spec => []HandledOnce
<1>1. SocketInv => HandledOnce
  BY DEF SocketInv
<1> QED
  BY <1>1, SocketInvariant, PTL

\* A message its sender was told is sent is lost only to a server that was
\* killed or had given up waiting for it.
THEOREM SentKept == Spec => []SentIsHandled
<1>1. SocketInv => SentIsHandled
  BY DEF SocketInv
<1> QED
  BY <1>1, SocketInvariant, PTL

\* An empty message is the trace of a killed sender.
THEOREM EmptyExplained == Spec => []EmptyOnlyFromKilled
<1>1. SocketInv => EmptyOnlyFromKilled
  BY DEF SocketInv
<1> QED
  BY <1>1, SocketInvariant, PTL

\* A server started on its own ends up serving, whatever was left by others.
THEOREM RestartsSucceed == Spec => []RestartSucceeds
<1>1. SocketInv => RestartSucceeds
  BY DEF SocketInv, PathInv, RestartSucceeds
<1> QED
  BY <1>1, SocketInvariant, PTL
=============================================================================
