------------------------- MODULE TuringUploadProofs -------------------------
(***************************************************************************)
(* The invariants of the speech upload client, for files of any number of  *)
(* pieces, any number of runs and any replies of the service.              *)
(***************************************************************************)
EXTENDS TuringUpload, SequenceTheorems, TLAPS

\* Both outcomes of a read, and of a send.
Read == ReadPiece \/ ReadEnd
Send == SendOpen \/ SendLost

\* The steps, all ends of the process taken together.
Steps ==
  \/ End \/ Start \/ get_token \/ Connect \/ Alloc \/ Read \/ Build \/ Send
  \/ RHeader \/ RHangup \/ RBody \/ ROpen \/ RCopy \/ RWrite \/ Answer \/ HangUp
  \/ UNCHANGED vars

\* Every step is one of them.
LEMMA StepsAll == [Next]_vars => Steps
BY DEF Next, Kill, Main, Read, Send, Join, Receiver, Steps

\* What appending adds to a sequence.
LEMMA AppendFacts ==
  ASSUME NEW S, NEW q \in Seq(S), NEW e \in S
  PROVE  /\ Append(q, e) \in Seq(S) /\ Len(Append(q, e)) = Len(q) + 1
         /\ DOMAIN q = 1..Len(q) /\ Len(q) \in Nat
         /\ DOMAIN Append(q, e) = 1..Len(q) + 1
         /\ \A k \in DOMAIN Append(q, e) : \/ k \in DOMAIN q /\ Append(q, e)[k] = q[k]
                                           \/ k = Len(q) + 1 /\ Append(q, e)[k] = e
<1>1. /\ Append(q, e) \in Seq(S) /\ Len(Append(q, e)) = Len(q) + 1
      /\ \A k \in 1..Len(q) : Append(q, e)[k] = q[k]
      /\ Append(q, e)[Len(q) + 1] = e
  BY AppendProperties
<1>2. DOMAIN q = 1..Len(q) /\ Len(q) \in Nat
  BY LenProperties
<1>3. DOMAIN Append(q, e) = 1..Len(q) + 1
  BY <1>1, LenProperties
<1> QED
  BY <1>1, <1>2, <1>3

\* What taking the head leaves of a sequence.
LEMMA HeadFacts ==
  ASSUME NEW S, NEW q \in Seq(S), q # <<>>
  PROVE  /\ Head(q) \in S /\ Tail(q) \in Seq(S)
         /\ 1 \in DOMAIN q /\ Head(q) = q[1]
         /\ \A k \in DOMAIN Tail(q) : k + 1 \in DOMAIN q /\ Tail(q)[k] = q[k + 1]
<1>1. Len(q) \in Nat \ {0} /\ DOMAIN q = 1..Len(q)
  BY EmptySeq, LenProperties
<1>2. /\ Head(q) \in S /\ Tail(q) \in Seq(S) /\ Len(Tail(q)) = Len(q) - 1
      /\ \A k \in 1..Len(Tail(q)) : Tail(q)[k] = q[k + 1]
  BY <1>1, HeadTailProperties
<1>3. DOMAIN Tail(q) = 1..Len(Tail(q))
  BY <1>2, LenProperties
<1> QED
  BY <1>1, <1>2, <1>3

-----------------------------------------------------------------------------
(* Types.                                                                  *)

Sendings == [index : Int, token : Held]
Files == [full : Nat, rest : 0..1]
Receiving == {"off", "none", "header", "body", "open", "copy", "copying", "write", "end"}

\* A reply that is cut off is a reply, whatever has come of it.
LEMMA PartTypes ==
  ASSUME NEW r \in Replies
  PROVE  Parts(r) \subseteq Replies /\ NoReply \in Replies
<1>1. NoReply \in Replies
  BY DEF NoReply, Replies
<1>2. [r EXCEPT !.kind = "final"] \in Replies
  BY DEF Replies
<1> QED
  BY <1>1, <1>2 DEF Parts

\* What the process reads next is a reply.
LEMMA ReplyTypes ==
  ASSUME UploadTypes, Steps
  PROVE  reply' \in Replies /\ stream' \in Seq(Replies)
<1>0. reply \in Replies /\ stream \in Seq(Replies) /\ NoReply \in Replies /\ <<>> \in Seq(Replies)
  BY PartTypes, EmptySeq DEF UploadTypes
<1>1. CASE End
  BY <1>0, <1>1 DEF End
<1>2. CASE Start
  BY <1>0, <1>2 DEF Start, network
<1>3. CASE RHeader
  BY <1>0, <1>1, <1>3, HeadFacts DEF RHeader
<1>4. CASE RBody
  <2>1. reply' \in Parts(reply) \cup {reply} /\ stream' = stream
    BY <1>4 DEF RBody, network
  <2> QED
    BY <1>0, <2>1, PartTypes
<1>5. CASE Answer
  BY <1>0, <1>5, AppendFacts DEF Answer
<1>6. CASE get_token \/ Connect \/ Alloc \/ Read \/ Build \/ Send
  BY <1>0, <1>1, <1>6 DEF get_token, Connect, Alloc, Read, ReadPiece, ReadEnd, Build, Send, SendOpen, SendLost,
         SentPiece, network
<1>7. CASE RHangup \/ ROpen \/ RCopy \/ RWrite \/ HangUp \/ UNCHANGED vars
  BY <1>0, <1>7 DEF RHangup, ROpen, RCopy, RWrite, HangUp, vars, network
<1> QED
  BY <1>1, <1>2, <1>3, <1>4, <1>5, <1>6, <1>7 DEF Steps

\* The two program counters.
LEMMA CounterTypes ==
  ASSUME UploadTypes, Steps
  PROVE  /\ main' \in {"off", "token", "connect", "alloc", "read", "build", "send", "join"}
         /\ receiver' \in Receiving
<1>0. /\ main \in {"off", "token", "connect", "alloc", "read", "build", "send", "join"}
      /\ receiver \in Receiving
  BY DEF UploadTypes, Receiving
<1>1. CASE End
  BY <1>1 DEF End, Receiving
<1>2. CASE Start \/ get_token \/ Connect \/ Alloc \/ Build \/ Send
  BY <1>0, <1>1, <1>2 DEF Start, get_token, Connect, Alloc, Build, Send, SendOpen, SendLost,
         SentPiece, MTo,
         Receiving
<1>3. CASE Read
  BY <1>0, <1>3 DEF Read, ReadPiece, ReadEnd, MTo
<1>4. CASE RHeader
  BY <1>0, <1>1, <1>4 DEF RHeader, RTo, Receiving
<1>5. CASE RHangup \/ RBody \/ ROpen \/ RCopy \/ RWrite
  BY <1>0, <1>5 DEF RHangup, RBody, ROpen, RCopy, RWrite, RTo, Receiving
<1>6. CASE Answer \/ HangUp \/ UNCHANGED vars
  BY <1>0, <1>6 DEF Answer, HangUp, vars
<1> QED
  BY <1>1, <1>2, <1>3, <1>4, <1>5, <1>6 DEF Steps

\* What main has of the file, and has sent.
LEMMA InputTypes ==
  ASSUME UploadTypes, Steps
  PROVE  /\ given' \in Files /\ pieces' \in Nat /\ rest' \in 0..1 /\ index' \in Int
         /\ token' \in Held /\ sent' \in Seq(Sendings)
<1>0. /\ given \in Files /\ pieces \in Nat /\ rest \in 0..1 /\ index \in Int
      /\ token \in Held /\ g_token \in Held /\ sent \in Seq(Sendings)
      /\ NoToken \in Held /\ <<>> \in Seq(Sendings)
  BY EmptySeq DEF UploadTypes, Held, Sendings, Files
<1>1. CASE UNCHANGED <<input, sent>>
  BY <1>0, <1>1 DEF input
<1>2. CASE Start
  <2>1. given' \in Files /\ pieces' \in Nat /\ rest' \in 0..1
    <3>1. 0..MaxPieces \subseteq Nat
      BY UploadAssumption
    <3>2. given' \in [full : 0..MaxPieces, rest : 0..1]
      BY <1>2 DEF Start
    <3>3. given'.full \in 0..MaxPieces /\ given'.rest \in 0..1
      BY <3>2
    <3>4. given' \in Files
      BY <3>1, <3>2 DEF Files
    <3> QED
      BY <1>2, <3>1, <3>3, <3>4 DEF Start
  <2>2. index' = 0 /\ token' = NoToken /\ sent' = <<>>
    BY <1>2 DEF Start
  <2> QED
    BY <1>0, <2>1, <2>2
<1>3. CASE Read
  <2>1. Index \in Int
    BY <1>0 DEF Index
  <2>2. CASE ReadPiece
    BY <1>0, <2>1, <2>2 DEF ReadPiece
  <2>3. CASE ReadEnd
    BY <1>1, <2>3 DEF ReadEnd
  <2> QED
    BY <1>3, <2>2, <2>3 DEF Read
<1>4. CASE Build
  BY <1>0, <1>4 DEF Build
<1>5. CASE Send
  <2>1. [index |-> index, token |-> token] \in Sendings
    BY <1>0 DEF Sendings
  <2>2. CASE End
    BY <1>1, <2>2 DEF End
  <2>3. CASE sent' = Append(sent, [index |-> index, token |-> token]) /\ UNCHANGED input
    BY <1>0, <2>1, <2>3, AppendFacts DEF input
  <2> QED
    BY <1>5, <2>2, <2>3 DEF Send, SendOpen, SendLost,
         SentPiece
<1>6. CASE End \/ get_token \/ Connect \/ Alloc
  BY <1>1, <1>6 DEF End, get_token, Connect, Alloc
<1>7. CASE RHeader \/ RHangup \/ RBody \/ ROpen \/ RCopy \/ RWrite
  BY <1>1, <1>7 DEF End, RHeader, RHangup, RBody, ROpen, RCopy, RWrite
<1>8. CASE Answer \/ HangUp \/ UNCHANGED vars
  BY <1>1, <1>8 DEF Answer, HangUp, vars
<1> QED
  BY <1>2, <1>3, <1>4, <1>5, <1>6, <1>7, <1>8 DEF Steps

\* The token, in memory and in token.txt.
LEMMA TokenTypes ==
  ASSUME UploadTypes, ThreadsInv, Steps
  PROVE  g_token' \in Held /\ file' \in Tokens \cup {NoToken, "missing"}
<1>0. /\ g_token \in Held /\ file \in Tokens \cup {NoToken, "missing"}
      /\ reply \in Replies
  BY DEF UploadTypes
<1>1. CASE UNCHANGED <<g_token, file>>
  BY <1>0, <1>1
<1>2. CASE get_token
  BY <1>0, <1>2 DEF get_token, Remembered, Held
<1>3. CASE Start
  BY <1>0, <1>3 DEF Start, Held
<1>4. CASE ROpen
  BY <1>0, <1>4 DEF ROpen
<1>5. CASE RCopy
  <2>1. receiver \in Saving
    BY <1>5 DEF RCopy, RTo, Saving
  <2>2. reply.token \in Tokens
    BY <2>1 DEF ThreadsInv
  <2> QED
    BY <1>0, <1>5, <2>2 DEF RCopy, Held
<1>6. CASE RWrite
  <2>1. receiver = "write" /\ file' = g_token /\ g_token' = g_token
    BY <1>6 DEF RWrite, RTo
  <2>2. g_token \in Tokens
    BY <2>1 DEF ThreadsInv, Saving
  <2> QED
    BY <1>0, <2>1, <2>2
<1>7. CASE End \/ Connect \/ Alloc \/ Read \/ Build \/ Send
  BY <1>1, <1>7 DEF End, Connect, Alloc, Read, ReadPiece, ReadEnd, Build, Send, SendOpen, SendLost,
         SentPiece
<1>8. CASE RHeader \/ RHangup \/ RBody \/ Answer \/ HangUp \/ UNCHANGED vars
  BY <1>1, <1>8 DEF End, RHeader, RHangup, RBody, Answer, HangUp, vars
<1> QED
  BY <1>2, <1>3, <1>4, <1>5, <1>6, <1>7, <1>8 DEF Steps

\* The histories that are either so or not.
LEMMA FlagTypes ==
  ASSUME UploadTypes, Steps
  PROVE  early' \in BOOLEAN /\ excused' \in BOOLEAN
<1>0. early \in BOOLEAN /\ excused \in BOOLEAN
  BY DEF UploadTypes
<1>1. CASE UNCHANGED <<early, excused>>
  BY <1>0, <1>1
<1>2. CASE End
  BY <1>0, <1>2, Zenon DEF End
<1>3. CASE ROpen
  BY <1>0, <1>3, Zenon DEF ROpen
<1>4. CASE Answer
  BY <1>0, <1>4, Zenon DEF Answer
<1>5. CASE Start \/ RWrite
  BY <1>0, <1>5 DEF Start, RWrite
<1>6. CASE get_token \/ Connect \/ Alloc \/ Read \/ Build \/ Send
  BY <1>1, <1>2, <1>6 DEF get_token, Connect, Alloc, Read, ReadPiece, ReadEnd, Build, Send, SendOpen, SendLost,
         SentPiece
<1>7. CASE RHeader \/ RHangup \/ RBody \/ RCopy \/ HangUp \/ UNCHANGED vars
  BY <1>1, <1>2, <1>7 DEF RHeader, RHangup, RBody, RCopy, HangUp, vars
<1> QED
  BY <1>2, <1>3, <1>4, <1>5, <1>6, <1>7 DEF Steps

\* All types together.
LEMMA TypesStep ==
  ASSUME UploadTypes, ThreadsInv, Steps
  PROVE  UploadTypes'
<1>1. /\ Replies' = Replies /\ Held' = Held /\ Sendings = [index : Int, token : Held]
      /\ Files = [full : Nat, rest : 0..1]
      /\ Receiving = {"off", "none", "header", "body", "open", "copy", "copying", "write",
                      "end"}
  BY DEF Replies, Held, Sendings, Files, Receiving
<1> QED
  BY <1>1, ReplyTypes, CounterTypes, InputTypes, TokenTypes, FlagTypes DEF UploadTypes

-----------------------------------------------------------------------------
(* The threads.                                                            *)

\* The strings that stand for no token are none, and differ.
LEMMA TokenFacts ==
  /\ NoToken \notin Tokens /\ "0" \notin Tokens /\ "torn" \notin Tokens /\ "missing" \notin Tokens
  /\ NoToken # "torn" /\ NoToken # "missing"
<1>1. /\ NoToken \notin Tokens /\ "0" \notin Tokens
      /\ "torn" \notin Tokens /\ "missing" \notin Tokens
  BY UploadAssumption, Zenon
<1>2. NoToken # "torn" /\ NoToken # "missing"
  BY Zenon DEF NoToken
<1> QED
  BY <1>1, <1>2

\* The connection is there for main once it has tried to connect.
LEMMA ThreadsStep ==
  ASSUME UploadTypes, ThreadsInv, Steps
  PROVE  ThreadsInv'
<1>0. /\ receiver = "off" <=> main \in {"off", "token", "connect"}
      /\ main \in {"off", "token", "connect", "alloc"} =>
           asked = <<>> /\ stream = <<>> /\ receiver \in {"off", "none", "header", "end"}
      /\ receiver \in Saving \cup {"open"} => reply.kind = "final"
      /\ receiver \in Saving => reply.token \in Tokens
      /\ receiver = "write" => g_token = reply.token
      /\ g_token = "torn" => receiver = "copying" \/ main = "off"
      /\ Saving = {"copy", "copying", "write"}
      /\ main \in {"off", "token", "connect", "alloc", "read", "build", "send", "join"}
  BY DEF ThreadsInv, UploadTypes, Saving
<1>1. CASE End
  BY <1>0, <1>1 DEF End, ThreadsInv
<1>2. CASE Start
  BY <1>0, <1>2, TokenFacts DEF Start, MTo, network, ThreadsInv
<1>3. CASE get_token
  <2>1. g_token' # "torn" /\ main = "token" /\ main' = "connect" /\ receiver = "off"
    <3>1. Remembered # "torn"
      BY TokenFacts DEF Remembered, UploadTypes
    <3> QED
      BY <1>0, <1>3, <3>1 DEF get_token, MTo
  <2> QED
    BY <1>0, <1>3, <2>1 DEF get_token, MTo, network, ThreadsInv
<1>4. CASE Connect
  BY <1>0, <1>4 DEF Connect, ThreadsInv
<1>5. CASE Alloc
  BY <1>0, <1>1, <1>5 DEF Alloc, MTo, network, ThreadsInv
<1>6. CASE Read \/ Build
  BY <1>0, <1>6 DEF Read, ReadPiece, ReadEnd, Build, MTo, network, ThreadsInv
<1>7. CASE Send
  BY <1>0, <1>1, <1>7 DEF Send, SendOpen, SendLost,
         SentPiece, MTo, ThreadsInv
<1>8. CASE RHeader
  <2>1. CASE ~End
    <3>1. main' = main /\ receiver = "header" /\ receiver' \in {"header", "body"}
      BY <1>8, <2>1 DEF RHeader, RTo
    <3>2. stream # <<>> /\ asked' = asked /\ g_token' = g_token
      BY <1>8, <2>1 DEF RHeader
    <3> QED
      BY <1>0, <3>1, <3>2 DEF ThreadsInv
  <2> QED
    BY <1>1, <2>1
<1>9. CASE RHangup
  BY <1>0, <1>9 DEF RHangup, RTo, network, ThreadsInv
<1>10. CASE RBody
  BY <1>0, <1>10 DEF RBody, IsFinal, network, ThreadsInv
<1>11. CASE ROpen
  <2>1. reply \in Replies /\ reply.token \in Tokens \cup {NoToken}
    BY DEF UploadTypes, Replies
  <2> QED
    BY <1>0, <1>11, <2>1 DEF ROpen, RTo, network, ThreadsInv
<1>12. CASE RCopy
  BY <1>0, <1>12, TokenFacts DEF RCopy, RTo, network, ThreadsInv
<1>13. CASE RWrite
  BY <1>0, <1>13 DEF RWrite, RTo, network, ThreadsInv
<1>14. CASE Answer
  BY <1>0, <1>14 DEF Answer, ThreadsInv
<1>15. CASE HangUp
  BY <1>0, <1>15 DEF HangUp, ThreadsInv
<1>16. CASE UNCHANGED vars
  BY <1>0, <1>16 DEF vars, network, ThreadsInv
<1> QED
  BY <1>1, <1>2, <1>3, <1>4, <1>5, <1>6, <1>7, <1>8, <1>9, <1>10, <1>11, <1>12,
     <1>13, <1>14, <1>15, <1>16 DEF Steps

\* token.txt is empty only where something excuses it.
LEMMA KeptStep ==
  ASSUME UploadTypes, ThreadsInv, TokenKept, Steps
  PROVE  TokenKept'
<1>1. CASE End
  BY <1>1 DEF End, TokenKept
<1>2. CASE file' = file /\ excused' = excused /\ (receiver' = receiver \/ receiver \notin Saving)
  BY <1>2 DEF TokenKept
<1>3. CASE RWrite
  <2>1. file' = reply.token /\ reply.token \in Tokens
    BY <1>3 DEF RWrite, RTo, ThreadsInv, Saving
  <2> QED
    BY <2>1, TokenFacts DEF TokenKept
<1>4. CASE ROpen
  <2>1. receiver = "open" /\ reply.kind = "final"
    BY <1>4 DEF ROpen, RTo, ThreadsInv
  <2>2. CASE reply.token = NoToken /\ excused' = (excused \/ (reply.kind = "final" /\ reply.token = NoToken))
    BY <2>1, <2>2, Zenon DEF TokenKept
  <2>3. CASE reply.token # NoToken /\ receiver' = "copy"
    BY <2>3 DEF TokenKept, Saving
  <2> QED
    BY <1>2, <1>4, <2>1, <2>2, <2>3 DEF ROpen, RTo, Saving
<1>5. CASE RCopy
  BY <1>5 DEF RCopy, RTo, Saving, TokenKept
<1>6. CASE Start \/ get_token \/ Connect \/ Alloc \/ Read \/ Build \/ Send
  BY <1>1, <1>2, <1>6
     DEF Start, get_token, Connect, Alloc, Read, ReadPiece, ReadEnd, Build, Send, SendOpen, SendLost,
         SentPiece, MTo, ThreadsInv, Saving
<1>7. CASE RHeader \/ RHangup \/ RBody
  BY <1>1, <1>2, <1>7 DEF RHeader, RHangup, RBody, RTo, Saving
<1>8. CASE Answer \/ HangUp \/ UNCHANGED vars
  BY <1>2, <1>8 DEF Answer, HangUp, vars
<1> QED
  BY <1>1, <1>3, <1>4, <1>5, <1>6, <1>7, <1>8 DEF Steps

-----------------------------------------------------------------------------
(* The pieces.                                                             *)

\* What is left of the file and what has been sent make up the file, and the
\* pieces sent have the numbers of their places in it.
LEMMA PiecesStep ==
  ASSUME UploadTypes, PiecesInv, Steps
  PROVE  PiecesInv'
<1>0. /\ given.full \in Nat /\ given.rest \in 0..1
      /\ pieces \in Nat /\ rest \in 0..1 /\ index \in Int
      /\ sent \in Seq(Sendings) /\ Len(sent) \in Nat /\ DOMAIN sent = 1..Len(sent)
  BY LenProperties DEF UploadTypes, Sendings
<1>b. Len(sent) \in Nat
  BY <1>0
<1>a. Left \in Nat /\ Pieces \in Nat
  BY <1>0 DEF Left, Pieces
<1>1. CASE UNCHANGED <<input, sent>> /\ main' = main
  BY <1>1 DEF input, PiecesInv, MarkedWhenShort, Left, Pieces
<1>2. CASE UNCHANGED <<input, sent>> /\ main' = "off"
  BY <1>2 DEF input, PiecesInv, MarkedWhenShort, Left, Pieces
<1>3. CASE Start
  <2>1. /\ sent' = <<>> /\ index' = 0 /\ main' = "token" /\ Len(sent') = 0 /\ DOMAIN sent' = {}
        /\ pieces' = given'.full /\ rest' = given'.rest
    BY <1>3 DEF Start, MTo
  <2>2. given'.full \in Nat /\ given'.rest \in 0..1
    BY UploadAssumption, <1>3 DEF Start
  <2>3. Left' = Pieces' /\ Pieces' \in Nat
    BY <2>1, <2>2 DEF Left, Pieces
  <2>4. pieces' <= given'.full /\ rest' <= given'.rest
    BY <2>1, <2>2
  <2>5. MarkedWhenShort'
    BY <2>1, <2>3 DEF MarkedWhenShort
  <2> QED
    BY <2>1, <2>3, <2>4, <2>5 DEF PiecesInv
<1>4. CASE UNCHANGED <<input, sent>> /\ main \in {"token", "connect"}
           /\ main' \in {"connect", "alloc"}
  <2>1. Left = Pieces /\ (main' = "alloc" /\ pieces > 0 => rest = given.rest)
    <3>1. Left = Pieces /\ pieces <= given.full /\ rest <= given.rest
      BY <1>4 DEF PiecesInv
    <3> QED
      BY <1>0, <3>1 DEF Left, Pieces
  <2> QED
    BY <1>4, <2>1 DEF input, PiecesInv, MarkedWhenShort, Left, Pieces
<1>5. CASE Alloc /\ ~End
  <2>1. UNCHANGED <<input, sent>> /\ main = "alloc" /\ main' = "read"
    BY <1>5 DEF Alloc, MTo
  <2>2. index = 0 /\ sent = <<>> /\ Len(sent) = 0 /\ Left = Pieces
    BY <2>1 DEF PiecesInv
  <2>3. Len(sent) + Left = Pieces
    BY <1>a, <2>2
  <2> QED
    BY <2>1, <2>2, <2>3 DEF input, PiecesInv, MarkedWhenShort, Left, Pieces
<1>6. CASE Read
  <2>0. /\ main = "read" /\ sent' = sent /\ given' = given
        /\ Pieces' = Pieces /\ Left' = pieces' + rest'
    BY <1>6 DEF Read, ReadPiece, ReadEnd, MTo, input, Pieces, Left
  <2>1. /\ pieces <= given.full /\ rest <= given.rest
        /\ pieces > 0 => rest = given.rest
        /\ Len(sent) + Left = Pieces /\ (Left > 0 => index = Len(sent))
    BY <2>0 DEF PiecesInv
  <2>n. \A k \in DOMAIN sent : sent[k].index = IF k <= given.full THEN k ELSE -k
    BY DEF PiecesInv, MarkedWhenShort
  <2>2. ASSUME ReadPiece
        PROVE  /\ main' = "build" /\ pieces' <= given.full /\ rest' <= given.rest
               /\ pieces' > 0 => rest' = given.rest
               /\ Len(sent) + 1 + Left' = Pieces
               /\ index' = IF Len(sent) < given.full THEN Len(sent) + 1 ELSE -(Len(sent) + 1)
    <3>1. /\ main' = "build" /\ Left > 0 /\ index' = Index
          /\ pieces' = (IF pieces > 0 THEN pieces - 1 ELSE 0)
          /\ rest' = (IF pieces > 0 THEN rest ELSE 0)
      BY <2>2 DEF ReadPiece, MTo
    <3>2. CASE pieces > 0
      BY <1>0, <2>0, <2>1, <3>1, <3>2 DEF Left, Pieces, Index
    <3>3. CASE ~(pieces > 0)
      BY <1>0, <2>0, <2>1, <3>1, <3>3 DEF Left, Pieces, Index
    <3> QED
      BY <3>1, <3>2, <3>3
  <2>3. Len(sent) <= Pieces
    BY ONLY <1>b, <1>a, <2>1
  <2>4. CASE ReadPiece
    <3>1. MarkedWhenShort'
      BY <2>0, <2>n, <2>2, <2>3, <2>4 DEF MarkedWhenShort
    <3> QED
      BY <2>0, <2>2, <2>4, <3>1 DEF PiecesInv
  <2>5. CASE ReadEnd
    <3>1. main' = "join" /\ Left = 0 /\ UNCHANGED input
      BY <2>5 DEF ReadEnd, MTo
    <3>2. Len(sent) = Pieces
      BY ONLY <1>b, <1>a, <2>1, <3>1
    <3>3. MarkedWhenShort'
      BY <2>0, <2>n, <2>3, <3>1, <3>2 DEF MarkedWhenShort
    <3> QED
      BY <2>0, <2>1, <3>1, <3>3 DEF PiecesInv, input
  <2> QED
    BY <1>6, <2>4, <2>5 DEF Read
<1>7. CASE Build
  BY <1>7 DEF Build, MTo, PiecesInv, MarkedWhenShort, Left, Pieces
<1>8. CASE Send /\ ~End
  <2> DEFINE e == [index |-> index, token |-> token]
  <2>1. /\ main = "send" /\ main' = "read" /\ sent' = Append(sent, e)
        /\ UNCHANGED input
    BY <1>8 DEF Send, SendOpen, SendLost,
         SentPiece, MTo
  <2>2. /\ pieces <= given.full /\ rest <= given.rest
        /\ pieces > 0 => rest = given.rest
        /\ Len(sent) + 1 + Left = Pieces
        /\ index = IF Len(sent) < given.full THEN Len(sent) + 1 ELSE -(Len(sent) + 1)
        /\ \A k \in DOMAIN sent : sent[k].index = IF k <= given.full THEN k ELSE -k
    BY <2>1 DEF PiecesInv, MarkedWhenShort
  <2>3. e \in Sendings /\ e.index = index
    BY DEF Sendings, UploadTypes
  <2> HIDE DEF e
  <2>4. /\ Len(sent') = Len(sent) + 1 /\ DOMAIN sent' = 1..Len(sent) + 1
        /\ \A k \in DOMAIN sent' : \/ k \in DOMAIN sent /\ sent'[k] = sent[k]
                                   \/ k = Len(sent) + 1 /\ sent'[k] = e
    BY <1>0, <2>1, <2>3, AppendFacts
  <2>5. UNCHANGED <<given, pieces, rest, index, Left, Pieces>>
    BY <2>1 DEF input, Left, Pieces
  <2>6. \A k \in DOMAIN sent' : sent'[k].index = IF k <= given.full THEN k ELSE -k
    BY <1>0, <2>2, <2>3, <2>4
  <2>7. Left > 0 => index = Len(sent')
    <3>1. ASSUME Left > 0 PROVE Len(sent) < given.full
      BY <1>0, <2>2, <3>1 DEF Left, Pieces
    <3> QED
      BY <1>0, <2>2, <2>4, <3>1
  <2>8. Len(sent') + Left = Pieces /\ Len(sent') <= Pieces
    BY <1>0, <1>a, <2>2, <2>4
  <2> QED
    BY <2>1, <2>2, <2>5, <2>6, <2>7, <2>8 DEF PiecesInv, MarkedWhenShort
<1>9. CASE End
  BY <1>2, <1>9 DEF End
<1>10. CASE get_token \/ Connect
  BY <1>4, <1>10 DEF get_token, Connect, MTo
<1>11. CASE RHeader
  BY <1>1, <1>9, <1>11 DEF RHeader, RTo
<1>12. CASE RHangup \/ RBody \/ ROpen \/ RCopy \/ RWrite
  BY <1>1, <1>12 DEF RHangup, RBody, ROpen, RCopy, RWrite, RTo
<1>13. CASE Answer \/ HangUp \/ UNCHANGED vars
  BY <1>1, <1>13 DEF Answer, HangUp, vars
<1> QED
  BY <1>3, <1>5, <1>6, <1>7, <1>8, <1>9, <1>10, <1>11, <1>12, <1>13 DEF Steps

-----------------------------------------------------------------------------
(* The token in the requests.                                              *)

\* There is never more to build than there was; before the first request is
\* sent no reply is on its way.
LEMMA BuildLess ==
  ASSUME UploadTypes, ThreadsInv, Steps, MoreToBuild'
  PROVE  MoreToBuild \/ (stream' = <<>> /\ receiver' \in {"none", "header", "end"} /\ main' # "send")
<1>1. main' \in {"build", "read", "send"}
  BY DEF MoreToBuild
<1>2. CASE main' = main /\ UNCHANGED <<pieces, rest>>
  BY <1>2 DEF MoreToBuild, Left
<1>3. CASE Alloc
  <2>1. main = "alloc" /\ main' = "read" /\ UNCHANGED <<stream, receiver>>
    BY <1>1, <1>3 DEF Alloc, MTo, End, network
  <2>2. stream = <<>> /\ receiver \in {"none", "header", "end"}
    BY <2>1 DEF ThreadsInv
  <2> QED
    BY <2>1, <2>2
<1>4. CASE Read \/ Build \/ Send
  BY <1>1, <1>4 DEF Read, ReadPiece, ReadEnd, Build, Send, SendOpen, SendLost,
         SentPiece, MTo, End, MoreToBuild, Left, input
<1>5. CASE End \/ Start \/ get_token \/ Connect
  BY <1>1, <1>5 DEF End, Start, get_token, Connect, MTo
<1>6. CASE RHeader
  BY <1>1, <1>2, <1>6 DEF RHeader, RTo, End, input
<1>7. CASE RHangup \/ RBody \/ ROpen \/ RCopy \/ RWrite
  BY <1>2, <1>7 DEF RHangup, RBody, ROpen, RCopy, RWrite, RTo, input
<1>8. CASE Answer \/ HangUp \/ UNCHANGED vars
  BY <1>2, <1>8 DEF Answer, HangUp, vars, input
<1> QED
  BY <1>3, <1>4, <1>5, <1>6, <1>7, <1>8 DEF Steps

\* Within a run early stays.
LEMMA EarlyStays ==
  ASSUME UploadTypes, Steps, early
  PROVE  early' \/ Start
<1>1. CASE End
  BY <1>1 DEF End
<1>2. CASE get_token \/ Connect \/ Alloc \/ Read \/ Build \/ Send
  BY <1>1, <1>2 DEF get_token, Connect, Alloc, Read, ReadPiece, ReadEnd, Build, Send, SendOpen, SendLost,
         SentPiece
<1>3. CASE RHeader \/ RHangup \/ RBody \/ ROpen \/ RCopy \/ RWrite
  BY <1>1, <1>3 DEF RHeader, RHangup, RBody, ROpen, RCopy, RWrite
<1>4. CASE Answer \/ HangUp \/ UNCHANGED vars
  BY <1>4 DEF Answer, HangUp, vars
<1> QED
  BY <1>1, <1>2, <1>3, <1>4 DEF Steps

\* What ends the conversation at the receiver's was on its way before.
LEMMA EndingStep ==
  ASSUME UploadTypes, ThreadsInv, Steps, MoreToBuild, EarlyInv
  PROVE  \/ early'
         \/ /\ ~\E k \in DOMAIN stream' : Ending(stream'[k])
            /\ receiver' = "body" => ~Ending(reply')
            /\ receiver' \notin Saving \cup {"open"}
<1>0. /\ (\E k \in DOMAIN stream : Ending(stream[k])) => early
      /\ receiver = "body" /\ Ending(reply) => early
      /\ receiver \in Saving \cup {"open"} => early
      /\ stream \in Seq(Replies) /\ Saving = {"copy", "copying", "write"}
  BY DEF EarlyInv, UploadTypes, Saving
<1>1. SUFFICES ASSUME ~early'
               PROVE  /\ ~\E k \in DOMAIN stream' : Ending(stream'[k])
                      /\ receiver' = "body" => ~Ending(reply')
                      /\ receiver' \notin Saving \cup {"open"}
  OBVIOUS
<1>2. ~Start
  BY DEF MoreToBuild, Start, MTo
<1>3. ~early
  BY <1>1, <1>2, EarlyStays
<1>4. CASE UNCHANGED <<stream, reply>> /\ (receiver' = receiver \/ receiver' = "end")
  BY <1>0, <1>3, <1>4
<1>5. CASE End
  <2>1. DOMAIN stream' = {} /\ receiver' = "off"
    BY <1>5 DEF End
  <2> QED
    BY <1>0, <2>1
<1>6. CASE RHeader /\ ~End
  <2>1. /\ stream # <<>> /\ reply' = Head(stream) /\ stream' = Tail(stream)
        /\ receiver' \in {"header", "body"}
    BY <1>6 DEF RHeader, RTo
  <2>2. ~Ending(reply')
    BY <1>0, <1>3, <2>1, HeadFacts
  <2>3. ~\E k \in DOMAIN stream' : Ending(stream'[k])
    BY <1>0, <1>3, <2>1, HeadFacts
  <2> QED
    BY <1>0, <2>1, <2>2, <2>3
<1>7. CASE RBody
  <2>1. receiver = "body" /\ ~Ending(reply) /\ stream' = stream
    BY <1>0, <1>3, <1>7 DEF RBody, network
  <2>2. reply' = reply /\ receiver' = "header"
    BY <1>7, <2>1 DEF RBody, Ending, IsFinal
  <2> QED
    BY <1>0, <1>3, <2>1, <2>2
<1>8. CASE ROpen \/ RCopy \/ RWrite
  BY <1>0, <1>3, <1>8 DEF ROpen, RCopy, RWrite, RTo
<1>9. CASE Answer
  <2>1. PICK r \in Replies : /\ stream' = Append(stream, r)
                             /\ early' = (early \/ ((r.kind = "final" \/ r.cut) /\ MoreToBuild))
    BY <1>9 DEF Answer
  <2>2. ~Ending(r)
    BY <1>1, <2>1 DEF Ending
  <2>3. ~\E k \in DOMAIN stream' : Ending(stream'[k])
    BY <1>0, <1>3, <2>1, <2>2, AppendFacts
  <2> QED
    BY <1>0, <1>3, <1>9, <2>3 DEF Answer
<1>10. CASE get_token \/ Alloc \/ Read \/ Build \/ Send
  BY <1>4, <1>5, <1>10 DEF get_token, Alloc, Read, ReadPiece, ReadEnd, Build, Send, SendOpen, SendLost,
         SentPiece, MTo, network
<1>11. CASE Connect
  BY <1>11 DEF Connect, MoreToBuild
<1>12. CASE RHangup \/ HangUp \/ UNCHANGED vars
  BY <1>4, <1>12 DEF RHangup, HangUp, vars, RTo, network
<1> QED
  BY <1>2, <1>5, <1>6, <1>7, <1>8, <1>9, <1>10, <1>11, <1>12 DEF Steps

\* A request with a half-written token means that the service was early.
LEMMA EarlyStep ==
  ASSUME UploadTypes, ThreadsInv, EarlyInv, Steps
  PROVE  EarlyInv'
<1>0. sent \in Seq(Sendings) /\ token \in Held
  BY DEF UploadTypes, Sendings
<1>1. CASE Start
  <2>1. main' = "token" /\ sent' = <<>> /\ DOMAIN sent' = {}
    BY <1>1 DEF Start, MTo
  <2> QED
    BY <2>1 DEF EarlyInv, MoreToBuild, TokenWholeUnlessEarly
<1>2. ASSUME MoreToBuild'
      PROVE  /\ (\E k \in DOMAIN stream' : Ending(stream'[k])) => early'
             /\ receiver' = "body" /\ Ending(reply') => early'
             /\ receiver' \in Saving \cup {"open"} => early'
  <2>1. CASE MoreToBuild
    BY <2>1, EndingStep
  <2>2. CASE stream' = <<>> /\ receiver' \in {"none", "header", "end"}
    <3>1. DOMAIN stream' = {}
      BY <2>2
    <3> QED
      BY <2>2, <3>1 DEF Saving
  <2> QED
    BY <1>2, <2>1, <2>2, BuildLess
<1>3. ASSUME ~Start, main' = "send", token' = "torn" PROVE early'
  <2>1. CASE Build
    <3>1. g_token = "torn" /\ main = "build"
      BY <1>3, <2>1 DEF Build, MTo
    <3>2. receiver \in Saving
      BY <3>1 DEF ThreadsInv, Saving
    <3>3. early
      BY <3>1, <3>2 DEF EarlyInv, MoreToBuild
    <3> QED
      BY <2>1, <3>3 DEF Build
  <2>2. CASE main = "send" /\ token = "torn"
    BY <1>3, <2>2, EarlyStays DEF EarlyInv
  <2>3. CASE End \/ get_token \/ Connect \/ Alloc \/ Read \/ Send
    BY <1>3, <2>3 DEF End, get_token, Connect, Alloc, Read, ReadPiece, ReadEnd, Send, SendOpen, SendLost,
         SentPiece, MTo
  <2>4. CASE RHeader \/ RHangup \/ RBody \/ ROpen \/ RCopy \/ RWrite
    BY <1>3, <2>2, <2>3, <2>4 DEF RHeader, RHangup, RBody, ROpen, RCopy, RWrite, RTo, input
  <2>5. CASE Answer \/ HangUp \/ UNCHANGED vars
    BY <1>3, <2>2, <2>5 DEF Answer, HangUp, vars, input
  <2> QED
    BY <1>3, <2>1, <2>3, <2>4, <2>5 DEF Steps
<1>4. ASSUME ~Start PROVE TokenWholeUnlessEarly'
  <2>1. CASE sent' = sent
    BY <1>4, <2>1, EarlyStays DEF EarlyInv, TokenWholeUnlessEarly
  <2>2. CASE Send /\ ~End
    <3> DEFINE e == [index |-> index, token |-> token]
    <3>1. /\ main = "send" /\ sent' = Append(sent, e) /\ early' = early
      BY <2>2 DEF Send, SendOpen, SendLost,
         SentPiece, MTo
    <3>2. e \in Sendings /\ e.token = token
      BY DEF Sendings, UploadTypes
    <3> HIDE DEF e
    <3>3. \A k \in DOMAIN sent' : \/ k \in DOMAIN sent /\ sent'[k] = sent[k]
                                  \/ sent'[k] = e
      BY <1>0, <3>1, <3>2, AppendFacts
    <3> QED
      BY <3>1, <3>2, <3>3 DEF EarlyInv, TokenWholeUnlessEarly
  <2>3. CASE End \/ get_token \/ Connect \/ Alloc \/ Read \/ Build
    BY <2>1, <2>3 DEF End, get_token, Connect, Alloc, Read, ReadPiece, ReadEnd, Build
  <2>4. CASE RHeader \/ RHangup \/ RBody \/ ROpen \/ RCopy \/ RWrite
    BY <2>1, <2>3, <2>4 DEF RHeader, RHangup, RBody, ROpen, RCopy, RWrite
  <2>5. CASE Answer \/ HangUp \/ UNCHANGED vars
    BY <2>1, <2>5 DEF Answer, HangUp, vars
  <2> QED
    BY <1>4, <2>2, <2>3, <2>4, <2>5 DEF Steps
<1> QED
  BY <1>1, <1>2, <1>3, <1>4 DEF EarlyInv

-----------------------------------------------------------------------------
(* The theorems.                                                           *)

\* Before the first run nothing is there.
LEMMA UploadInit == Init => UploadInv
<1> SUFFICES ASSUME Init PROVE UploadInv
  OBVIOUS
<1>1. /\ <<>> \in Seq(Replies) /\ <<>> \in Seq(Sendings)
      /\ DOMAIN <<>> = {} /\ NoToken \in Held
  BY EmptySeq DEF Held
<1>2. NoReply \in Replies
  BY DEF NoReply, Replies
<1>3. UploadTypes
  <2>1. /\ main \in {"off", "token", "connect", "alloc", "read", "build", "send", "join"}
        /\ receiver \in Receiving
    BY DEF Init, Receiving
  <2>2. given \in Files /\ pieces \in Nat /\ rest \in 0..1 /\ index \in Int
    <3>1. given \in Files /\ pieces \in Nat /\ rest \in 0..1
      BY DEF Init, Files
    <3>2. index \in Int
      BY DEF Init
    <3> QED
      BY <3>1, <3>2
  <2>3. token \in Held /\ g_token \in Held /\ file \in Tokens \cup {NoToken, "missing"}
    BY <1>1 DEF Init
  <2>4. reply \in Replies /\ stream \in Seq(Replies)
    BY <1>1, <1>2 DEF Init
  <2>5. sent \in Seq(Sendings)
    BY <1>1 DEF Init
  <2>6. early \in BOOLEAN /\ excused \in BOOLEAN
    BY DEF Init
  <2> QED
    BY <2>1, <2>2, <2>3, <2>4, <2>5, <2>6 DEF UploadTypes, Sendings, Files, Receiving
<1>4. ThreadsInv
  BY TokenFacts DEF Init, ThreadsInv, Saving
<1>5. EarlyInv
  BY <1>1 DEF Init, EarlyInv, MoreToBuild, TokenWholeUnlessEarly
<1>6. PiecesInv
  BY <1>1 DEF Init, PiecesInv, MarkedWhenShort, Left, Pieces
<1>7. TokenKept
  BY TokenFacts DEF Init, TokenKept
<1> QED
  BY <1>3, <1>4, <1>5, <1>6, <1>7 DEF UploadInv

\* Every step keeps the invariant.
LEMMA UploadStep == UploadInv /\ [Next]_vars => UploadInv'
BY StepsAll, TypesStep, ThreadsStep, EarlyStep, PiecesStep, KeptStep DEF UploadInv

\* Where the threads stand, what they have sent and what is on its way.
THEOREM UploadInvariant == Spec => []UploadInv
BY UploadInit, UploadStep, PTL DEF Spec

\* A request contains a half-written token only if the service was early with a
\* final reply, or hung up within one (send_and_recv.c:200 and 629).
THEOREM TokenIsWhole == Spec => []TokenWholeUnlessEarly
<1>1. UploadInv => TokenWholeUnlessEarly
  BY DEF UploadInv, EarlyInv
<1> QED
  BY <1>1, UploadInvariant, PTL

\* token.txt, emptied before it is written (send_and_recv.c:184), is left empty
\* only by a final reply without a token or an end within save_token.
THEOREM TokenIsKept == Spec => []TokenKept
<1>1. UploadInv => TokenKept
  BY DEF UploadInv
<1> QED
  BY <1>1, UploadInvariant, PTL

\* The pieces are numbered as they lie in the file, the one that is shorter than
\* the buffer is marked and no other, and all are sent before main waits for the
\* receiver (send_and_recv.c:722-734).
THEOREM ShortIsMarked == Spec => []MarkedWhenShort
<1>1. UploadInv => MarkedWhenShort
  BY DEF UploadInv, PiecesInv
<1> QED
  BY <1>1, UploadInvariant, PTL
=============================================================================
