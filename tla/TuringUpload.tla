---------------------------- MODULE TuringUpload ----------------------------
(***************************************************************************)
(* The speech upload client of turing/send_and_recv.c: main sends a file   *)
(* piece by piece, the last piece marked by a negative index, while a      *)
(* second thread reads the replies from the same connection until one is   *)
(* final, and keeps the token it contains in g_token and in token.txt for  *)
(* the next run.  The process may be killed at any point and run again.    *)
(*                                                                         *)
(* A reply is read in two steps, header and body; that the service splits  *)
(* the stream differently does not show.  Tokens all have one length.  The *)
(* service reads and answers requests in turn, as it likes, may stop doing *)
(* either for ever, and may hang up, which closes both directions.         *)
(***************************************************************************)
EXTENDS Integers, Sequences

CONSTANTS
  Tokens,      (* the tokens the service gives out                          *)
  MaxPieces,   (* bound on the full pieces of a file                        *)
  MaxRuns      (* bound on the runs of the process                          *)

\* No token: the empty string.
NoToken == ""

ASSUME UploadAssumption ==
  /\ {NoToken, "0", "torn", "missing"} \cap Tokens = {}
  /\ MaxPieces \in Nat /\ MaxRuns \in Nat

(***************************************************************************)
(* Replies: not of status 200 or without contents ("refused"), without a   *)
(* Content-Length ("bare"), "wait" when 40000 occurs in it, else "final";  *)
(* with a token or without; cut off when the service hangs up within it.   *)
(***************************************************************************)
Replies == [kind : {"refused", "bare"}, token : {NoToken}, cut : BOOLEAN]
             \cup [kind : {"wait", "final"}, token : Tokens \cup {NoToken}, cut : BOOLEAN]

\* What may have come of the contents of a reply that is cut off.
NoReply == [kind |-> "final", token |-> NoToken, cut |-> TRUE]
Parts(r) == {r, NoReply, [r EXCEPT !.kind = "final"]}

VARIABLES
  main,      (* the statement main executes next, or "off"                  *)
  receiver,  (* the statement turing_recv_thread executes next, "off", or   *)
             (* "none": the thread could not be started                     *)
  given,     (* history: the file of this run, as pieces and rest were      *)
  pieces,    (* full pieces left in the file                                *)
  rest,      (* 1 if a last piece that is shorter is left in it, or 0       *)
  index,     (* the index of the last piece, negative for a short one       *)
  token,     (* the token in the request main is about to send              *)
  g_token,   (* the global token; "torn" while it is being written          *)
  file,      (* token.txt, "missing" at first                               *)
  reply,     (* the reply the receiver has read the header of               *)
  conn,      (* "none" (g_send_fd is -1), "open", or "closed" by the service*)
  asked,     (* the requests the service has not answered                   *)
  stream,    (* the replies the process has not read                        *)
  runs,      (* runs so far                                                 *)
  sent,      (* history: the requests of this run                           *)
  early,     (* history: in this run the service has sent a final reply, or *)
             (* part of one, before the last request was built              *)
  excused    (* history: since token.txt was last written a final reply had *)
             (* no token, or the process ended within save_token            *)

input == <<given, pieces, rest, index, token>>
network == <<conn, asked, stream>>
vars == <<main, receiver, input, g_token, file, reply, network, runs, sent, early,
          excused>>

Init ==
  /\ main = "off" /\ receiver = "off"
  /\ given = [full |-> 0, rest |-> 0]
  /\ pieces = 0 /\ rest = 0 /\ index = 0 /\ token = NoToken
  /\ g_token = NoToken /\ file = "missing" /\ reply = NoReply
  /\ conn = "none" /\ asked = <<>> /\ stream = <<>>
  /\ runs = 0 /\ sent = <<>> /\ early = FALSE /\ excused = FALSE

MTo(from, to) == main = from /\ main' = to /\ receiver' = receiver
RTo(from, to) == receiver = from /\ receiver' = to /\ main' = main

Saving == {"copy", "copying", "write"}

\* The process is gone, with both threads and the connection.
End ==
  /\ main' = "off" /\ receiver' = "off"
  /\ conn' = "none" /\ asked' = <<>> /\ stream' = <<>>
  /\ excused' = (excused \/ receiver \in Saving)
  /\ UNCHANGED <<input, g_token, file, reply, runs, sent, early>>

Kill == main # "off" /\ End

-----------------------------------------------------------------------------
(* Thread main.                                                            *)

Start ==
  /\ runs < MaxRuns
  /\ MTo("off", "token")
  /\ given' \in [full : 0..MaxPieces, rest : 0..1]
  /\ pieces' = given'.full /\ rest' = given'.rest /\ index' = 0 /\ token' = NoToken
  /\ g_token' = NoToken /\ reply' = NoReply
  /\ runs' = runs + 1 /\ sent' = <<>> /\ early' = FALSE
  /\ UNCHANGED <<file, network, excused>>

\* An empty token.txt leaves g_token empty.
Remembered == IF file = "missing" THEN "0" ELSE file

get_token ==
  /\ MTo("token", "connect")
  /\ g_token' = Remembered
  /\ UNCHANGED <<input, file, reply, network, runs, sent, early, excused>>

\* Neither whether there is a connection nor whether the receiver could be
\* started is asked.
Connect ==
  /\ main = "connect" /\ main' = "alloc" /\ receiver' \in {"header", "none"}
  /\ conn' \in {"none", "open"}
  /\ UNCHANGED <<input, g_token, file, reply, asked, stream, runs, sent, early, excused>>

Alloc ==
  \/ /\ MTo("alloc", "read")
     /\ UNCHANGED <<input, g_token, file, reply, network, runs, sent, early, excused>>
  \/ main = "alloc" /\ End

\* Mutant of Index: a piece that fills the buffer is marked too.
IndexAlways == -(index + 1)

\* The pieces left in the file, the short one included.
Left == pieces + rest

\* A short piece is marked; one that fills the buffer is not, last or not.
Index == IF pieces > 0 THEN index + 1 ELSE -(index + 1)

ReadPiece ==
  /\ Left > 0
  /\ MTo("read", "build")
  /\ index' = Index
  /\ pieces' = IF pieces > 0 THEN pieces - 1 ELSE 0
  /\ rest' = IF pieces > 0 THEN rest ELSE 0
  /\ UNCHANGED <<given, token, g_token, file, reply, network, runs, sent, early,
                 excused>>

ReadEnd ==
  /\ Left = 0
  /\ MTo("read", "join")
  /\ UNCHANGED <<input, g_token, file, reply, network, runs, sent, early, excused>>

\* The request takes what is in g_token, without a lock.
Build ==
  /\ MTo("build", "send")
  /\ token' = g_token
  /\ UNCHANGED <<given, pieces, rest, index, g_token, file, reply, network, runs,
                 sent, early, excused>>

\* send_data_to_turing is done with a piece.
SentPiece ==
  /\ MTo("send", "read")
  /\ sent' = Append(sent, [index |-> index, token |-> token])
  /\ UNCHANGED <<input, g_token, file, reply, conn, stream, runs, early, excused>>

\* On an open connection send blocks until the service has read enough of what
\* is before it: it may do so at once, later, or never.
SendOpen ==
  /\ conn = "open"
  /\ SentPiece
  /\ asked' = Append(asked, index < 0)

\* Without a connection send fails, which main does not ask; when the service
\* has hung up the request is lost, or SIGPIPE ends the process.
SendLost ==
  \/ conn # "open" /\ SentPiece /\ UNCHANGED asked
  \/ main = "send" /\ conn = "closed" /\ End

\* Joining a thread that was never started, by an id that was never set,
\* returns an error, which is not asked, or crashes.
Join == main = "join" /\ receiver \in {"end", "none"} /\ End

Main == get_token \/ Connect \/ Alloc \/ ReadPiece \/ ReadEnd \/ Build \/ SendLost \/ Join

-----------------------------------------------------------------------------
(* turing_recv_thread.                                                     *)

\* A reply without Content-Length has a null pointer searched.  After one that
\* was refused the next one is read; its contents go with the next header.
RHeader ==
  /\ stream # <<>>
  /\ \/ /\ Head(stream).kind # "bare"
        /\ RTo("header", IF Head(stream).kind = "refused" THEN "header" ELSE "body")
        /\ reply' = Head(stream) /\ stream' = Tail(stream)
        /\ UNCHANGED <<input, g_token, file, conn, asked, runs, sent, early, excused>>
     \/ receiver = "header" /\ Head(stream).kind = "bare" /\ End

\* Mutant of Hangup: the end of the stream does not end the thread.
HangupMissed == FALSE

Hangup == stream = <<>> /\ conn = "closed"

\* Without a connection the thread tries again for ever.
RHangup ==
  /\ Hangup
  /\ RTo("header", "end")
  /\ UNCHANGED <<input, g_token, file, reply, network, runs, sent, early, excused>>

\* Mutant of IsFinal: 40000 is not looked for.
IsFinalAlways(r) == TRUE

IsFinal(r) == r.kind = "final"

\* The contents cut off by a hang-up are dropped, but taken as they are when
\* the connection is reset: with the token or without.
RBody ==
  /\ receiver = "body" /\ main' = main
  /\ \/ /\ reply' \in IF reply.cut THEN Parts(reply) ELSE {reply}
        /\ receiver' = IF IsFinal(reply') THEN "open" ELSE "header"
     \/ reply.cut /\ receiver' = "end" /\ reply' = reply
  /\ UNCHANGED <<input, g_token, file, network, runs, sent, early, excused>>

\* save_token empties token.txt before it looks for a token.
ROpen ==
  /\ \/ /\ RTo("open", IF reply.token = NoToken THEN "end" ELSE "copy")
        /\ file' = NoToken
        /\ excused' = (excused \/ (reply.kind = "final" /\ reply.token = NoToken))
     \/ RTo("open", "end") /\ UNCHANGED <<file, excused>>
  /\ UNCHANGED <<input, g_token, reply, network, runs, sent, early>>

RCopy ==
  /\ \/ RTo("copy", "copying") /\ g_token' = "torn"
     \/ RTo("copying", "write") /\ g_token' = reply.token
  /\ UNCHANGED <<input, file, reply, network, runs, sent, early, excused>>

\* Mutant of RWrite: the token is not put into the file that was emptied.
RWriteNot ==
  /\ RTo("write", "end")
  /\ UNCHANGED <<input, g_token, file, reply, network, runs, sent, early, excused>>

RWrite ==
  /\ RTo("write", "end")
  /\ file' = g_token
  /\ excused' = FALSE
  /\ UNCHANGED <<input, g_token, reply, network, runs, sent, early>>

Receiver == RHeader \/ RHangup \/ RBody \/ ROpen \/ RCopy \/ RWrite

-----------------------------------------------------------------------------
(* The service.                                                            *)

MoreToBuild == main = "build" \/ (main \in {"read", "send"} /\ Left > 0)

Answer ==
  /\ conn = "open" /\ asked # <<>>
  /\ \E r \in Replies :
       /\ stream' = Append(stream, r)
       /\ conn' = IF r.cut THEN "closed" ELSE "open"
       /\ early' = (early \/ ((r.kind = "final" \/ r.cut) /\ MoreToBuild))
  /\ asked' = Tail(asked)
  /\ UNCHANGED <<main, receiver, input, g_token, file, reply, runs, sent, excused>>

HangUp ==
  /\ conn = "open" /\ conn' = "closed"
  /\ UNCHANGED <<main, receiver, input, g_token, file, reply, asked, stream, runs,
                 sent, early, excused>>

-----------------------------------------------------------------------------
Next == Start \/ Kill \/ Main \/ SendOpen \/ Receiver \/ Answer \/ HangUp

\* Both threads go on while they can.  SendOpen is not among what main can do
\* by itself, and the service owes nothing.
Spec == Init /\ [][Next]_vars /\ WF_vars(Main) /\ WF_vars(Receiver)

-----------------------------------------------------------------------------
(* Properties.                                                             *)

\* g_token is written by one thread and read by the other (send_and_recv.c:200
\* and 629): a request contains a half-written token only if the service sent
\* a final reply, or hung up in one, before it had the whole file.
TokenWholeUnlessEarly ==
  (\E k \in DOMAIN sent : sent[k].token = "torn") => early

\* token.txt is emptied before it is written (send_and_recv.c:184): the token of
\* an earlier run is lost only to a final reply without one, or when the
\* process ends within save_token; no reply that says wait empties it.
TokenKept == file = NoToken => excused \/ receiver \in Saving

\* The pieces are numbered as they lie in the file, without a gap; the one that
\* does not fill the buffer, if the file has one, is marked and no other, and
\* when main waits for the receiver every piece has been sent: a file that is
\* a multiple of the buffer is sent without a mark (send_and_recv.c:722-734).
Pieces == given.full + given.rest

MarkedWhenShort ==
  /\ \A k \in DOMAIN sent : sent[k].index = IF k <= given.full THEN k ELSE -k
  /\ Len(sent) <= Pieces
  /\ main = "join" => Len(sent) = Pieces

\* Once the service has hung up, or has sent a final reply and read all of the
\* file, both threads come to their end.  A final reply that comes before that
\* is not enough: main may wait in send for ever (send_and_recv.c:257).
Final ==
  \/ \E k \in DOMAIN stream : stream[k].kind = "final"
  \/ receiver = "body" /\ reply.kind = "final"
  \/ receiver \in {"open", "copy", "copying", "write", "end"}

AllSent == main \in {"read", "join"} /\ Left = 0

EndsWhenAnswered == (conn = "closed" \/ (Final /\ AllSent)) ~> main = "off"
-----------------------------------------------------------------------------
(* The inductive invariant.                                                *)

Held == Tokens \cup {NoToken, "0", "torn"}

UploadTypes ==
  /\ main \in {"off", "token", "connect", "alloc", "read", "build", "send", "join"}
  /\ receiver \in {"off", "none", "header", "body", "open", "copy", "copying", "write",
                     "end"}
  /\ given \in [full : Nat, rest : 0..1]
  /\ pieces \in Nat /\ rest \in 0..1 /\ index \in Int
  /\ token \in Held /\ g_token \in Held /\ file \in Tokens \cup {NoToken, "missing"}
  /\ reply \in Replies /\ stream \in Seq(Replies)
  /\ sent \in Seq([index : Int, token : Held])
  /\ early \in BOOLEAN /\ excused \in BOOLEAN

\* Where the threads stand, and what the receiver has in its hands there.
ThreadsInv ==
  /\ receiver = "off" <=> main \in {"off", "token", "connect"}
  /\ main \in {"off", "token", "connect", "alloc"} =>
       asked = <<>> /\ stream = <<>> /\ receiver \in {"off", "none", "header", "end"}
  /\ receiver \in Saving \cup {"open"} => reply.kind = "final"
  /\ receiver \in Saving => reply.token \in Tokens
  /\ receiver = "write" => g_token = reply.token
  /\ g_token = "torn" => receiver = "copying" \/ main = "off"

\* A reply that ends the conversation, on its way or at hand while there is
\* more to send, is early.
Ending(r) == r.kind = "final" \/ r.cut

EarlyInv ==
  /\ MoreToBuild =>
       /\ (\E k \in DOMAIN stream : Ending(stream[k])) => early
       /\ receiver = "body" /\ Ending(reply) => early
       /\ receiver \in Saving \cup {"open"} => early
  /\ main = "send" /\ token = "torn" => early
  /\ TokenWholeUnlessEarly

\* The index counts the pieces; what is left of the file is what was not sent.
PiecesInv ==
  /\ pieces <= given.full /\ rest <= given.rest
  /\ main \in {"token", "connect", "alloc"} =>
       index = 0 /\ sent = <<>> /\ Left = Pieces
  /\ main \in {"alloc", "read", "build", "send"} /\ pieces > 0 => rest = given.rest
  /\ main = "read" =>
       /\ Len(sent) + Left = Pieces
       /\ Left > 0 => index = Len(sent)
  /\ main \in {"build", "send"} =>
       /\ Len(sent) + 1 + Left = Pieces
       /\ index = IF Len(sent) < given.full THEN Len(sent) + 1 ELSE -(Len(sent) + 1)
  /\ MarkedWhenShort

UploadInv == UploadTypes /\ ThreadsInv /\ EarlyInv /\ PiecesInv /\ TokenKept
=============================================================================
