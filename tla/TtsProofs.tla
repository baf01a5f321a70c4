------------------------------ MODULE TtsProofs ------------------------------
(***************************************************************************)
(* The invariants of the speech synthesis client, for any file of texts    *)
(* and any number of descriptors.                                          *)
(***************************************************************************)
EXTENDS Tts, SequenceTheorems, FiniteSetTheorems, TLAPS

USE DEF At, Goto, Exit, Crash

-----------------------------------------------------------------------------
(* The constants, and what no step changes.                                *)

LEMMA LinesType ==
  /\ Len(Lines) \in Nat /\ Len(Lines) >= 1 /\ DOMAIN Lines = 1..Len(Lines)
  /\ Lines[1] # Other /\ 1 \in DOMAIN Lines
  /\ \A k \in DOMAIN Lines : Lines[k] # Other => Lines[k] \in Names /\ k \in TextsOf(Lines[k])
  /\ MaxFds \in Nat /\ MaxFds >= 3
  /\ "tts_files" \in Outputs /\ "start" \notin Outputs /\ Outputs \subseteq Dirs
<1>1. Len(Lines) \in Nat /\ DOMAIN Lines = 1..Len(Lines) /\ Lines # <<>>
  BY TtsAssumption, LenProperties
<1>2. Len(Lines) # 0
  BY <1>1, TtsAssumption, EmptySeq
<1> QED BY <1>1, <1>2, TtsAssumption DEF Names, TextsOf, Dirs

LEMMA OptionsKept ==
  ASSUME [Next]_vars
  PROVE  UNCHANGED options
BY DEF Next, OpenFile, prepare_work_dir, OpenFails, ReadLine, CloseFile, NextArgument,
       NoArgument, AskNothing, AskConnect, AskFails, AskSend, AskReceive, DownloadNothing,
       DownloadConnect, DownloadFails, DownloadCrash, Download, NoType, Killed, vars, disk

\* The types that depend on the suffix, and on nothing else that changes.
LEMMA ConstantSets ==
  ASSUME [Next]_vars
  PROVE  /\ Dirs' = Dirs /\ Names' = Names
         /\ \A k \in Nat, t \in Types : Header(Length(k), t)' = Header(Length(k), t)
         /\ Files' = Files
<1>1. suffix' = suffix
  BY OptionsKept DEF options
<1>2. Dirs' = Dirs /\ Names' = Names
  BY DEF Dirs, Names
<1>3. ASSUME NEW k, NEW t PROVE Header(Length(k), t)' = Header(Length(k), t)
  BY <1>1 DEF Header, Extension, Length, Rate, set_wav_header, HeaderLen
<1>4. Files' = Files
  BY <1>1 DEF Files, Header, Extension, Length, Rate, set_wav_header, HeaderLen
<1> QED BY <1>2, <1>3, <1>4

\* The step after a line, and a step that the process does not survive.
LEMMA AfterLineIs ==
  AfterLine => \/ mode \in {"file", "args"} /\ pc' = "read" /\ status' = status
               \/ mode \notin {"file", "args"} /\ pc' = "end" /\ status' = "exited"
BY DEF AfterLine

\* What fgets and feof do.
LEMMA ReadLineIs ==
  ASSUME TypeOK, PlaceInv, ReadLine
  PROVE  /\ mode = "file" /\ pc = "read" /\ next' = next + 1 /\ next <= Len(Lines) + 1
         /\ line' = IF next <= Len(Lines) THEN next ELSE 0
         /\ (eof' /\ next >= Len(Lines)) \/ (~eof' /\ next <= Len(Lines))
         /\ eof' \in BOOLEAN
         /\ (pc' = "ask" /\ IsItem(line')) \/ (pc' = "read" /\ ~IsItem(line'))
         /\ UNCHANGED <<status, disk, tts_url, fds, history>>
<1>0. next \in Nat /\ Len(Lines) \in Nat
  BY LinesType DEF TypeOK
<1>1. /\ next' = next + 1 /\ mode = "file" /\ pc = "read" /\ ~eof
      /\ line' = IF next <= Len(Lines) THEN next ELSE 0
      /\ UNCHANGED <<status, disk, tts_url, fds, history>>
  BY DEF ReadLine, Fgets
<1>2. next <= Len(Lines) + 1
  BY <1>1, Zenon DEF PlaceInv
<1>3. (eof' /\ next >= Len(Lines)) \/ (~eof' /\ next <= Len(Lines))
  <2>1. CASE AtEnd
    <3>1. eof'
      BY <2>1, Zenon DEF ReadLine
    <3>2. next >= Len(Lines)
      BY <1>0, <2>1 DEF AtEnd
    <3> QED BY <3>1, <3>2
  <2>2. CASE ~AtEnd
    <3>1. ~eof' \/ (next = Len(Lines) /\ eof')
      BY <2>2, Zenon DEF ReadLine
    <3>2. next <= Len(Lines)
      BY <1>0, <2>2 DEF AtEnd
    <3> QED BY <1>0, <3>1, <3>2
  <2> QED BY <2>1, <2>2
<1>4. eof' \in BOOLEAN
  <2>1. AtEnd \in BOOLEAN
    BY DEF AtEnd
  <2> QED BY <2>1, Zenon DEF ReadLine
<1>5. (pc' = "ask" /\ IsItem(line')) \/ (pc' = "read" /\ ~IsItem(line'))
  BY DEF ReadLine
<1> QED BY <1>1, <1>2, <1>3, <1>4, <1>5

-----------------------------------------------------------------------------
LEMMA PlaceStep ==
  ASSUME TypeOK, PlaceInv, UrlInv, Next
  PROVE  PlaceInv'
<1> USE LinesType DEF PlaceInv, OnLine, IsItem, disk, input, history, options
<1>0. next \in Nat /\ line \in Nat /\ line \in 0..Len(Lines)
  BY DEF TypeOK
<1>1. CASE OpenFile
  BY <1>0, <1>1 DEF OpenFile, prepare_work_dir, TypeOK
<1>2. CASE OpenFails
  BY <1>0, <1>2 DEF OpenFails
<1>3. CASE ReadLine
  BY <1>0, <1>3, ReadLineIs
<1>4. CASE CloseFile
  BY <1>0, <1>4 DEF CloseFile
<1>5. CASE NextArgument
  BY <1>0, <1>5 DEF NextArgument, TypeOK
<1>6. CASE NoArgument
  BY <1>0, <1>6 DEF NoArgument
<1>7. CASE AskNothing \/ AskConnect \/ AskFails \/ AskSend
  BY <1>0, <1>7 DEF AskNothing, AskConnect, AskFails, AskSend
<1>8. CASE AskReceive
  BY <1>0, <1>8 DEF AskReceive
<1>9. CASE DownloadNothing \/ DownloadFails
  BY <1>0, <1>9, AfterLineIs DEF DownloadNothing, DownloadFails, TypeOK
<1>10. CASE DownloadConnect
  <2>1. UNCHANGED <<status, mode, next, eof, line, asked, unheard, tts_url>> /\ pc' = "save"
        /\ pc = "download" /\ tts_url.mem # "null"
    BY <1>10 DEF DownloadConnect
  <2>2. mode # "none"
    BY <2>1 DEF UrlInv
  <2> QED BY <1>0, <2>1, <2>2
<1>11. CASE DownloadCrash \/ NoType \/ Killed
  BY <1>0, <1>11 DEF DownloadCrash, NoType, Killed
<1>12. CASE Download
  <2>1. AfterLine \/ Crash
    BY <1>12 DEF Download
  <2> QED BY <1>0, <1>12, <2>1, AfterLineIs DEF Download, TypeOK
<1> QED BY <1>1, <1>2, <1>3, <1>4, <1>5, <1>6, <1>7, <1>8, <1>9, <1>10, <1>11, <1>12 DEF Next

\* The line in hand is one of the file.
LEMMA LineType ==
  ASSUME TypeOK, PlaceInv, pc \in OnLine, mode # "none"
  PROVE  line \in DOMAIN Lines /\ Lines[line] # Other /\ Lines[line] \in Names
<1>1. line # 0 /\ Lines[line] # Other /\ line \in 0..Len(Lines)
  BY DEF PlaceInv, IsItem, TypeOK
<1> QED BY <1>1, LinesType

\* What Download writes, when it writes.
Content(r, t) ==
  [text |-> tts_url.text, bytes |-> Received(r), header |-> Header(Length(tts_url.text), t)]

LEMMA DownloadIs ==
  ASSUME TypeOK, PlaceInv, UrlInv, Download
  PROVE  /\ pc = "save" /\ mode # "none" /\ tts_url.mem # "null"
         /\ tts_url.text \in DOMAIN Lines /\ line \in DOMAIN Lines /\ Lines[line] \in Names
         /\ cwd \in Dirs
         /\ \/ files' = files
            \/ \E r \in Replies, t \in Types :
                 /\ mode = "args" \/ t = type
                 /\ Received(r) \in {"whole", "shifted"}
                 /\ files' = [files EXCEPT ![cwd][Lines[line]] = Content(r, t)]
         /\ UNCHANGED <<options, dirs, cwd, input, fds, asked, unheard>>
         /\ AfterLine \/ Crash
<1>1. pc = "save" /\ tts_url.mem # "null" /\ mode # "none" /\ tts_url.text \in DOMAIN Lines
  BY DEF Download, UrlInv
<1>2. line \in DOMAIN Lines /\ Lines[line] \in Names
  BY <1>1, LineType DEF OnLine
<1>3. cwd \in Dirs
  BY LinesType DEF TypeOK, Dirs
<1>4. PICK r \in Replies, opens \in BOOLEAN, t \in IF mode = "args" THEN Types ELSE {type} :
        /\ files' = IF Saved(r) /\ opens
                    THEN [files EXCEPT ![cwd][Lines[line]] = Content(r, t)]
                    ELSE files
        /\ AfterLine \/ Crash
  BY DEF Download, Content
<1>5. t \in Types /\ (mode = "args" \/ t = type)
  BY <1>4 DEF TypeOK
<1>6. UNCHANGED <<options, dirs, cwd, input, fds, asked, unheard>>
  BY DEF Download
<1> QED BY <1>1, <1>2, <1>3, <1>4, <1>5, <1>6 DEF Saved

LEMMA TypesStep ==
  ASSUME TypeOK, PlaceInv, FdInv, UrlInv, Next
  PROVE  TypeOK'
<1> USE LinesType DEF TypeOK
<1>0. /\ next \in Nat /\ line \in 0..Len(Lines) /\ fds \in 0..MaxFds
      /\ UNCHANGED <<mode, output, type, suffix>>
  BY OptionsKept DEF options
<1>1. CASE OpenFile
  <2>1. dirs' \subseteq Outputs /\ cwd' \in {"start", output} /\ fds' \in 0..2
    BY <1>1 DEF OpenFile, prepare_work_dir, PlaceInv
  <2>2. UNCHANGED <<next, eof, tts_url, asked, unheard, trouble, files, status>>
        /\ pc' \in {"read", "ask"} /\ line' \in {line, 0, 1}
    BY <1>1 DEF OpenFile, prepare_work_dir, history
  <2> QED BY ConstantSets, <1>0, <2>1, <2>2
<1>2. CASE OpenFails
  BY ConstantSets, <1>0, <1>2 DEF OpenFails, disk, input
<1>3. CASE ReadLine
  <2>1. next' \in 1..(Len(Lines) + 2) /\ line' \in 0..Len(Lines)
    BY <1>0, <1>3, ReadLineIs
  <2>2. UNCHANGED <<dirs, cwd, files, tts_url, fds, asked, unheard, trouble, status>>
        /\ pc' \in {"read", "ask"} /\ eof' \in BOOLEAN
    BY <1>3, ReadLineIs DEF disk, history
  <2> QED BY ConstantSets, <1>0, <2>1, <2>2
<1>4. CASE CloseFile
  BY ConstantSets, <1>0, <1>4 DEF CloseFile, disk, input, history, PlaceInv, FdInv
<1>5. CASE NextArgument
  BY ConstantSets, <1>0, <1>5 DEF NextArgument, disk, history
<1>6. CASE NoArgument
  BY ConstantSets, <1>0, <1>6 DEF NoArgument, disk, input, history
<1>7. CASE AskNothing \/ AskConnect
  BY ConstantSets, <1>0, <1>7 DEF AskNothing, AskConnect, disk, input, history
<1>8. CASE AskFails
  <2>1. line \in DOMAIN Lines
    BY <1>8, LineType DEF AskFails, OnLine, PlaceInv
  <2> QED BY ConstantSets, <1>0, <1>8, <2>1 DEF AskFails, disk, input
<1>9. CASE AskSend
  <2>1. line \in DOMAIN Lines
    BY <1>9, LineType DEF AskSend, OnLine, PlaceInv
  <2>2. asked' \in Seq(DOMAIN Lines)
    BY <1>9, <2>1, AppendProperties DEF AskSend
  <2> QED BY ConstantSets, <1>0, <1>9, <2>2 DEF AskSend, disk, input
<1>10. CASE AskReceive
  <2>1. line \in DOMAIN Lines /\ mode # "none"
    BY <1>10, LineType DEF AskReceive, OnLine, PlaceInv
  <2>2. fds' \in 0..MaxFds
    BY ConstantSets, <1>0, <1>10 DEF AskReceive, Closed, FdInv
  <2>3. tts_url' \in Urls
    <3>1. PICK a, m : tts_url' = Url(m, a)
      BY <1>10 DEF AskReceive
    <3>2. NoUrl \in Urls
      BY DEF NoUrl, Urls
    <3>3. [text |-> line, http |-> a = "http", mem |-> "live"] \in Urls
      BY <1>0 DEF Urls
    <3> QED BY <3>1, <3>2, <3>3 DEF Url
  <2>4. trouble' \in BOOLEAN
    BY <1>10, Zenon DEF AskReceive
  <2>5. status' \in {"run", "crashed"} /\ pc' \in {"download", "end"}
    BY <1>10 DEF AskReceive
  <2>6. UNCHANGED <<dirs, cwd, files, next, eof, line, asked, unheard>>
    BY <1>10 DEF AskReceive, disk, input
  <2> QED BY ConstantSets, <1>0, <2>2, <2>3, <2>4, <2>5, <2>6
<1>11. ASSUME UNCHANGED <<disk, input, asked, unheard>>,
              trouble' \in BOOLEAN, tts_url' \in {tts_url, NoUrl},
              fds' \in 0..MaxFds,
              \/ Crash \/ AfterLine \/ (status' = status /\ pc' = "save")
       PROVE  TypeOK'
  <2>1. NoUrl \in Urls
    BY DEF NoUrl, Urls
  <2>2. status' \in {"run", "crashed", "exited"} /\ pc' \in {"read", "save", "end"}
    BY <1>11, AfterLineIs
  <2>3. UNCHANGED <<dirs, cwd, files, next, eof, line, asked, unheard>>
    BY <1>11 DEF disk, input
  <2> QED BY ConstantSets, <1>0, <1>11, <2>1, <2>2, <2>3
<1>12. CASE DownloadNothing
  BY <1>11, <1>12 DEF DownloadNothing, history
<1>13. CASE DownloadConnect
  BY ConstantSets, <1>0, <1>11, <1>13 DEF DownloadConnect, history
<1>14. CASE DownloadFails
  BY <1>11, <1>14 DEF DownloadFails, Freed
<1>15. CASE DownloadCrash \/ NoType \/ Killed
  BY <1>11, <1>15 DEF DownloadCrash, NoType, Killed, history
<1>16. CASE Download
  <2>1. \/ files' = files
        \/ \E r \in Replies, t \in Types :
             /\ Received(r) \in {"whole", "shifted"}
             /\ files' = [files EXCEPT ![cwd][Lines[line]] = Content(r, t)]
    BY <1>16, DownloadIs
  <2>2. ASSUME NEW r \in Replies, NEW t \in Types, Received(r) \in {"whole", "shifted"}
        PROVE  Content(r, t) \in Files
    <3>1. tts_url.text \in 1..Len(Lines)
      BY <1>16, DownloadIs
    <3> QED BY <2>2, <3>1 DEF Content, Files
  <2>3. files' \in [Dirs -> [Names -> Files]]
    <3>1. ASSUME NEW c \in Files
          PROVE  [files EXCEPT ![cwd][Lines[line]] = c] \in [Dirs -> [Names -> Files]]
      <4>1. files \in [Dirs -> [Names -> Files]] /\ cwd \in Dirs /\ Lines[line] \in Names
        BY <1>16, DownloadIs
      <4> QED BY <4>1
    <3>2. CASE files' = files
      BY <3>2
    <3>3. ASSUME NEW r \in Replies, NEW t \in Types, Received(r) \in {"whole", "shifted"},
                 files' = [files EXCEPT ![cwd][Lines[line]] = Content(r, t)]
          PROVE  files' \in [Dirs -> [Names -> Files]]
      <4>1. Content(r, t) \in Files
        BY <2>2, <3>3
      <4> QED BY <3>1, <3>3, <4>1
    <3> QED BY <2>1, <3>2, <3>3
  <2>4. tts_url' \in Urls
    BY <1>16 DEF Download, Freed, Urls, NoUrl
  <2>5. trouble' \in BOOLEAN
    BY <1>16, Zenon DEF Download
  <2>6. UNCHANGED <<dirs, cwd, next, eof, line, fds, asked, unheard>>
    BY <1>16, DownloadIs DEF input
  <2>7. status' \in {"run", "crashed", "exited"} /\ pc' \in {"read", "end"}
    BY <1>16, DownloadIs, AfterLineIs
  <2> QED BY ConstantSets, <1>0, <2>3, <2>4, <2>5, <2>6, <2>7
<1> QED BY <1>1, <1>2, <1>3, <1>4, <1>5, <1>6, <1>7, <1>8, <1>9, <1>10, <1>12, <1>13, <1>14,
           <1>15, <1>16 DEF Next

-----------------------------------------------------------------------------
(* AskInv: a line is behind before the next one is taken up.               *)

\* A step that asks nothing and takes up no line.
LEMMA AskKept ==
  ASSUME TypeOK, AskInv, UNCHANGED <<mode, asked, unheard, next, line>>,
         pc' \in {"ask", "request"} => pc \in {"ask", "request"}
  PROVE  AskInv'
BY DEF AskInv, Behind, AskedInOrder

LEMMA AskStep ==
  ASSUME TypeOK, PlaceInv, UrlInv, AskInv, Next
  PROVE  AskInv'
<1> USE DEF disk, input, history, options
<1>0. /\ next \in Nat /\ line \in Nat /\ asked \in Seq(DOMAIN Lines)
      /\ unheard \subseteq DOMAIN Lines /\ \A k \in DOMAIN Lines : k \in Nat
      /\ mode' = mode
  BY LinesType, OptionsKept DEF TypeOK
<1>1. CASE OpenFile
  <2>1. asked = <<>> /\ unheard = {} /\ UNCHANGED <<asked, unheard>>
    BY <1>1 DEF OpenFile, PlaceInv
  <2>2. DOMAIN asked' = {} /\ unheard' = {}
    BY <2>1
  <2> QED BY <2>2 DEF AskInv, AskedInOrder
<1>2. ASSUME UNCHANGED <<asked, unheard>>, mode \in {"file", "args"}, next' = next + 1,
             pc' \in {"ask", "read"}, pc' = "ask" => line' = next
      PROVE  AskInv'
  <2>1. ASSUME NEW k \in DOMAIN Lines, Behind(k) PROVE Behind(k)'
    BY <1>0, <1>2, <2>1 DEF Behind
  <2>2. ASSUME NEW i \in DOMAIN asked PROVE asked[i] \in DOMAIN Lines
    BY <1>0, <2>2
  <2> QED BY <1>0, <1>2, <2>1, <2>2 DEF AskInv, AskedInOrder
<1>3. CASE ReadLine
  <2>1. pc' = "ask" => line' = next
    BY <1>3, ReadLineIs DEF IsItem
  <2>2. UNCHANGED <<asked, unheard>> /\ mode = "file" /\ next' = next + 1
        /\ pc' \in {"ask", "read"}
    BY <1>3, ReadLineIs
  <2> QED BY <1>2, <2>1, <2>2
<1>4. CASE NextArgument
  BY <1>2, <1>4 DEF NextArgument
<1>5. CASE AskFails
  <2>1. line \in DOMAIN Lines /\ pc \in {"ask", "request"} /\ pc' = "download"
    BY <1>5, LineType DEF AskFails, OnLine, PlaceInv
  <2>2. mode \in {"file", "args"} => line < next
    BY <1>0, <2>1 DEF PlaceInv, OnLine
  <2>3. UNCHANGED <<asked, next, line>> /\ unheard' = unheard \cup {line}
    BY <1>5 DEF AskFails
  <2>4. ASSUME NEW k, Behind(k) PROVE Behind(k)'
    BY <1>0, <2>1, <2>3, <2>4 DEF Behind
  <2>5. Behind(line)'
    BY <1>0, <2>1, <2>2, <2>3 DEF Behind
  <2> QED BY <2>3, <2>4, <2>5 DEF AskInv, AskedInOrder
<1>6. CASE AskSend
  <2>1. line \in DOMAIN Lines /\ pc = "request" /\ pc' = "answer"
    BY <1>6, LineType DEF AskSend, OnLine, PlaceInv
  <2>2. mode \in {"file", "args"} => line < next
    BY <1>0, <2>1 DEF PlaceInv, OnLine
  <2>3. UNCHANGED <<unheard, next, line>> /\ asked' = Append(asked, line)
    BY <1>6 DEF AskSend
  <2>4. /\ Len(asked) \in Nat /\ DOMAIN asked = 1..Len(asked)
        /\ DOMAIN asked' = 1..(Len(asked) + 1)
        /\ \A i \in 1..Len(asked) : asked'[i] = asked[i]
        /\ asked'[Len(asked) + 1] = line
    BY <1>0, <2>1, <2>3, AppendProperties, LenProperties
  <2>5. ASSUME NEW k, Behind(k) PROVE Behind(k)'
    BY <1>0, <2>1, <2>3, <2>5 DEF Behind
  <2>6. Behind(line)'
    BY <1>0, <2>1, <2>2, <2>3 DEF Behind
  <2>7. \A i \in DOMAIN asked' : Behind(asked[i])'
    BY <1>0, <2>1, <2>2, <2>3, <2>4 DEF AskInv, Behind
  <2>8. \A i \in DOMAIN asked : asked[i] < line
    BY <2>1 DEF AskInv, Behind
  <2>9. AskedInOrder'
    BY <2>4, <2>8 DEF AskInv, AskedInOrder
  <2> QED BY <2>3, <2>5, <2>7, <2>9 DEF AskInv
<1>7. CASE OpenFails \/ CloseFile \/ NoArgument \/ AskNothing \/ AskConnect \/ AskReceive
  BY <1>0, <1>7, AskKept DEF OpenFails, CloseFile, NoArgument, AskNothing, AskConnect, AskReceive
<1>8. CASE DownloadNothing \/ DownloadConnect \/ DownloadFails \/ DownloadCrash
  BY <1>0, <1>8, AskKept, AfterLineIs
     DEF DownloadNothing, DownloadConnect, DownloadFails, DownloadCrash
<1>9. CASE NoType \/ Killed
  BY <1>0, <1>9, AskKept DEF NoType, Killed
<1>10. CASE Download
  BY <1>0, <1>10, AskKept, DownloadIs, AfterLineIs
<1> QED BY <1>1, <1>3, <1>4, <1>5, <1>6, <1>7, <1>8, <1>9, <1>10 DEF Next

-----------------------------------------------------------------------------
(* FdInv: each descriptor left open has a line of its own, or a request    *)
(* that failed.                                                            *)

LEMMA FdStep ==
  ASSUME TypeOK, PlaceInv, UrlInv, AskInv, FdInv, Next
  PROVE  FdInv'
<1> USE DEF disk, input, history, options
<1>0. next \in Nat /\ fds \in Nat /\ line \in Nat /\ mode' = mode
  BY LinesType, OptionsKept DEF TypeOK
<1>1. IsFiniteSet(unheard) /\ Cardinality(unheard) \in Nat
  <2>1. unheard \subseteq 1..Len(Lines)
    BY LinesType DEF TypeOK
  <2>2. IsFiniteSet(1..Len(Lines))
    BY LinesType, FS_Interval
  <2> QED BY <2>1, <2>2, FS_Subset, FS_CardinalityType
<1>2. ASSUME UNCHANGED <<unheard, next, fds>>,
             pc' = pc \/ pc' = "end" \/ <<pc, pc'>> \in
               {<<"ask", "download">>, <<"request", "answer">>, <<"download", "read">>,
                <<"save", "read">>},
             pc # "open"
      PROVE  FdInv'
  BY <1>0, <1>1, <1>2 DEF FdInv, LeakBounded
<1>3. CASE OpenFile
  <2>1. pc = "open" /\ fds = 0 /\ unheard = {} /\ next = 1 /\ Cardinality(unheard) = 0
    BY <1>3, FS_EmptySet DEF OpenFile, PlaceInv
  <2>2. UNCHANGED <<unheard, next>> /\
        \/ mode = "file" /\ pc' = "read" /\ fds' \in {1, 2}
        \/ mode \in {"text", "none"} /\ pc' = "ask" /\ fds' \in {0, 1}
    BY <1>3, <2>1 DEF OpenFile, prepare_work_dir
  <2> QED BY <1>0, <2>1, <2>2 DEF FdInv, LeakBounded
<1>4. CASE OpenFails
  BY <1>0, <1>1, <1>4 DEF OpenFails, FdInv, LeakBounded
<1>5. CASE ReadLine
  <2>1. UNCHANGED <<unheard, fds>> /\ mode = "file" /\ next' = next + 1 /\ pc = "read"
        /\ pc' \in {"ask", "read"}
    BY <1>5, ReadLineIs
  <2> QED BY <1>0, <1>1, <2>1 DEF FdInv, LeakBounded
<1>6. CASE NextArgument
  <2>1. UNCHANGED <<unheard, fds>> /\ mode = "args" /\ next' = next + 1
        /\ pc \in {"open", "read"} /\ pc' \in {"ask", "read"}
    BY <1>6 DEF NextArgument
  <2> QED BY <1>0, <1>1, <2>1 DEF FdInv, LeakBounded
<1>7. CASE CloseFile
  <2>1. UNCHANGED <<unheard, next>> /\ pc' = "end" /\ fds' = fds - 1
    BY <1>7 DEF CloseFile
  <2> QED BY <1>0, <1>1, <2>1 DEF FdInv, LeakBounded
<1>8. CASE NoArgument \/ AskNothing \/ AskSend \/ DownloadCrash \/ NoType \/ Killed
  BY <1>2, <1>8 DEF NoArgument, AskNothing, AskSend, DownloadCrash, NoType, Killed
<1>9. CASE AskConnect
  <2>1. UNCHANGED <<unheard, next>> /\ pc = "ask" /\ pc' = "request" /\ fds' = fds + 1
    BY <1>9 DEF AskConnect
  <2> QED BY <1>0, <1>1, <2>1 DEF FdInv, LeakBounded
<1>10. CASE AskFails
  <2>1. UNCHANGED <<next, fds>> /\ pc \in {"ask", "request"} /\ pc' = "download"
        /\ unheard' = unheard \cup {line}
    BY <1>10 DEF AskFails
  <2>2. line \notin unheard
    BY <1>0, <2>1 DEF AskInv, Behind
  <2>3. Cardinality(unheard') = Cardinality(unheard) + 1
    BY <1>1, <2>1, <2>2, FS_AddElement
  <2> QED BY <1>0, <1>1, <2>1, <2>3 DEF FdInv, LeakBounded
<1>11. CASE AskReceive
  <2>1. UNCHANGED <<unheard, next>> /\ pc = "answer" /\ pc' \in {"end", "download"}
        /\ fds' = fds - 1
    BY <1>11 DEF AskReceive, Closed
  <2>2. mode = "file" => fds >= 2
    BY <2>1 DEF FdInv
  <2> QED BY <1>0, <1>1, <2>1, <2>2 DEF FdInv, LeakBounded
<1>12. CASE DownloadNothing \/ DownloadFails
  BY <1>2, <1>12, AfterLineIs DEF DownloadNothing, DownloadFails
<1>13. CASE DownloadConnect
  <2>1. UNCHANGED <<unheard, next>> /\ pc = "download" /\ pc' = "save" /\ fds' = fds + 1
    BY <1>13 DEF DownloadConnect
  <2> QED BY <1>0, <1>1, <2>1 DEF FdInv, LeakBounded
<1>14. CASE Download
  BY <1>2, <1>14, DownloadIs, AfterLineIs
<1> QED BY <1>3, <1>4, <1>5, <1>6, <1>7, <1>8, <1>9, <1>10, <1>11, <1>12, <1>13, <1>14 DEF Next

-----------------------------------------------------------------------------
(* UrlInv: an answer replaces the URL, a line without one keeps the last.  *)

LEMMA UrlStep ==
  ASSUME TypeOK, PlaceInv, UrlInv, Next
  PROVE  UrlInv'
<1> USE DEF disk, input, history, options, UrlInv
<1>0. mode' = mode /\ NoUrl.mem = "null"
  BY OptionsKept DEF NoUrl
<1>1. CASE OpenFile
  BY <1>0, <1>1 DEF OpenFile, PlaceInv, NoUrl
<1>2. CASE ReadLine
  BY <1>0, <1>2, ReadLineIs
<1>3. CASE NextArgument
  BY <1>0, <1>3 DEF NextArgument, PlaceInv, NoUrl
<1>4. CASE OpenFails \/ CloseFile \/ NoArgument \/ NoType \/ Killed \/ DownloadCrash
  BY <1>0, <1>4 DEF OpenFails, CloseFile, NoArgument, NoType, Killed, DownloadCrash, PlaceInv
<1>5. CASE AskNothing \/ AskConnect \/ AskSend
  BY <1>0, <1>5 DEF AskNothing, AskConnect, AskSend, PlaceInv, OnLine
<1>6. CASE AskFails
  <2>1. UNCHANGED <<tts_url, line>> /\ pc' = "download" /\ pc \in {"ask", "request"}
        /\ unheard' = unheard \cup {line}
    BY <1>6 DEF AskFails
  <2> QED BY <1>0, <2>1
<1>7. CASE AskReceive
  <2>1. line \in DOMAIN Lines /\ mode # "none"
    BY <1>7, LineType DEF AskReceive, OnLine, PlaceInv
  <2>2. tts_url'.mem = "null" \/ tts_url'.text = line
    BY <1>0, <1>7 DEF AskReceive, Url
  <2>3. UNCHANGED <<line, unheard>> /\ pc' \in {"end", "download"}
    BY <1>7 DEF AskReceive
  <2> QED BY <1>0, <2>1, <2>2, <2>3
<1>8. CASE DownloadNothing
  BY <1>0, <1>8, AfterLineIs DEF DownloadNothing
<1>9. CASE DownloadConnect
  BY <1>0, <1>9 DEF DownloadConnect
<1>10. CASE DownloadFails
  BY <1>0, <1>10, AfterLineIs DEF DownloadFails, Freed
<1>11. CASE Download
  <2>1. tts_url'.mem \in {"null", "freed"} /\ (mode = "args" => tts_url'.mem = "null")
        /\ (tts_url'.mem # "null" => tts_url'.text = tts_url.text)
    BY <1>0, <1>11 DEF Download, Freed, TypeOK, Urls
  <2> QED BY <1>0, <1>11, <2>1, DownloadIs, AfterLineIs
<1> QED BY <1>1, <1>2, <1>3, <1>4, <1>5, <1>6, <1>7, <1>8, <1>9, <1>10, <1>11 DEF Next

-----------------------------------------------------------------------------
(* FileInv: only Download writes, and what it writes is whole.             *)

LEMMA FileStep ==
  ASSUME TypeOK, PlaceInv, UrlInv, FileInv, Next
  PROVE  FileInv'
<1> USE DEF disk, input, history, options
<1> DEFINE Fine(n, f) ==
      \/ f = NoFile
      \/ /\ f.text \in DOMAIN Lines /\ f.bytes \in {"whole", "shifted"}
         /\ \E t \in Types : (mode = "args" \/ t = type) /\ f.header = Header(Length(f.text), t)
         /\ f.text \in TextsOf(n) \/ (mode # "args" /\ TextsOf(n) \cap unheard' # {})
<1>0. /\ mode' = mode /\ type' = type /\ suffix' = suffix /\ Dirs' = Dirs /\ Names' = Names
  BY OptionsKept, ConstantSets
<1>1. unheard \subseteq unheard'
  BY ReadLineIs, DownloadIs
     DEF Next, OpenFile, OpenFails, ReadLine, CloseFile, NextArgument,
         NoArgument, AskNothing, AskConnect, AskFails, AskSend, AskReceive, DownloadNothing,
         DownloadConnect, DownloadFails, DownloadCrash, Download, NoType, Killed
<1>2. ASSUME NEW d \in Dirs, NEW n \in Names PROVE Fine(n, files[d][n])
  BY <1>1 DEF FileInv, FileOK
<1>3. ASSUME \A d \in Dirs, n \in Names : Fine(n, files'[d][n]) PROVE FileInv'
  <2> SUFFICES ASSUME NEW d \in Dirs, NEW n \in Names PROVE FileOK(n, files[d][n])'
    BY <1>0 DEF FileInv
  <2>1. Fine(n, files'[d][n])
    BY <1>3
  <2>2. TextsOf(n)' = TextsOf(n)
    BY DEF TextsOf
  <2>3. ASSUME NEW t, files'[d][n].header = Header(Length(files'[d][n].text), t)
        PROVE  files'[d][n].header = Header(Length(files[d][n].text), t)'
    BY <1>0, <2>3 DEF Header, Extension
  <2> QED BY <1>0, <2>1, <2>2, <2>3 DEF FileOK, NoFile
<1>4. CASE files' = files
  BY <1>2, <1>3, <1>4
<1>5. CASE Download /\ files' # files
  <2>1. /\ cwd \in Dirs /\ line \in DOMAIN Lines /\ Lines[line] \in Names
        /\ tts_url.text \in DOMAIN Lines /\ tts_url.mem # "null" /\ pc = "save"
    BY <1>5, DownloadIs
  <2>2. PICK r \in Replies, t \in Types :
          /\ mode = "args" \/ t = type
          /\ Received(r) \in {"whole", "shifted"}
          /\ files' = [files EXCEPT ![cwd][Lines[line]] = Content(r, t)]
    BY <1>5, DownloadIs
  <2>3. Fine(Lines[line], Content(r, t))
    <3>1. line \in TextsOf(Lines[line])
      BY <2>1 DEF TextsOf
    <3>2. tts_url.text = line \/ (mode # "args" /\ line \in unheard)
      BY <2>1 DEF UrlInv
    <3>3. /\ Content(r, t).text = tts_url.text /\ Content(r, t).bytes = Received(r)
          /\ Content(r, t).header = Header(Length(tts_url.text), t)
      BY DEF Content
    <3> QED BY <1>1, <2>1, <2>2, <3>1, <3>2, <3>3
  <2>4. ASSUME NEW d \in Dirs, NEW n \in Names PROVE Fine(n, files'[d][n])
    <3>1. files'[d][n] = files[d][n] \/ (n = Lines[line] /\ files'[d][n] = Content(r, t))
      <4>1. ASSUME NEW c, files' = [files EXCEPT ![cwd][Lines[line]] = c]
            PROVE  files'[d][n] = files[d][n] \/ (n = Lines[line] /\ files'[d][n] = c)
        BY <2>1, <4>1 DEF TypeOK
      <4> QED BY <2>2, <4>1
    <3> HIDE DEF Fine
    <3> QED BY <1>2, <2>3, <3>1
  <2> QED BY <1>3, <2>4
<1>6. CASE ~Download
  BY <1>4, <1>6, ReadLineIs
     DEF Next, OpenFile, prepare_work_dir, OpenFails, ReadLine, CloseFile, NextArgument,
         NoArgument, AskNothing, AskConnect, AskFails, AskSend, AskReceive, DownloadNothing,
         DownloadConnect, DownloadFails, DownloadCrash, NoType, Killed
<1> QED BY <1>4, <1>5, <1>6

-----------------------------------------------------------------------------
(* DoneInv: while every call succeeds, the file of a line is right when    *)
(* the next one is taken up.                                               *)

\* A reply as wanted is received whole.
LEMMA WantedIsWhole ==
  ASSUME NEW r \in Replies, Wanted(r)
  PROVE  /\ Received(r) = "whole"
         /\ ~Saved(r) => FALSE
         /\ \A a \in Answers : "crash" \notin ParseJson(r, a)
<1>1. r.status = "200" /\ r.head = "short" /\ r.length = "some" /\ r.arrived = "whole"
  BY DEF Wanted
<1>2. Received(r) = "whole"
  BY <1>1 DEF Received
<1> QED BY <1>2 DEF ParseJson, Saved

LEMMA DoneStep ==
  ASSUME TypeOK, PlaceInv, UrlInv, DoneInv, Next
  PROVE  DoneInv'
<1> USE DEF disk, input, history, options, Kept
<1>0. /\ mode' = mode /\ next \in Nat /\ line \in Nat /\ trouble \in BOOLEAN
      /\ \A k \in DOMAIN Lines : k \in 1..Len(Lines)
      /\ \A n : TextsOf(n)' = TextsOf(n)
  BY OptionsKept, LinesType DEF TypeOK, TextsOf
<1> SUFFICES ASSUME ~trouble', mode \in {"file", "text"}
             PROVE  DoneInv'
  BY <1>0 DEF DoneInv
<1>1. ~trouble
  BY ReadLineIs
     DEF Next, OpenFile, OpenFails, ReadLine, CloseFile, NextArgument,
         NoArgument, AskNothing, AskConnect, AskFails, AskSend, AskReceive, DownloadNothing,
         DownloadConnect, DownloadFails, DownloadCrash, Download, NoType, Killed
<1>2. CASE OpenFile
  <2>1. UNCHANGED <<next, status>> /\ next = 1 /\ pc = "open" /\ status = "run"
        /\ \/ mode = "file" /\ pc' = "read"
           \/ mode = "text" /\ pc' = "ask" /\ line' = 1
    BY <1>0, <1>2 DEF OpenFile, PlaceInv
  <2> QED BY <1>0, <2>1 DEF DoneInv, OnLine
<1>3. CASE ReadLine
  <2>1. /\ mode = "file" /\ pc = "read" /\ next' = next + 1
        /\ line' = IF next <= Len(Lines) THEN next ELSE 0
        /\ (pc' = "ask" /\ IsItem(line')) \/ (pc' = "read" /\ ~IsItem(line'))
        /\ UNCHANGED <<status, files, cwd>>
    BY <1>3, ReadLineIs
  <2>2. \A k \in DOMAIN Lines : k < next => Kept(k)'
    BY <1>0, <1>1, <2>1 DEF DoneInv
  <2>3. CASE pc' = "ask"
    BY <1>0, <1>1, <2>1, <2>2, <2>3 DEF DoneInv, OnLine, IsItem
  <2>4. CASE pc' = "read"
    <3>1. ASSUME NEW k \in DOMAIN Lines, k < next' PROVE Kept(k)'
      <4>1. k < next \/ (k = next /\ line' = k /\ k # 0)
        BY <1>0, <2>1, <3>1, LinesType
      <4> QED BY <2>1, <2>2, <2>4, <4>1 DEF IsItem
    <3> QED BY <1>0, <1>1, <2>1, <2>4, <3>1 DEF DoneInv, OnLine, PlaceInv
  <2> QED BY <2>1, <2>3, <2>4
<1>4. CASE CloseFile
  <2>1. UNCHANGED <<files, cwd>> /\ mode = "file" /\ pc = "read" /\ next > Len(Lines)
        /\ status' = "exited" /\ pc' = "end"
    BY <1>4 DEF CloseFile, PlaceInv
  <2>2. \A k \in DOMAIN Lines : Kept(k)'
    BY <1>0, <1>1, <2>1, LinesType DEF DoneInv
  <2> QED BY <1>0, <2>1, <2>2 DEF DoneInv, OnLine
<1>5. ASSUME UNCHANGED <<files, cwd, line, status>>, pc \in OnLine, pc' \in OnLine,
             pc' \in {"download", "save"} => tts_url'.mem = "live" /\ tts_url'.text = line
      PROVE  DoneInv'
  <2>1. status = "run"
    BY <1>5 DEF PlaceInv, OnLine
  <2> QED BY <1>0, <1>1, <1>5, <2>1 DEF DoneInv, OnLine
<1>6. CASE AskConnect
  BY <1>5, <1>6 DEF AskConnect, OnLine
<1>7. CASE AskSend
  BY <1>5, <1>7 DEF AskSend, OnLine
<1>8. CASE AskReceive
  <2>1. PICK r \in Replies, a \in Answers : \E m \in ParseJson(r, a) :
          /\ IF m = "crash" THEN Crash ELSE Goto("download")
          /\ tts_url' = Url(m, a)
          /\ Wanted(r) /\ m = "live"
    BY <1>8 DEF AskReceive
  <2>2. tts_url' = Url("live", a) /\ Goto("download")
    BY <2>1
  <2>3. tts_url'.mem = "live" /\ tts_url'.text = line
    BY <2>2 DEF Url
  <2> QED BY <1>5, <1>8, <2>2, <2>3 DEF AskReceive, OnLine
<1>9. CASE DownloadConnect
  <2>1. tts_url.mem = "live" /\ tts_url.text = line
    BY <1>1, <1>9 DEF DownloadConnect, DoneInv
  <2> QED BY <1>5, <1>9, <2>1 DEF DownloadConnect, OnLine
<1>10. CASE DownloadNothing
  BY <1>1, <1>10 DEF DownloadNothing, DoneInv
<1>11. CASE Download
  <2>1. /\ pc = "save" /\ cwd \in Dirs /\ line \in DOMAIN Lines /\ Lines[line] \in Names
        /\ UNCHANGED <<cwd, next, line>>
    BY <1>11, DownloadIs
  <2>2. tts_url.mem = "live" /\ tts_url.text = line
    BY <1>1, <2>1 DEF DoneInv
  <2>3. PICK r \in Replies, opens \in BOOLEAN, t \in IF mode = "args" THEN Types ELSE {type} :
          /\ Wanted(r) /\ opens
          /\ files' = IF Saved(r) /\ opens
                      THEN [files EXCEPT ![cwd][Lines[line]] = Content(r, t)]
                      ELSE files
          /\ IF Received(r) = "crash" \/ tts_url.mem = "freed" THEN Crash ELSE AfterLine
    BY <1>11 DEF Download, Content
  <2>4. Received(r) = "whole" /\ Saved(r)
    BY <2>3, WantedIsWhole
  <2>5. AfterLine
    BY <2>2, <2>3, <2>4
  <2>6. ASSUME NEW n \in Names
        PROVE  files'[cwd][n] = IF n = Lines[line] THEN Content(r, t) ELSE files[cwd][n]
    <3>1. ASSUME NEW c, files' = [files EXCEPT ![cwd][Lines[line]] = c]
          PROVE  files'[cwd][n] = IF n = Lines[line] THEN c ELSE files[cwd][n]
      BY <2>1, <3>1 DEF TypeOK
    <3> QED BY <2>3, <2>4, <3>1
  <2>7. Content(r, t).text = line /\ Content(r, t).bytes = "whole"
    BY <2>2, <2>4 DEF Content
  <2>8. ASSUME NEW k \in DOMAIN Lines, k <= line PROVE Kept(k)'
    <3> SUFFICES ASSUME Lines[k] # Other
                 PROVE  /\ files'[cwd][Lines[k]].text \in TextsOf(Lines[k])
                        /\ files'[cwd][Lines[k]].bytes = "whole"
      BY <1>0, <2>1
    <3>1. Lines[k] \in Names
      BY LinesType
    <3>2. CASE Lines[k] = Lines[line]
      <4>1. line \in TextsOf(Lines[k])
        BY <2>1, <3>2 DEF TextsOf
      <4> QED BY <2>6, <2>7, <3>1, <3>2, <4>1
    <3>3. CASE Lines[k] # Lines[line]
      <4>1. k < line
        BY <1>0, <2>8, <3>3
      <4>2. Kept(k)
        BY <1>0, <1>1, <2>1, <4>1 DEF DoneInv, OnLine
      <4> QED BY <2>6, <3>1, <3>3, <4>2
    <3> QED BY <3>2, <3>3
  <2>9. CASE mode = "file"
    <3>1. next' = line + 1 /\ pc' = "read" /\ status' = status /\ status = "run"
      BY <1>0, <2>1, <2>5, <2>9 DEF AfterLine, PlaceInv, OnLine
    <3>2. \A k \in DOMAIN Lines : k < next' => Kept(k)'
      BY <1>0, <2>8, <3>1
    <3> QED BY <1>0, <3>1, <3>2 DEF DoneInv, OnLine
  <2>10. CASE mode = "text"
    <3>1. line = 1 /\ pc' = "end" /\ status' = "exited"
      BY <1>0, <2>1, <2>5, <2>10 DEF AfterLine, PlaceInv, OnLine
    <3>2. Kept(1)'
      BY <2>1, <2>8, <3>1
    <3> QED BY <1>0, <2>10, <3>1, <3>2 DEF DoneInv, OnLine
  <2> QED BY <2>9, <2>10
<1>12. CASE AskNothing \/ NextArgument \/ NoArgument \/ NoType
  BY <1>12 DEF AskNothing, NextArgument, NoArgument, NoType
<1>13. CASE OpenFails \/ AskFails \/ DownloadFails \/ DownloadCrash \/ Killed
  BY <1>13 DEF OpenFails, AskFails, DownloadFails, DownloadCrash, Killed
<1> QED BY <1>2, <1>3, <1>4, <1>6, <1>7, <1>8, <1>9, <1>10, <1>11, <1>12, <1>13 DEF Next

-----------------------------------------------------------------------------
(* The invariant.                                                          *)

LEMMA TtsInit == Init => TtsInv
<1> SUFFICES ASSUME Init PROVE TtsInv
  OBVIOUS
<1> USE LinesType DEF Init
<1>1. \A d \in Dirs, n \in Names : files[d][n] = NoFile
  OBVIOUS
<1>2. TypeOK
  <2>1. NoUrl \in Urls
    BY DEF NoUrl, Urls
  <2>2. NoFile \in Files
    BY DEF NoFile, Files
  <2>3. files \in [Dirs -> [Names -> Files]]
    BY <2>2
  <2>4. asked \in Seq(DOMAIN Lines)
    BY EmptySeq
  <2>5. next \in 1..(Len(Lines) + 2) /\ line \in 0..Len(Lines) /\ fds \in 0..MaxFds
    OBVIOUS
  <2>6. eof \in BOOLEAN /\ trouble \in BOOLEAN
    BY Zenon
  <2>7. /\ status = "run" /\ pc = "open" /\ unheard \subseteq DOMAIN Lines
        /\ tts_url \in Urls /\ dirs \subseteq Outputs
    BY <2>1
  <2>8. cwd \in {"start", output} /\ output \in Outputs /\ type \in Types /\ suffix \in Suffixes
        /\ mode \in {"file", "text", "none", "args"}
    OBVIOUS
  <2> QED BY ONLY <2>3, <2>4, <2>5, <2>6, <2>7, <2>8 DEF TypeOK
<1>3. PlaceInv
  BY DEF PlaceInv, OnLine
<1>4. AskInv
  BY DEF AskInv, AskedInOrder
<1>5. FdInv
  <2>1. Cardinality(unheard) = 0
    BY FS_EmptySet
  <2> QED BY <2>1 DEF FdInv, LeakBounded
<1>6. UrlInv
  BY DEF UrlInv, NoUrl
<1>7. FileInv
  BY <1>1 DEF FileInv, FileOK
<1>8. DoneInv
  BY DEF DoneInv, OnLine
<1> QED BY <1>2, <1>3, <1>4, <1>5, <1>6, <1>7, <1>8 DEF TtsInv

LEMMA TtsStutter ==
  ASSUME TtsInv, UNCHANGED vars
  PROVE  TtsInv'
<1>1. UNCHANGED <<status, pc, mode, output, type, suffix, dirs, cwd, files, next, eof, line,
                  tts_url, fds, asked, unheard, trouble>>
  BY DEF vars, disk, options, input, history
<1>2. Dirs' = Dirs /\ Names' = Names /\ Files' = Files
  BY ConstantSets
<1>3. \A n : TextsOf(n)' = TextsOf(n)
  BY DEF TextsOf
<1>4. TypeOK'
  BY <1>1, <1>2 DEF TtsInv, TypeOK
<1>5. (PlaceInv /\ AskInv /\ FdInv /\ UrlInv)'
  BY <1>1 DEF TtsInv, PlaceInv, AskInv, Behind, AskedInOrder, FdInv, LeakBounded, UrlInv
<1>6. FileInv'
  BY <1>1, <1>2, <1>3 DEF TtsInv, FileInv, FileOK, Header, Extension
<1>7. DoneInv'
  BY <1>1, <1>3 DEF TtsInv, DoneInv, Kept
<1> QED BY <1>4, <1>5, <1>6, <1>7 DEF TtsInv

(***************************************************************************)
(* The client keeps its descriptors, its URL and its files as TtsInv says  *)
(* (request_and_response.c, tts.c, main.c), whatever the network answers.  *)
(***************************************************************************)
THEOREM TtsInvariant == Spec => []TtsInv
<1>1. Init => TtsInv
  BY TtsInit
<1>2. TtsInv /\ [Next]_vars => TtsInv'
  <2>1. ASSUME TtsInv, Next PROVE TtsInv'
    BY <2>1, TypesStep, PlaceStep, AskStep, FdStep, UrlStep, FileStep, DoneStep DEF TtsInv
  <2> QED BY <2>1, TtsStutter
<1> QED BY <1>1, <1>2, PTL DEF Spec

\* The type invariant.
THEOREM TtsTypes == Spec => []TypeOK
<1>1. TtsInv => TypeOK
  BY DEF TtsInv
<1> QED BY <1>1, TtsInvariant, PTL

\* Each text is sent at most once, in the order of the file, although feof only
\* notices the end after a fgets that reads nothing (tts.c:424).
THEOREM SentOnceInOrder == Spec => []AskedInOrder
<1>1. TtsInv => AskedInOrder
  BY DEF TtsInv, AskInv
<1> QED BY <1>1, TtsInvariant, PTL

\* The audio of another line gets into a file only when the service was not
\* heard about its own, since an answer always replaces options->tts_url.
THEOREM OtherAudioExplained == Spec => []OtherAudioOnlyUnheard
<1>1. TtsInv => OtherAudioOnlyUnheard
  BY DEF TtsInv, FileInv, FileOK, OtherAudioOnlyUnheard, NoFile
<1> QED BY <1>1, TtsInvariant, PTL

\* The sockets and the directory that are never closed are no more than one for
\* each line and one for each request that failed.
THEOREM LeakIsBounded == Spec => []LeakBounded
<1>1. TtsInv => LeakBounded
  BY DEF TtsInv, FdInv
<1> QED BY <1>1, TtsInvariant, PTL

\* When nothing goes wrong, each line ends up in the file it names.
THEOREM NothingIsMissing == Spec => []CompleteWithoutTrouble
<1>1. TtsInv => CompleteWithoutTrouble
  BY DEF TtsInv, DoneInv, Kept, CompleteWithoutTrouble
<1> QED BY <1>1, TtsInvariant, PTL

-----------------------------------------------------------------------------
(* The headers.                                                            *)

LEMMA SmallMod == \A n \in Nat : n < Word => n % Word = n
BY WordAssumption

\* Two functions are the same when they map the same things to the same values.
LEMMA SameFunction ==
  ASSUME NEW D, NEW f, NEW g, f = [x \in D |-> f[x]], g = [x \in D |-> g[x]],
         \A x \in D : f[x] = g[x]
  PROVE  f = g
<1>1. [x \in D |-> f[x]] = [x \in D |-> g[x]]
  OBVIOUS
<1> QED BY <1>1

\* A header whose lengths are set to what they are is the same header.
LEMMA Adjusted ==
  ASSUME NEW wav, NEW length, NEW h, h = [x \in DOMAIN h |-> h[x]],
         "riff_size" \in DOMAIN h, "data_size" \in DOMAIN h,
         h.riff_size = (wav + length - 8) % Word, h.data_size = length % Word
  PROVE  adjust_wav_header([h EXCEPT !.riff_size = 0, !.data_size = 0], wav, length) = h
<1> DEFINE e == [h EXCEPT !.riff_size = 0, !.data_size = 0]
           g == [e EXCEPT !.riff_size = h.riff_size, !.data_size = h.data_size]
<1>1. DOMAIN e = DOMAIN h
  OBVIOUS
<1>2. DOMAIN g = DOMAIN h
  BY <1>1
<1>3. \A x \in DOMAIN h : x \notin {"riff_size", "data_size"} => e[x] = h[x]
  OBVIOUS
<1>4. \A x \in DOMAIN h : g[x] = h[x]
  <2>1. g["riff_size"] = h["riff_size"] /\ g["data_size"] = h["data_size"]
    BY <1>1
  <2>2. \A x \in DOMAIN h : x \notin {"riff_size", "data_size"} => g[x] = e[x]
    BY <1>1
  <2> QED BY <1>3, <2>1, <2>2
<1>5. g = [x \in DOMAIN g |-> g[x]]
  OBVIOUS
<1>6. g = h
  <2> HIDE DEF g
  <2> QED BY <1>2, <1>4, <1>5, SameFunction
<1> QED BY <1>6 DEF adjust_wav_header

\* The header for a text of the file.
LEMMA HeaderFields ==
  ASSUME TypeOK, NEW k \in DOMAIN Lines, NEW t \in Types, mode = "args" \/ t = type,
         NEW h \in Header(Length(k), t)
  PROVE  Describes(h, Length(k))
<1> DEFINE p == [sample_rate |-> Rate(t), channel |-> 1, sample_accuracy |-> 16,
                 data_len |-> Length(k)]
<1>1. h = set_wav_header(p)
  BY DEF Header
<1>2. Length(k) \in Nat /\ HeaderLen + Length(k) < Word /\ HeaderLen = 44
  <2>1. Len(Lines) \in Nat /\ k \in 1..Len(Lines)
    BY LinesType
  <2>2. 44 + 2 * Len(Lines) < Word
    BY LengthAssumption DEF Length, HeaderLen
  <2> QED BY ONLY <2>1, <2>2, WordAssumption DEF Length, HeaderLen
<1>3. (HeaderLen + Length(k) - 8) % Word = HeaderLen + Length(k) - 8 /\ Length(k) % Word = Length(k)
  <2>1. ASSUME NEW n \in Nat, n < Word PROVE n % Word = n
    BY <2>1, SmallMod
  <2>2. /\ HeaderLen + Length(k) - 8 \in Nat /\ HeaderLen + Length(k) - 8 < Word
        /\ Length(k) \in Nat /\ Length(k) < Word
    BY <1>2, WordAssumption
  <2>3. (HeaderLen + Length(k) - 8) % Word = HeaderLen + Length(k) - 8
    BY ONLY <2>1, <2>2
  <2>4. Length(k) % Word = Length(k)
    BY ONLY <2>1, <2>2
  <2> QED BY <2>3, <2>4
<1>4. Rate(t) \in {0, 8000, 16000, 24000}
  BY DEF Rate
<1>5. ((Rate(t) * 16) \div 8) % Word = Rate(t) * 2 /\ (1 * 16) \div 8 = 2
  <2>1. (Rate(t) * 16) \div 8 = Rate(t) * 2 /\ (1 * 16) \div 8 = 2
    BY <1>4
  <2> QED BY <1>4, <2>1, SmallMod, WordAssumption
<1>6. h = [riff_size |-> HeaderLen + Length(k) - 8, Channels |-> 1, SamplesPerSec |-> Rate(t),
           AvgBytesPerSec |-> Rate(t) * 2, BlockAlign |-> 2, BitsPerSample |-> 16,
           data_size |-> Length(k)]
  BY <1>1, <1>3, <1>5 DEF set_wav_header
<1>7. adjust_wav_header([h EXCEPT !.riff_size = 0, !.data_size = 0], HeaderLen, Length(k)) = h
  <2>1. /\ h = [x \in DOMAIN h |-> h[x]]
        /\ "riff_size" \in DOMAIN h /\ "data_size" \in DOMAIN h
        /\ h.riff_size = HeaderLen + Length(k) - 8 /\ h.data_size = Length(k)
    BY ONLY <1>6
  <2>2. /\ h.riff_size = (HeaderLen + Length(k) - 8) % Word
        /\ h.data_size = Length(k) % Word
    BY ONLY <1>3, <2>1
  <2> HIDE DEF p
  <2> QED BY ONLY <2>1, <2>2, Adjusted, Zenon
<1>8. \/ mode = "args"
      \/ <<type, Rate(t)>> \in {<<0, 8000>>, <<5, 24000>>, <<6, 16000>>}
      \/ type \notin {0, 5, 6}
  BY DEF Rate
<1>9. /\ h.data_size = Length(k) /\ h.riff_size + 8 = HeaderLen + h.data_size
      /\ h.AvgBytesPerSec = h.SamplesPerSec * h.BlockAlign /\ h.SamplesPerSec = Rate(t)
  BY <1>2, <1>4, <1>6
<1> QED BY <1>7, <1>8, <1>9 DEF Describes

\* A file called .wav has a header that describes what follows it
\* (tts.c:31-38, wav.c), which adjust_wav_header would leave as it is.
THEOREM HeadersDescribe == Spec => []HeaderDescribesAudio
<1>1. TtsInv => HeaderDescribesAudio
  <2> SUFFICES ASSUME TtsInv, NEW d \in Dirs, NEW n \in Names, files[d][n] # NoFile
               PROVE  /\ Extension = "wav" => files[d][n].header # {}
                      /\ \A h \in files[d][n].header : Describes(h, Length(files[d][n].text))
    BY DEF HeaderDescribesAudio, NoFile
  <2>1. PICK t \in Types :
          /\ files[d][n].text \in DOMAIN Lines /\ (mode = "args" \/ t = type)
          /\ files[d][n].header = Header(Length(files[d][n].text), t)
    BY DEF TtsInv, FileInv, FileOK
  <2>2. Extension = "wav" => files[d][n].header # {}
    BY <2>1 DEF Header
  <2> QED BY <2>1, <2>2, HeaderFields DEF TtsInv
<1> QED BY <1>1, TtsInvariant, PTL
=============================================================================
