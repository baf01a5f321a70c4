--------------------------------- MODULE Tts ---------------------------------
(***************************************************************************)
(* The speech synthesis client of turing_tts_daemon/tts.c with             *)
(* request_and_response.c: for each line [name,text] of a file it asks the *)
(* service for the URL of the spoken text, downloads what is there and     *)
(* saves it under that name; main.c, its older form, does so for each of   *)
(* its arguments.  One process, but every call to the network, the file    *)
(* system and the allocator may fail on it, and options->tts_url outlives  *)
(* the line it was set for.                                                *)
(*                                                                         *)
(* A text is its number of line; the audio the service makes of it is      *)
(* identified with it.  The service and the network are the replies below. *)
(* The options that only select the voice are left out.  The URLs the      *)
(* service gives for one format of audio all have one suffix.              *)
(***************************************************************************)
EXTENDS Sequences, FiniteSets, Wav

CONSTANTS
  Lines,    (* the file: a sequence of names, or Other for a line that is   *)
            (* not of the form [name,text]                                  *)
  Other,
  Types,    (* values of option -f, the format of the audio                 *)
  Suffixes, (* what the URLs may end in                                     *)
  Outputs,  (* values of option -o, the default "tts_files" among them      *)
  MaxFds    (* the descriptors the process may have open                    *)

Names == {Lines[k] : k \in DOMAIN Lines} \ {Other}
Dirs == Outputs \cup {"start"}

ASSUME TtsAssumption ==
  /\ Lines \in Seq(Names \cup {Other}) /\ Lines # <<>> /\ Lines[1] # Other
  /\ Types \subseteq 0 .. 6
  /\ "tts_files" \in Outputs /\ "start" \notin Outputs
  /\ MaxFds \in Nat /\ MaxFds >= 3

(***************************************************************************)
(* A reply, as far as it arrives before the connection ends.  head: the    *)
(* header fits into 1023 bytes; length: its Content-Length, if it has one. *)
(***************************************************************************)
Replies == [status  : {"200", "500"},
            head    : {"short", "long"},
            length  : {"none", "zero", "some"},
            arrived : {"head", "part", "whole"}]

\* What the service says about a text: the kind of URL, or none.
Answers == {"http", "https", "refused", "other"}

NoUrl == [text |-> 0, http |-> FALSE, mem |-> "null"]
NoFile == [text |-> 0, bytes |-> "none", header |-> {}]

VARIABLES
  status,   (* "run", "exited" or "crashed"                                 *)
  pc,       (* the next step                                                *)
  mode,     (* "file" with -c, "text" with -e, "none" without either; or    *)
            (* "args": the older program main.c, whose arguments are the    *)
            (* lines with a name, each its own text                         *)
  output,   (* options->output                                              *)
  type,     (* options->tts                                                 *)
  suffix,   (* of the URLs for that type                                    *)
  dirs,     (* the directories that exist                                   *)
  cwd,      (* the current directory                                        *)
  next,     (* the line fgets reads next                                    *)
  eof,      (* feof(fp)                                                     *)
  line,     (* the line in buf, 0 when buf is empty                         *)
  tts_url,  (* the text whose URL it is, whether it begins with http://,    *)
            (* and whether the pointer is "null", "live" or "freed"         *)
  fds,      (* how many descriptors are open                                *)
  files,    (* files[d][n]: the file named n in directory d: the text whose *)
            (* audio it holds, how much of it, and the wav header before it *)
  asked,    (* history: the lines whose text was sent to the service        *)
  unheard,  (* history: the lines without an answer from the service        *)
  trouble   (* history: some call has failed or a reply was not as wanted   *)

options == <<mode, output, type, suffix>>
disk == <<options, dirs, cwd, files>>
input == <<next, eof, line>>
history == <<asked, unheard, trouble>>
vars == <<status, pc, disk, input, tts_url, fds, history>>

Init ==
  /\ status = "run"
  /\ pc = "open"
  /\ mode \in {"file", "text", "none", "args"} /\ output \in Outputs
  /\ type \in Types /\ suffix \in Suffixes
  /\ dirs \in SUBSET Outputs
  /\ cwd = "start"
  /\ next = 1 /\ eof = FALSE /\ line = 0
  /\ tts_url = NoUrl
  /\ fds = 0
  /\ files = [d \in Dirs |-> [n \in Names |-> NoFile]]
  /\ asked = <<>> /\ unheard = {} /\ trouble = FALSE

At(l) == status = "run" /\ pc = l
Crash == status' = "crashed" /\ pc' = "end"
Exit == status' = "exited" /\ pc' = "end"
Goto(l) == status' = status /\ pc' = l

-----------------------------------------------------------------------------
(* The work directory and the file of texts.                               *)

\* A missing directory: "tts_files" is made, whatever the option says; the
\* result of the chdir that follows is not looked at.
prepare_work_dir(ok, opened) ==
  LET made == IF output \in dirs THEN dirs ELSE dirs \cup {"tts_files"}
  IN /\ output \notin dirs => ok /\ "tts_files" \notin dirs
     /\ dirs' = made
     /\ cwd' = IF output \in made THEN output ELSE cwd
     /\ fds' = fds + opened + (IF output \in dirs THEN 1 ELSE 0)
     /\ UNCHANGED <<options, files>>

OpenFile ==
  /\ At("open")
  /\ \/ /\ mode = "file"
        /\ prepare_work_dir(TRUE, 1)
        /\ Goto("read") /\ line' = line
     \/ /\ mode \in {"text", "none"}
        /\ prepare_work_dir(TRUE, 0)
        /\ Goto("ask") /\ line' = IF mode = "text" THEN 1 ELSE 0
  /\ UNCHANGED <<next, eof, tts_url, history>>

\* The file cannot be opened, or the directory cannot be made.
OpenFails ==
  /\ At("open") /\ mode # "args"
  /\ mode = "file" \/ output \notin dirs
  /\ Exit
  /\ trouble' = TRUE
  /\ UNCHANGED <<disk, input, tts_url, fds, asked, unheard>>

\* Mutant of Fgets: buf is not cleared first.
FgetsStale == IF next <= Len(Lines) THEN next ELSE line

\* buf is cleared, then filled unless nothing is left.
Fgets == IF next <= Len(Lines) THEN next ELSE 0

\* Mutant of IsItem: the last line is not looked at.
IsItemButLast(l) == l \in 1..(Len(Lines) - 1) /\ Lines[l] # Other

IsItem(l) == l # 0 /\ Lines[l] # Other

\* Mutant of AtEnd: a fgets that reads nothing does not show.
AtEndNever == FALSE

AtEnd == next > Len(Lines)

\* main.c stays in the directory it is in.
NextArgument ==
  /\ mode = "args" /\ next <= Len(Lines)
  /\ At("open") \/ At("read")
  /\ line' = next /\ next' = next + 1
  /\ Goto(IF IsItem(next) THEN "ask" ELSE "read")
  /\ UNCHANGED <<disk, eof, tts_url, fds, history>>

NoArgument ==
  /\ At("read") /\ mode = "args" /\ next > Len(Lines)
  /\ Exit
  /\ UNCHANGED <<disk, input, tts_url, fds, history>>

\* feof notices the end with the last line only when no newline ends it.
ReadLine ==
  /\ At("read") /\ mode = "file" /\ ~eof
  /\ line' = Fgets
  /\ next' = next + 1
  /\ \/ eof' = AtEnd
     \/ next = Len(Lines) /\ eof' = TRUE
  /\ Goto(IF IsItem(line') THEN "ask" ELSE "read")
  /\ UNCHANGED <<disk, tts_url, fds, history>>

CloseFile ==
  /\ At("read") /\ eof
  /\ Exit
  /\ fds' = fds - 1
  /\ UNCHANGED <<disk, input, tts_url, history>>

-----------------------------------------------------------------------------
(* The replies.                                                            *)

\* What getResponse and save_file have in hand when they have read a reply.
\* Without a Content-Length they search a null pointer; a header that is too
\* long is continued as if it were the body; a connection that ends early
\* leaves "head", nothing, or "part" of the body.
Received(r) ==
  CASE r.length = "none" -> "crash"
    [] r.length = "zero" \/ (r.length = "some" /\ r.status # "200") -> "null"
    [] r.length = "some" /\ r.status = "200" ->
         IF r.arrived = "whole" /\ r.head = "long" THEN "shifted" ELSE r.arrived

\* What ParseJson may make of it: a URL that is cut off has no closing quote.
ParseJson(r, a) ==
  CASE Received(r) \in {"crash", "null"} -> {"crash"}
    [] Received(r) = "head"              -> {"null"}
    [] Received(r) = "whole"             -> IF a \in {"http", "https"}
                                            THEN {"live", "null"} ELSE {"null"}
    [] OTHER                             -> IF a \in {"http", "https"}
                                            THEN {"live", "null", "crash"}
                                            ELSE {"null"}

Wanted(r) == r = [status |-> "200", head |-> "short", length |-> "some",
                  arrived |-> "whole"]

-----------------------------------------------------------------------------
(* get_turing_tts_url, for the text of the line.  Where it returns early,  *)
(* tts_url keeps the value it had; that of main.c has none then.           *)

AskNothing ==
  /\ At("ask") /\ mode = "none"
  /\ Goto("download")
  /\ UNCHANGED <<disk, input, tts_url, fds, history>>

AskConnect ==
  /\ At("ask") /\ mode # "none"
  /\ fds < MaxFds
  /\ fds' = fds + 1
  /\ Goto("request")
  /\ UNCHANGED <<disk, input, tts_url, history>>

\* No memory for the request, no socket, no such host, or no connection; or
\* the request cannot be sent, and the socket is left open.
AskFails ==
  /\ (At("ask") /\ mode # "none") \/ At("request")
  /\ Goto("download")
  /\ unheard' = unheard \cup {line}
  /\ trouble' = TRUE
  /\ UNCHANGED <<disk, input, tts_url, fds, asked>>

AskSend ==
  /\ At("request")
  /\ Goto("answer")
  /\ asked' = Append(asked, line)
  /\ UNCHANGED <<disk, input, tts_url, fds, unheard, trouble>>

\* SIGPIPE: the service has closed the connection before a send.
Killed ==
  /\ At("request") \/ At("save")
  /\ Crash
  /\ trouble' = TRUE
  /\ UNCHANGED <<disk, input, tts_url, fds, asked, unheard>>

Url(m, a) ==
  IF m = "live" THEN [text |-> line, http |-> a = "http", mem |-> m] ELSE NoUrl

\* Mutant of Closed: the socket is left open.
ClosedNot == fds

Closed == fds - 1

AskReceive ==
  /\ At("answer")
  /\ \E r \in Replies, a \in Answers : \E m \in ParseJson(r, a) :
       /\ IF m = "crash" THEN Crash ELSE Goto("download")
       /\ tts_url' = Url(m, a)
       /\ trouble' = (trouble \/ ~Wanted(r) \/ a # "http" \/ m # "live")
  /\ fds' = Closed
  /\ UNCHANGED <<disk, input, asked, unheard>>

-----------------------------------------------------------------------------
(* download_file_by_url, for the name of the line.                         *)

\* main ends after a single text, parse_text_from_file goes on, as does main.c.
AfterLine == IF mode \in {"file", "args"} THEN Goto("read") ELSE Exit

\* Mutant of Freed: main.c keeps the pointer, as tts.c does.
FreedKept(url) == url

\* main.c frees its URL in any case, and asks for the next one.
Freed(url) == IF mode = "args" THEN NoUrl ELSE url

DownloadNothing ==
  /\ At("download") /\ tts_url.mem = "null"
  /\ AfterLine
  /\ UNCHANGED <<disk, input, tts_url, fds, history>>

\* A freed URL may still read as it did.
DownloadConnect ==
  /\ At("download") /\ tts_url.mem # "null" /\ tts_url.http
  /\ fds < MaxFds
  /\ fds' = fds + 1
  /\ Goto("save")
  /\ UNCHANGED <<disk, input, tts_url, history>>

\* tts.c does not free the URL.
DownloadFails ==
  /\ At("download") /\ tts_url.mem # "null"
  /\ AfterLine
  /\ trouble' = TRUE
  /\ tts_url' = Freed(tts_url)
  /\ UNCHANGED <<disk, input, fds, asked, unheard>>

\* A freed URL may also be overwritten; with any beginning but http:// its host
\* is a null pointer.
DownloadCrash ==
  /\ At("download") /\ tts_url.mem # "null"
  /\ tts_url.mem = "freed" \/ ~tts_url.http
  /\ Crash
  /\ trouble' = TRUE
  /\ UNCHANGED <<disk, input, tts_url, fds, asked, unheard>>

\* The body is written to the file only when all of its bytes have come.
Saved(r) == Received(r) \in {"whole", "shifted"}

\* Mutant of Rate: the rates of two formats are swapped.
RateSwapped(t) == CASE t = 0 -> 16000 [] t = 5 -> 24000 [] t = 6 -> 8000 [] OTHER -> 0

Rate(t) == CASE t = 0 -> 8000 [] t = 5 -> 24000 [] t = 6 -> 16000 [] OTHER -> 0

\* A file .pcm becomes a file .wav.
Extension == IF suffix = "pcm" THEN "wav" ELSE suffix

\* The length of the audio of a text, different for each.
Length(text) == 2 * text

\* What is saved was counted in an int (request_and_response.c:337), so that an
\* unsigned int can hold the size of it with the header.
ASSUME LengthAssumption == HeaderLen + Length(Len(Lines)) < Word

\* Written before the audio, into files .wav only.
Header(length, t) ==
  IF Extension = "wav"
  THEN {set_wav_header([sample_rate |-> Rate(t), channel |-> 1,
                        sample_accuracy |-> 16, data_len |-> length])}
  ELSE {}

\* The request is sent, and the reply saved unless the file cannot be opened;
\* then the URL is freed, which ends the process if it has been freed before.
\* The socket stays open.  main.c gives no type to save_file: what is found in
\* its place may name any format.
Download ==
  /\ At("save")
  /\ \E r \in Replies, opens \in BOOLEAN, t \in IF mode = "args" THEN Types ELSE {type} :
       /\ opens => fds < MaxFds
       /\ files' = IF Saved(r) /\ opens
                   THEN [files EXCEPT ![cwd][Lines[line]] =
                           [text |-> tts_url.text, bytes |-> Received(r),
                            header |-> Header(Length(tts_url.text), t)]]
                   ELSE files
       /\ IF Received(r) = "crash" \/ tts_url.mem = "freed" THEN Crash ELSE AfterLine
       /\ trouble' = (trouble \/ ~Wanted(r) \/ ~opens)
  /\ tts_url' = Freed([tts_url EXCEPT !.mem = "freed"])
  /\ UNCHANGED <<options, dirs, cwd, input, fds, asked, unheard>>

\* Or be no pointer at all.
NoType ==
  /\ At("save") /\ mode = "args"
  /\ Crash
  /\ UNCHANGED <<disk, input, tts_url, fds, history>>

-----------------------------------------------------------------------------
Next ==
  \/ OpenFile \/ OpenFails \/ ReadLine \/ CloseFile \/ NextArgument \/ NoArgument
  \/ AskNothing \/ AskConnect \/ AskFails \/ AskSend \/ AskReceive
  \/ DownloadNothing \/ DownloadConnect \/ DownloadFails \/ DownloadCrash
  \/ Download \/ NoType \/ Killed

Spec == Init /\ [][Next]_vars

-----------------------------------------------------------------------------
(* Properties.                                                             *)

Urls == [text : 0..Len(Lines), http : BOOLEAN, mem : {"null", "live", "freed"}]

Files == [text   : 0..Len(Lines),
          bytes  : {"none", "head", "part", "whole", "shifted"},
          header : {{}} \cup {Header(Length(k), t) : k \in 1..Len(Lines), t \in Types}]

TypeOK ==
  /\ status \in {"run", "exited", "crashed"}
  /\ pc \in {"open", "read", "ask", "request", "answer", "download", "save", "end"}
  /\ mode \in {"file", "text", "none", "args"} /\ output \in Outputs
  /\ type \in Types /\ suffix \in Suffixes
  /\ dirs \subseteq Outputs /\ cwd \in {"start", output}
  /\ next \in 1..(Len(Lines) + 2) /\ eof \in BOOLEAN /\ line \in 0..Len(Lines)
  /\ tts_url \in Urls /\ fds \in 0..MaxFds /\ files \in [Dirs -> [Names -> Files]]
  /\ asked \in Seq(DOMAIN Lines) /\ unheard \subseteq DOMAIN Lines
  /\ trouble \in BOOLEAN

\* Each text is sent to the service at most once, in the order of the file,
\* although feof is only noticed after a fgets that reads nothing (tts.c:424).
AskedInOrder == \A i, j \in DOMAIN asked : i < j => asked[i] < asked[j]

\* The texts of the lines that name the file n.
TextsOf(n) == {k \in DOMAIN Lines : Lines[k] = n}

\* A file holds the audio of another line's text only if the service was not
\* heard about its own line: an answer always replaces tts_url.  The older
\* program never does it.
OtherAudioOnlyUnheard ==
  \A d \in Dirs, n \in Names :
    \/ files[d][n].text \in TextsOf(n) \cup {0}
    \/ mode # "args" /\ TextsOf(n) \cap unheard # {}

\* A line leaves one descriptor open at most, two if its request failed.
LeakBounded ==
  fds <= 2 + (IF mode \in {"file", "args"} THEN next - 1 ELSE 1) + Cardinality(unheard)

\* Its sizes are those of the audio, its rates fit each other and the format
\* asked for (tts.c:31-38; main.c does not tell save_file which), and
\* adjust_wav_header, which is there to correct a length not known before,
\* would have made the same of it.
Describes(h, length) ==
  /\ h.data_size = length /\ h.riff_size + 8 = HeaderLen + h.data_size
  /\ h.AvgBytesPerSec = h.SamplesPerSec * h.BlockAlign
  /\ \/ mode = "args"
     \/ <<type, h.SamplesPerSec>> \in {<<0, 8000>>, <<5, 24000>>, <<6, 16000>>}
     \/ type \notin {0, 5, 6}
  /\ adjust_wav_header([h EXCEPT !.riff_size = 0, !.data_size = 0], HeaderLen, length) = h

\* A file that is called .wav begins with a header that a player can go by.
HeaderDescribesAudio ==
  \A d \in Dirs, n \in Names : LET f == files[d][n] IN
    /\ f # NoFile /\ Extension = "wav" => f.header # {}
    /\ \A h \in f.header : Describes(h, Length(f.text))

\* When every call succeeds and every reply is as wanted, each line ends up in
\* the file it names, and the process does not crash.
CompleteWithoutTrouble ==
  ~trouble /\ mode \in {"file", "text"} =>
    /\ status # "crashed"
    /\ status = "exited" =>
         \A k \in IF mode = "file" THEN DOMAIN Lines ELSE {1} :
           Lines[k] # Other => /\ files[cwd][Lines[k]].text \in TextsOf(Lines[k])
                               /\ files[cwd][Lines[k]].bytes = "whole"

\* tts.c:243 documents a line as [name of the file, text to synthesise]: the
\* file holds the audio of that text.
AudioMatchesLine ==
  \A d \in Dirs, n \in Names : files[d][n].text \in TextsOf(n) \cup {0}

\* tts.c:257 and tts.c:74 document option -o as the directory the files are
\* saved in.
FilesInOutput ==
  mode # "args" => \A d \in Dirs \ {output} : \A n \in Names : files[d][n] = NoFile

-----------------------------------------------------------------------------
(* The inductive invariant.                                                *)

OnLine == {"ask", "request", "answer", "download", "save"}

\* Where the process is, and which line it has in hand.
PlaceInv ==
  /\ pc = "end" <=> status # "run"
  /\ IF eof THEN mode = "file" /\ next > Len(Lines) ELSE next <= Len(Lines) + 1
  /\ pc = "open" => next = 1 /\ fds = 0 /\ asked = <<>> /\ unheard = {} /\ tts_url = NoUrl
  /\ pc = "read" => mode \in {"file", "args"}
  /\ pc \in OnLine =>
       /\ mode \in {"file", "args"} => line = next - 1
       /\ mode = "text" => line = 1
       /\ IF mode = "none" THEN pc \in {"ask", "download"} ELSE IsItem(line)

\* What was asked lies behind.
Behind(k) ==
  /\ mode \in {"file", "args"} => k < next
  /\ pc \in {"ask", "request"} => k < line

AskInv ==
  /\ \A i \in DOMAIN asked : Behind(asked[i])
  /\ \A k \in unheard : Behind(k)
  /\ AskedInOrder

\* The file of texts and a socket are open; what else is left open.
FdInv ==
  /\ mode = "file" /\ pc \notin {"open", "end"} => fds >= 1
  /\ pc \in {"request", "answer"} => fds >= IF mode = "file" THEN 2 ELSE 1
  /\ pc \in {"ask", "download"} =>
       fds + 1 <= 2 + (IF mode \in {"file", "args"} THEN next - 1 ELSE 1)
                    + Cardinality(unheard)
  /\ LeakBounded

\* Whose URL it is.
UrlInv ==
  /\ tts_url.mem # "null" => tts_url.text \in DOMAIN Lines /\ mode # "none"
  /\ pc \in {"read", "ask", "request", "answer"} /\ mode = "args" => tts_url.mem = "null"
  /\ pc \in {"download", "save"} /\ tts_url.mem # "null" =>
       tts_url.text = line \/ (mode # "args" /\ line \in unheard)
  /\ pc = "save" => tts_url.mem # "null"

\* What the file named n holds.
FileOK(n, f) ==
  \/ f = NoFile
  \/ /\ f.text \in DOMAIN Lines /\ f.bytes \in {"whole", "shifted"}
     /\ \E t \in Types : (mode = "args" \/ t = type) /\ f.header = Header(Length(f.text), t)
     /\ f.text \in TextsOf(n) \/ (mode # "args" /\ TextsOf(n) \cap unheard # {})

FileInv == \A d \in Dirs, n \in Names : FileOK(n, files[d][n])

\* The lines that are done while nothing goes wrong.
Kept(k) ==
  Lines[k] # Other => /\ files[cwd][Lines[k]].text \in TextsOf(Lines[k])
                      /\ files[cwd][Lines[k]].bytes = "whole"

DoneInv ==
  ~trouble /\ mode \in {"file", "text"} =>
    /\ status # "crashed"
    /\ pc \in {"download", "save"} => tts_url.mem = "live" /\ tts_url.text = line
    /\ pc = "read" => \A k \in DOMAIN Lines : k < next => Kept(k)
    /\ pc \in OnLine => \A k \in DOMAIN Lines : k < line => Kept(k)
    /\ status = "exited" =>
         \A k \in IF mode = "file" THEN DOMAIN Lines ELSE {1} : Kept(k)

TtsInv ==
  TypeOK /\ PlaceInv /\ AskInv /\ FdInv /\ UrlInv /\ FileInv /\ DoneInv
=============================================================================
