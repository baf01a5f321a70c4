------------------------------- MODULE Loggers -------------------------------
(***************************************************************************)
(* Programs that log from several threads and from signal handlers, with   *)
(* one of the three libraries, and what they may expect of it.             *)
(***************************************************************************)
EXTENDS LogC, PrettyLog, Slog

Next == LogNext \/ PrettyNext \/ SlogNext

Step(a) ==
  \/ PrettyStep(a) \/ SlogStep(a)
  \/ a \in Threads /\ LogStep(a)
  \/ a \in Threads /\ (InitLock(a) \/ InitOpen(a) \/ InitFailed(a) \/ InitUnlock(a))

\* A call that has begun goes on when it can.
Spec == Init /\ [][Next]_vars /\ \A a \in Activities : WF_vars(Step(a))

-----------------------------------------------------------------------------
(* Properties.                                                             *)

Times == 0 .. MaxCalls
Stamps == Times \X Times

PcSteps == {"idle", "convert", "date", "time", "gate", "lock", "init", "open", "failed",
            "opened", "check", "default", "head", "body", "end", "file", "fhead",
            "fbody", "fend", "flush", "fclose", "unlock", "crashed"}

CallRecords == [id : 0 .. MaxCalls, level : Levels \cup {0},
                kind : {"line", "raw", "nt"}, at : Times, stamp : Stamps]

Pieces == [id : 1 .. MaxCalls, by : Activities, at : Times, stamp : Stamps,
           part : {"head", "body", "end", "raw", "line"}, torn : BOOLEAN]

\* Type correctness of the settings, the calls in progress and what is printed.
TypeOK ==
  /\ lib \in Libraries
  /\ ready \in BOOLEAN /\ quiet \in BOOLEAN
  /\ enabled \subseteq Levels /\ swapped \subseteq Activities
  /\ fp \in {NULL, "file", "screen", "closed"}
  /\ lock \in Threads \cup {NULL} /\ on \in Threads \cup {NULL}
  /\ started \in 0 .. MaxCalls /\ inits \in 0 .. MaxInits[lib]
  /\ clock \in Times /\ tm \in Times /\ crossed \subseteq 1 .. MaxCalls
  /\ pc \in [Activities -> PcSteps] /\ call \in [Activities -> CallRecords]
  /\ out \in [{"screen", "file"} -> Seq(Pieces)]

\* What the threads print, all of which is under the mutex.
Locked(p) == p.by # Handler

\* The last piece by a thread among the pieces s before the k-th is of call n.
Follows(s, k, n) ==
  \E j \in DOMAIN s :
    /\ j < k /\ Locked(s[j]) /\ s[j].id = n
    /\ \A i \in DOMAIN s : j < i /\ i < k => ~Locked(s[i])

\* The only pieces that may have lost their line: those of log.c in a file that
\* file_log_init or file_log_deinit has changed since the piece before
\* (log.c:57, log.c:69), and those on the screen after a handler has put stdout in
\* the place of the file of slog (slog.c:60-62).
MayTear(s) == <<lib, s>> \in {<<"log", "file">>, <<"slog", "screen">>}

\* Every other piece of a line that was logged with the mutex stands behind the
\* piece before it, but for those of handlers, whichever threads log meanwhile
\* and open, close or replace the file.
LinesWhole ==
  \A s \in DOMAIN out : \A k \in DOMAIN out[s] :
    Locked(out[s][k]) /\ out[s][k].part \in {"body", "end"}
      => \/ Follows(out[s], k, out[s][k].id)
         \/ out[s][k].torn /\ MayTear(s)

\* Call n has pieces among s; wherever one is, call m has one as early.
NotAfter(s, m, n) ==
  /\ \E k \in DOMAIN s : s[k].id = n
  /\ \A k \in DOMAIN s : s[k].id = n => \E i \in DOMAIN s : i <= k /\ s[i].id = m

\* log.c and pretty_log.c write the lines of the threads to the file in the
\* order in which they are on the screen: one holding of the mutex covers both.
SameOrder ==
  LET f == out["file"] IN
  lib # "slog" => \A j, k \in DOMAIN f :
    j < k /\ Locked(f[j]) /\ Locked(f[k]) => NotAfter(out["screen"], f[j].id, f[k].id)

\* A line bears the time of its own call.  Only the stamp of a macro, taken
\* outside the mutex, may be that of another call or a mixture, and only when
\* that call converted its time meanwhile; log.c never fails in this.
OwnTime ==
  \A s \in DOMAIN out : \A k \in DOMAIN out[s] :
    LET p == out[s][k] IN
      \/ p.stamp \in {NoTime, Garbage, <<p.at, p.at>>}
      \/ lib # "log" /\ p.id \in crossed

\* Four things end the process, and no others.  In log.c, a printed call when quiet
\* is set and a stream is there (log.c:117); a stream that file_log_deinit has
\* closed and kept, printed to or closed again; a null one for those that found
\* it there before another thread's file_log_init failed.  In slog.c, a handler
\* that prints while a log_init has failed to open its file and has not yet put
\* stdout in its place (slog.c:48-50).
CrashesExplained ==
  \A a \in Activities : pc[a] = "crashed" =>
    \/ lib = "log" /\ quiet /\ fp # NULL /\ call[a] # NoCall
    \/ lib = "log" /\ fp = "closed"
    \/ lib = "log" /\ fp = NULL /\ a \in swapped
    \/ lib = "slog" /\ fp = NULL /\ a = Handler /\ \E t \in Threads : pc[t] = "failed"

\* Every call returns, a handler's too, whatever thread it interrupts, or the
\* process has ended: what the rule about macros without the mutex is for
\* (pretty_log.h:78, slog.h:54, slog.h:62).
CallsReturn == \A a \in Activities : pc[a] # "idle" ~> pc[a] = "idle" \/ Crashed

\* log.h:44, about file_log_init: "initialises recording log information in
\* the file".  Of that: a printed call that finds the file open and ends the
\* process has at least recorded its line.
RecordedInFile ==
  lib = "log" /\ fp = "file" => \A t \in Threads :
    pc[t] = "crashed" => \E k \in DOMAIN out["file"] : out["file"][k].id = call[t].id
-----------------------------------------------------------------------------
(* The inductive invariant.                                                *)

Calling == {"convert", "date", "time", "gate", "lock", "check", "default", "head",
            "body", "end", "file", "fhead", "fbody", "fend", "flush", "unlock"}

\* Each call has its own number, and has printed under no other.
IdsInv ==
  /\ \A a \in Activities :
       /\ call[a].id <= started
       /\ pc[a] \in Calling => call[a].id > 0
       /\ pc[a] \in {"idle", "init", "open", "failed", "opened", "fclose"} =>
            call[a] = NoCall
       /\ \A b \in Activities : call[a].id = call[b].id => a = b \/ call[a].id = 0
  /\ \A s \in DOMAIN out : \A k \in DOMAIN out[s] : out[s][k].id <= started

Inside == {"check", "default", "head", "body", "end", "file", "fhead", "fbody",
           "fend", "flush", "unlock", "open", "failed", "opened"}
            \cup IF lib = "log" THEN {"convert", "date", "time"} ELSE {}

\* Threads print with the mutex; log.c is not for handlers, and log_init takes
\* the mutex in slog.c only.
LockInv ==
  /\ \A t \in Threads :
       /\ pc[t] \in Inside => lock = t
       /\ pc[t] \in {"init", "open", "failed", "opened"} => lib = "slog"
  /\ lib = "log" => pc[Handler] = "idle"

\* The clock is read once by each call at most.
Unread == {call[a].id : a \in {a \in Activities : call[a].id > 0 /\ call[a].at = 0}}

ClockInv ==
  /\ clock + Cardinality(Unread) <= started
  /\ tm <= clock
  /\ \A a \in Activities :
       /\ call[a].at <= clock
       /\ pc[a] = "convert" => call[a].at = 0
       /\ lib = "log" /\ pc[a] \in {"gate", "lock"} => call[a].at = 0

\* Between the conversion and the stamp the reading is that of the call, unless
\* another has converted, which log.c excludes to the end of the line.
Crossed(a) == lib # "log" /\ call[a].id \in crossed

TimeInv ==
  /\ \A a \in Activities :
       /\ pc[a] \in {"date", "time"} => tm = call[a].at \/ Crossed(a)
       /\ pc[a] = "time" => call[a].stamp = <<call[a].at, 0>> \/ Crossed(a)
       /\ pc[a] \in {"gate", "lock", "check", "default", "head", "body", "end",
                     "file", "fhead"} =>
            call[a].stamp \in {NoTime, <<call[a].at, call[a].at>>} \/ Crossed(a)
       /\ lib = "log" /\ ~quiet /\ pc[a] \in {"head", "body", "end", "file"} =>
            tm = call[a].at
  /\ OwnTime

\* The stream is there for who is to print, but for those who are told so; and
\* who they are.
StreamInv ==
  /\ \A a \in swapped : pc[a] \in Using \cup {"crashed"}
  /\ lib = "log" =>
       /\ fp # "screen"
       /\ \A t \in Threads :
            /\ pc[t] \in Using /\ fp = NULL => t \in swapped
            /\ pc[t] \in {"fhead", "fbody", "fend", "flush"} => ~quiet
  /\ lib = "slog" =>
       /\ fp # "closed"
       /\ \A a \in Activities : pc[a] \in {"head", "body", "end"} =>
            fp # NULL \/ (a = Handler /\ \E t \in Threads : pc[t] = "failed")
       /\ \A t \in Threads : t \in swapped => fp = "screen"
  /\ CrashesExplained

\* Where a thread in the middle of its line has printed the piece before.
Stream(t) ==
  IF lib = "slog" THEN fp ELSE IF pc[t] \in {"fbody", "fend"} THEN "file" ELSE "screen"

Continues(t) ==
  \/ pc[t] = "end" \/ (pc[t] = "body" /\ (lib = "log" \/ call[t].kind # "raw"))
  \/ pc[t] \in {"fbody", "fend"} /\ fp = "file"

WholeInv ==
  /\ \A t \in Threads :
       Continues(t) /\ t \notin swapped
         => Follows(out[Stream(t)], Len(out[Stream(t)]) + 1, call[t].id)
  /\ LinesWhole

\* The lines in the file are on the screen; those of the call that holds the
\* mutex are there after them.
OrderInv ==
  LET f == out["file"]
      s == out["screen"] IN
  /\ lib # "slog" =>
       /\ \A j \in DOMAIN f : Locked(f[j]) => \E i \in DOMAIN s : s[i].id = f[j].id
       /\ \A t \in Threads :
            /\ \A k \in DOMAIN s : s[k].id = call[t].id =>
                 /\ lock = t
                 /\ \A j \in DOMAIN f : Locked(f[j]) =>
                      \E i \in DOMAIN s : i <= k /\ s[i].id = f[j].id
            /\ pc[t] \in {"end", "file", "fhead", "fbody", "fend"}
                 /\ ~(lib = "log" /\ quiet) =>
                 \E k \in DOMAIN s : s[k].id = call[t].id
  /\ SameOrder

LogInv ==
  /\ TypeOK /\ IdsInv /\ LockInv /\ ClockInv /\ TimeInv /\ StreamInv /\ WholeInv
  /\ OrderInv
=============================================================================
