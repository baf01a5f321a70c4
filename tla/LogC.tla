-------------------------------- MODULE LogC --------------------------------
(***************************************************************************)
(* log/log.c: everything a call does happens under the mutex; no macro     *)
(* without it exists, so no handler logs.  file_log_init and               *)
(* file_log_deinit change Log.fp without the mutex, and each statement     *)
(* that prints to it reads it anew.  "file" is the stream opened last; an  *)
(* earlier one stays open, but nobody has its address any more.            *)
(***************************************************************************)
EXTENDS LogCalls

\* log_init has to be called, log_deinit too, while nobody logs.
log_init(level, q) ==
  /\ lib = "log" /\ ~ready /\ Quiescent /\ ready' = TRUE
  /\ enabled' = {l \in Levels : l >= level} /\ quiet' = q
  /\ lock' = NULL
  /\ UNCHANGED <<lib, inits, stamping, calls, fp, pc, out, swapped>>

log_deinit ==
  /\ lib = "log" /\ ready /\ Quiescent /\ ready' = FALSE
  /\ UNCHANGED <<lib, enabled, quiet, inits, stamping, calls, fp, lock, pc, out,
                 swapped>>

\* A failure to open is logged, at one of the levels.  Log.fp is tested as soon as
\* it is set.
file_log_init(t) ==
  /\ lib = "log" /\ ready /\ At(t, "idle") /\ inits < MaxInits[lib]
  /\ inits' = inits + 1
  /\ \/ fp' = "file" /\ UNCHANGED <<pc, calls>>
     \/ fp' = NULL /\ \E l \in Levels : Begin(t, "line", l, "gate")
  /\ Swap(t)
  /\ UNCHANGED <<lib, ready, enabled, quiet, stamping, lock, out>>

file_log_deinit(t) ==
  /\ lib = "log" /\ ready /\ At(t, "idle") /\ inits < MaxInits[lib] /\ fp # NULL
  /\ inits' = inits + 1 /\ Go(t, "fclose")
  /\ UNCHANGED <<lib, ready, enabled, quiet, stamping, calls, fp, lock, out, swapped>>

\* Log.fp, read once more, keeps the address of the closed stream.  Closing it
\* twice may end the process, closing a null one does.
FileClose(t) ==
  /\ At(t, "fclose")
  /\ \/ fp = "file" /\ fp' = "closed" /\ Go(t, "idle") /\ Swap(t)
     \/ fp = "closed" /\ fp' = fp /\ Go(t, "idle") /\ Used(t)
     \/ fp # "file" /\ fp' = fp /\ Go(t, "crashed") /\ swapped' = swapped
  /\ UNCHANGED <<settings, stamping, calls, lock, out>>

LogCall(t) ==
  /\ lib = "log" /\ ready
  /\ \E l \in Levels : Begin(t, "line", l, "gate")
  /\ UNCHANGED <<settings, stamping, fp, lock, out, swapped>>

\* The pieces of the line on stderr.
LogScreen(t) ==
  /\ \/ At(t, "head") /\ Go(t, "body") /\ Put(t, "screen", "head", call[t].stamp)
     \/ At(t, "body") /\ Go(t, "end") /\ Put(t, "screen", "body", NoTime)
     \/ At(t, "end") /\ Go(t, "file") /\ Put(t, "screen", "end", NoTime)
  /\ UNCHANGED <<settings, stamping, calls, fp, lock, swapped>>

\* Mutant of LogFile: Log.fp is not tested.
LogFileUntested(t) ==
  /\ At(t, "file")
  /\ \/ quiet /\ Go(t, "crashed") /\ call' = call
     \/ ~quiet /\ Go(t, "fhead") /\ call' = [call EXCEPT ![t].stamp = <<tm, tm>>]
  /\ UNCHANGED <<settings, stamping, on, started, fp, lock, out, swapped>>

\* The test of Log.fp, and strftime with the lt of the screen, which is null
\* when Log.quiet is set.
LogFile(t) ==
  /\ At(t, "file")
  /\ \/ fp = NULL /\ Go(t, "unlock") /\ call' = call
     \/ fp # NULL /\ quiet /\ Go(t, "crashed") /\ call' = call
     \/ fp # NULL /\ ~quiet /\ Go(t, "fhead")
        /\ call' = [call EXCEPT ![t].stamp = <<tm, tm>>]
  /\ UNCHANGED <<settings, stamping, on, started, fp, lock, out, swapped>>

\* A closed stream loses the piece or ends the process, a null one ends it.
FilePiece(t, step, then, part, stamp) ==
  /\ At(t, step)
  /\ \/ fp = "file" /\ Go(t, then) /\ Put(t, "file", part, stamp) /\ Used(t)
     \/ fp = "closed" /\ Go(t, then) /\ out' = out /\ Used(t)
     \/ fp # "file" /\ Go(t, "crashed") /\ out' = out /\ swapped' = swapped

\* The pieces of the line in the file.  fflush(NULL) is harmless.
LogWrite(t) ==
  /\ \/ FilePiece(t, "fhead", "fbody", "head", call[t].stamp)
     \/ FilePiece(t, "fbody", "fend", "body", NoTime)
     \/ FilePiece(t, "fend", "flush", "end", NoTime)
     \/ At(t, "flush") /\ Go(t, "unlock") /\ out' = out /\ Used(t)
     \/ At(t, "flush") /\ fp = "closed" /\ Go(t, "crashed") /\ out' = out
        /\ swapped' = swapped
  /\ UNCHANGED <<settings, stamping, calls, fp, lock>>

LogStep(t) ==
  /\ lib = "log"
  /\ \/ Gate(t) \/ Enter(t, IF quiet THEN "file" ELSE "convert")
     \/ Convert(t) \/ FormatDate(t) \/ FormatTime(t, "head")
     \/ LogScreen(t) \/ LogFile(t) \/ LogWrite(t) \/ Leave(t) \/ FileClose(t)

LogNext ==
  \/ \E level \in 1 .. Cardinality(Levels) + 1, q \in BOOLEAN : log_init(level, q)
  \/ log_deinit
  \/ \E t \in Threads :
       file_log_init(t) \/ file_log_deinit(t) \/ LogCall(t) \/ LogStep(t)
=============================================================================
