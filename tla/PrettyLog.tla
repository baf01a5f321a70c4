------------------------------ MODULE PrettyLog ------------------------------
(***************************************************************************)
(* log/pretty_log.c with the macros of pretty_log.h: the time is stamped   *)
(* by the macro, before the level is tested and the mutex taken; the file  *)
(* is opened and closed for every line.  fp is "file" when log_file_path   *)
(* is not empty.                                                           *)
(***************************************************************************)
EXTENDS LogCalls

\* Called, if at all, before anything is logged.  'h' switches a level off.
pretty_log_init(levels, path) ==
  /\ lib = "pretty_log" /\ started = 0 /\ inits < MaxInits[lib]
  /\ inits' = inits + 1
  /\ enabled' = levels /\ fp' = path
  /\ UNCHANGED <<lib, ready, quiet, stamping, calls, lock, pc, out, swapped>>

\* _log, and _rlog and _log_nt, which do not ask for the time; there is no
\* macro with neither the time nor the mutex.
PrettyCall(a) ==
  /\ lib = "pretty_log"
  /\ \E l \in Levels :
       \/ Begin(a, "line", l, "convert")
       \/ Begin(a, "raw", l, "gate")
       \/ a # Handler /\ Begin(a, "nt", l, "gate")
  /\ UNCHANGED <<settings, stamping, fp, lock, out, swapped>>

\* Mutant of ScreenStamp: lt is handed over and formatted when it is printed.
ScreenStampLate(a) == <<tm, tm>>

\* time is never null: where it is "", time + 11 lies behind it.
ScreenStamp(a) == IF call[a].kind = "nt" THEN Garbage ELSE call[a].stamp

\* Mutant of PrettyScreen: the mutex is given back before the file is written.
PrettyScreenUnlocks(a) ==
  /\ \/ At(a, "head") /\ Go(a, "body") /\ Put(a, "screen", "head", ScreenStamp(a))
     \/ At(a, "body") /\ call[a].kind = "raw"
        /\ Go(a, "file") /\ Put(a, "screen", "raw", NoTime)
     \/ At(a, "body") /\ call[a].kind # "raw"
        /\ Go(a, "end") /\ Put(a, "screen", "body", NoTime)
     \/ At(a, "end") /\ Go(a, "file") /\ Put(a, "screen", "end", NoTime)
  /\ lock' = IF pc[a] = "end" /\ lock = a THEN NULL ELSE lock
  /\ UNCHANGED <<settings, stamping, calls, fp, swapped>>

PrettyScreen(a) ==
  /\ \/ At(a, "head") /\ Go(a, "body") /\ Put(a, "screen", "head", ScreenStamp(a))
     \/ At(a, "body") /\ call[a].kind = "raw"
        /\ Go(a, "file") /\ Put(a, "screen", "raw", NoTime)
     \/ At(a, "body") /\ call[a].kind # "raw"
        /\ Go(a, "end") /\ Put(a, "screen", "body", NoTime)
     \/ At(a, "end") /\ Go(a, "file") /\ Put(a, "screen", "end", NoTime)
  /\ UNCHANGED <<settings, stamping, calls, fp, lock, swapped>>

\* The line stays in the buffer of the stream until fclose appends it.  If
\* the file does not open, the line is lost and the user told.
PrettyFile(a) ==
  /\ At(a, "file") /\ Go(a, "unlock")
  /\ \/ out' = out
     \/ fp = "file" /\ Put(a, "file", IF call[a].kind = "raw" THEN "raw" ELSE "line",
                             call[a].stamp)
  /\ UNCHANGED <<settings, stamping, calls, fp, lock, swapped>>

PrettyStep(a) ==
  /\ lib = "pretty_log"
  /\ \/ Convert(a) \/ FormatDate(a) \/ FormatTime(a, "gate")
     \/ Gate(a) \/ Enter(a, IF call[a].kind = "raw" THEN "body" ELSE "head")
     \/ PrettyScreen(a) \/ PrettyFile(a) \/ Leave(a)

PrettyNext ==
  \/ \E levels \in SUBSET Levels, path \in {NULL, "file"} :
       pretty_log_init(levels, path)
  \/ \E a \in Activities : PrettyCall(a) \/ PrettyStep(a)
=============================================================================
