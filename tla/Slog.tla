-------------------------------- MODULE Slog --------------------------------
(***************************************************************************)
(* ws1850/slog.c with the macros of slog.h: one stream fp, a file that     *)
(* log_init opens or stdout in its place, "screen" here.  The macros for   *)
(* handlers stamp no time.  log_init replaces fp under the mutex, while    *)
(* the program logs or not.                                                *)
(***************************************************************************)
EXTENDS LogCalls

\* ctrl replaces the switches of the first n levels, and leaves the others.
Ctrl(n, s) == {l \in Levels : IF l <= n THEN l \in s ELSE l \in enabled}

InitCall(t) ==
  /\ lib = "slog" /\ At(t, "idle") /\ inits < MaxInits[lib]
  /\ inits' = inits + 1
  /\ \E n \in Levels \cup {0}, s \in SUBSET Levels : enabled' = Ctrl(n, s)
  /\ pc' \in {pc, [pc EXCEPT ![t] = "init"]}
  /\ UNCHANGED <<lib, ready, quiet, stamping, calls, fp, lock, out, swapped>>

\* Mutant of InitLock: log_init does not take the mutex.
InitLockNot(t) ==
  /\ At(t, "init") /\ Go(t, "open")
  /\ UNCHANGED <<settings, stamping, calls, fp, lock, out, swapped>>

InitLock(t) ==
  /\ At(t, "init") /\ Go(t, "open") /\ lock = NULL /\ lock' = t
  /\ UNCHANGED <<settings, stamping, calls, fp, out, swapped>>

\* The stream that was open is not closed.
InitOpen(t) ==
  /\ At(t, "open")
  /\ \/ fp' = "file" /\ Go(t, "opened")
     \/ fp' = NULL /\ Go(t, "failed")
  /\ UNCHANGED <<settings, stamping, calls, lock, out, swapped>>

InitFailed(t) ==
  /\ At(t, "failed") /\ Go(t, "opened") /\ fp' = "screen"
  /\ UNCHANGED <<settings, stamping, calls, lock, out, swapped>>

InitUnlock(t) ==
  /\ At(t, "opened") /\ Go(t, "idle") /\ lock' = NULL
  /\ UNCHANGED <<settings, stamping, calls, fp, out, swapped>>

SlogCall(a) ==
  /\ lib = "slog"
  /\ \E l \in Levels :
       \/ Begin(a, "line", l, IF a = Handler THEN "gate" ELSE "convert")
       \/ Begin(a, "raw", l, "gate")
  /\ UNCHANGED <<settings, stamping, fp, lock, out, swapped>>

Printing(a) == IF call[a].kind = "raw" THEN "body" ELSE "head"

Check(a) ==
  /\ At(a, "check") /\ Go(a, IF fp = NULL THEN "default" ELSE Printing(a))
  /\ UNCHANGED <<settings, stamping, calls, fp, lock, out, swapped>>

\* By now fp may have been set by others.
Default(a) ==
  /\ At(a, "default") /\ Go(a, Printing(a)) /\ fp' = "screen"
  /\ IF fp = "file" THEN Swap(a) ELSE swapped' = swapped
  /\ UNCHANGED <<settings, stamping, calls, lock, out>>

\* Each piece goes to what fp is at that time; a null one ends the process.
\* What raw_log leaves in the buffer stands in front of what is printed next.
SlogPrint(a) ==
  /\ \/ /\ At(a, "head") /\ fp # NULL /\ Go(a, "body")
        /\ Put(a, fp, "head", call[a].stamp)
     \/ /\ At(a, "body") /\ fp # NULL /\ call[a].kind = "raw" /\ Go(a, "unlock")
        /\ Put(a, fp, "raw", NoTime)
     \/ /\ At(a, "body") /\ fp # NULL /\ call[a].kind = "line" /\ Go(a, "end")
        /\ Put(a, fp, "body", NoTime)
     \/ /\ At(a, "end") /\ fp # NULL /\ Go(a, "unlock")
        /\ Put(a, fp, "end", NoTime)
     \/ /\ \E step \in {"head", "body", "end"} : At(a, step)
        /\ fp = NULL /\ Go(a, "crashed") /\ out' = out
  /\ Used(a)
  /\ UNCHANGED <<settings, stamping, calls, fp, lock>>

SlogStep(a) ==
  /\ lib = "slog"
  /\ \/ Convert(a) \/ FormatDate(a) \/ FormatTime(a, "gate")
     \/ Gate(a) \/ Enter(a, "check") \/ Check(a) \/ Default(a)
     \/ SlogPrint(a) \/ Leave(a)

SlogNext ==
  \/ \E t \in Threads :
       InitCall(t) \/ InitLock(t) \/ InitOpen(t) \/ InitFailed(t) \/ InitUnlock(t)
  \/ \E a \in Activities : SlogCall(a) \/ SlogStep(a)
=============================================================================
