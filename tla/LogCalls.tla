------------------------------ MODULE LogCalls ------------------------------
(***************************************************************************)
(* What the three loggers of the repository have in common: log/log.c,     *)
(* log/pretty_log.c and ws1850/slog.c.  A call stamps the time through the *)
(* struct tm that localtime keeps for the whole process, takes a mutex,    *)
(* and prints its line in pieces.  A signal handler may interrupt a thread *)
(* at any point and log with the macros that take no mutex; the thread     *)
(* goes on when the handler has returned.                                  *)
(*                                                                         *)
(* A program links one of the three; lib says which.  The text of a line   *)
(* is the number of the call.  The locks inside the C library, which a     *)
(* handler may also meet, are not modelled.                                *)
(***************************************************************************)
EXTENDS Integers, Sequences, FiniteSets

CONSTANTS
  Threads,
  Handler,    (* a handler in the middle of its work                        *)
  Levels,     (* of calls: 1 .. n                                           *)
  NULL,
  MaxCalls,   (* bound on the calls that are made                           *)
  MaxInits    (* bound on the calls of the initialisers and deinitialisers, *)
              (* for each library                                           *)

Libraries == {"log", "pretty_log", "slog"}

ASSUME LogAssumption ==
  /\ Handler \notin Threads /\ NULL \notin Threads \cup {Handler}
  /\ NULL \notin {"file", "screen", "closed"}
  /\ IsFiniteSet(Levels) /\ Levels # {} /\ Levels = 1 .. Cardinality(Levels)
  /\ MaxCalls \in Nat /\ MaxInits \in [Libraries -> Nat]

Activities == Threads \cup {Handler}

VARIABLES
  lib,       (* "log", "pretty_log" or "slog"                               *)
  ready,     (* log.c: between log_init and log_deinit                      *)
  enabled,   (* the levels that are printed                                 *)
  quiet,     (* log.c: nothing on the screen                                *)
  fp,        (* the stream beside the screen: NULL, "file", "screen" (slog  *)
             (* uses stdout instead) or "closed"                            *)
  lock,      (* the holder of the mutex, or NULL                            *)
  pc,        (* pc[a]: the step activity a takes next                       *)
  call,      (* call[a]: its call in progress                               *)
  on,        (* the thread the handler runs on, or NULL                     *)
  clock,     (* how often the time has been read                            *)
  tm,        (* localtime's struct tm: the reading converted last           *)
  out,       (* out["screen"], out["file"]: the pieces printed              *)
  started,   (* the number of calls made so far                             *)
  inits,     (* the number of initialisations and deinitialisations         *)
  crossed,   (* history: calls during whose stamping another converted      *)
  swapped    (* history: those for whom another has changed fp, except in   *)
             (* slog's log_init, since they tested it or last printed to it *)

settings == <<lib, ready, enabled, quiet, inits>>
stamping == <<clock, tm, crossed>>
calls == <<call, on, started>>
vars == <<settings, stamping, calls, fp, lock, pc, out, swapped>>

NoTime == <<0, 0>>        (* no stamp in the line                            *)
Garbage == <<0, 1>>       (* bytes from behind the stamp, for one that is "" *)

NoCall == [id |-> 0, level |-> 0, kind |-> "line", at |-> 0, stamp |-> NoTime]

Init ==
  /\ lib \in Libraries
  /\ ready = FALSE /\ quiet = FALSE /\ inits = 0
  /\ enabled = IF lib = "log" THEN Levels ELSE {1}
  /\ fp = NULL /\ lock = NULL /\ swapped = {}
  /\ pc = [a \in Activities |-> "idle"] /\ call = [a \in Activities |-> NoCall]
  /\ on = NULL /\ started = 0
  /\ clock = 0 /\ tm = 0 /\ crossed = {}
  /\ out = [s \in {"screen", "file"} |-> <<>>]

-----------------------------------------------------------------------------
Crashed == \E a \in Activities : pc[a] = "crashed"
Quiescent == \A a \in Activities : pc[a] = "idle"

At(a, step) == pc[a] = step /\ a # on /\ ~Crashed
Go(a, step) == pc' = [pc EXCEPT ![a] = step]

\* A call of the given kind; a handler interrupts some thread for it.
Begin(a, kind, level, step) ==
  /\ At(a, "idle") /\ started < MaxCalls
  /\ started' = started + 1
  /\ call' = [call EXCEPT ![a] = [NoCall EXCEPT !.id = started + 1,
                                                !.level = level, !.kind = kind]]
  /\ IF a = Handler THEN \E t \in Threads : on' = t ELSE on' = on
  /\ Go(a, step)

Return(a) ==
  /\ Go(a, "idle")
  /\ call' = [call EXCEPT ![a] = NoCall]
  /\ on' = IF a = Handler THEN NULL ELSE on
  /\ started' = started

-----------------------------------------------------------------------------
(* get_current_time, and the same lines within log.c.                      *)

\* gettimeofday and localtime.
Convert(a) ==
  /\ At(a, "convert") /\ Go(a, "date")
  /\ clock' = clock + 1 /\ tm' = clock + 1
  /\ call' = [call EXCEPT ![a].at = clock + 1]
  /\ crossed' = crossed \cup {call[b].id : b \in {b \in Activities \ {a} :
                                                    pc[b] \in {"date", "time"}}}
  /\ UNCHANGED <<settings, on, started, fp, lock, out, swapped>>

\* strftime reads the fields one after the other: the date, then the time.
FormatDate(a) ==
  /\ At(a, "date") /\ Go(a, "time")
  /\ call' = [call EXCEPT ![a].stamp = <<tm, 0>>]
  /\ UNCHANGED <<settings, stamping, on, started, fp, lock, out, swapped>>

FormatTime(a, then) ==
  /\ At(a, "time") /\ Go(a, then)
  /\ call' = [call EXCEPT ![a].stamp = <<@[1], tm>>]
  /\ UNCHANGED <<settings, stamping, on, started, fp, lock, out, swapped>>

-----------------------------------------------------------------------------
\* The test of the level; a call that is not printed returns.
Gate(a) ==
  /\ At(a, "gate")
  /\ \/ call[a].level \in enabled /\ Go(a, "lock") /\ UNCHANGED calls
     \/ call[a].level \notin enabled /\ Return(a)
  /\ UNCHANGED <<settings, stamping, fp, lock, out, swapped>>

\* Mutant of Acquire: the handler uses the macros that lock.
AcquireAlways(a) == lock = NULL /\ lock' = a

\* Only the threads give lock as 1.
Acquire(a) ==
  IF a = Handler THEN lock' = lock ELSE lock = NULL /\ lock' = a

Enter(a, then) ==
  /\ At(a, "lock") /\ Acquire(a) /\ Go(a, then)
  /\ UNCHANGED <<settings, stamping, calls, fp, out, swapped>>

Leave(a) ==
  /\ At(a, "unlock") /\ Return(a)
  /\ lock' = IF a = Handler THEN lock ELSE NULL
  /\ UNCHANGED <<settings, stamping, fp, out, swapped>>

\* What is printed, and whether the stream is another than for the piece before.
Put(a, stream, part, stamp) ==
  out' = [out EXCEPT ![stream] =
            Append(@, [id |-> call[a].id, by |-> a, part |-> part, at |-> call[a].at,
                       stamp |-> stamp, torn |-> a \in swapped])]

\* Those between the test of the stream, or a piece printed to it, and the next.
Using == IF lib = "slog" THEN {"body", "end"}
                         ELSE {"fhead", "fbody", "fend", "flush", "fclose"}

Swap(a) == swapped' = (swapped \cup {b \in Activities : pc[b] \in Using}) \ {a}

Used(a) == swapped' = swapped \ {a}
=============================================================================
